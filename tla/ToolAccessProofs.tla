--------------------------- MODULE ToolAccessProofs ---------------------------
(***************************************************************************)
(* What stands between a turn and a tool.                                  *)
(*                                                                         *)
(* First the registry, which says what tools a role has: it implements the *)
(* fetch-once cell, for every number of requests, roles, servers and       *)
(* restarts.  Then the guard, which has a write confirmed: its promises    *)
(* hold for any number of overlapping turns, any messages and tools, and   *)
(* any number of Redis failures.                                           *)
(***************************************************************************)
EXTENDS ToolRegistry, ToolGuard, TLAPS

\* Two callers of one role are ordered: one of them waits for the other.
LocksOrdered ==
    \A c, d \in Callers :
        (c # d /\ phase[c] # "idle" /\ phase[d] # "idle" /\ role[c] = role[d])
            => c \in ahead[d] \/ d \in ahead[c]

FetchersHoldTheLock ==
    \A c \in Fetching : ahead[c] = {} /\ registry[role[c]] = None

\* A caller has a role while it is in the call, and an answer only after it.
CallsWellFormed ==
    \A c \in Callers :
        /\ phase[c] = "idle" => role[c] = None
        /\ phase[c] # "idle" => role[c] \in Roles /\ answer[c] = None

FetchedWereOffered ==
    /\ \A c \in Callers : phase[c] = "fetched" => fetched[c] \in offered
    /\ (app # "down" /\ server # None) => server \in offered

DownIsCold == app = "down" => (Busy = {} /\ offered = {})

IInv ==
    /\ TypeOK /\ LocksOrdered /\ FetchersHoldTheLock /\ CallsWellFormed
    /\ FetchedWereOffered /\ DownIsCold

-----------------------------------------------------------------------------
LEMMA NoneIsNoServer == None \notin Servers /\ None \notin Roles
BY ConfigAssumption DEF ConfigAssumption, Servers

LEMMA InitEstablishes == Init => IInv
<1> SUFFICES ASSUME Init PROVE IInv
    OBVIOUS
<1>1. TypeOK
    BY ConfigAssumption DEF ConfigAssumption, Init, TypeOK, Stage, Phase
<1>2. LocksOrdered /\ FetchersHoldTheLock /\ CallsWellFormed
    BY DEF Init, LocksOrdered, FetchersHoldTheLock, CallsWellFormed, Fetching
<1>3. FetchedWereOffered /\ DownIsCold
    BY DEF Init, FetchedWereOffered, DownIsCold, Busy
<1> QED BY <1>1, <1>2, <1>3 DEF IInv

\* The warm-up's next role is a role.
LEMMA WarmRoles ==
    ASSUME TypeOK, warmed < Len(ALL_ROLES)
    PROVE  ALL_ROLES[warmed + 1] \in Roles /\ warmed + 1 \in 0 .. Len(ALL_ROLES)
BY ConfigAssumption DEF ConfigAssumption, TypeOK

-----------------------------------------------------------------------------
(* The three ways a call changes: it queues, it moves on, it leaves.       *)

LEMMA QueueKeeps ==
    ASSUME IInv, NEW c \in Callers, NEW r \in Roles, phase[c] = "idle",
           Queue(c, r), UNCHANGED <<registry, offered, server, servers, starts>>,
           app \in Stage, app' = app, app # "down",
           warmed' \in 0 .. Len(ALL_ROLES)
    PROVE  IInv'
<1>1. TypeOK'
    BY DEF IInv, TypeOK, Queue, Phase, Busy
<1>2. LocksOrdered'
    BY DEF IInv, TypeOK, Queue, LocksOrdered, Busy
<1>3. FetchersHoldTheLock'
    BY DEF IInv, TypeOK, Queue, FetchersHoldTheLock, Fetching
<1>4. CallsWellFormed'
    BY DEF IInv, TypeOK, Queue, CallsWellFormed
<1>5. FetchedWereOffered' /\ DownIsCold'
    BY DEF IInv, TypeOK, Queue, FetchedWereOffered, DownIsCold
<1> QED BY <1>1, <1>2, <1>3, <1>4, <1>5 DEF IInv

\* What is left to show of a call that leaves: its answer is a list and the
\* registry has changed, if at all, for a role that nobody else is fetching.
LEMMA LeaveKeeps ==
    ASSUME IInv, NEW c \in Callers, NEW list \in Servers \cup {None},
           phase[c] # "idle", Leave(c, list),
           UNCHANGED <<app, warmed, offered, server, servers, starts>>,
           registry' \in [Roles -> Servers \cup {None}],
           \A d \in Fetching \ {c} : registry'[role[d]] = registry[role[d]]
    PROVE  IInv'
<1>1. TypeOK'
    BY DEF IInv, TypeOK, Leave, Phase
<1>2. LocksOrdered'
    BY DEF IInv, TypeOK, Leave, LocksOrdered
<1>3. FetchersHoldTheLock'
    BY DEF IInv, TypeOK, Leave, FetchersHoldTheLock, Fetching
<1>4. CallsWellFormed'
    BY DEF IInv, TypeOK, Leave, CallsWellFormed
<1>5. FetchedWereOffered' /\ DownIsCold'
    BY DEF IInv, TypeOK, Leave, FetchedWereOffered, DownIsCold, Busy
<1> QED BY <1>1, <1>2, <1>3, <1>4, <1>5 DEF IInv

\* Only one caller fetches for a role.
LEMMA OneFetcher ==
    ASSUME IInv, NEW c \in Callers, NEW d \in Callers, c # d,
           phase[c] # "idle", phase[d] # "idle", ahead[c] = {}, ahead[d] = {}
    PROVE  role[c] # role[d]
BY DEF IInv, LocksOrdered

LEMMA CallKeeps ==
    ASSUME IInv, NEW c \in Callers, Call(c)
    PROVE  IInv'
<1>1. CASE RecheckHit(c)
    <2>1. role[c] \in Roles /\ registry[role[c]] \in Servers \cup {None}
        BY <1>1 DEF RecheckHit, IInv, CallsWellFormed, TypeOK
    <2> QED BY <1>1, <2>1, LeaveKeeps DEF RecheckHit, serverVars, IInv, TypeOK
<1>2. CASE StartFetch(c)
    <2>1. TypeOK'
        BY <1>2 DEF IInv, TypeOK, StartFetch, Phase, serverVars
    <2>2. FetchersHoldTheLock'
        BY <1>2 DEF IInv, TypeOK, StartFetch, FetchersHoldTheLock, Fetching,
                    Holds, StillMissing
    <2>3. LocksOrdered' /\ CallsWellFormed'
        BY <1>2 DEF IInv, TypeOK, StartFetch, LocksOrdered, CallsWellFormed
    <2>4. FetchedWereOffered' /\ DownIsCold'
        BY <1>2 DEF IInv, TypeOK, StartFetch, FetchedWereOffered, DownIsCold,
                    Busy, serverVars
    <2> QED BY <2>1, <2>2, <2>3, <2>4 DEF IInv
<1>3. CASE ServerAnswers(c)
    <2>1. TypeOK'
        BY <1>3 DEF IInv, TypeOK, ServerAnswers, Phase, serverVars
    <2>2. FetchersHoldTheLock'
        BY <1>3 DEF IInv, TypeOK, ServerAnswers, FetchersHoldTheLock, Fetching
    <2>3. LocksOrdered' /\ CallsWellFormed'
        BY <1>3 DEF IInv, TypeOK, ServerAnswers, LocksOrdered, CallsWellFormed
    <2>4. app # "down"
        BY <1>3 DEF IInv, DownIsCold, Busy, ServerAnswers
    <2>5. FetchedWereOffered' /\ DownIsCold'
        BY <1>3, <2>4 DEF IInv, TypeOK, ServerAnswers, FetchedWereOffered,
                    DownIsCold, serverVars
    <2> QED BY <2>1, <2>2, <2>3, <2>5 DEF IInv
<1>4. CASE Store(c)
    <2>1. c \in Fetching /\ role[c] \in Roles /\ fetched[c] \in Servers \cup {None}
        BY <1>4 DEF Store, Fetching, IInv, CallsWellFormed, TypeOK
    <2>2. \A d \in Fetching \ {c} : role[d] # role[c]
        BY <2>1, OneFetcher DEF IInv, FetchersHoldTheLock, Fetching
    <2>3. /\ registry' \in [Roles -> Servers \cup {None}]
          /\ \A d \in Fetching \ {c} : registry'[role[d]] = registry[role[d]]
        BY <1>4, <2>1, <2>2 DEF Store, IInv, TypeOK, CallsWellFormed, Fetching
    <2> QED BY <1>4, <2>1, <2>3, LeaveKeeps DEF Store, serverVars
<1>5. CASE FetchFails(c)
    BY <1>5, LeaveKeeps DEF FetchFails, serverVars, IInv, TypeOK
<1> QED BY <1>1, <1>2, <1>3, <1>4, <1>5 DEF Call

LEMMA ForgetKeeps ==
    ASSUME IInv, Forget
    PROVE  IInv'
<1>1. TypeOK'
    BY ConfigAssumption DEF ConfigAssumption, IInv, TypeOK, Forget, Stage, Phase,
                             serverVars
<1>2. LocksOrdered' /\ FetchersHoldTheLock' /\ CallsWellFormed'
    BY DEF Forget, LocksOrdered, FetchersHoldTheLock, CallsWellFormed, Fetching
<1>3. FetchedWereOffered' /\ DownIsCold'
    BY DEF Forget, FetchedWereOffered, DownIsCold, Busy
<1> QED BY <1>1, <1>2, <1>3 DEF IInv

\* Steps of the process or the server that touch no call.
LEMMA FrameKeeps ==
    ASSUME IInv, UNCHANGED <<warmed, registry, callVars>>,
           app' \in Stage, starts' \in 0 .. MaxStarts,
           server' \in Servers \cup {None}, servers' \in 0 .. MaxServers,
           offered' \subseteq Servers, offered \subseteq offered',
           (app' # "down" /\ server' # None) => server' \in offered',
           app' = "down" => (app = "down" /\ offered' = {})
    PROVE  IInv'
<1>1. TypeOK'
    BY DEF IInv, TypeOK, callVars
<1>2. LocksOrdered' /\ FetchersHoldTheLock' /\ CallsWellFormed'
    BY DEF IInv, LocksOrdered, FetchersHoldTheLock, CallsWellFormed, Fetching,
           callVars
<1>3. FetchedWereOffered' /\ DownIsCold'
    BY DEF IInv, FetchedWereOffered, DownIsCold, Busy, callVars
<1> QED BY <1>1, <1>2, <1>3 DEF IInv

LEMMA StartUpKeeps ==
    ASSUME IInv, StartUp
    PROVE  IInv'
<1> USE DEF IInv, TypeOK, Stage, serverVars
<1>1. CASE DatabaseUp \/ WarmupEnds \/ CheckpointerUp
    <2>1. app # "down"
        BY <1>1 DEF DatabaseUp, WarmupEnds, CheckpointerUp
    <2> QED BY <1>1, <2>1, FrameKeeps
               DEF DatabaseUp, WarmupEnds, CheckpointerUp, FetchedWereOffered
<1>2. CASE DatabaseDown \/ CheckpointerDown
    BY <1>2, ForgetKeeps DEF DatabaseDown, CheckpointerDown
<1>3. CASE WarmNext
    <2>1. ALL_ROLES[warmed + 1] \in Roles /\ warmed' \in 0 .. Len(ALL_ROLES)
        BY <1>3, WarmRoles DEF WarmNext
    <2> QED BY <1>3, <2>1, QueueKeeps DEF WarmNext, Callers
<1> QED BY <1>1, <1>2, <1>3 DEF StartUp

LEMMA EnvironmentKeeps ==
    ASSUME IInv, Environment
    PROVE  IInv'
<1> USE DEF IInv, TypeOK, Stage, serverVars
<1>1. CASE ProcessStarts
    <2>1. offered = {} /\ offered' = Servers \cap {server}
        BY <1>1 DEF ProcessStarts, DownIsCold
    <2>2. starts' \in 0 .. MaxStarts
        BY <1>1, ConfigAssumption DEF ConfigAssumption, ProcessStarts
    <2> QED BY <1>1, <2>1, <2>2, FrameKeeps DEF ProcessStarts
<1>2. CASE Drain
    BY <1>2, FrameKeeps DEF Drain, FetchedWereOffered
<1>3. CASE Crash
    BY <1>3, ForgetKeeps DEF Crash
<1>4. CASE ServerStarts
    <2>1. servers' \in 0 .. MaxServers /\ servers' \in Servers
        BY <1>4, ConfigAssumption DEF ConfigAssumption, ServerStarts, Servers
    <2>2. offered' \subseteq Servers /\ offered \subseteq offered'
        BY <1>4, <2>1 DEF ServerStarts
    <2>3. app = "down" => offered' = {}
        BY <1>4 DEF ServerStarts, DownIsCold
    <2> QED BY <1>4, <2>1, <2>2, <2>3, FrameKeeps DEF ServerStarts
<1>5. CASE ServerStops
    BY <1>5, FrameKeeps DEF ServerStops, DownIsCold
<1> QED BY <1>1, <1>2, <1>3, <1>4, <1>5 DEF Environment

LEMMA NextKeeps == IInv /\ [Next]_vars => IInv'
<1> SUFFICES ASSUME IInv, [Next]_vars PROVE IInv'
    OBVIOUS
<1>1. CASE \E c \in Callers : Call(c)
    BY <1>1, CallKeeps
<1>2. ASSUME NEW c \in Requests, Cancelled(c)
      PROVE  IInv'
    BY <1>2, LeaveKeeps DEF Cancelled, serverVars, IInv, TypeOK, Callers
<1>3. ASSUME NEW c \in Requests, NEW r \in Roles, CacheHit(c, r)
      PROVE  IInv'
    <2>1. TypeOK'
        BY <1>3 DEF IInv, TypeOK, CacheHit, serverVars
    <2>2. LocksOrdered' /\ FetchersHoldTheLock'
        BY <1>3 DEF IInv, LocksOrdered, FetchersHoldTheLock, Fetching, CacheHit
    <2>3. CallsWellFormed'
        BY <1>3 DEF IInv, TypeOK, CallsWellFormed, CacheHit
    <2>4. FetchedWereOffered' /\ DownIsCold'
        BY <1>3 DEF IInv, FetchedWereOffered, DownIsCold, Busy, CacheHit, serverVars
    <2> QED BY <2>1, <2>2, <2>3, <2>4 DEF IInv
<1>4. ASSUME NEW c \in Requests, NEW r \in Roles, CacheMiss(c, r)
      PROVE  IInv'
    BY <1>4, QueueKeeps DEF CacheMiss, serverVars, IInv, TypeOK, Callers
<1>5. CASE StartUp
    BY <1>5, StartUpKeeps
<1>6. CASE Shutdown
    BY <1>6, ForgetKeeps DEF Shutdown
<1>7. CASE Environment
    BY <1>7, EnvironmentKeeps
<1>8. CASE UNCHANGED vars
    BY <1>8, FrameKeeps DEF vars, IInv, TypeOK, serverVars, FetchedWereOffered,
                            DownIsCold
<1> QED BY <1>1, <1>2, <1>3, <1>4, <1>5, <1>6, <1>7, <1>8 DEF Next

\* The lock discipline behind the registry holds in every reachable state:
\* callers of one role are queued, and only the first fetches.
THEOREM RegistryInvariant == Spec => []IInv
BY InitEstablishes, NextKeeps, PTL DEF Spec

\* Every variable of the registry keeps its type.
THEOREM TypeCorrect == Spec => []TypeOK
<1>1. IInv => TypeOK
    BY DEF IInv
<1> QED BY <1>1, RegistryInvariant, PTL

-----------------------------------------------------------------------------
(* The refinement: each step is a step of the cell, or leaves it alone.    *)

LEMMA InitImplements == Init => Once!Init
BY DEF Init, Once!Init, Fetching

\* Leaving a call without a list, and without touching the registry.
LEMMA LeavingIsGivingUp ==
    ASSUME IInv, NEW c \in Callers, phase[c] # "idle", Leave(c, None),
           UNCHANGED <<registry, offered>>
    PROVE  Once!GiveUp(c)
<1>1. answer' = answer
    BY DEF IInv, TypeOK, CallsWellFormed, Leave
<1>2. Fetching' = Fetching \ {c}
    BY DEF IInv, TypeOK, Leave, Fetching
<1> QED BY <1>1, <1>2 DEF Once!GiveUp, Leave

LEMMA QueueingIsAsking ==
    ASSUME IInv, NEW c \in Callers, NEW r \in Roles, phase[c] = "idle",
           Queue(c, r), UNCHANGED <<registry, offered>>
    PROVE  Once!Ask(c, r)
<1>1. Fetching' = Fetching
    BY DEF IInv, TypeOK, Queue, Fetching
<1>2. role[c] = None
    BY DEF IInv, CallsWellFormed
<1> QED BY <1>1, <1>2 DEF Once!Ask, Queue

LEMMA CallImplements ==
    ASSUME IInv, NEW c \in Callers, Call(c)
    PROVE  [Once!Next]_(Once!abstractVars)
<1>1. CASE RecheckHit(c)
    <2>1. role[c] \in Roles /\ c \notin Fetching
        BY <1>1 DEF RecheckHit, IInv, CallsWellFormed, Fetching
    <2>2. Fetching' = Fetching
        BY <1>1 DEF RecheckHit, IInv, TypeOK, Leave, Fetching
    <2>3. Once!Answer(c, role[c])
        BY <1>1, <2>1, <2>2 DEF Once!Answer, RecheckHit, Leave
    <2> QED BY <2>1, <2>3 DEF Once!Next
<1>2. CASE StartFetch(c)
    <2>1. Fetching' = Fetching \cup {c}
        BY <1>2 DEF StartFetch, IInv, TypeOK, Fetching
    <2>2. \A d \in Fetching : role[d] # role[c]
        BY <1>2, OneFetcher DEF StartFetch, Holds, IInv, FetchersHoldTheLock, Fetching
    <2>3. role[c] # None
        BY <1>2, NoneIsNoServer DEF StartFetch, IInv, CallsWellFormed
    <2>4. Once!Fetch(c)
        BY <1>2, <2>1, <2>2, <2>3 DEF Once!Fetch, StartFetch, StillMissing
    <2> QED BY <2>4 DEF Once!Next
<1>3. CASE ServerAnswers(c)
    <2>1. Fetching' = Fetching
        BY <1>3 DEF ServerAnswers, IInv, TypeOK, Fetching
    <2> QED BY <1>3, <2>1 DEF ServerAnswers, Once!abstractVars
<1>4. CASE Store(c)
    <2>1. c \in Fetching /\ role[c] \in Roles /\ registry[role[c]] = None
        BY <1>4 DEF Store, Fetching, IInv, CallsWellFormed, FetchersHoldTheLock
    <2>2. fetched[c] \in offered /\ fetched[c] \in Servers
        BY <1>4 DEF Store, IInv, TypeOK, FetchedWereOffered
    <2>3. Fetching' = Fetching \ {c}
        BY <1>4 DEF Store, IInv, TypeOK, Leave, Fetching
    <2>4. Once!Fill(c, fetched[c])
        BY <1>4, <2>1, <2>2, <2>3 DEF Once!Fill, Store, Leave
    <2> QED BY <2>2, <2>4 DEF Once!Next
<1>5. CASE FetchFails(c)
    <2>1. Once!GiveUp(c)
        BY <1>5, LeavingIsGivingUp DEF FetchFails
    <2> QED BY <2>1 DEF Once!Next
<1> QED BY <1>1, <1>2, <1>3, <1>4, <1>5 DEF Call

LEMMA ForgettingIsReopening ==
    ASSUME Forget
    PROVE  Once!Next
<1>1. Fetching' = {}
    BY DEF Forget, Fetching
<1>2. Once!Reopen
    BY <1>1 DEF Once!Reopen, Forget
<1> QED BY <1>2 DEF Once!Next

\* A step that touches no call and no list may put new lists on offer.
LEMMA OfferingSteps ==
    ASSUME UNCHANGED <<registry, callVars>>, offered \subseteq offered',
           offered' \subseteq Servers
    PROVE  Once!Next
<1>1. Fetching' = Fetching
    BY DEF Fetching, callVars
<1>2. Once!Offer
    BY <1>1 DEF Once!Offer, callVars
<1> QED BY <1>2 DEF Once!Next

LEMMA NextImplements ==
    ASSUME IInv, [Next]_vars
    PROVE  [Once!Next]_(Once!abstractVars)
<1>1. CASE \E c \in Callers : Call(c)
    BY <1>1, CallImplements
<1>2. ASSUME NEW c \in Requests, Cancelled(c)
      PROVE  Once!Next
    <2>1. Once!GiveUp(c)
        BY <1>2, LeavingIsGivingUp DEF Cancelled, Callers
    <2> QED BY <2>1 DEF Once!Next, Callers
<1>3. ASSUME NEW c \in Requests, NEW r \in Roles, CacheHit(c, r)
      PROVE  Once!Next
    <2>1. Fetching' = Fetching /\ c \notin Fetching
        BY <1>3 DEF CacheHit, Fetching
    <2>2. role[c] = None
        BY <1>3 DEF CacheHit, IInv, CallsWellFormed, Callers
    <2>3. role' = [role EXCEPT ![c] = None]
        BY <1>3, <2>2 DEF CacheHit, IInv, TypeOK
    <2>4. Once!Answer(c, r)
        BY <1>3, <2>1, <2>2, <2>3 DEF Once!Answer, CacheHit
    <2> QED BY <2>4 DEF Once!Next, Callers
<1>4. ASSUME NEW c \in Requests, NEW r \in Roles, CacheMiss(c, r)
      PROVE  Once!Next
    <2>1. Once!Ask(c, r)
        BY <1>4, QueueingIsAsking DEF CacheMiss, Callers
    <2> QED BY <2>1 DEF Once!Next, Callers
<1>5. CASE StartUp
    <2>1. CASE DatabaseUp \/ WarmupEnds \/ CheckpointerUp
        BY <2>1, OfferingSteps
           DEF DatabaseUp, WarmupEnds, CheckpointerUp, IInv, TypeOK
    <2>2. CASE DatabaseDown \/ CheckpointerDown
        BY <2>2, ForgettingIsReopening DEF DatabaseDown, CheckpointerDown
    <2>3. CASE WarmNext
        <3>1. ALL_ROLES[warmed + 1] \in Roles
            BY <2>3, WarmRoles DEF WarmNext, IInv
        <3>2. Once!Ask(Warmup, ALL_ROLES[warmed + 1])
            BY <2>3, <3>1, QueueingIsAsking DEF WarmNext, Callers
        <3> QED BY <3>1, <3>2 DEF Once!Next, Callers
    <2> QED BY <1>5, <2>1, <2>2, <2>3 DEF StartUp
<1>6. CASE Shutdown
    BY <1>6, ForgettingIsReopening DEF Shutdown
<1>7. CASE Environment
    <2>1. CASE ProcessStarts
        BY <2>1, OfferingSteps DEF ProcessStarts, IInv, DownIsCold
    <2>2. CASE Drain \/ ServerStops
        BY <2>2, OfferingSteps DEF Drain, ServerStops, IInv, TypeOK
    <2>3. CASE Crash
        BY <2>3, ForgettingIsReopening DEF Crash
    <2>4. CASE ServerStarts
        <3>1. servers' \in Servers
            BY <2>4, ConfigAssumption
               DEF ConfigAssumption, ServerStarts, Servers, IInv, TypeOK
        <3> QED BY <2>4, <3>1, OfferingSteps DEF ServerStarts, IInv, TypeOK
    <2> QED BY <1>7, <2>1, <2>2, <2>3, <2>4 DEF Environment
<1>8. CASE UNCHANGED vars
    BY <1>8 DEF vars, callVars, Once!abstractVars, Fetching
<1> QED BY <1>1, <1>2, <1>3, <1>4, <1>5, <1>6, <1>7, <1>8 DEF Next

\* get_registry_tools under its locks is the fetch-once cell: no role is
\* fetched twice at once or again once cached, and every answer is the cell's.
THEOREM FetchesEachRoleOnce == Spec => FetchesOnce
<1>1. Init => Once!Init
    BY InitImplements
<1>2. IInv /\ [Next]_vars => [Once!Next]_(Once!abstractVars)
    BY NextImplements
<1> QED BY <1>1, <1>2, RegistryInvariant, PTL DEF Spec, FetchesOnce, Once!Spec

-----------------------------------------------------------------------------
(* What the cell promises, and with it the registry.                       *)

\* Two planners never fetch for one role side by side.
OneFetchPerRole ==
    \A c, d \in Fetching : role[c] = role[d] => c = d

\* A list that is cached or answered was on offer while this process lived.
ListsWereOffered ==
    /\ registry \in [Roles -> offered \cup {None}]
    /\ answer \in [Callers -> offered \cup {None}]

FetchInv ==
    /\ role \in [Callers -> Roles \cup {None}]
    /\ Fetching \subseteq Callers /\ \A c \in Fetching : role[c] \in Roles
    /\ OneFetchPerRole /\ ListsWereOffered

LEMMA CellKeeps == FetchInv /\ [Once!Next]_(Once!abstractVars) => FetchInv'
<1> SUFFICES ASSUME FetchInv, [Once!Next]_(Once!abstractVars) PROVE FetchInv'
    OBVIOUS
<1> DEFINE f == Fetching
<1>1. /\ role \in [Callers -> Roles \cup {None}]
      /\ f \subseteq Callers /\ \A c \in f : role[c] \in Roles
      /\ \A c, d \in f : role[c] = role[d] => c = d
      /\ registry \in [Roles -> offered \cup {None}]
      /\ answer \in [Callers -> offered \cup {None}]
    BY DEF FetchInv, OneFetchPerRole, ListsWereOffered
<1>2. SUFFICES /\ role' \in [Callers -> Roles \cup {None}]
               /\ f' \subseteq Callers /\ \A c \in f' : role'[c] \in Roles
               /\ \A c, d \in f' : role'[c] = role'[d] => c = d
               /\ registry' \in [Roles -> offered' \cup {None}]
               /\ answer' \in [Callers -> offered' \cup {None}]
    BY DEF FetchInv, OneFetchPerRole, ListsWereOffered
<1>3. CASE Once!Offer
  <2>1. role' = role /\ f' = f /\ registry' = registry /\ answer' = answer
        /\ offered \subseteq offered'
    BY <1>3 DEF Once!Offer
  <2> HIDE DEF f
  <2> QED BY <1>1, <2>1
<1>4. CASE Once!Reopen
  <2>1. role' = [c \in Callers |-> None] /\ f' = {}
        /\ registry' = [r \in Roles |-> None] /\ answer' = [c \in Callers |-> None]
    BY <1>4 DEF Once!Reopen
  <2> HIDE DEF f
  <2> QED BY <2>1
<1>5. ASSUME NEW c \in Callers, Once!GiveUp(c)
      PROVE  <1>2!1
  <2>1. role' = [role EXCEPT ![c] = None] /\ f' = f \ {c}
        /\ registry' = registry /\ answer' = answer /\ offered' = offered
    BY <1>5 DEF Once!GiveUp
  <2> HIDE DEF f
  <2> QED BY <1>1, <2>1
<1>6. ASSUME NEW c \in Callers, Once!Fetch(c)
      PROVE  <1>2!1
  <2>1. /\ role' = role /\ f' = f \cup {c} /\ role[c] # None
        /\ \A d \in f : role[d] # role[c]
        /\ registry' = registry /\ answer' = answer /\ offered' = offered
    BY <1>6 DEF Once!Fetch
  <2> HIDE DEF f
  <2>2. role[c] \in Roles
    BY <1>1, <2>1
  <2>3. \A d, e \in f' : role'[d] = role'[e] => d = e
    BY <1>1, <2>1
  <2> QED BY <1>1, <2>1, <2>2, <2>3
<1>7. ASSUME NEW c \in Callers, NEW r \in Roles, Once!Ask(c, r)
      PROVE  <1>2!1
  <2>1. role' = [role EXCEPT ![c] = r] /\ f' = f /\ role[c] = None
        /\ answer' = [answer EXCEPT ![c] = None]
        /\ registry' = registry /\ offered' = offered
    BY <1>7 DEF Once!Ask
  <2>2. c \notin f
    BY <1>1, <2>1, NoneIsNoServer
  <2> HIDE DEF f
  <2> QED BY <1>1, <2>1, <2>2
<1>8. ASSUME NEW c \in Callers, NEW r \in Roles, Once!Answer(c, r)
      PROVE  <1>2!1
  <2>1. role' = [role EXCEPT ![c] = None] /\ f' = f /\ c \notin f
        /\ answer' = [answer EXCEPT ![c] = registry[r]]
        /\ registry' = registry /\ offered' = offered
    BY <1>8 DEF Once!Answer
  <2> HIDE DEF f
  <2> QED BY <1>1, <2>1
<1>9. ASSUME NEW c \in Callers, NEW list \in Servers, Once!Fill(c, list)
      PROVE  <1>2!1
  <2>1. role' = [role EXCEPT ![c] = None] /\ f' = f \ {c} /\ c \in f
        /\ answer' = [answer EXCEPT ![c] = list]
        /\ registry' = [registry EXCEPT ![role[c]] = list]
        /\ list \in offered /\ offered' = offered
    BY <1>9 DEF Once!Fill
  <2> HIDE DEF f
  <2> QED BY <1>1, <2>1
<1>10. CASE UNCHANGED Once!abstractVars
  <2>1. role' = role /\ f' = f /\ registry' = registry /\ answer' = answer
        /\ offered' = offered
    BY <1>10 DEF Once!abstractVars
  <2> HIDE DEF f
  <2> QED BY <1>1, <2>1
<1> QED BY <1>3, <1>4, <1>5, <1>6, <1>7, <1>8, <1>9, <1>10 DEF Once!Next

\* Any fetch-once cell fetches once at a time and keeps to the lists on offer.
LEMMA CellInvariant == Once!Spec => []FetchInv
<1>1. Once!Init => FetchInv
    BY DEF Once!Init, FetchInv, OneFetchPerRole, ListsWereOffered
<1> QED BY <1>1, CellKeeps, PTL DEF Once!Spec

\* However many planners find a role's list missing, one of them fetches it.
THEOREM PlannersDoNotRace == Spec => []OneFetchPerRole
<1>1. FetchInv => OneFetchPerRole
    BY DEF FetchInv
<1> QED BY <1>1, CellInvariant, FetchesEachRoleOnce, PTL DEF FetchesOnce

\* No list survives the process that fetched it: what a planner is given is
\* what a server offered since this start.
THEOREM ListsAreOfThisProcess == Spec => []ListsWereOffered
<1>1. FetchInv => ListsWereOffered
    BY DEF FetchInv
<1> QED BY <1>1, CellInvariant, FetchesEachRoleOnce, PTL DEF FetchesOnce

\* A cached list is replaced by no other: a second fetch, a slow one and a
\* redeployed server leave it alone, and only the end of the process drops it.
CachedListsStay ==
    \A r \in Roles : registry[r] # None => registry'[r] = registry[r] \/ app' = "down"

THEOREM RolesKeepTheirTools == Spec => [][CachedListsStay]_vars
<1>1. ASSUME IInv, [Next]_vars PROVE CachedListsStay
  <2>1. ASSUME NEW c \in Callers, Store(c) PROVE CachedListsStay
    <3>1. registry' = [registry EXCEPT ![role[c]] = fetched[c]] /\ registry[role[c]] = None
      BY <1>1, <2>1 DEF Store, IInv, FetchersHoldTheLock, Fetching
    <3> QED BY <1>1, <3>1 DEF CachedListsStay, IInv, TypeOK
  <2> DEFINE Kept == registry' = registry \/ app' = "down"
  <2>2. StartUp => Kept
    BY DEF StartUp, DatabaseUp, DatabaseDown, WarmNext, WarmupEnds, CheckpointerUp,
                CheckpointerDown, Forget
  <2>3. Environment => Kept
    BY DEF Environment, ProcessStarts, Drain, Crash, ServerStarts, ServerStops, Forget
  <2>4. \A c \in Callers : Call(c) => Kept \/ Store(c)
    BY DEF Call, RecheckHit, StartFetch, ServerAnswers, FetchFails
  <2>5. (\E c \in Requests :
             Cancelled(c) \/ \E r \in Roles : CacheHit(c, r) \/ CacheMiss(c, r)) => Kept
    BY DEF Cancelled, CacheHit, CacheMiss
  <2>6. Shutdown \/ UNCHANGED vars => Kept
    BY DEF Shutdown, Forget, vars
  <2>7. Kept => CachedListsStay
    BY DEF CachedListsStay
  <2> QED BY <1>1, <2>1, <2>2, <2>3, <2>4, <2>5, <2>6, <2>7 DEF Next
<1> QED BY <1>1, RegistryInvariant, PTL DEF Spec

-----------------------------------------------------------------------------
(* The guard.                                                              *)

Holding == {t \in Turns : stage[t] \in {"declining", "granting"}}

InGuard == {"limiting", "reading", "asking", "declining", "granting"}

\* Turns that are under way together know of each other.
OverlapsRecorded == \A t, u \in UnderWay : t # u => u \in met[t]

\* A question of an earlier call: of its turn's last call only once that call
\* has returned.
Put(q) ==
    /\ q \in Question /\ q.call <= calls[q.turn]
    /\ stage[q.turn] \in InGuard => q.call < calls[q.turn]

\* Records, what a turn has read and not yet acted on, and what was answered
\* are questions of earlier calls; the first two for their own tool.
RecordsWerePut ==
    \A w \in WRITE_TOOLS : pending[w] # Nothing => Put(pending[w]) /\ pending[w].tool = w

FoundWerePut == \A t \in Holding : Put(found[t]) /\ found[t].tool = tool[t]

AnsweredWerePut == \A a \in answers : Put(a.ask) /\ stage[a.turn] # "unsent"

\* In the guard a turn has a write tool.
WritersHaveTools ==
    \A t \in Turns : stage[t] \in InGuard => tool[t] \in WRITE_TOOLS

\* An answered record is gone, but for turns that read it before and overlap.
AnsweredAreSpent ==
    \A a \in answers : a.ask \in lost \/
        /\ \A w \in WRITE_TOOLS : pending[w] # a.ask
        /\ \A t \in Holding : found[t] = a.ask =>
              a.turn \in met[t] /\ t \in met[a.turn]

GuardInv ==
    /\ GuardTypeOK /\ OverlapsRecorded /\ RecordsWerePut /\ FoundWerePut
    /\ AnsweredWerePut /\ WritersHaveTools /\ AnsweredAreSpent
    /\ OneAnswerPerQuestion

-----------------------------------------------------------------------------
LEMMA QuestionFields ==
    \A q \in Question : q.turn \in Turns /\ q.call \in Nat /\ q.tool \in WRITE_TOOLS
BY DEF Question

LEMMA GuardInitEstablishes == GuardInit => GuardInv
<1> SUFFICES ASSUME GuardInit PROVE GuardInv
    OBVIOUS
<1>1. GuardTypeOK
    BY DEF GuardInit, GuardTypeOK, GuardStage
<1>2. OverlapsRecorded /\ FoundWerePut /\ WritersHaveTools
    BY DEF GuardInit, OverlapsRecorded, UnderWay, FoundWerePut, Holding, InGuard,
           WritersHaveTools
<1>3. RecordsWerePut /\ AnsweredWerePut /\ AnsweredAreSpent /\ OneAnswerPerQuestion
    BY DEF GuardInit, RecordsWerePut, AnsweredWerePut, AnsweredAreSpent,
           OneAnswerPerQuestion
<1> QED BY <1>1, <1>2, <1>3 DEF GuardInv

\* A question stays put while its turn counts no call back and enters the guard
\* only with a further call.
LEMMA PutStays ==
    ASSUME GuardTypeOK, GuardTypeOK',
           \A u \in Turns : calls[u] <= calls'[u],
           \A u \in Turns : stage'[u] \in InGuard =>
               stage[u] \in InGuard \/ calls[u] < calls'[u],
           NEW q, Put(q)
    PROVE  Put(q)'
<1>1. q.turn \in Turns /\ q.call \in Nat /\ q \in Question
    BY QuestionFields DEF Put
<1>2. calls[q.turn] \in Nat /\ calls'[q.turn] \in Nat
    BY <1>1 DEF GuardTypeOK
<1> QED BY <1>1, <1>2 DEF Put

\* A new turn overlaps with those under way and has read nothing yet.
LEMMA SendKeeps ==
    ASSUME GuardInv, NEW t \in Turns, Send(t)
    PROVE  GuardInv'
<1>1. GuardTypeOK'
    BY DEF GuardInv, GuardTypeOK, Send, GuardStage, UnderWay
<1>2. OverlapsRecorded'
    BY DEF GuardInv, GuardTypeOK, Send, OverlapsRecorded, UnderWay
<1>3. /\ \A u \in Turns \ {t} : stage'[u] = stage[u]
      /\ stage[t] = "unsent" /\ stage'[t] = "ready"
    BY DEF GuardInv, GuardTypeOK, Send
<1>4. UNCHANGED <<tool, calls, found, pending, answers, lost>>
    BY DEF Send
<1>5. \A q : Put(q) => Put(q)'
    <2>1. \A u \in Turns : calls[u] <= calls'[u]
        BY <1>4 DEF GuardInv, GuardTypeOK
    <2>2. \A u \in Turns : stage'[u] \in InGuard => stage[u] \in InGuard
        BY <1>3 DEF InGuard
    <2> QED BY <1>1, <2>1, <2>2, PutStays DEF GuardInv
<1>6. Holding' = Holding
    BY <1>3 DEF Holding
<1>7. RecordsWerePut' /\ FoundWerePut'
    BY <1>4, <1>5, <1>6 DEF GuardInv, RecordsWerePut, FoundWerePut
<1>8. WritersHaveTools'
    BY <1>3, <1>4 DEF GuardInv, WritersHaveTools, InGuard
<1>9. t \notin Holding /\ \A a \in answers : a.turn \in Turns \ {t}
    BY <1>3 DEF GuardInv, GuardTypeOK, AnswerType, AnsweredWerePut, Holding
<1>10. AnsweredWerePut'
    BY <1>3, <1>4, <1>5, <1>9 DEF GuardInv, AnsweredWerePut
<1>11. \A u \in Turns \ {t} : met[u] \subseteq met'[u]
    BY DEF GuardInv, GuardTypeOK, Send
<1>12. AnsweredAreSpent'
    <2>1. Holding \subseteq Turns
        BY DEF Holding
    <2> QED BY <1>4, <1>6, <1>9, <1>11, <2>1 DEF GuardInv, AnsweredAreSpent
<1>13. OneAnswerPerQuestion'
    BY <1>4, <1>9, <1>11 DEF GuardInv, OneAnswerPerQuestion
<1> QED BY <1>1, <1>2, <1>7, <1>8, <1>10, <1>12, <1>13 DEF GuardInv

\* Steps of one turn that answer nothing, store nothing and keep no record.
LEMMA MovesKeep ==
    ASSUME GuardInv, NEW t \in Turns, GuardTypeOK',
           stage[t] \in {"ready", "limiting", "reading"},
           NEW p \in {"ready", "limiting", "reading", "over", "asking"},
           stage' = [stage EXCEPT ![t] = p],
           \A u \in Turns \ {t} :
               tool'[u] = tool[u] /\ found'[u] = found[u] /\ calls'[u] = calls[u],
           p \in InGuard => tool'[t] \in WRITE_TOOLS,
           calls[t] <= calls'[t],
           p \in InGuard => stage[t] \in InGuard \/ calls[t] < calls'[t],
           UNCHANGED <<message, met, pending, answers, lost>>
    PROVE  GuardInv'
<1>1. /\ \A u \in Turns \ {t} : stage'[u] = stage[u]
      /\ stage'[t] = p
    BY DEF GuardInv, GuardTypeOK
<1>2. OverlapsRecorded'
    BY <1>1 DEF GuardInv, OverlapsRecorded, UnderWay
<1>3. WritersHaveTools'
    BY <1>1 DEF GuardInv, WritersHaveTools
<1>4. \A q : Put(q) => Put(q)'
    <2>1. \A u \in Turns : calls[u] <= calls'[u]
        BY DEF GuardInv, GuardTypeOK
    <2>2. \A u \in Turns : stage'[u] \in InGuard =>
              stage[u] \in InGuard \/ calls[u] < calls'[u]
        BY <1>1
    <2> QED BY <2>1, <2>2, PutStays DEF GuardInv
<1>5. Holding' = Holding /\ t \notin Holding /\ Holding \subseteq Turns
    BY <1>1 DEF Holding
<1>6. RecordsWerePut' /\ FoundWerePut'
    BY <1>4, <1>5 DEF GuardInv, RecordsWerePut, FoundWerePut
<1>7. AnsweredWerePut'
    BY <1>1, <1>4 DEF GuardInv, GuardTypeOK, AnsweredWerePut, AnswerType
<1>8. AnsweredAreSpent' /\ OneAnswerPerQuestion'
    BY <1>5 DEF GuardInv, AnsweredAreSpent, OneAnswerPerQuestion
<1> QED BY <1>2, <1>3, <1>6, <1>7, <1>8 DEF GuardInv

LEMMA ReturnsMeans ==
    ASSUME GuardInv, NEW t \in Turns, Returns(t)
    PROVE  /\ stage' = [stage EXCEPT ![t] = "ready"]
           /\ tool' \in [Turns -> Tools \cup {Nothing}]
           /\ found' \in [Turns -> Question \cup {Nothing}]
           /\ stage' \in [Turns -> GuardStage]
           /\ \A u \in Turns \ {t} :
                  tool'[u] = tool[u] /\ found'[u] = found[u] /\ stage'[u] = stage[u]
           /\ stage'[t] = "ready"
BY DEF Returns, GuardInv, GuardTypeOK, GuardStage

LEMMA SelectKeeps ==
    ASSUME GuardInv, NEW t \in Turns, NEW w \in Tools \cup {Nothing},
           Blocks(t, w) \/ AllowsRead(t, w) \/ StartsWrite(t, w)
    PROVE  GuardInv'
<1>1. stage[t] = "ready" /\ calls' = [calls EXCEPT ![t] = @ + 1]
    BY DEF Blocks, AllowsRead, StartsWrite, Selects
<1>2. UNCHANGED <<message, found, met, pending, counted, failures, answers, lost>>
    BY DEF Blocks, AllowsRead, StartsWrite
<1>3. PICK p \in {"ready", "limiting"} :
          /\ stage' = [stage EXCEPT ![t] = p]
          /\ \/ p = "ready" /\ tool' = tool
             \/ p = "limiting" /\ tool' = [tool EXCEPT ![t] = w] /\ w \in WRITE_TOOLS
    <2>1. CASE Blocks(t, w) \/ AllowsRead(t, w)
        BY <1>1, <2>1 DEF Blocks, AllowsRead, GuardInv, GuardTypeOK
    <2>2. CASE StartsWrite(t, w)
        BY <2>2 DEF StartsWrite
    <2> QED BY <2>1, <2>2
<1>4. GuardTypeOK'
    BY <1>1, <1>2, <1>3 DEF GuardInv, GuardTypeOK, GuardStage
<1>5. \A u \in Turns \ {t} :
          tool'[u] = tool[u] /\ found'[u] = found[u] /\ calls'[u] = calls[u]
    BY <1>1, <1>2, <1>3 DEF GuardInv, GuardTypeOK
<1>6. p \in InGuard => tool'[t] \in WRITE_TOOLS
    BY <1>3 DEF GuardInv, GuardTypeOK, InGuard
<1>7. calls[t] < calls'[t] /\ calls[t] <= calls'[t]
    BY <1>1 DEF GuardInv, GuardTypeOK
<1> QED BY <1>1, <1>2, <1>3, <1>4, <1>5, <1>6, <1>7, MovesKeep

LEMMA LimitKeeps ==
    ASSUME GuardInv, NEW t \in Turns, Limits(t) \/ LimitFails(t)
    PROVE  GuardInv'
<1>1. /\ stage[t] = "limiting" /\ stage[t] \in InGuard /\ tool[t] \in WRITE_TOOLS
      /\ UNCHANGED <<message, calls, met, pending, answers, lost>>
    BY DEF Limits, LimitFails, GuardInv, WritersHaveTools, InGuard
<1>2. counted' \in Nat /\ failures' \in Nat
    BY DEF Limits, LimitFails, Fails, GuardInv, GuardTypeOK
<1>3. \/ Returns(t)
      \/ stage' = [stage EXCEPT ![t] = "reading"] /\ UNCHANGED <<tool, found>>
    BY DEF Limits, LimitFails
<1>4. calls[t] <= calls'[t]
    BY <1>1 DEF GuardInv, GuardTypeOK
<1>5. CASE Returns(t)
    <2>1. GuardTypeOK'
        BY <1>1, <1>2, <1>5, ReturnsMeans DEF GuardInv, GuardTypeOK
    <2>2. "ready" \notin InGuard
        BY DEF InGuard
    <2> QED BY <1>1, <1>4, <1>5, <2>1, <2>2, ReturnsMeans, MovesKeep
<1>6. CASE stage' = [stage EXCEPT ![t] = "reading"] /\ UNCHANGED <<tool, found>>
    <2>1. GuardTypeOK'
        BY <1>1, <1>2, <1>6 DEF GuardInv, GuardTypeOK, GuardStage
    <2> QED BY <1>1, <1>4, <1>6, <2>1, MovesKeep
<1> QED BY <1>3, <1>5, <1>6

LEMMA VerdictMeans ==
    ASSUME NEW record, NEW m
    PROVE  /\ Verdict(record, m) \in {"asking", "declining", "granting", "ready"}
           /\ Verdict(record, m) \in {"declining", "granting"} => record # Nothing
BY DEF Verdict

LEMMA ReadKeeps ==
    ASSUME GuardInv, NEW t \in Turns, Reads(t)
    PROVE  GuardInv'
<1>1. /\ tool[t] \in WRITE_TOOLS /\ stage[t] = "reading" /\ stage[t] \in InGuard
    BY DEF Reads, GuardInv, WritersHaveTools, InGuard
<1>2. PICK r \in {pending[tool[t]], Nothing} :
          \/ /\ Verdict(r, message[t]) # "ready"
             /\ stage' = [stage EXCEPT ![t] = Verdict(r, message[t])]
             /\ found' = [found EXCEPT ![t] = r] /\ UNCHANGED tool
          \/ Returns(t)
    BY DEF Reads
<1>3. r \in Question \cup {Nothing}
    BY <1>1, <1>2 DEF GuardInv, GuardTypeOK
<1> DEFINE p == Verdict(r, message[t])
<1>4. /\ p \in {"asking", "declining", "granting", "ready"}
      /\ p \in {"declining", "granting"} => r # Nothing
    BY VerdictMeans
<1>5. \/ /\ p # "ready" /\ stage' = [stage EXCEPT ![t] = p]
         /\ found' = [found EXCEPT ![t] = r] /\ UNCHANGED tool
      \/ Returns(t)
    BY <1>2
<1> HIDE DEF p
<1>6. UNCHANGED <<message, calls, met, pending, counted, answers, lost>>
    BY DEF Reads
<1>7. failures' \in Nat /\ calls[t] <= calls'[t]
    BY <1>6 DEF Reads, Fails, GuardInv, GuardTypeOK
<1>8. CASE Returns(t)
    <2>1. GuardTypeOK'
        BY <1>6, <1>7, <1>8, ReturnsMeans DEF GuardInv, GuardTypeOK
    <2>2. "ready" \notin InGuard
        BY DEF InGuard
    <2> QED BY <1>1, <1>6, <1>7, <1>8, <2>1, <2>2, ReturnsMeans, MovesKeep
<1>9. ASSUME p # "ready", stage' = [stage EXCEPT ![t] = p],
             found' = [found EXCEPT ![t] = r], UNCHANGED tool
      PROVE  GuardInv'
    <2>1. GuardTypeOK'
        BY <1>3, <1>4, <1>6, <1>7, <1>9 DEF GuardInv, GuardTypeOK, GuardStage
    <2>2. \A u \in Turns \ {t} :
              tool'[u] = tool[u] /\ found'[u] = found[u] /\ calls'[u] = calls[u]
        BY <1>6, <1>9 DEF GuardInv, GuardTypeOK
    <2>3. CASE p = "asking"
        BY <1>1, <1>6, <1>7, <1>9, <2>1, <2>2, <2>3, MovesKeep
    <2>4. CASE p \in {"declining", "granting"}
        <3>1. r = pending[tool[t]] /\ r # Nothing /\ Put(r) /\ r.tool = tool[t]
            BY <1>1, <1>2, <1>4, <2>4 DEF GuardInv, RecordsWerePut
        <3>2. /\ \A u \in Turns \ {t} : stage'[u] = stage[u]
              /\ stage'[t] = p /\ found'[t] = r
            BY <1>9 DEF GuardInv, GuardTypeOK
        <3>3. \A q : Put(q) => Put(q)'
            <4>1. \A u \in Turns : calls[u] <= calls'[u]
                BY <1>6 DEF GuardInv, GuardTypeOK
            <4>2. \A u \in Turns : stage'[u] \in InGuard => stage[u] \in InGuard
                BY <1>1, <3>2
            <4> QED BY <2>1, <4>1, <4>2, PutStays DEF GuardInv
        <3>4. Holding' = Holding \cup {t} /\ t \notin Holding /\ Holding \subseteq Turns
            BY <1>1, <2>4, <3>2 DEF Holding
        <3>5. OverlapsRecorded'
            BY <1>1, <1>6, <2>4, <3>2 DEF GuardInv, OverlapsRecorded, UnderWay
        <3>6. RecordsWerePut' /\ WritersHaveTools'
            BY <1>1, <1>6, <1>9, <3>2, <3>3 DEF GuardInv, RecordsWerePut, WritersHaveTools
        <3>7. FoundWerePut'
            BY <1>9, <2>2, <3>1, <3>2, <3>3, <3>4 DEF GuardInv, FoundWerePut
        <3>8. AnsweredWerePut'
            BY <1>6, <2>4, <3>2, <3>3
               DEF GuardInv, GuardTypeOK, AnsweredWerePut, AnswerType
        <3>9. AnsweredAreSpent'
            BY <1>1, <1>6, <2>2, <3>1, <3>2, <3>4 DEF GuardInv, AnsweredAreSpent
        <3>10. OneAnswerPerQuestion'
            BY <1>6 DEF GuardInv, OneAnswerPerQuestion
        <3> QED BY <2>1, <3>5, <3>6, <3>7, <3>8, <3>9, <3>10 DEF GuardInv
    <2> QED BY <1>4, <1>9, <2>3, <2>4
<1> QED BY <1>5, <1>8, <1>9

\* The question of this call is a new one: nobody has answered it yet.
LEMMA AskKeeps ==
    ASSUME GuardInv, NEW t \in Turns, Asks(t)
    PROVE  GuardInv'
<1>1. tool[t] \in WRITE_TOOLS /\ stage[t] = "asking" /\ stage[t] \in InGuard
    BY DEF Asks, GuardInv, WritersHaveTools, InGuard
<1>2. PICK n \in Question :
          /\ n = QuestionOf(t) /\ n.turn = t /\ n.call = calls[t] /\ n.tool = tool[t]
    <2>1. QuestionOf(t) \in Question
        BY <1>1 DEF QuestionOf, Question, GuardInv, GuardTypeOK
    <2> QED BY <2>1 DEF QuestionOf
<1>3. pending' \in {pending, [pending EXCEPT ![tool[t]] = n]}
    BY <1>2 DEF Asks, Asked
<1>4. Returns(t) /\ UNCHANGED <<message, calls, met, counted, answers, lost>>
    BY DEF Asks
<1>5. failures' \in Nat
    BY DEF Asks, Fails, GuardInv, GuardTypeOK
<1>6. GuardTypeOK'
    BY <1>1, <1>2, <1>3, <1>4, <1>5, ReturnsMeans DEF GuardInv, GuardTypeOK
<1>7. /\ \A u \in Turns \ {t} :
            tool'[u] = tool[u] /\ found'[u] = found[u] /\ stage'[u] = stage[u]
      /\ stage'[t] = "ready"
    BY <1>4, ReturnsMeans
<1>8. \A q : Put(q) => Put(q)' /\ q # n
    <2>1. \A u \in Turns : calls[u] <= calls'[u]
        BY <1>4 DEF GuardInv, GuardTypeOK
    <2>2. \A u \in Turns : stage'[u] \in InGuard => stage[u] \in InGuard
        BY <1>7 DEF InGuard
    <2>3. \A q : Put(q) => Put(q)'
        BY <1>6, <2>1, <2>2, PutStays DEF GuardInv
    <2>4. ~Put(n)
        BY <1>1, <1>2 DEF Put, GuardInv, GuardTypeOK
    <2> QED BY <2>3, <2>4
<1>9. Put(n)'
    <2>1. calls'[t] = calls[t] /\ stage'[t] \notin InGuard
        BY <1>4, <1>7 DEF InGuard
    <2>2. n.call \in Nat /\ n.call <= calls[t]
        BY <1>2 DEF GuardInv, GuardTypeOK
    <2> QED BY <1>2, <2>1, <2>2 DEF Put
<1>10. Holding' = Holding /\ t \notin Holding /\ Holding \subseteq Turns
    BY <1>1, <1>7 DEF Holding
<1>11. OverlapsRecorded' /\ WritersHaveTools'
    BY <1>1, <1>4, <1>7
       DEF GuardInv, OverlapsRecorded, UnderWay, WritersHaveTools, InGuard
<1>12. RecordsWerePut'
    <2>1. \A w \in WRITE_TOOLS :
              pending'[w] = pending[w] \/ (pending'[w] = n /\ w = tool[t])
        BY <1>1, <1>3 DEF GuardInv, GuardTypeOK
    <2> QED BY <1>2, <1>8, <1>9, <2>1 DEF GuardInv, RecordsWerePut
<1>13. FoundWerePut' /\ AnsweredWerePut'
    BY <1>4, <1>7, <1>8, <1>10
       DEF GuardInv, GuardTypeOK, FoundWerePut, AnsweredWerePut, AnswerType
<1>14. AnsweredAreSpent'
    <2>1. \A a \in answers : a.ask # n
        BY <1>8 DEF GuardInv, AnsweredWerePut
    <2>2. \A w \in WRITE_TOOLS : pending'[w] \in {pending[w], n}
        BY <1>3 DEF GuardInv, GuardTypeOK
    <2> QED BY <1>4, <1>7, <1>10, <2>1, <2>2 DEF GuardInv, AnsweredAreSpent
<1>15. OneAnswerPerQuestion'
    BY <1>4 DEF GuardInv, OneAnswerPerQuestion
<1> QED BY <1>6, <1>11, <1>12, <1>13, <1>14, <1>15 DEF GuardInv

\* Whoever else has read the record that is answered here overlaps with this
\* turn, and the record is gone or its deletion has failed.
LEMMA AnswerKeeps ==
    ASSUME GuardInv, NEW t \in Turns, Declines(t) \/ Grants(t)
    PROVE  GuardInv'
<1>1. /\ t \in Holding /\ stage[t] \in InGuard /\ stage[t] # "unsent"
      /\ tool[t] \in WRITE_TOOLS
      /\ Put(found[t]) /\ found[t].tool = tool[t] /\ found[t] \in Question
    BY DEF Declines, Grants, GuardInv, Holding, FoundWerePut, Put, InGuard,
           WritersHaveTools
<1>2. PICK a \in AnswerType : a = Answer(t) /\ a.turn = t /\ a.ask = found[t]
    <2>1. Answer(t) \in AnswerType
        <3>1. calls[t] \in Nat /\ (stage[t] = "granting") \in BOOLEAN
            BY DEF GuardInv, GuardTypeOK
        <3> QED BY <1>1, <3>1 DEF Answer, AnswerType
    <2> QED BY <2>1 DEF Answer
<1>3. answers' = answers \cup {a}
    BY <1>2 DEF Declines, Grants
<1>4. Returns(t) /\ UNCHANGED <<message, calls, met, counted>>
    BY DEF Declines, Grants
<1>5. /\ \A u \in Turns \ {t} :
            tool'[u] = tool[u] /\ found'[u] = found[u] /\ stage'[u] = stage[u]
      /\ stage'[t] = "ready"
    BY <1>4, ReturnsMeans
<1>6. /\ pending' \in {pending, Cleared(tool[t])} /\ lost' \in {lost, lost \cup {found[t]}}
      /\ pending' = Cleared(tool[t]) \/ found[t] \in lost'
      /\ failures' \in Nat
    BY DEF Declines, Grants, Clears, Fails, GuardInv, GuardTypeOK
<1>7. GuardTypeOK'
    BY <1>1, <1>2, <1>3, <1>4, <1>6, ReturnsMeans DEF GuardInv, GuardTypeOK, Cleared
<1>8. \A q : Put(q) => Put(q)'
    <2>1. \A u \in Turns : calls[u] <= calls'[u]
        BY <1>4 DEF GuardInv, GuardTypeOK
    <2>2. \A u \in Turns : stage'[u] \in InGuard => stage[u] \in InGuard
        BY <1>5 DEF InGuard
    <2> QED BY <1>7, <2>1, <2>2, PutStays DEF GuardInv
<1>9. OverlapsRecorded' /\ WritersHaveTools'
    BY <1>1, <1>4, <1>5
       DEF GuardInv, OverlapsRecorded, UnderWay, WritersHaveTools, InGuard, Holding
<1>10. Holding' = Holding \ {t} /\ Holding \subseteq Turns
    BY <1>5 DEF Holding
<1>11. RecordsWerePut'
    <2>1. \A w \in WRITE_TOOLS : pending'[w] \in {pending[w], Nothing}
        BY <1>1, <1>6 DEF GuardInv, GuardTypeOK, Cleared
    <2> QED BY <1>8, <2>1 DEF GuardInv, RecordsWerePut
<1>12. FoundWerePut' /\ AnsweredWerePut'
    <2>1. FoundWerePut'
        BY <1>5, <1>8, <1>10 DEF GuardInv, FoundWerePut
    <2>2. \A b \in answers : Put(b.ask)' /\ stage'[b.turn] # "unsent"
        BY <1>5, <1>8 DEF GuardInv, GuardTypeOK, AnsweredWerePut, AnswerType
    <2>3. Put(a.ask)' /\ stage'[a.turn] # "unsent"
        <3>1. Put(a.ask)
            BY <1>1, <1>2
        <3> QED BY <1>2, <1>5, <1>8, <3>1
    <2> QED BY <1>3, <2>1, <2>2, <2>3 DEF AnsweredWerePut
<1>13. \A b \in answers : b.ask \in lost' \/
          /\ \A w \in WRITE_TOOLS : pending'[w] # b.ask
          /\ \A u \in Holding' : found'[u] = b.ask =>
                b.turn \in met'[u] /\ u \in met'[b.turn]
    <2> SUFFICES ASSUME NEW b \in answers, b.ask \notin lost'
                 PROVE  /\ \A w \in WRITE_TOOLS : pending'[w] # b.ask
                        /\ \A u \in Holding' : found'[u] = b.ask =>
                              b.turn \in met'[u] /\ u \in met'[b.turn]
        OBVIOUS
    <2>1. /\ \A w \in WRITE_TOOLS : pending[w] # b.ask
          /\ \A u \in Holding : found[u] = b.ask => b.turn \in met[u] /\ u \in met[b.turn]
        BY <1>6 DEF GuardInv, AnsweredAreSpent
    <2>2. b.ask # Nothing
        BY GuardAssumption DEF GuardAssumption, GuardInv, GuardTypeOK, AnswerType
    <2> QED BY <1>4, <1>5, <1>6, <1>10, <2>1, <2>2 DEF GuardInv, GuardTypeOK, Cleared
<1>14. a.ask \in lost' \/
          /\ \A w \in WRITE_TOOLS : pending'[w] # a.ask
          /\ \A u \in Holding' : found'[u] = a.ask =>
                a.turn \in met'[u] /\ u \in met'[a.turn]
    <2> SUFFICES ASSUME found[t] \notin lost'
                 PROVE  /\ \A w \in WRITE_TOOLS : pending'[w] # found[t]
                        /\ \A u \in Holding' : found'[u] = found[t] =>
                              t \in met'[u] /\ u \in met'[t]
        BY <1>2
    <2>1. pending' = Cleared(tool[t])
        BY <1>6
    <2>2. \A w \in WRITE_TOOLS : pending'[w] # found[t]
        <3>1. found[t] # Nothing
            BY <1>1, GuardAssumption DEF GuardAssumption
        <3>2. \A w \in WRITE_TOOLS \ {tool[t]} : pending'[w] = pending[w]
            BY <2>1 DEF GuardInv, GuardTypeOK, Cleared
        <3>3. pending'[tool[t]] = Nothing
            BY <1>1, <2>1 DEF GuardInv, GuardTypeOK, Cleared
        <3>4. \A w \in WRITE_TOOLS : pending[w] # Nothing => pending[w].tool = w
            BY DEF GuardInv, RecordsWerePut
        <3> QED BY <1>1, <3>1, <3>2, <3>3, <3>4
    <2>3. \A u \in Holding : u # t => t \in met[u] /\ u \in met[t]
        BY <1>1 DEF GuardInv, OverlapsRecorded, Holding, UnderWay
    <2> QED BY <1>4, <1>10, <2>2, <2>3
<1>15. AnsweredAreSpent'
    BY <1>3, <1>13, <1>14 DEF AnsweredAreSpent
<1>16. OneAnswerPerQuestion'
    <2>1. \A b \in answers : b.ask = a.ask =>
              b.ask \in lost \/ (b.turn \in met[t] /\ t \in met[b.turn])
        BY <1>1, <1>2 DEF GuardInv, AnsweredAreSpent
    <2>2. lost \subseteq lost'
        BY <1>6
    <2> QED BY <1>2, <1>3, <1>4, <2>1, <2>2 DEF GuardInv, OneAnswerPerQuestion
<1> QED BY <1>7, <1>9, <1>11, <1>12, <1>15, <1>16 DEF GuardInv

\* Time passes in Redis.
LEMMA RedisKeeps ==
    ASSUME GuardInv,
           WindowMoves \/ (\E w \in WRITE_TOOLS : Expires(w))
    PROVE  GuardInv'
<1>1. /\ UNCHANGED <<turnVars, answers, lost, failures>> /\ counted' \in Nat
      /\ pending' \in [WRITE_TOOLS -> Question \cup {Nothing}]
      /\ \A w \in WRITE_TOOLS : pending'[w] \in {pending[w], Nothing}
    BY DEF WindowMoves, Expires, GuardInv, GuardTypeOK
<1>2. GuardTypeOK'
    BY <1>1 DEF GuardInv, GuardTypeOK, turnVars
<1>3. Holding' = Holding /\ UnderWay' = UnderWay /\ \A q : Put(q)' = Put(q)
    BY <1>1 DEF Holding, UnderWay, Put, turnVars
<1>4. OverlapsRecorded' /\ RecordsWerePut' /\ FoundWerePut'
    BY <1>1, <1>3 DEF GuardInv, OverlapsRecorded, RecordsWerePut, FoundWerePut, turnVars
<1>5. WritersHaveTools' /\ AnsweredWerePut' /\ OneAnswerPerQuestion'
    BY <1>1, <1>3 DEF GuardInv, WritersHaveTools, AnsweredWerePut,
                      OneAnswerPerQuestion, turnVars
<1>6. \A a \in answers : a.ask # Nothing
    BY GuardAssumption DEF GuardAssumption, GuardInv, GuardTypeOK, AnswerType
<1>7. AnsweredAreSpent'
    BY <1>1, <1>3, <1>6 DEF GuardInv, AnsweredAreSpent, turnVars
<1> QED BY <1>2, <1>4, <1>5, <1>7 DEF GuardInv

LEMMA GuardNextKeeps == GuardInv /\ [GuardNext]_guardVars => GuardInv'
<1> SUFFICES ASSUME GuardInv, [GuardNext]_guardVars PROVE GuardInv'
    OBVIOUS
<1>1. ASSUME NEW t \in Turns, Turn(t)
      PROVE  GuardInv'
    <2>1. CASE Send(t)
        BY <2>1, SendKeeps
    <2>2. CASE Leaves(t)
        <3>1. GuardTypeOK'
            BY <2>2 DEF Leaves, GuardInv, GuardTypeOK, GuardStage
        <3>2. "over" \notin InGuard /\ calls[t] <= calls'[t]
            BY <2>2 DEF Leaves, InGuard, GuardInv, GuardTypeOK
        <3> QED BY <2>2, <3>1, <3>2, MovesKeep DEF Leaves
    <2>3. CASE \E w \in Tools \cup {Nothing} :
                  Blocks(t, w) \/ AllowsRead(t, w) \/ StartsWrite(t, w)
        BY <2>3, SelectKeeps
    <2> QED BY <1>1, <2>1, <2>2, <2>3 DEF Turn
<1>2. ASSUME NEW t \in Turns, Guard(t)
      PROVE  GuardInv'
    BY <1>2, LimitKeeps, ReadKeeps, AskKeeps, AnswerKeeps DEF Guard
<1>3. CASE WindowMoves \/ \E w \in WRITE_TOOLS : Expires(w)
    BY <1>3, RedisKeeps
<1>4. CASE UNCHANGED guardVars
    <2>1. /\ GuardTypeOK' /\ Holding' = Holding /\ UnderWay' = UnderWay
          /\ \A q : Put(q)' = Put(q)
        BY <1>4 DEF guardVars, turnVars, GuardInv, GuardTypeOK, Holding, UnderWay, Put
    <2> QED BY <1>4, <2>1
            DEF guardVars, turnVars, GuardInv, OverlapsRecorded, RecordsWerePut,
                FoundWerePut, WritersHaveTools, AnsweredWerePut, AnsweredAreSpent,
                OneAnswerPerQuestion
<1> QED BY <1>1, <1>2, <1>3, <1>4 DEF GuardNext

LEMMA GuardInvariant == GuardSpec => []GuardInv
BY GuardInitEstablishes, GuardNextKeeps, PTL DEF GuardSpec

\* Every variable of the guard keeps its type.
THEOREM GuardTypeCorrect == GuardSpec => []GuardTypeOK
<1>1. GuardInv => GuardTypeOK
    BY DEF GuardInv
<1> QED BY <1>1, GuardInvariant, PTL

\* A question is answered once, however often the turns call the guard, but for
\* turns that overlapped and deletions that failed: one yes lets one write
\* through.
THEOREM QuestionsAreSpent == GuardSpec => []OneAnswerPerQuestion
<1>1. GuardInv => OneAnswerPerQuestion
    BY DEF GuardInv
<1> QED BY <1>1, GuardInvariant, PTL

==============================================================================
