----------------------------- MODULE ToolRegistry -----------------------------
(***************************************************************************)
(* The agent process's registry of tool lists: one list per role, fetched  *)
(* from the MCP server under the role's lock, warmed at start-up and kept  *)
(* until the process ends.  The server is redeployed behind its back; the  *)
(* process starts, serves, drains and dies.                                *)
(*                                                                         *)
(* A list is the number of the server process that answered: its tools are *)
(* registered at import and do not change while it lives.                  *)
(***************************************************************************)
EXTENDS Naturals, Sequences

CONSTANTS
    Requests,    \* the turns whose planner may ask at once
    Warmup,      \* the start-up coroutine, a caller of its own
    Roles,
    ALL_ROLES,   \* the roles warmed at start-up, in order
    None,
    MaxServers,  \* bound: how often the MCP server is started
    MaxStarts    \* bound: how often the agent process is started

Servers == 1 .. MaxServers

Callers == Requests \cup {Warmup}

ASSUME ConfigAssumption ==
    /\ Warmup \notin Requests
    /\ ALL_ROLES \in Seq(Roles)
    /\ None \notin Roles \cup Nat
    /\ MaxServers \in Nat /\ MaxStarts \in Nat

VARIABLES
    app,       \* where the agent process is in its lifespan
    warmed,    \* how many of ALL_ROLES the warm-up has gone through
    registry,  \* _REGISTRY
    phase,     \* where each caller is
    role,      \* the role it asked for
    ahead,     \* those before it in the queue of that role's lock
    fetched,   \* the list the server has answered it with
    answer,    \* what get_registry_tools returned; None when it raised
    server,    \* the MCP server process, None when there is none
    servers,   \* how many were started
    starts,    \* how often the agent process was started
    offered    \* history: the servers that were up during this process

callVars == <<phase, role, ahead, fetched, answer>>
serverVars == <<server, servers>>
vars == <<app, warmed, registry, callVars, serverVars, starts, offered>>

Stage == {"down", "database", "warming", "checkpointer", "serving", "draining"}

Phase == {"idle", "waiting", "fetching", "fetched"}

Busy == {c \in Callers : phase[c] # "idle"}

-----------------------------------------------------------------------------
Init ==
    /\ app = "down" /\ warmed = 0
    /\ registry = [r \in Roles |-> None]
    /\ phase = [c \in Callers |-> "idle"]
    /\ role = [c \in Callers |-> None]
    /\ ahead = [c \in Callers |-> {}]
    /\ fetched = [c \in Callers |-> None]
    /\ answer = [c \in Callers |-> None]
    /\ server = None /\ servers = 0 /\ starts = 0
    /\ offered = {}

-----------------------------------------------------------------------------
(* A call of get_registry_tools, or one round of the warm-up loop.         *)

\* asyncio.Lock wakes its waiters in order; the first holds the lock.
Holds(c) == ahead[c] = {}

Queue(c, r) ==
    /\ phase' = [phase EXCEPT ![c] = "waiting"]
    /\ role' = [role EXCEPT ![c] = r]
    /\ ahead' = [ahead EXCEPT ![c] = {d \in Busy : role[d] = r}]
    /\ answer' = [answer EXCEPT ![c] = None]
    /\ UNCHANGED fetched

\* Leaves the call with this answer, and the lock or its queue.
Leave(c, list) ==
    /\ phase' = [phase EXCEPT ![c] = "idle"]
    /\ role' = [role EXCEPT ![c] = None]
    /\ ahead' = [d \in Callers |-> IF d = c THEN {} ELSE ahead[d] \ {c}]
    /\ fetched' = [fetched EXCEPT ![c] = None]
    /\ answer' = [answer EXCEPT ![c] = list]

\* The fast path reads the registry without the lock.
CacheHit(c, r) ==
    /\ app = "serving" /\ phase[c] = "idle"
    /\ registry[r] # None
    /\ answer' = [answer EXCEPT ![c] = registry[r]]
    /\ UNCHANGED <<app, warmed, registry, phase, role, ahead, fetched,
                   serverVars, starts, offered>>

CacheMiss(c, r) ==
    /\ app = "serving" /\ phase[c] = "idle"
    /\ registry[r] = None
    /\ Queue(c, r)
    /\ UNCHANGED <<app, warmed, registry, serverVars, starts, offered>>

\* Somebody else has filled the registry while this caller was waiting.
RecheckHit(c) ==
    /\ phase[c] = "waiting" /\ Holds(c)
    /\ registry[role[c]] # None
    /\ Leave(c, registry[role[c]])
    /\ UNCHANGED <<app, warmed, registry, serverVars, starts, offered>>

\* Mutant: no look under the lock.
NoRecheck(c) == TRUE

StillMissing(c) == registry[role[c]] = None

StartFetch(c) ==
    /\ phase[c] = "waiting" /\ Holds(c)
    /\ StillMissing(c)
    /\ phase' = [phase EXCEPT ![c] = "fetching"]
    /\ UNCHANGED <<app, warmed, registry, role, ahead, fetched, answer,
                   serverVars, starts, offered>>

\* get_tools(): the server has answered and the reply is on its way.
ServerAnswers(c) ==
    /\ phase[c] = "fetching" /\ server # None
    /\ phase' = [phase EXCEPT ![c] = "fetched"]
    /\ fetched' = [fetched EXCEPT ![c] = server]
    /\ UNCHANGED <<app, warmed, registry, role, ahead, answer, serverVars,
                   starts, offered>>

Store(c) ==
    /\ phase[c] = "fetched"
    /\ registry' = [registry EXCEPT ![role[c]] = fetched[c]]
    /\ Leave(c, fetched[c])
    /\ UNCHANGED <<app, warmed, serverVars, starts, offered>>

\* Mutant: the lock is not released when the fetch raises.
FetchFailsHoldingLock(c) ==
    /\ phase[c] \in {"fetching", "fetched"}
    /\ phase' = [phase EXCEPT ![c] = "idle"]
    /\ role' = [role EXCEPT ![c] = None]
    /\ fetched' = [fetched EXCEPT ![c] = None]
    /\ UNCHANGED <<ahead, answer, app, warmed, registry, serverVars, starts, offered>>

\* Refused, broken or timed out: a RuntimeError leaves the lock and nothing is
\* cached.  The planner sets tool_error, the warm-up goes on.
FetchFails(c) ==
    /\ phase[c] \in {"fetching", "fetched"}
    /\ Leave(c, None)
    /\ UNCHANGED <<app, warmed, registry, serverVars, starts, offered>>

\* The turn's task is cancelled in the queue or in the fetch.
Cancelled(c) ==
    /\ c \in Requests /\ phase[c] # "idle"
    /\ Leave(c, None)
    /\ UNCHANGED <<app, warmed, registry, serverVars, starts, offered>>

-----------------------------------------------------------------------------
(* The lifespan of the agent process.                                      *)

\* Everything in memory is gone.
Forget ==
    /\ app' = "down" /\ warmed' = 0
    /\ registry' = [r \in Roles |-> None]
    /\ phase' = [c \in Callers |-> "idle"]
    /\ role' = [c \in Callers |-> None]
    /\ ahead' = [c \in Callers |-> {}]
    /\ fetched' = [c \in Callers |-> None]
    /\ answer' = [c \in Callers |-> None]
    /\ offered' = {}
    /\ UNCHANGED <<serverVars, starts>>

ProcessStarts ==
    /\ app = "down" /\ starts < MaxStarts
    /\ app' = "database"
    /\ starts' = starts + 1
    /\ offered' = Servers \cap {server}
    /\ UNCHANGED <<warmed, registry, callVars, serverVars>>

\* The start-up fails hard without a database; a missing Redis is only logged.
DatabaseUp ==
    /\ app = "database" /\ app' = "warming"
    /\ UNCHANGED <<warmed, registry, callVars, serverVars, starts, offered>>

DatabaseDown == app = "database" /\ Forget

WarmNext ==
    /\ app = "warming" /\ phase[Warmup] = "idle"
    /\ warmed < Len(ALL_ROLES)
    /\ warmed' = warmed + 1
    /\ Queue(Warmup, ALL_ROLES[warmed + 1])
    /\ UNCHANGED <<app, registry, serverVars, starts, offered>>

\* Roles that failed are left to the first request.
WarmupEnds ==
    /\ app = "warming" /\ phase[Warmup] = "idle"
    /\ warmed = Len(ALL_ROLES)
    /\ app' = "checkpointer"
    /\ UNCHANGED <<warmed, registry, callVars, serverVars, starts, offered>>

CheckpointerUp ==
    /\ app = "checkpointer" /\ app' = "serving"
    /\ UNCHANGED <<warmed, registry, callVars, serverVars, starts, offered>>

CheckpointerDown == app = "checkpointer" /\ Forget

\* SIGTERM: no new request, and the shutdown half of the lifespan runs when
\* the last one has been answered.
Drain ==
    /\ app = "serving" /\ app' = "draining"
    /\ UNCHANGED <<warmed, registry, callVars, serverVars, starts, offered>>

\* clear_tool_registry, the pools are closed, the process ends.
Shutdown == app = "draining" /\ Busy = {} /\ Forget

Crash == app # "down" /\ Forget

-----------------------------------------------------------------------------
(* The MCP server.                                                         *)

ServerStarts ==
    /\ server = None /\ servers < MaxServers
    /\ servers' = servers + 1
    /\ server' = servers'
    /\ offered' = IF app = "down" THEN offered ELSE offered \cup {servers'}
    /\ UNCHANGED <<app, warmed, registry, callVars, starts>>

ServerStops ==
    /\ server # None /\ server' = None
    /\ UNCHANGED <<app, warmed, registry, callVars, servers, starts, offered>>

-----------------------------------------------------------------------------
Call(c) ==
    \/ RecheckHit(c) \/ StartFetch(c)
    \/ ServerAnswers(c) \/ Store(c) \/ FetchFails(c)

StartUp ==
    \/ DatabaseUp \/ DatabaseDown \/ WarmNext \/ WarmupEnds
    \/ CheckpointerUp \/ CheckpointerDown

Environment == ProcessStarts \/ Drain \/ Crash \/ ServerStarts \/ ServerStops

Next ==
    \/ \E c \in Callers : Call(c)
    \/ \E c \in Requests :
          Cancelled(c) \/ \E r \in Roles : CacheHit(c, r) \/ CacheMiss(c, r)
    \/ StartUp \/ Shutdown \/ Environment

Spec == Init /\ [][Next]_vars

\* A coroutine whose turn it is runs, and a fetch ends: the client has a
\* timeout.  Nobody is obliged to ask, to start a server or to stop one.
Fairness ==
    /\ \A c \in Callers : WF_vars(Call(c))
    /\ WF_vars(StartUp) /\ WF_vars(Shutdown)

FairSpec == Spec /\ Fairness

-----------------------------------------------------------------------------
(* What the registry promises.                                             *)

TypeOK ==
    /\ app \in Stage /\ warmed \in 0 .. Len(ALL_ROLES)
    /\ registry \in [Roles -> Servers \cup {None}]
    /\ phase \in [Callers -> Phase]
    /\ role \in [Callers -> Roles \cup {None}]
    /\ ahead \in [Callers -> SUBSET Callers]
    /\ fetched \in [Callers -> Servers \cup {None}]
    /\ answer \in [Callers -> Servers \cup {None}]
    /\ server \in Servers \cup {None} /\ servers \in 0 .. MaxServers
    /\ starts \in 0 .. MaxStarts
    /\ offered \subseteq Servers

Fetching == {c \in Callers : phase[c] \in {"fetching", "fetched"}}

\* A waiting caller has asked and not yet fetched; the locks, the queue, the
\* warm-up and the redeployed server are the implementation's business.
Once == INSTANCE FetchOnce WITH
    Lists <- Servers, cell <- registry, asks <- role, fetching <- Fetching,
    got <- answer

\* The registry is a fetch-once cell per role, through unlocked reads, failed
\* and cancelled fetches, restarts of the process and of the server: no two
\* turns fetch a role's list at once, a list once cached is never replaced
\* while the process lives, and no list is older than the process.
FetchesOnce == Once!Spec

\* Every call ends, with a list or with an error, or dies with its process:
\* no failed or cancelled fetch leaves a lock that nobody will release, and no
\* start-up or shutdown waits on one for ever.
CallsEnd ==
    /\ \A c \in Callers : [](phase[c] # "idle" => <>(phase[c] = "idle"))
    /\ [](app = "warming" => <>(app # "warming"))
    /\ [](app = "draining" => <>(app # "draining"))

==============================================================================
