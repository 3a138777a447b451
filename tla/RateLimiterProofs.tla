-------------------------- MODULE RateLimiterProofs --------------------------
(***************************************************************************)
(* The limiter's bounds for every limit, window, delay and number of       *)
(* concurrent handlers.                                                    *)
(***************************************************************************)
EXTENDS RateLimiter, FiniteSetTheorems, TLAPS

-----------------------------------------------------------------------------
(* The inductive invariant.  A pipeline under way is at most MaxDelay late *)
(* (Punctual); a member's score is at most MaxDelay before the moment it   *)
(* was recorded, and the key outlives it by a whole window (Dated).  From  *)
(* these two it follows that no pruning and no expiry takes an allowed     *)
(* event that is younger than Window - MaxDelay (AllowedAreKept).          *)

Punctual ==
    \A r \in Request : /\ clock[r] <= now
                       /\ r \in Waiting => now - clock[r] <= MaxDelay

Dated ==
    /\ \A e \in recorded :
         /\ e.score <= e.at /\ e.at <= now /\ e.score >= e.at - MaxDelay
         /\ e.at + KeyTtl <= expiry
    /\ allowed \subseteq recorded /\ zset \subseteq recorded

Inv == TypeOK /\ Punctual /\ Dated /\ AllowedAreKept /\ AllowedBounded

LEMMA PrunedSubset ==
    ASSUME NEW members, NEW t, IsFiniteSet(members)
    PROVE  /\ Pruned(members, t) \subseteq members
           /\ IsFiniteSet(Pruned(members, t))
           /\ Cardinality(Pruned(members, t)) <= Cardinality(members)
           /\ Cardinality(Pruned(members, t)) \in Nat
           /\ Cardinality(members) \in Nat
BY FS_Subset, FS_CardinalityType DEF Pruned

\* Whatever handler prunes: its clock is at most now, so what is younger than
\* Window - MaxDelay stays.
LEMMA PruningKeeps ==
    ASSUME Inv, NEW r \in Request
    PROVE  Since(allowed, now - (Window - MaxDelay)) \subseteq Pruned(zset, clock[r])
<1> SUFFICES ASSUME NEW e \in Since(allowed, now - (Window - MaxDelay))
             PROVE  e \in zset /\ e.score > clock[r] - Window
  BY DEF Pruned
<1>1. e \in zset /\ e \in recorded /\ e \in Event
  BY DEF Inv, AllowedAreKept, Dated, TypeOK, Since
<1>2. /\ e.at \in Nat /\ e.score \in Nat /\ e.at > now - (Window - MaxDelay)
      /\ e.score >= e.at - MaxDelay
  BY <1>1 DEF Event, Since, Inv, Dated
<1>3. clock[r] \in Nat /\ now \in Nat /\ clock[r] <= now
  BY DEF Inv, TypeOK, Punctual
<1>4. QED
  BY <1>1, <1>2, <1>3, ConfigAssumption

LEMMA KeyTtlType == KeyTtl \in Nat /\ KeyTtl >= Window
BY ConfigAssumption DEF KeyTtl

\* A step that records nothing and lets no time pass.
LEMMA QuietStep ==
    ASSUME Inv, NEW r \in Request,
           zset' \in {zset, Pruned(zset, clock[r])},
           UNCHANGED <<now, expiry, recorded, allowed>>
    PROVE  /\ zset' \subseteq Event /\ IsFiniteSet(zset')
           /\ Dated' /\ AllowedAreKept' /\ AllowedBounded'
<1>1. zset' \subseteq zset /\ IsFiniteSet(zset')
  BY PrunedSubset DEF Inv, TypeOK
<1>2. AllowedAreKept'
  BY PruningKeeps DEF Inv, AllowedAreKept, Since
<1>3. AllowedBounded'
  BY DEF Inv, AllowedBounded, Since
<1>4. QED
  BY <1>1, <1>2, <1>3 DEF Inv, TypeOK, Dated, KeyTtl

LEMMA NewEventType ==
    ASSUME Inv, NEW r \in Request, phase[r] = "checking"
    PROVE  /\ NewEvent(r) \in Event
           /\ NewEvent(r).at = now /\ NewEvent(r).score = clock[r]
           /\ clock[r] <= now /\ clock[r] >= now - MaxDelay
           /\ now \in Nat /\ clock[r] \in Nat
<1>1. now \in Nat /\ clock[r] \in Nat /\ Cardinality(recorded) \in Nat
  BY FS_CardinalityType DEF Inv, TypeOK
<1>2. clock[r] <= now /\ now - clock[r] <= MaxDelay
  BY DEF Inv, Punctual, Waiting
<1>3. QED
  BY <1>1, <1>2, ConfigAssumption DEF NewEvent, Event

\* A step that records the event of r.
LEMMA RecordStep ==
    ASSUME Inv, NEW r \in Request, phase[r] = "checking", Record(r),
           now' = now, allowed' \in {allowed, allowed \cup {NewEvent(r)}}
    PROVE  /\ zset' \subseteq Event /\ IsFiniteSet(zset')
           /\ recorded' \subseteq Event /\ IsFiniteSet(recorded')
           /\ allowed' \subseteq Event /\ expiry' \in Nat
           /\ Dated' /\ AllowedAreKept'
<1> DEFINE new == NewEvent(r)
<1>1. /\ new \in Event /\ new.at = now /\ new.score = clock[r]
      /\ clock[r] <= now /\ clock[r] >= now - MaxDelay
      /\ now \in Nat /\ clock[r] \in Nat
  BY NewEventType
<1>2. /\ zset' = Pruned(zset, clock[r]) \cup {new}
      /\ recorded' = recorded \cup {new}
      /\ expiry' = now + KeyTtl
  BY DEF Record
<1> HIDE DEF new
<1>3. /\ IsFiniteSet(zset') /\ IsFiniteSet(recorded')
  <2>1. IsFiniteSet(Pruned(zset, clock[r])) /\ IsFiniteSet(recorded)
    BY PrunedSubset DEF Inv, TypeOK
  <2>2. QED
    BY <1>2, <2>1, FS_AddElement
<1>4. /\ zset' \subseteq Event /\ recorded' \subseteq Event
      /\ allowed' \subseteq Event /\ expiry' \in Nat
  BY <1>1, <1>2, KeyTtlType DEF Inv, TypeOK, Pruned, new
<1>5. Dated'
  <2>1. ASSUME NEW e \in recorded'
        PROVE  /\ e.score <= e.at /\ e.at <= now' /\ e.score >= e.at - MaxDelay
               /\ e.at + KeyTtl <= expiry'
    <3>1. CASE e = new
      BY <1>1, <1>2, <3>1, KeyTtlType, ConfigAssumption
    <3>2. CASE e \in recorded
      <4>1. /\ e.score <= e.at /\ e.at <= now /\ e.score >= e.at - MaxDelay
            /\ e.at \in Nat
        BY <3>2 DEF Inv, Dated, TypeOK, Event
      <4>2. QED
        BY <1>1, <1>2, <4>1, KeyTtlType
    <3>3. QED
      BY <1>2, <2>1, <3>1, <3>2
  <2>2. allowed' \subseteq recorded' /\ zset' \subseteq recorded'
    BY <1>2 DEF Inv, Dated, Pruned, new
  <2>3. QED
    BY <2>1, <2>2 DEF Dated, KeyTtl
<1>6. AllowedAreKept'
  BY <1>2, PruningKeeps DEF AllowedAreKept, Since, new
<1>7. QED
  BY <1>3, <1>4, <1>5, <1>6

LEMMA InitInv == Init => Inv
<1> SUFFICES ASSUME Init PROVE Inv
  OBVIOUS
<1>1. TypeOK
  BY FS_EmptySet DEF Init, TypeOK, Phase
<1>2. Punctual /\ Dated /\ AllowedAreKept
  BY DEF Init, Punctual, Waiting, Dated, AllowedAreKept, Since
<1>3. Since(allowed, now - (Window - MaxDelay)) = {}
  BY DEF Init, Since
<1>4. AllowedBounded
  BY <1>3, FS_EmptySet, ConfigAssumption DEF AllowedBounded
<1>5. QED
  BY <1>1, <1>2, <1>4 DEF Inv

LEMMA TickInv == Inv /\ Tick => Inv'
<1> SUFFICES ASSUME Inv, Tick PROVE Inv'
  OBVIOUS
<1>1. /\ now \in Nat /\ now' = now + 1 /\ expiry \in Nat
      /\ zset' = (IF now' >= expiry THEN {} ELSE zset)
      /\ UNCHANGED <<expiry, phase, clock, recorded, allowed, denied, failedPeeks>>
  BY DEF Tick, Inv, TypeOK
<1>2. zset' \subseteq zset /\ IsFiniteSet(zset')
  BY <1>1, FS_EmptySet DEF Inv, TypeOK
<1>3. TypeOK'
  BY <1>1, <1>2 DEF Inv, TypeOK
<1>4. Punctual'
  <2>1. ASSUME NEW r \in Request
        PROVE  /\ clock'[r] <= now'
               /\ r \in Waiting' => now' - clock'[r] <= MaxDelay
    <3>1. clock[r] \in Nat /\ clock[r] <= now
      BY DEF Inv, TypeOK, Punctual
    <3>2. r \in Waiting => now - clock[r] < MaxDelay
      BY DEF Tick
    <3>3. Waiting' = Waiting /\ clock' = clock
      BY <1>1 DEF Waiting
    <3>4. QED
      BY <1>1, <3>1, <3>2, <3>3, ConfigAssumption
  <2>2. QED
    BY <2>1 DEF Punctual
<1>5. Dated'
  <2>1. ASSUME NEW e \in recorded PROVE e.at \in Nat
    BY DEF Inv, TypeOK, Event
  <2>2. QED
    BY <1>1, <1>2, <2>1 DEF Inv, Dated, KeyTtl
<1> DEFINE after == Since(allowed, now + 1 - (Window - MaxDelay))
<1>10. Since(allowed, now - (Window - MaxDelay))' = after
  <2>1. now' - (Window - MaxDelay) = now + 1 - (Window - MaxDelay)
    BY <1>1, ConfigAssumption
  <2>2. Since(allowed, now - (Window - MaxDelay))'
          = Since(allowed', now' - (Window - MaxDelay))
    BY DEF Since
  <2>3. allowed' = allowed
    BY <1>1
  <2>4. QED
    BY <2>1, <2>2, <2>3
<1>6. after
        \subseteq Since(allowed, now - (Window - MaxDelay))
  <2>1. ASSUME NEW e \in allowed PROVE e.at \in Nat
    BY DEF Inv, TypeOK, Event
  <2>2. QED
    BY <1>1, <2>1, ConfigAssumption DEF Since
<1>7. AllowedAreKept'
  <2> SUFFICES ASSUME NEW e \in after PROVE e \in zset'
    BY <1>10 DEF AllowedAreKept
  <2>1. e \in zset /\ e \in recorded /\ e.at \in Nat
    BY <1>6 DEF Inv, AllowedAreKept, Dated, TypeOK, Event, Since
  <2>2. e.at + KeyTtl <= expiry /\ e.at > now + 1 - (Window - MaxDelay)
    BY <2>1 DEF Inv, Dated, Since
  <2>3. now + 1 < expiry
    BY <1>1, <2>1, <2>2, KeyTtlType, ConfigAssumption
  <2>4. QED
    BY <1>1, <2>1, <2>3
<1>8. AllowedBounded'
  <2> DEFINE before == Since(allowed, now - (Window - MaxDelay))
  <2>1. IsFiniteSet(before)
    BY FS_Subset DEF Inv, AllowedAreKept, TypeOK
  <2>2. Cardinality(after) <= Cardinality(before)
    BY <1>6, <2>1, FS_Subset
  <2>3. Cardinality(before) <= Limit /\ Cardinality(before) \in Nat
    BY <2>1, FS_CardinalityType DEF Inv, AllowedBounded
  <2>4. IsFiniteSet(after) /\ Cardinality(after) \in Nat
    BY <1>6, <2>1, FS_Subset, FS_CardinalityType
  <2>5. Cardinality(after) <= Limit
    BY <2>2, <2>3, <2>4, ConfigAssumption
  <2>6. QED
    BY <1>10, <2>5 DEF AllowedBounded
<1>9. QED
  BY <1>3, <1>4, <1>5, <1>7, <1>8 DEF Inv

\* A handler that moves on without sending anything that is recorded.
LEMMA QuietServe ==
    ASSUME Inv, NEW r \in Request,
           StartPeek(r) \/ Refuses(r) \/ Admits(r) \/ PeekFails(r)
             \/ LeavesUnchecked(r) \/ StartCheck(r)
    PROVE  Inv'
<1>1. /\ zset' \in {zset, Pruned(zset, clock[r])}
      /\ UNCHANGED <<now, expiry, recorded, allowed, denied>>
  BY DEF StartPeek, Refuses, Admits, PeekFails, LeavesUnchecked, StartCheck
<1>2. /\ phase' \in [Request -> Phase]
      /\ clock' \in [Request -> Nat] /\ failedPeeks' \in Nat
  BY DEF StartPeek, Refuses, Admits, PeekFails, LeavesUnchecked, StartCheck,
     Inv, TypeOK, Phase
<1>3. /\ zset' \subseteq Event /\ IsFiniteSet(zset')
      /\ Dated' /\ AllowedAreKept' /\ AllowedBounded'
  BY <1>1, QuietStep
<1>4. TypeOK'
  BY <1>1, <1>2, <1>3 DEF Inv, TypeOK
<1>5. Punctual'
  <2>1. CASE StartPeek(r) \/ StartCheck(r)
    BY <2>1, ConfigAssumption DEF StartPeek, StartCheck, Inv, TypeOK, Punctual,
       Waiting
  <2>2. CASE Refuses(r) \/ Admits(r) \/ PeekFails(r) \/ LeavesUnchecked(r)
    BY <2>2 DEF Refuses, Admits, PeekFails, LeavesUnchecked, Inv, TypeOK,
       Punctual, Waiting
  <2>3. QED
    BY <2>1, <2>2
<1>6. QED
  BY <1>3, <1>4, <1>5 DEF Inv

LEMMA CheckServe ==
    ASSUME Inv, NEW r \in Request, Check(r) \/ CheckFails(r)
    PROVE  Inv'
<1>1. /\ phase[r] = "checking" /\ now' = now /\ now \in Nat
      /\ phase' = [phase EXCEPT ![r] = "idle"]
      /\ UNCHANGED <<clock, failedPeeks>>
  BY DEF Check, CheckFails, Inv, TypeOK
<1>2. Punctual'
  BY <1>1 DEF Inv, TypeOK, Punctual, Waiting
<1>3. phase' \in [Request -> Phase] /\ denied' \subseteq Event
  <2>1. NewEvent(r) \in Event
    BY <1>1, NewEventType
  <2>2. denied' \in {denied, denied \cup {NewEvent(r)}}
    BY DEF Check, CheckFails
  <2>3. QED
    BY <1>1, <2>1, <2>2 DEF Inv, TypeOK, Phase
<1>4. CASE UNCHANGED <<zset, recorded, expiry, allowed>>
  BY <1>1, <1>2, <1>3, <1>4, QuietStep DEF Inv, TypeOK
<1>5. CASE Record(r) /\ allowed' = allowed
  <2>1. AllowedBounded'
    BY <1>1, <1>5 DEF Inv, AllowedBounded, Since
  <2>2. QED
    BY <1>1, <1>2, <1>3, <1>5, <2>1, RecordStep DEF Inv, TypeOK
<1>6. CASE /\ Record(r) /\ allowed' = allowed \cup {NewEvent(r)}
           /\ IsAllowed(CountWith(Pruned(zset, clock[r]), NewEvent(r)))
  <2>1. /\ IsFiniteSet(zset') /\ AllowedAreKept'
    BY <1>1, <1>6, RecordStep
  <2>2. Cardinality(zset') <= Limit
    BY <1>6 DEF Record, IsAllowed, CountWith
  <2> DEFINE after == Since(allowed, now - (Window - MaxDelay))'
  <2>3. after \subseteq zset'
    BY <2>1 DEF AllowedAreKept
  <2>4. Cardinality(after) <= Cardinality(zset')
    BY <2>1, <2>3, FS_Subset
  <2>5. Cardinality(after) \in Nat /\ Cardinality(zset') \in Nat
    BY <2>1, <2>3, FS_Subset, FS_CardinalityType
  <2>6. Cardinality(after) <= Limit
    BY <2>2, <2>4, <2>5, ConfigAssumption
  <2>7. AllowedBounded'
    BY <2>6 DEF AllowedBounded
  <2>8. QED
    BY <1>1, <1>2, <1>3, <1>6, <2>7, RecordStep DEF Inv, TypeOK
<1>7. QED
  BY <1>4, <1>5, <1>6 DEF Check, CheckFails

LEMMA Invariance == Spec => []Inv
<1>1. Inv /\ [Next]_vars => Inv'
  <2> SUFFICES ASSUME Inv, [Next]_vars PROVE Inv'
    OBVIOUS
  <2>1. CASE UNCHANGED vars
    BY <2>1 DEF vars, Inv, TypeOK, Punctual, Waiting, Dated, AllowedAreKept,
       AllowedBounded, Since
  <2>2. QED
    BY <2>1, TickInv, QuietServe, CheckServe DEF Next, Serve
<1>2. QED
  BY <1>1, InitInv, PTL DEF Spec

\* The variables keep their types and the sets stay finite.
THEOREM TypeCorrect == Spec => []TypeOK
<1>1. Inv => TypeOK
  BY DEF Inv
<1>2. QED
  BY <1>1, Invariance, PTL

\* At most Limit messages recorded in any span of Window - MaxDelay seconds are
\* let through, whatever the order in which handlers read clocks and reach Redis.
THEOREM LimitHolds == Spec => []AllowedBounded
<1>1. Inv => AllowedBounded
  BY DEF Inv
<1>2. QED
  BY <1>1, Invariance, PTL

-----------------------------------------------------------------------------
(* The overshoot.  A message adds its event in a turn that a peek admitted *)
(* below the limit; members and turns under way are therefore one sum,     *)
(* which only an admission raises and an event leaves as it is.            *)

LEMMA Sizes ==
    ASSUME TypeOK
    PROVE  /\ IsFiniteSet(InTurn) /\ Cardinality(InTurn) \in Nat
           /\ Cardinality(InTurn) <= Cardinality(Request)
           /\ Cardinality(Request) \in Nat
           /\ Cardinality(zset) \in Nat /\ failedPeeks \in Nat /\ Limit \in Nat
<1>1. InTurn \subseteq Request /\ IsFiniteSet(Request) /\ IsFiniteSet(zset)
  BY ConfigAssumption DEF InTurn, TypeOK
<1>2. QED
  BY <1>1, FS_Subset, FS_CardinalityType, ConfigAssumption DEF TypeOK

\* Fewer members and fewer turns keep the bound.
LEMMA ShrinkingStep ==
    ASSUME TypeOK, OvershootBounded, failedPeeks' = failedPeeks,
           zset' \subseteq zset, InTurn' \subseteq InTurn
    PROVE  OvershootBounded'
<1>1. /\ Cardinality(zset') <= Cardinality(zset)
      /\ Cardinality(InTurn') <= Cardinality(InTurn)
      /\ Cardinality(zset') \in Nat /\ Cardinality(InTurn') \in Nat
  BY Sizes, FS_Subset, FS_CardinalityType DEF TypeOK
<1>2. QED
  BY <1>1, Sizes DEF OvershootBounded

LEMMA OvershootServe ==
    ASSUME TypeOK, TypeOK', OvershootBounded, NEW r \in Request, Serve(r)
    PROVE  OvershootBounded'
<1>1. phase \in [Request -> Phase]
  BY DEF TypeOK
<1>2. CASE StartPeek(r) \/ Refuses(r) \/ LeavesUnchecked(r) \/ StartCheck(r)
  <2>1. zset' \subseteq zset /\ failedPeeks' = failedPeeks
    BY <1>2 DEF StartPeek, Refuses, LeavesUnchecked, StartCheck, Pruned
  <2>2. InTurn' \subseteq InTurn
    BY <1>1, <1>2 DEF StartPeek, Refuses, LeavesUnchecked, StartCheck, InTurn
  <2>3. QED
    BY <2>1, <2>2, ShrinkingStep
<1>3. CASE Admits(r)
  <2>1. Cardinality(zset') < Limit
    <3>1. ~(Cardinality(zset') >= Limit)
      BY <1>3 DEF Admits, PeekAdmits
    <3>2. Cardinality(zset') \in Nat /\ Limit \in Nat
      BY FS_CardinalityType, ConfigAssumption DEF TypeOK
    <3>3. QED
      BY <3>1, <3>2
  <2>2. /\ Cardinality(InTurn') <= Cardinality(Request)
        /\ Cardinality(InTurn') \in Nat /\ Cardinality(zset') \in Nat
        /\ failedPeeks' \in Nat
    <3>1. InTurn' \subseteq Request /\ IsFiniteSet(Request) /\ IsFiniteSet(zset')
      BY ConfigAssumption DEF InTurn, TypeOK
    <3>2. QED
      BY <3>1, FS_Subset, FS_CardinalityType DEF TypeOK
  <2>3. QED
    BY <2>1, <2>2, Sizes DEF OvershootBounded
<1>4. CASE PeekFails(r)
  <2>1. InTurn' = InTurn \cup {r} /\ failedPeeks' = failedPeeks + 1
    BY <1>1, <1>4 DEF PeekFails, InTurn
  <2>2. zset' \subseteq zset
    BY <1>4 DEF PeekFails, Pruned
  <2>3. /\ Cardinality(InTurn') <= Cardinality(InTurn) + 1
        /\ Cardinality(InTurn') \in Nat
    <3>1. \/ Cardinality(InTurn') = Cardinality(InTurn)
          \/ Cardinality(InTurn') = Cardinality(InTurn) + 1
      BY <2>1, Sizes, FS_AddElement
    <3>2. QED
      BY <3>1, Sizes
  <2>4. /\ Cardinality(zset') <= Cardinality(zset)
        /\ Cardinality(zset') \in Nat
    BY <2>2, FS_Subset, FS_CardinalityType DEF TypeOK
  <2>5. QED
    BY <2>1, <2>3, <2>4, Sizes DEF OvershootBounded
<1>5. ASSUME Check(r) \/ CheckFails(r) PROVE OvershootBounded'
  <2>1. /\ InTurn' = InTurn \ {r} /\ r \in InTurn
        /\ failedPeeks' = failedPeeks
    BY <1>1, <1>5 DEF Check, CheckFails, InTurn
  <2>2. /\ Cardinality(InTurn') = Cardinality(InTurn) - 1
        /\ Cardinality(InTurn') \in Nat
    BY <2>1, Sizes, FS_RemoveElement, FS_CardinalityType
  <2>3. CASE zset' = zset
    BY <2>1, <2>3, ShrinkingStep
  <2>4. CASE Record(r)
    <3>1. zset' = Pruned(zset, clock[r]) \cup {NewEvent(r)}
      BY <2>4 DEF Record
    <3>2. /\ IsFiniteSet(Pruned(zset, clock[r]))
          /\ Cardinality(Pruned(zset, clock[r])) <= Cardinality(zset)
          /\ Cardinality(Pruned(zset, clock[r])) \in Nat
      BY PrunedSubset DEF TypeOK
    <3>3. /\ Cardinality(zset') <= Cardinality(zset) + 1
          /\ Cardinality(zset') \in Nat
      <4>1. \/ Cardinality(zset') = Cardinality(Pruned(zset, clock[r]))
            \/ Cardinality(zset') = Cardinality(Pruned(zset, clock[r])) + 1
        BY <3>1, <3>2, FS_AddElement
      <4>2. QED
        BY <3>2, <4>1, Sizes
    <3>4. QED
      BY <2>1, <2>2, <3>3, Sizes DEF OvershootBounded
  <2>5. QED
    BY <1>5, <2>3, <2>4 DEF Check, CheckFails
<1>6. QED
  BY <1>2, <1>3, <1>4, <1>5 DEF Serve

\* Concurrent turns push the key past the limit by at most one event per handler
\* and one per peek that Redis failed.
THEOREM OvershootHolds == Spec => []OvershootBounded
<1>1. Init => OvershootBounded
  <2> SUFFICES ASSUME Init PROVE OvershootBounded
    OBVIOUS
  <2>1. zset = {} /\ InTurn = {} /\ failedPeeks = 0
    BY DEF Init, InTurn
  <2>2. Cardinality(Request) \in Nat
    BY FS_CardinalityType, ConfigAssumption
  <2>3. Cardinality(Request) >= 1
    BY <2>2, FS_EmptySet, ConfigAssumption
  <2>4. QED
    BY <2>1, <2>2, <2>3, FS_EmptySet, ConfigAssumption DEF OvershootBounded
<1>2. TypeOK /\ TypeOK' /\ OvershootBounded /\ [Next]_vars => OvershootBounded'
  <2> SUFFICES ASSUME TypeOK, TypeOK', OvershootBounded, [Next]_vars
               PROVE  OvershootBounded'
    OBVIOUS
  <2>1. CASE Tick
    <3>1. zset' \subseteq zset /\ failedPeeks' = failedPeeks /\ InTurn' = InTurn
      BY <2>1 DEF Tick, InTurn
    <3>2. QED
      BY <3>1, ShrinkingStep
  <2>2. CASE UNCHANGED vars
    BY <2>2, ShrinkingStep DEF vars, InTurn
  <2>3. QED
    BY <2>1, <2>2, OvershootServe DEF Next
<1>3. QED
  BY <1>1, <1>2, TypeCorrect, PTL DEF Spec

\* A 429 is only given to a user of whom a full limit of messages was recorded
\* within the last window and delay.
THEOREM RefusalsAreJustified == Spec => RefusalsJustified
<1> DEFINE recent == Since(recorded, now - (Window + MaxDelay))
           Justified == \A r \in Request : Refuses(r) => Cardinality(recent) >= Limit
<1>1. ASSUME Inv, NEW r \in Request, Refuses(r)
      PROVE  Cardinality(recent) >= Limit
  <2>1. /\ clock[r] \in Nat /\ now \in Nat /\ now - clock[r] <= MaxDelay
    BY <1>1 DEF Refuses, Inv, TypeOK, Punctual, Waiting
  <2>2. zset' \subseteq recent
    <3> SUFFICES ASSUME NEW e \in Pruned(zset, clock[r])
                 PROVE  e \in recorded /\ e.at > now - (Window + MaxDelay)
      BY <1>1 DEF Refuses, Since
    <3>1. /\ e \in recorded /\ e.at \in Nat /\ e.score \in Nat
          /\ e.score <= e.at /\ e.score > clock[r] - Window
      BY <1>1 DEF Inv, TypeOK, Dated, Pruned, Event
    <3>2. QED
      BY <2>1, <3>1, ConfigAssumption
  <2>3. IsFiniteSet(recent) /\ IsFiniteSet(zset')
    BY <1>1, <2>2, FS_Subset DEF Since, Inv, TypeOK
  <2>4. /\ Cardinality(zset') <= Cardinality(recent)
        /\ Cardinality(zset') \in Nat /\ Cardinality(recent) \in Nat
    BY <2>2, <2>3, FS_Subset, FS_CardinalityType
  <2>5. Cardinality(zset') >= Limit
    BY <1>1 DEF Refuses, PeekAdmits
  <2>6. QED
    BY <2>4, <2>5, ConfigAssumption
<1>2. Inv => [Justified]_vars
  BY <1>1
<1>3. Spec => [][Justified]_vars
  BY <1>2, Invariance, PTL
<1>4. QED
  BY <1>3 DEF RefusalsJustified

-----------------------------------------------------------------------------
(* The promise.  Its guards are about sets the limiter never looks at: an  *)
(* allowed event within Window - MaxDelay is in the key, and an event in   *)
(* the key is within Window + MaxDelay.                                    *)

\* The uuid: a new event is none of those there are.
Numbered == \A e \in recorded : e.id < Cardinality(recorded)

LEMMA NewIsNew ==
    ASSUME Inv, Numbered, NEW r \in Request, phase[r] = "checking"
    PROVE  /\ NewEvent(r) \notin recorded /\ NewEvent(r).at = now
           /\ Cardinality(recorded) \in Nat
           /\ Cardinality(recorded \cup {NewEvent(r)}) = Cardinality(recorded) + 1
<1>1. IsFiniteSet(recorded) /\ Cardinality(recorded) \in Nat
  BY FS_CardinalityType DEF Inv, TypeOK
<1>2. NewEvent(r).id = Cardinality(recorded) /\ NewEvent(r).at = now
  BY DEF NewEvent
<1>3. NewEvent(r) \notin recorded
  BY <1>1, <1>2 DEF Numbered
<1>4. QED
  BY <1>1, <1>2, <1>3, FS_AddElement

LEMMA NumberedInvariant == Spec => []Numbered
<1>1. Init => Numbered
  BY DEF Init, Numbered
<1>2. Inv /\ Numbered /\ [Next]_vars => Numbered'
  <2> SUFFICES ASSUME Inv, Numbered, [Next]_vars PROVE Numbered'
    OBVIOUS
  <2>1. CASE recorded' = recorded
    BY <2>1 DEF Numbered
  <2>2. ASSUME NEW r \in Request, phase[r] = "checking", Record(r) PROVE Numbered'
    <3> DEFINE new == NewEvent(r)
               n == Cardinality(recorded)
    <3>1. n \in Nat /\ recorded' = recorded \cup {new} /\ Cardinality(recorded') = n + 1
      BY <2>2, NewIsNew DEF Record
    <3>2. new.id = n
      BY DEF NewEvent
    <3>3. \A e \in recorded : e.id < n /\ e.id \in Nat
      BY DEF Numbered, Inv, TypeOK, Event
    <3> HIDE DEF new, n
    <3>4. \A e \in recorded' : e.id < n + 1
      BY <3>1, <3>2, <3>3
    <3>5. QED
      BY <3>1, <3>4 DEF Numbered
  <2>3. QED
    BY <2>1, <2>2 DEF Next, Tick, Serve, StartPeek, Refuses, Admits, PeekFails,
       LeavesUnchecked, StartCheck, Check, CheckFails, vars
<1>3. QED
  BY <1>1, <1>2, Invariance, PTL DEF Spec

\* Both modules count alike.
LEMMA SameCardinality == \A S : Promised!Cardinality(S) = Cardinality(S)
BY DEF Promised!Cardinality, Cardinality

\* What is in the key when a handler prunes it came within Window + MaxDelay.
LEMMA KeyIsRecent ==
    ASSUME Inv, NEW r \in Waiting
    PROVE  /\ Promised!Within(recorded, Window + MaxDelay) \in Nat
           /\ Cardinality(Pruned(zset, clock[r])) <= Promised!Within(recorded, Window + MaxDelay)
<1> DEFINE recent == {m \in recorded : m.at > now - (Window + MaxDelay)}
<1>1. /\ r \in Request /\ clock[r] \in Nat /\ now \in Nat /\ now - clock[r] <= MaxDelay
  BY DEF Inv, TypeOK, Punctual, Waiting
<1>2. Pruned(zset, clock[r]) \subseteq recent
  <2> SUFFICES ASSUME NEW e \in Pruned(zset, clock[r])
               PROVE  e \in recorded /\ e.at > now - (Window + MaxDelay)
    OBVIOUS
  <2>1. /\ e \in recorded /\ e.at \in Nat /\ e.score \in Nat
        /\ e.score <= e.at /\ e.score > clock[r] - Window
    BY DEF Inv, TypeOK, Dated, Pruned, Event
  <2>2. QED
    BY <1>1, <2>1, ConfigAssumption
<1>3. IsFiniteSet(recent)
  BY FS_Subset DEF Inv, TypeOK
<1>4. Cardinality(Pruned(zset, clock[r])) <= Cardinality(recent)
  BY <1>2, <1>3, FS_Subset
<1>5. Cardinality(recent) \in Nat
  BY <1>3, FS_CardinalityType
<1>6. Promised!Within(recorded, Window + MaxDelay) = Cardinality(recent)
  BY SameCardinality DEF Promised!Within
<1>7. QED
  BY <1>4, <1>5, <1>6

\* What a handler finds in the key is at least what has passed within
\* Window - MaxDelay.
LEMMA KeyHoldsThePassed ==
    ASSUME Inv, NEW r \in Request
    PROVE  /\ Promised!Within(allowed, Window - MaxDelay) \in Nat
           /\ Promised!Within(allowed, Window - MaxDelay)
                <= Cardinality(Pruned(zset, clock[r]))
<1> DEFINE late == {m \in allowed : m.at > now - (Window - MaxDelay)}
<1>1. late \subseteq Pruned(zset, clock[r])
  BY PruningKeeps DEF Since
<1>2. IsFiniteSet(Pruned(zset, clock[r]))
  BY PrunedSubset DEF Inv, TypeOK
<1>3. IsFiniteSet(late) /\ Cardinality(late) <= Cardinality(Pruned(zset, clock[r]))
  BY <1>1, <1>2, FS_Subset
<1>4. Cardinality(late) \in Nat
  BY <1>3, FS_CardinalityType
<1>5. Promised!Within(allowed, Window - MaxDelay) = Cardinality(late)
  BY SameCardinality DEF Promised!Within
<1>6. QED
  BY <1>3, <1>4, <1>5

PromiseState ==
    <<now, [r \in Request |-> Place(phase[r])], recorded, allowed, denied, failedPeeks>>

\* A handler moves, and the other handlers' places stay.
LEMMA Moving ==
    ASSUME TypeOK, NEW r \in Request, NEW p \in Phase, now' = now,
           phase' = [phase EXCEPT ![r] = p]
    PROVE  Promised!Moves(r, Place(phase[r]), Place(p))
<1> DEFINE before == [q \in Request |-> Place(phase[q])]
           after == [q \in Request |-> Place(phase'[q])]
<1>1. before[r] = Place(phase[r])
  OBVIOUS
<1>2. \A q \in Request : phase'[q] = IF q = r THEN p ELSE phase[q]
  BY DEF TypeOK
<1> HIDE DEF after, before
<1>3. after = [before EXCEPT ![r] = Place(p)]
  <2>1. \A q \in Request : Place(phase'[q]) = IF q = r THEN Place(p) ELSE Place(phase[q])
    BY <1>2
  <2>2. [before EXCEPT ![r] = Place(p)]
          = [q \in Request |-> IF q = r THEN Place(p) ELSE Place(phase[q])]
    BY DEF before
  <2>3. QED
    BY <2>1, <2>2 DEF after
<1>4. QED
  BY <1>1, <1>3 DEF Promised!Moves, Place, before, after

LEMMA Places ==
    /\ Place("idle") = "away" /\ Place("peeking") = "door"
    /\ Place("admitted") = "inside" /\ Place("checking") = "inside"
BY DEF Place

\* What a check makes of its message.
LEMMA CheckPromise ==
    ASSUME Inv, Numbered, NEW r \in Request, Check(r) \/ CheckFails(r)
    PROVE  Promised!Next
<1> DEFINE new == NewEvent(r)
           kept == Pruned(zset, clock[r])
<1>1. /\ phase[r] = "checking" /\ Promised!Moves(r, "inside", "away")
      /\ failedPeeks' = failedPeeks
  <2>1. /\ phase[r] = "checking" /\ now' = now /\ phase' = [phase EXCEPT ![r] = "idle"]
        /\ failedPeeks' = failedPeeks
    BY DEF Check, CheckFails
  <2>2. TypeOK /\ "idle" \in Phase
    BY DEF Inv, Phase
  <2>3. Promised!Moves(r, Place(phase[r]), Place("idle"))
    BY <2>1, <2>2, Moving
  <2>4. QED
    BY <2>1, <2>3, Places
<1>2. /\ new \notin recorded /\ new.at = now
  BY <1>1, NewIsNew
<1>3. ASSUME Record(r) PROVE Promised!Takes(new) /\ new \in recorded'
  BY <1>2, <1>3 DEF Record, Promised!Takes
<1>4. /\ IsFiniteSet(kept) /\ Cardinality(kept) \in Nat /\ new \notin kept
      /\ Limit \in Nat
  BY <1>2, PrunedSubset, ConfigAssumption DEF Inv, TypeOK, Dated, Pruned
<1>5. CountWith(kept, new) = Cardinality(kept) + 1
  BY <1>4, FS_AddElement DEF CountWith
<1>6. CASE Check(r) /\ IsAllowed(CountWith(kept, new))
  <2>1. Promised!MayPass
    <3>1. Cardinality(kept) + 1 <= Limit
      BY <1>5, <1>6 DEF IsAllowed
    <3>2. QED
      BY <1>4, <3>1, KeyHoldsThePassed DEF Promised!MayPass
  <2>2. Record(r) /\ allowed' = allowed \cup {new} /\ denied' = denied
    BY <1>6 DEF Check
  <2>3. Promised!Pass(r, new) /\ new \in recorded'
    BY <1>1, <1>3, <2>1, <2>2 DEF Promised!Pass
  <2>4. QED
    BY <2>3 DEF Promised!Next
<1>7. CASE Check(r) /\ ~IsAllowed(CountWith(kept, new))
  <2>1. Promised!MayBeHeldUp
    <3>1. Cardinality(kept) >= Limit
      BY <1>4, <1>5, <1>7 DEF IsAllowed
    <3>2. Cardinality(kept) <= Promised!Within(recorded, Window + MaxDelay)
      BY <1>1, KeyIsRecent DEF Waiting
    <3>3. Promised!Within(recorded, Window + MaxDelay) \in Nat
      BY <1>1, KeyIsRecent DEF Waiting
    <3>4. QED
      BY <1>4, <3>1, <3>2, <3>3 DEF Promised!MayBeHeldUp
  <2>2. Record(r) /\ allowed' = allowed /\ denied' = denied \cup {new}
    BY <1>7 DEF Check
  <2>3. Promised!HoldUp(r, new) /\ new \in recorded'
    BY <1>1, <1>3, <2>1, <2>2 DEF Promised!HoldUp
  <2>4. QED
    BY <2>3 DEF Promised!Next
<1>8. CASE CheckFails(r)
  <2>1. allowed' = allowed /\ denied' = denied /\ (Record(r) \/ recorded' = recorded)
    BY <1>8 DEF CheckFails
  <2>2. Promised!Leave(r)
    BY <1>1, <1>3, <2>1 DEF Promised!Leave
  <2>3. QED
    BY <2>2 DEF Promised!Next
<1>9. QED
  BY <1>6, <1>7, <1>8

\* What the API and the turn make of a message.
LEMMA ServePromise ==
    ASSUME Inv, NEW r \in Request,
           StartPeek(r) \/ Refuses(r) \/ Admits(r) \/ PeekFails(r)
             \/ LeavesUnchecked(r) \/ StartCheck(r)
    PROVE  Promised!Next \/ UNCHANGED PromiseState
<1>1. /\ UNCHANGED <<now, recorded, allowed, denied>> /\ TypeOK
      /\ {"idle", "peeking", "admitted", "checking"} = Phase
  BY DEF StartPeek, Refuses, Admits, PeekFails, LeavesUnchecked, StartCheck, Inv, Phase
<1>2. CASE StartPeek(r)
  <2>1. phase[r] = "idle" /\ phase' = [phase EXCEPT ![r] = "peeking"] /\ failedPeeks' = failedPeeks
    BY <1>2 DEF StartPeek
  <2>2. Promised!Moves(r, "away", "door")
    BY <1>1, <2>1, Moving, Places
  <2>3. QED
    BY <1>1, <2>1, <2>2 DEF Promised!Arrive, Promised!Next
<1>3. CASE Refuses(r)
  <2>1. /\ phase[r] = "peeking" /\ phase' = [phase EXCEPT ![r] = "idle"] /\ failedPeeks' = failedPeeks
        /\ Cardinality(Pruned(zset, clock[r])) >= Limit
    BY <1>3 DEF Refuses, PeekAdmits
  <2>2. Promised!Moves(r, "door", "away")
    BY <1>1, <2>1, Moving, Places
  <2>3. Promised!MayBeHeldUp
    <3>1. Cardinality(Pruned(zset, clock[r])) <= Promised!Within(recorded, Window + MaxDelay)
      BY <2>1, KeyIsRecent DEF Waiting
    <3>2. Promised!Within(recorded, Window + MaxDelay) \in Nat
      BY <2>1, KeyIsRecent DEF Waiting
    <3>3. Cardinality(Pruned(zset, clock[r])) \in Nat /\ Limit \in Nat
      BY PrunedSubset, ConfigAssumption DEF Inv, TypeOK
    <3>4. QED
      BY <2>1, <3>1, <3>2, <3>3 DEF Promised!MayBeHeldUp
  <2>4. QED
    BY <1>1, <2>1, <2>2, <2>3 DEF Promised!TurnAway, Promised!Next
<1>4. CASE Admits(r)
  <2>1. /\ phase[r] = "peeking" /\ phase' = [phase EXCEPT ![r] = "admitted"] /\ failedPeeks' = failedPeeks
        /\ ~(Cardinality(Pruned(zset, clock[r])) >= Limit)
    BY <1>4 DEF Admits, PeekAdmits
  <2>2. Promised!Moves(r, "door", "inside")
    BY <1>1, <2>1, Moving, Places
  <2>3. Promised!MayPass
    <3>1. Cardinality(Pruned(zset, clock[r])) \in Nat /\ Limit \in Nat
      BY PrunedSubset, ConfigAssumption DEF Inv, TypeOK
    <3>2. QED
      BY <2>1, <3>1, KeyHoldsThePassed DEF Promised!MayPass
  <2>4. QED
    BY <1>1, <2>1, <2>2, <2>3 DEF Promised!Enter, Promised!Next
<1>5. CASE PeekFails(r)
  <2>1. /\ phase[r] = "peeking" /\ phase' = [phase EXCEPT ![r] = "admitted"]
        /\ failedPeeks' = failedPeeks + 1
    BY <1>5 DEF PeekFails
  <2>2. Promised!Moves(r, "door", "inside")
    BY <1>1, <2>1, Moving, Places
  <2>3. QED
    BY <1>1, <2>1, <2>2 DEF Promised!EnterUnseen, Promised!Next
<1>6. CASE LeavesUnchecked(r)
  <2>1. phase[r] = "admitted" /\ phase' = [phase EXCEPT ![r] = "idle"] /\ failedPeeks' = failedPeeks
    BY <1>6 DEF LeavesUnchecked
  <2>2. Promised!Moves(r, "inside", "away")
    BY <1>1, <2>1, Moving, Places
  <2>3. QED
    BY <1>1, <2>1, <2>2 DEF Promised!Leave, Promised!Next
<1>7. CASE StartCheck(r)
  <2>1. phase[r] = "admitted" /\ phase' = [phase EXCEPT ![r] = "checking"] /\ failedPeeks' = failedPeeks
    BY <1>7 DEF StartCheck
  <2>2. \A q \in Request : Place(phase'[q]) = Place(phase[q])
    BY <1>1, <2>1, Places DEF TypeOK
  <2>3. QED
    BY <1>1, <2>1, <2>2 DEF PromiseState
<1>8. QED
  BY <1>2, <1>3, <1>4, <1>5, <1>6, <1>7

LEMMA PromiseStep == Inv /\ Numbered /\ [Next]_vars => [Promised!Next]_PromiseState
<1> SUFFICES ASSUME Inv, Numbered, [Next]_vars
             PROVE  Promised!Next \/ UNCHANGED PromiseState
  OBVIOUS
<1>1. CASE Tick
  BY <1>1 DEF Tick, Promised!Time, Promised!Next
<1>2. CASE UNCHANGED vars
  BY <1>2 DEF vars, PromiseState
<1>3. CASE \E r \in Request : Serve(r)
  BY <1>3, CheckPromise, ServePromise DEF Serve
<1>4. QED
  BY <1>1, <1>2, <1>3 DEF Next

\* In whatever order handlers read their clocks and reach Redis, and wherever
\* Redis fails, the limiter is a window with a tolerance of MaxDelay: each
\* message counts once, passes only below the limit, and is held up, by the API
\* or by the guardrail, only at it.
THEOREM LimiterImplementsItsWindow == Spec => LimiterKeepsItsWindow
<1>1. Init => Promised!Init
  BY Places DEF Init, Promised!Init
<1>2. Inv /\ Numbered /\ [Next]_vars => [Promised!Next]_(Promised!limitVars)
  BY PromiseStep DEF PromiseState, Promised!limitVars
<1>3. QED
  BY <1>1, <1>2, Invariance, NumberedInvariant, PTL
  DEF Spec, LimiterKeepsItsWindow, Promised!Spec

==============================================================================
