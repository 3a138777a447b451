----------------------------- MODULE RateLimiter -----------------------------
(***************************************************************************)
(* The per-user sliding-window limiter on messages: one Redis sorted set,  *)
(* looked at by the API before a turn (peek) and written by the input      *)
(* guardrail inside the turn (check).  Each handler reads its clock first  *)
(* and sends the pipeline afterwards; Redis runs a pipeline atomically, in *)
(* the order of arrival and not of the clocks.  Both calls fail open.      *)
(***************************************************************************)
EXTENDS Integers, FiniteSets

CONSTANTS
    Request,     \* the handlers that may serve messages of this user at once
    Limit,       \* settings.rate_limit_messages_per_minute
    Window,      \* window_seconds
    Slack,       \* what EXPIRE adds to the window
    MaxDelay,    \* bound: seconds from reading the clock to Redis' execution
    MaxTime,     \* bound: when the model stops the clock
    MaxEvents,   \* bound: events recorded before no new message arrives
    MaxFailures  \* bound: peeks Redis fails

ASSUME ConfigAssumption ==
    /\ IsFiniteSet(Request) /\ Request # {}
    /\ Limit \in Nat \ {0} /\ Window \in Nat \ {0} /\ Slack \in Nat
    /\ MaxDelay \in Nat /\ MaxDelay < Window
    /\ MaxTime \in Nat /\ MaxEvents \in Nat /\ MaxFailures \in Nat

VARIABLES
    now,         \* the wall clock
    zset,        \* the members of the user's key
    expiry,      \* when Redis drops the key
    phase,       \* where each request is
    clock,       \* the time.time() each request has read
    \* History variables: no guard reads them.
    recorded,    \* every event Redis ever took
    allowed,     \* those whose check answered is_allowed = True
    denied,      \* those whose check answered False
    failedPeeks  \* peeks that admitted a message because Redis failed

vars == <<now, zset, expiry, phase, clock, recorded, allowed, denied, failedPeeks>>

\* A member: its score, and (history) when Redis took it and its number, which
\* stands for the uuid.
Event == [score : Nat, at : Nat, id : Nat]

Phase == {"idle", "peeking", "admitted", "checking"}

Waiting == {r \in Request : phase[r] \in {"peeking", "checking"}}

InTurn == {r \in Request : phase[r] \in {"admitted", "checking"}}

-----------------------------------------------------------------------------
\* Mutants: nothing is pruned; the key lives shorter than the window.
NeverPruned(members, t) == members

KeyTtlShort == Window - MaxDelay - 1

\* zremrangebyscore(key, "-inf", t - window).
Pruned(members, t) == {e \in members : e.score > t - Window}

\* expire(key, window + 5).
KeyTtl == Window + Slack

\* Mutant: zcard before zadd.
CountBeforeAdd(members, event) == Cardinality(members)

CountWith(members, event) == Cardinality(members \cup {event})

\* Mutant: < instead of <= in the answer.
IsAllowedBelow(count) == count < Limit

IsAllowed(count) == count <= Limit

\* Mutant: > instead of >= in the API's early refusal.
PeekAdmitsAtLimit(count) == ~(count > Limit)

PeekAdmits(count) == ~(count >= Limit)

Init ==
    /\ now = 0 /\ zset = {} /\ expiry = 0
    /\ phase = [r \in Request |-> "idle"]
    /\ clock = [r \in Request |-> 0]
    /\ recorded = {} /\ allowed = {} /\ denied = {} /\ failedPeeks = 0

\* Time passes; a key whose time has come is gone.  No pipeline is under way
\* for longer than MaxDelay.
Tick ==
    /\ now < MaxTime
    /\ \A r \in Waiting : now - clock[r] < MaxDelay
    /\ now' = now + 1
    /\ zset' = IF now' >= expiry THEN {} ELSE zset
    /\ UNCHANGED <<expiry, phase, clock, recorded, allowed, denied, failedPeeks>>

\* A message arrives: _enforce_message_rate_limit, or its copy in the WebSocket
\* loop, calls peek, which reads the clock.
StartPeek(r) ==
    /\ phase[r] = "idle"
    /\ Cardinality(recorded) < MaxEvents
    /\ phase' = [phase EXCEPT ![r] = "peeking"]
    /\ clock' = [clock EXCEPT ![r] = now]
    /\ UNCHANGED <<now, zset, expiry, recorded, allowed, denied, failedPeeks>>

\* Redis runs the peek; over the limit the client gets a 429 and the message
\* is not recorded.
Refuses(r) ==
    /\ phase[r] = "peeking"
    /\ zset' = Pruned(zset, clock[r])
    /\ ~PeekAdmits(Cardinality(zset'))
    /\ phase' = [phase EXCEPT ![r] = "idle"]
    /\ UNCHANGED <<now, expiry, clock, recorded, allowed, denied, failedPeeks>>

Admits(r) ==
    /\ phase[r] = "peeking"
    /\ zset' = Pruned(zset, clock[r])
    /\ PeekAdmits(Cardinality(zset'))
    /\ phase' = [phase EXCEPT ![r] = "admitted"]
    /\ UNCHANGED <<now, expiry, clock, recorded, allowed, denied, failedPeeks>>

\* RedisError, before or after the pipeline ran: peek returns 0.
PeekFails(r) ==
    /\ phase[r] = "peeking"
    /\ failedPeeks < MaxFailures
    /\ zset' \in {zset, Pruned(zset, clock[r])}
    /\ phase' = [phase EXCEPT ![r] = "admitted"]
    /\ failedPeeks' = failedPeeks + 1
    /\ UNCHANGED <<now, expiry, clock, recorded, allowed, denied>>

\* The turn ends before the check: the history query failed, or the message
\* was too long for the guardrail.
LeavesUnchecked(r) ==
    /\ phase[r] = "admitted"
    /\ phase' = [phase EXCEPT ![r] = "idle"]
    /\ UNCHANGED <<now, zset, expiry, clock, recorded, allowed, denied, failedPeeks>>

StartCheck(r) ==
    /\ phase[r] = "admitted"
    /\ phase' = [phase EXCEPT ![r] = "checking"]
    /\ clock' = [clock EXCEPT ![r] = now]
    /\ UNCHANGED <<now, zset, expiry, recorded, allowed, denied, failedPeeks>>

NewEvent(r) == [score |-> clock[r], at |-> now, id |-> Cardinality(recorded)]

\* zremrangebyscore, zadd, zcard, expire in one pipeline: every event counts,
\* also the one that is refused.
Record(r) ==
    /\ zset' = Pruned(zset, clock[r]) \cup {NewEvent(r)}
    /\ recorded' = recorded \cup {NewEvent(r)}
    /\ expiry' = now + KeyTtl

Check(r) ==
    /\ phase[r] = "checking"
    /\ Record(r)
    /\ IF IsAllowed(CountWith(Pruned(zset, clock[r]), NewEvent(r)))
         THEN allowed' = allowed \cup {NewEvent(r)} /\ UNCHANGED denied
         ELSE denied' = denied \cup {NewEvent(r)} /\ UNCHANGED allowed
    /\ phase' = [phase EXCEPT ![r] = "idle"]
    /\ UNCHANGED <<now, clock, failedPeeks>>

\* RedisError, before or after the pipeline ran: (True, 0).
CheckFails(r) ==
    /\ phase[r] = "checking"
    /\ Record(r) \/ UNCHANGED <<zset, recorded, expiry>>
    /\ phase' = [phase EXCEPT ![r] = "idle"]
    /\ UNCHANGED <<now, clock, allowed, denied, failedPeeks>>

Serve(r) ==
    \/ StartPeek(r) \/ Refuses(r) \/ Admits(r) \/ PeekFails(r)
    \/ LeavesUnchecked(r) \/ StartCheck(r) \/ Check(r) \/ CheckFails(r)

Next == Tick \/ \E r \in Request : Serve(r)

Spec == Init /\ [][Next]_vars

-----------------------------------------------------------------------------
(* What the limiter promises.                                              *)

TypeOK ==
    /\ now \in Nat /\ expiry \in Nat /\ failedPeeks \in Nat
    /\ zset \subseteq Event /\ recorded \subseteq Event /\ allowed \subseteq Event
    /\ denied \subseteq Event
    /\ IsFiniteSet(zset) /\ IsFiniteSet(recorded)
    /\ phase \in [Request -> Phase]
    /\ clock \in [Request -> Nat]

Since(events, t) == {e \in events : e.at > t}

\* An allowed event that may still matter is still in the key: neither the
\* pruning of a handler whose clock runs ahead nor the key's expiry takes it.
AllowedAreKept == Since(allowed, now - (Window - MaxDelay)) \subseteq zset

\* The limit holds although clocks are read before the pipelines run and
\* pipelines run in any order: whatever span of Window - MaxDelay seconds ends
\* now, at most Limit messages recorded in it were allowed.
AllowedBounded ==
    Cardinality(Since(allowed, now - (Window - MaxDelay))) <= Limit

\* Peek and check are two calls, so concurrent turns overshoot the limit in
\* the key, by at most one event per handler and one per peek Redis failed.
OvershootBounded ==
    Cardinality(zset) + Cardinality(InTurn)
        <= Limit + Cardinality(Request) - 1 + failedPeeks

\* A message is refused with 429 only while as many messages as the limit
\* counts were recorded in the last window (and delay): a user who pauses
\* for that long is never locked out, however often it was refused before.
RefusalsJustified ==
    [][\A r \in Request : Refuses(r) =>
         Cardinality(Since(recorded, now - (Window + MaxDelay))) >= Limit]_vars

-----------------------------------------------------------------------------
(* The promise that the limiter keeps: clocks, pipelines, pruning, expiry  *)
(* and the key are gone, and what they cost is a tolerance of MaxDelay at  *)
(* both ends of the window.                                                *)

Place(p) ==
    CASE p = "idle" -> "away"
      [] p = "peeking" -> "door"
      [] p \in {"admitted", "checking"} -> "inside"

Promised == INSTANCE WindowLimit WITH
    Short <- Window - MaxDelay, Long <- Window + MaxDelay,
    place <- [r \in Request |-> Place(phase[r])],
    taken <- recorded, passed <- allowed, held <- denied, unseen <- failedPeeks

\* Every message counts once; it passes only while fewer than Limit have in the
\* last Window - MaxDelay seconds, and neither the API nor the guardrail holds
\* one up unless Limit came in the last Window + MaxDelay, or lets one in
\* unseen but for a failed peek.
LimiterKeepsItsWindow == Promised!Spec

==============================================================================
