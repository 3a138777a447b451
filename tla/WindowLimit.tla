----------------------------- MODULE WindowLimit -----------------------------
(***************************************************************************)
(* What a limiter on messages promises its users, with a tolerance: no     *)
(* message is let through when Limit others were within the last Short     *)
(* seconds, and none is held up, at the door or inside, unless Limit       *)
(* messages, held up or not, came within the last Long seconds.  A limiter *)
(* that is out of order holds up nobody.                                   *)
(***************************************************************************)
EXTENDS Integers, FiniteSets

CONSTANTS Request, Limit, Short, Long

VARIABLES
    now,
    place,     \* where each request is: "away", "door" or "inside"
    taken,     \* every message that was counted
    passed,    \* those that were let through by the count
    held,      \* those that were held up inside
    unseen     \* requests let in at the door without a look

limitVars == <<now, place, taken, passed, held, unseen>>

Within(messages, seconds) == Cardinality({m \in messages : m.at > now - seconds})

MayPass == Within(passed, Short) < Limit

MayBeHeldUp == Within(taken, Long) >= Limit

Moves(r, from, to) ==
    /\ place[r] = from
    /\ place' = [place EXCEPT ![r] = to]
    /\ UNCHANGED now

\* Each message counts once.
Takes(m) ==
    /\ m \notin taken /\ m.at = now
    /\ taken' = taken \cup {m}

Init ==
    /\ now = 0
    /\ place = [r \in Request |-> "away"]
    /\ taken = {} /\ passed = {} /\ held = {} /\ unseen = 0

Time == now' = now + 1 /\ UNCHANGED <<place, taken, passed, held, unseen>>

Arrive(r) == Moves(r, "away", "door") /\ UNCHANGED <<taken, passed, held, unseen>>

TurnAway(r) ==
    /\ Moves(r, "door", "away") /\ MayBeHeldUp
    /\ UNCHANGED <<taken, passed, held, unseen>>

Enter(r) ==
    /\ Moves(r, "door", "inside") /\ MayPass
    /\ UNCHANGED <<taken, passed, held, unseen>>

EnterUnseen(r) ==
    /\ Moves(r, "door", "inside") /\ unseen' = unseen + 1
    /\ UNCHANGED <<taken, passed, held>>

Pass(r, m) ==
    /\ Moves(r, "inside", "away") /\ Takes(m) /\ MayPass
    /\ passed' = passed \cup {m}
    /\ UNCHANGED <<held, unseen>>

HoldUp(r, m) ==
    /\ Moves(r, "inside", "away") /\ Takes(m) /\ MayBeHeldUp
    /\ held' = held \cup {m}
    /\ UNCHANGED <<passed, unseen>>

\* The limiter is out of order, before or after it has counted the message, or
\* the request ends before it is counted.
Leave(r) ==
    /\ Moves(r, "inside", "away")
    /\ UNCHANGED taken \/ \E m \in taken' : Takes(m)
    /\ UNCHANGED <<passed, held, unseen>>

Next ==
    \/ Time
    \/ \E r \in Request :
           \/ Arrive(r) \/ TurnAway(r) \/ Enter(r) \/ EnterUnseen(r) \/ Leave(r)
           \/ \E m \in taken' : Pass(r, m) \/ HoldUp(r, m)

Spec == Init /\ [][Next]_limitVars

=============================================================================
