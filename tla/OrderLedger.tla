----------------------------- MODULE OrderLedger -----------------------------
(***************************************************************************)
(* What the write tools promise about one order.  A request takes effect   *)
(* at most once and all at once, at some moment after the order qualified  *)
(* for it and before its answer; it is told "ok" only if it has, and is    *)
(* refused only if it has not; of an "unknown" answer nothing follows; and *)
(* no effect is ever undone.  Nothing is promised about the order's status *)
(* at the moment of the effect: it may have moved on since it qualified.   *)
(***************************************************************************)
CONSTANTS Requests, Statuses, Cancellable, Refundable

VARIABLES
    order,   \* the order's status
    wants,   \* what each request asks for: "cancel", "refund", or "nothing" yet
    stage,   \* "new", "open", "qualified" or "closed"
    done,    \* the requests that have taken effect
    told     \* what each was answered, or "nothing"

ledgerVars == <<order, wants, stage, done, told>>

Init ==
    /\ order \in Statuses
    /\ wants = [r \in Requests |-> "nothing"]
    /\ stage = [r \in Requests |-> "new"]
    /\ done = {}
    /\ told = [r \in Requests |-> "nothing"]

Ask(r, want) ==
    /\ stage[r] = "new"
    /\ wants' = [wants EXCEPT ![r] = want]
    /\ stage' = [stage EXCEPT ![r] = "open"]
    /\ UNCHANGED <<order, done, told>>

\* Refused before the order is looked at.
TurnAway(r, want) ==
    /\ stage[r] = "new"
    /\ wants' = [wants EXCEPT ![r] = want]
    /\ stage' = [stage EXCEPT ![r] = "closed"]
    /\ told' = [told EXCEPT ![r] = "refused"]
    /\ UNCHANGED <<order, done>>

Qualify(r) ==
    /\ stage[r] = "open"
    /\ order \in IF wants[r] = "cancel" THEN Cancellable ELSE Refundable
    /\ stage' = [stage EXCEPT ![r] = "qualified"]
    /\ UNCHANGED <<order, wants, done, told>>

Effect(r) ==
    /\ stage[r] = "qualified" /\ r \notin done
    /\ done' = done \cup {r}
    /\ order' = IF wants[r] = "cancel" THEN "cancelled" ELSE order
    /\ UNCHANGED wants

TakeEffect(r) == Effect(r) /\ UNCHANGED <<stage, told>>

Close(r, a) ==
    /\ stage' = [stage EXCEPT ![r] = "closed"]
    /\ told' = [told EXCEPT ![r] = a]

\* The outcome of the commit is lost together with its answer.
EffectUnheard(r) == Effect(r) /\ Close(r, "unknown")

Answer(r, a) ==
    /\ stage[r] \in {"open", "qualified"}
    /\ a = "ok" => r \in done
    /\ a = "refused" => r \notin done
    /\ Close(r, a)
    /\ UNCHANGED <<order, wants, done>>

\* The warehouse.
Move ==
    /\ order' \in Statuses
    /\ UNCHANGED <<wants, stage, done, told>>

Next ==
    \/ Move
    \/ \E r \in Requests :
         \/ Qualify(r) \/ TakeEffect(r) \/ EffectUnheard(r)
         \/ \E want \in {"cancel", "refund"} : Ask(r, want) \/ TurnAway(r, want)
         \/ \E a \in {"ok", "refused", "unknown"} : Answer(r, a)

Spec == Init /\ [][Next]_ledgerVars

==============================================================================
