----------------------------- MODULE MCToolGuard -----------------------------
(***************************************************************************)
(* Constants for model checking ToolGuard.                                 *)
(***************************************************************************)
EXTENDS ToolGuard, TLC

\* An unclear message, a yes, and a no: the confirmation that contains a
\* refusal.
Phrases == {{}, {"yes"}, {"cancel it", "cancel"}}

SelectedTools == {"cancel_order", "get_orders", "force_cancel_order"}

\* Turns are interchangeable.
AnyTurn == Permutations(Turns)

==============================================================================
