--------------------------- MODULE OrderToolsClaims ---------------------------
(***************************************************************************)
(* What the texts of the repository say of the order tools and the code    *)
(* does not keep: a run that TLC refutes.                                  *)
(***************************************************************************)
EXTENDS MCOrderTools

(* tools_mcp/db/queries/refunds.py:109: "No active refund may already      *)
(* exist for this order."  Two calls that both check before either commits *)
(* leave two of them: the check locks nothing and no unique index stands   *)
(* behind it.                                                              *)
ClaimOneActiveRefund == Cardinality(ActiveRefunds) <= 1

=============================================================================
