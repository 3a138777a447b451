----------------------------- MODULE MCChatTurns -----------------------------
(***************************************************************************)
(* Constants for model checking ChatTurns: two requests of one session.    *)
(***************************************************************************)
EXTENDS ChatTurns

CONSTANTS r1, r2

==============================================================================
