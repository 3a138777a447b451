--------------------------- MODULE MCLoginSessions ---------------------------
(***************************************************************************)
(* Constants for model checking LoginSessions.                             *)
(***************************************************************************)
EXTENDS LoginSessions, TLC

Interchangeable ==
    Permutations(Clients) \cup Permutations(Logins) \cup Permutations(Roles)

==============================================================================
