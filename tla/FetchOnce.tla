------------------------------ MODULE FetchOnce ------------------------------
(***************************************************************************)
(* What the planner relies on: one cell per role, filled once by whichever *)
(* caller fetches first.  At most one caller fetches a role's list at a    *)
(* time and none while the cell is full; a failed fetch leaves the cell    *)
(* empty; whoever is answered is given the list in the cell; and the cell  *)
(* holds only lists that were on offer since it was opened.                *)
(***************************************************************************)
CONSTANTS Callers, Roles, Lists, None

VARIABLES
    cell,      \* the list kept for each role
    asks,      \* the role each caller is waiting for
    fetching,  \* the callers that have gone for their role's list themselves
    got,       \* what each caller was given last
    offered    \* the lists on offer since the cells were opened

abstractVars == <<cell, asks, fetching, got, offered>>

Init ==
    /\ cell = [r \in Roles |-> None]
    /\ asks = [c \in Callers |-> None]
    /\ fetching = {}
    /\ got = [c \in Callers |-> None]
    /\ offered = {}

Offer ==
    /\ offered' \in SUBSET Lists
    /\ offered \subseteq offered'
    /\ UNCHANGED <<cell, asks, fetching, got>>

Ask(c, r) ==
    /\ asks[c] = None
    /\ asks' = [asks EXCEPT ![c] = r]
    /\ got' = [got EXCEPT ![c] = None]
    /\ UNCHANGED <<cell, fetching, offered>>

\* From the cell, without waiting or after it.
Answer(c, r) ==
    /\ asks[c] \in {None, r}
    /\ c \notin fetching
    /\ cell[r] # None
    /\ got' = [got EXCEPT ![c] = cell[r]]
    /\ asks' = [asks EXCEPT ![c] = None]
    /\ UNCHANGED <<cell, fetching, offered>>

Fetch(c) ==
    /\ asks[c] # None
    /\ cell[asks[c]] = None
    /\ \A d \in fetching : asks[d] # asks[c]
    /\ fetching' = fetching \cup {c}
    /\ UNCHANGED <<cell, asks, got, offered>>

Fill(c, list) ==
    /\ c \in fetching
    /\ cell[asks[c]] = None
    /\ list \in offered
    /\ cell' = [cell EXCEPT ![asks[c]] = list]
    /\ got' = [got EXCEPT ![c] = list]
    /\ asks' = [asks EXCEPT ![c] = None]
    /\ fetching' = fetching \ {c}
    /\ UNCHANGED offered

\* The fetch failed, or the caller was cancelled.
GiveUp(c) ==
    /\ asks' = [asks EXCEPT ![c] = None]
    /\ fetching' = fetching \ {c}
    /\ UNCHANGED <<cell, got, offered>>

Reopen ==
    /\ cell' = [r \in Roles |-> None]
    /\ asks' = [c \in Callers |-> None]
    /\ fetching' = {}
    /\ got' = [c \in Callers |-> None]
    /\ offered' \in SUBSET Lists

Next ==
    \/ Offer \/ Reopen
    \/ \E c \in Callers :
          \/ Fetch(c) \/ GiveUp(c)
          \/ \E r \in Roles : Ask(c, r) \/ Answer(c, r)
          \/ \E list \in Lists : Fill(c, list)

Spec == Init /\ [][Next]_abstractVars

==============================================================================
