----------------------------- MODULE Conversation -----------------------------
(***************************************************************************)
(* What one session promises, whatever the agent does inside a turn.  The  *)
(* log only grows: no turn touches what an earlier one said, and all that  *)
(* can change in place is the turn's own question, redacted before         *)
(* anything was said to it.  A turn is over when the last word is its own: *)
(* an answer for the client, or the silence behind a redacted question.    *)
(* And what its tools did to the world stays within the limits at every    *)
(* step, also when the turn dies under way.                                *)
(***************************************************************************)
EXTENDS Sequences, Naturals

CONSTANTS Tools, Cancel, Refund, DestructiveLimit, WriteLimit

VARIABLES
    log,     \* the session's messages: whose turn, and in which role
    turn,    \* the number of the current or last turn
    state,   \* "idle", "serving" or "dead"
    ran      \* how often each tool has run in this turn

conversationVars == <<log, turn, state, ran>>

Roles == {"question", "redacted", "answer", "inner"}

Entry(t, role) == [turn |-> t, role |-> role]

Init ==
    /\ log = <<>> /\ turn = 0 /\ state = "idle"
    /\ ran = [t \in Tools |-> 0]

Ask ==
    /\ state # "serving" /\ state' = "serving"
    /\ turn' = turn + 1
    /\ log' = Append(log, Entry(turn + 1, "question"))
    /\ ran' = [t \in Tools |-> 0]

Say ==
    \/ UNCHANGED log
    \/ \E role \in {"answer", "inner"} : log' = Append(log, Entry(turn, role))
    \/ /\ log # <<>> /\ log[Len(log)] = Entry(turn, "question")
       /\ log' = [log EXCEPT ![Len(log)] = Entry(turn, "redacted")]

Act ==
    \/ UNCHANGED ran
    \/ /\ \E t \in Tools : ran' = [ran EXCEPT ![t] = @ + 1]
       /\ ran'[Cancel] <= DestructiveLimit
       /\ ran'[Cancel] + ran'[Refund] <= WriteLimit

Work ==
    /\ state = "serving" /\ UNCHANGED <<state, turn>>
    /\ Say /\ Act

End ==
    /\ state = "serving" /\ state' = "idle"
    /\ Say
    /\ log'[Len(log')] \in {Entry(turn, "answer"), Entry(turn, "redacted")}
    /\ UNCHANGED <<turn, ran>>

Die ==
    /\ state = "serving" /\ state' = "dead"
    /\ Act
    /\ UNCHANGED <<log, turn>>

Next == Ask \/ Work \/ End \/ Die

Spec == Init /\ [][Next]_conversationVars

==============================================================================
