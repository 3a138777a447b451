----------------------------- MODULE SocketLines -----------------------------
(***************************************************************************)
(* What the chat API promises about order.  The messages sent over one     *)
(* connection stand in line: each is answered, or dropped, in its turn, at *)
(* the head of the line, exactly once.  A message is passed over only by   *)
(* losing the whole connection, and with it everything behind it.  The     *)
(* requests that come alone, over HTTP, stand in no line.                  *)
(***************************************************************************)
EXTENDS Sequences, Naturals

CONSTANTS Requests, Sockets

VARIABLES
    outcome,   \* "unsent", "inline", "alone", "answered" or "dropped"
    line,      \* per connection: the messages sent and not settled
    open       \* the connections that are up

lineVars == <<outcome, line, open>>

Settled == {"answered", "dropped"}

InLine(s) == {line[s][i] : i \in 1 .. Len(line[s])}

Init ==
    /\ outcome = [r \in Requests |-> "unsent"]
    /\ line = [s \in Sockets |-> <<>>]
    /\ open = Sockets

Join(r, s) ==
    /\ outcome[r] = "unsent" /\ s \in open
    /\ outcome' = [outcome EXCEPT ![r] = "inline"]
    /\ line' = [line EXCEPT ![s] = Append(line[s], r)]
    /\ UNCHANGED open

\* The first in line is answered or dropped, and the next one is first.
Settle(s, how) ==
    /\ line[s] # <<>>
    /\ outcome[Head(line[s])] = "inline"
    /\ outcome' = [outcome EXCEPT ![Head(line[s])] = how]
    /\ line' = [line EXCEPT ![s] = Tail(line[s])]
    /\ UNCHANGED open

HangUp(s) ==
    /\ outcome' = [r \in Requests |-> IF r \in InLine(s) THEN "dropped" ELSE outcome[r]]
    /\ line' = [line EXCEPT ![s] = <<>>]
    /\ open' = open \ {s}

ComeAlone(r) ==
    /\ outcome[r] = "unsent"
    /\ \E how \in {"alone", "dropped"} : outcome' = [outcome EXCEPT ![r] = how]
    /\ UNCHANGED <<line, open>>

SettleAlone(r, how) ==
    /\ outcome[r] = "alone"
    /\ outcome' = [outcome EXCEPT ![r] = how]
    /\ UNCHANGED <<line, open>>

Collapse ==
    /\ outcome' = [r \in Requests |->
                     IF outcome[r] \in {"inline", "alone"} THEN "dropped" ELSE outcome[r]]
    /\ line' = [s \in Sockets |-> <<>>]
    /\ open' = {}

Next ==
    \/ \E r \in Requests :
         \/ ComeAlone(r)
         \/ \E s \in Sockets : Join(r, s)
         \/ \E how \in Settled : SettleAlone(r, how)
    \/ \E s \in Sockets : HangUp(s) \/ \E how \in Settled : Settle(s, how)
    \/ Collapse

Spec == Init /\ [][Next]_lineVars

==============================================================================
