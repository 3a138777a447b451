------------------------------ MODULE ToolGuard ------------------------------
(***************************************************************************)
(* apply_tool_guard: permission, write limit and confirmation before a     *)
(* tool runs, for the turns of one session.  The question put to the       *)
(* customer is a record in Redis, one per write tool, that a later turn    *)
(* reads and deletes in separate round trips; turns overlap, records       *)
(* expire and every Redis call may fail before or after it took effect.    *)
(*                                                                         *)
(* No node of the graph calls the guard, so its caller is any: a turn may  *)
(* call it again whatever it was told, as its docstring allows, for the    *)
(* same tool or another, and has the same message each time.               *)
(*                                                                         *)
(* A message is the set of keywords it contains, a record the call that    *)
(* asked: the hash of the arguments it holds is only logged.               *)
(***************************************************************************)
EXTENDS Naturals, FiniteSets

CONSTANTS
    Turns,       \* the turns of the session, one message each
    Messages,    \* what customers write
    Tools,       \* the tools the planner selects
    UserRole,    \* the role in the customer's token
    Nothing,     \* no tool, no record
    Limit,       \* settings.rate_limit_write_ops
    MaxCalls,    \* bound: guard calls of one turn
    MaxFailures  \* bound: Redis calls that fail

VARIABLES
    stage,     \* where each turn is in the guard
    message,   \* the customer's message
    tool,      \* the tool it wants to run
    calls,     \* how often it has called the guard
    found,     \* the record it has read
    pending,   \* conv:{session}:pending_confirm:{tool}
    counted,   \* write events in the limiter's current window
    failures,
    \* History variables: no guard reads them.
    met,       \* the turns under way together with this one
    answers,   \* the records taken as answered, and how
    lost       \* the records whose deletion failed

turnVars == <<stage, message, tool, calls, found, met>>
guardVars == <<turnVars, pending, counted, failures, answers, lost>>

GuardStage == {"unsent", "ready", "limiting", "reading", "asking", "declining",
               "granting", "over"}

UnderWay == {t \in Turns : stage[t] \notin {"unsent", "over"}}

-----------------------------------------------------------------------------
(* Tables.                                                                 *)

WRITE_TOOLS ==
    {"initiate_refund", "cancel_order", "force_initiate_refund", "force_cancel_order"}

\* A question put to the customer: the call of the guard that asked, and for
\* which tool.
Question == [turn : Turns, call : Nat, tool : WRITE_TOOLS]

ASSUME GuardAssumption ==
    /\ Nothing \notin Question /\ Nothing \notin Tools
    /\ Limit \in Nat /\ MaxCalls \in Nat /\ MaxFailures \in Nat

CUSTOMER_TOOLS ==
    {"get_orders", "get_order_items", "track_shipment", "get_refund_status",
     "get_account_info", "search_products", "get_product_detail", "get_reviews",
     "initiate_refund", "cancel_order"}

SUPPORT_AGENT_TOOLS == CUSTOMER_TOOLS \cup
    {"get_orders_any_user", "get_refund_status_any_user", "track_shipment_any_user"}

ADMIN_TOOLS == SUPPORT_AGENT_TOOLS \cup
    {"force_cancel_order", "force_initiate_refund", "get_all_reviews"}

\* A role outside the matrix may call nothing.
RolePermissions(role) ==
    CASE role = "customer" -> CUSTOMER_TOOLS
      [] role = "support_agent" -> SUPPORT_AGENT_TOOLS
      [] role = "admin" -> ADMIN_TOOLS
      [] OTHER -> {}

CONFIRMATION_KEYWORDS ==
    {"yes", "yeah", "yep", "yup", "sure", "ok", "okay", "confirm", "confirmed",
     "proceed", "go ahead", "go_ahead", "do it", "do_it", "cancel it",
     "cancel_it", "approve", "agreed", "please proceed", "yes please", "go for it"}

DENIAL_KEYWORDS ==
    {"no", "nope", "nah", "cancel", "abort", "stop", "nevermind", "never mind",
     "don't", "dont", "not now", "skip", "decline"}

UserConfirmed(m) == m \cap CONFIRMATION_KEYWORDS # {}

UserDenied(m) == m \cap DENIAL_KEYWORDS # {}

-----------------------------------------------------------------------------
GuardInit ==
    /\ stage = [t \in Turns |-> "unsent"]
    /\ message = [t \in Turns |-> {}]
    /\ tool = [t \in Turns |-> Nothing]
    /\ calls = [t \in Turns |-> 0]
    /\ found = [t \in Turns |-> Nothing]
    /\ pending = [w \in WRITE_TOOLS |-> Nothing]
    /\ counted = 0 /\ failures = 0
    /\ met = [t \in Turns |-> {}]
    /\ answers = {} /\ lost = {}

\* The customer sends a message and the graph starts on it.
Send(t) ==
    /\ stage[t] = "unsent"
    /\ stage' = [stage EXCEPT ![t] = "ready"]
    /\ \E m \in Messages : message' = [message EXCEPT ![t] = m]
    /\ met' = [u \in Turns |->
                  IF u = t THEN UnderWay
                  ELSE IF u \in UnderWay THEN met[u] \cup {t} ELSE met[u]]
    /\ UNCHANGED <<tool, calls, found, pending, counted, failures, answers, lost>>

\* The turn ends.
Leaves(t) ==
    /\ stage[t] = "ready"
    /\ stage' = [stage EXCEPT ![t] = "over"]
    /\ UNCHANGED <<message, tool, calls, found, met, pending, counted, failures,
                   answers, lost>>

Selects(t, w) ==
    /\ stage[t] = "ready" /\ calls[t] < MaxCalls
    /\ calls' = [calls EXCEPT ![t] = @ + 1]

\* The guard returns; its local variables are gone.
Returns(t) ==
    /\ stage' = [stage EXCEPT ![t] = "ready"]
    /\ tool' = [tool EXCEPT ![t] = Nothing]
    /\ found' = [found EXCEPT ![t] = Nothing]

\* The guard blocks: no tool selected, or one the role may not call.
Blocks(t, w) ==
    /\ Selects(t, w)
    /\ w = Nothing \/ w \notin RolePermissions(UserRole)
    /\ UNCHANGED <<stage, message, tool, found, met, pending, counted, failures,
                   answers, lost>>

\* Read tools are allowed at once and ask for nothing.
AllowsRead(t, w) ==
    /\ Selects(t, w)
    /\ w \in RolePermissions(UserRole) \ WRITE_TOOLS
    /\ UNCHANGED <<stage, message, tool, found, met, pending, counted, failures,
                   answers, lost>>

StartsWrite(t, w) ==
    /\ Selects(t, w)
    /\ w \in RolePermissions(UserRole) \cap WRITE_TOOLS
    /\ stage' = [stage EXCEPT ![t] = "limiting"]
    /\ tool' = [tool EXCEPT ![t] = w]
    /\ UNCHANGED <<message, found, met, pending, counted, failures, answers, lost>>

\* check_write_rate_limit: every call of the guard counts, the refused ones
\* and those that only ask included.
Limits(t) ==
    /\ stage[t] = "limiting"
    /\ counted' = counted + 1
    /\ \/ /\ counted' <= Limit
          /\ stage' = [stage EXCEPT ![t] = "reading"]
          /\ UNCHANGED <<tool, found>>
       \/ counted' > Limit /\ Returns(t)
    /\ UNCHANGED <<message, calls, met, pending, failures, answers, lost>>

Fails == failures < MaxFailures /\ failures' = failures + 1

LimitFails(t) ==
    /\ stage[t] = "limiting" /\ Fails
    /\ counted' \in {counted, counted + 1}
    /\ stage' = [stage EXCEPT ![t] = "reading"]
    /\ UNCHANGED <<message, tool, calls, found, met, pending, answers, lost>>

\* What the guard does next with this record and this message.  An unclear
\* reply is answered with the question again, and the record stays.
Verdict(record, m) ==
    CASE record = Nothing -> "asking"
      [] record # Nothing /\ UserDenied(m) -> "declining"
      [] record # Nothing /\ ~UserDenied(m) /\ UserConfirmed(m) -> "granting"
      [] OTHER -> "ready"

\* A GET that fails is a record that is not there.
Reads(t) ==
    /\ stage[t] = "reading"
    /\ \E record \in {pending[tool[t]], Nothing} :
         /\ \/ record = pending[tool[t]] /\ UNCHANGED failures
            \/ record = Nothing /\ Fails
         /\ \/ /\ Verdict(record, message[t]) # "ready"
               /\ stage' = [stage EXCEPT ![t] = Verdict(record, message[t])]
               /\ found' = [found EXCEPT ![t] = record]
               /\ UNCHANGED tool
            \/ Verdict(record, message[t]) = "ready" /\ Returns(t)
    /\ UNCHANGED <<message, calls, met, pending, counted, answers, lost>>

QuestionOf(t) == [turn |-> t, call |-> calls[t], tool |-> tool[t]]

Asked(t) == [pending EXCEPT ![tool[t]] = QuestionOf(t)]

\* SET with its time to live; the customer is asked, also when it failed.
Asks(t) ==
    /\ stage[t] = "asking"
    /\ \/ pending' = Asked(t) /\ UNCHANGED failures
       \/ pending' \in {pending, Asked(t)} /\ Fails
    /\ Returns(t)
    /\ UNCHANGED <<message, calls, met, counted, answers, lost>>

\* Mutant: the record is left to expire.
NothingCleared(w) == pending

Cleared(w) == [pending EXCEPT ![w] = Nothing]

\* DEL, whatever record is there by now.
Clears(t) ==
    \/ pending' = Cleared(tool[t]) /\ UNCHANGED <<failures, lost>>
    \/ /\ pending' \in {pending, Cleared(tool[t])} /\ Fails
       /\ lost' = lost \cup {found[t]}

Answer(t) == [turn |-> t, call |-> calls[t], ask |-> found[t], granted |-> stage[t] = "granting"]

Declines(t) ==
    /\ stage[t] = "declining"
    /\ Clears(t)
    /\ answers' = answers \cup {Answer(t)}
    /\ Returns(t)
    /\ UNCHANGED <<message, calls, met, counted>>

\* The tool may run.
Grants(t) ==
    /\ stage[t] = "granting"
    /\ Clears(t)
    /\ answers' = answers \cup {Answer(t)}
    /\ Returns(t)
    /\ UNCHANGED <<message, calls, met, counted>>

\* The record's time to live is over.
Expires(w) ==
    /\ pending[w] # Nothing
    /\ pending' = [pending EXCEPT ![w] = Nothing]
    /\ UNCHANGED <<turnVars, counted, failures, answers, lost>>

\* The oldest event leaves the limiter's window.
WindowMoves ==
    /\ counted > 0 /\ counted' = counted - 1
    /\ UNCHANGED <<turnVars, pending, failures, answers, lost>>

Guard(t) ==
    \/ Limits(t) \/ LimitFails(t) \/ Reads(t) \/ Asks(t)
    \/ Declines(t) \/ Grants(t)

Turn(t) ==
    \/ Send(t) \/ Leaves(t)
    \/ \E w \in Tools \cup {Nothing} : Blocks(t, w) \/ AllowsRead(t, w) \/ StartsWrite(t, w)

GuardNext ==
    \/ \E t \in Turns : Turn(t) \/ Guard(t)
    \/ \E w \in WRITE_TOOLS : Expires(w)
    \/ WindowMoves

GuardSpec == GuardInit /\ [][GuardNext]_guardVars

-----------------------------------------------------------------------------
(* What the confirmation promises.                                         *)

AnswerType == [turn : Turns, call : Nat, ask : Question, granted : BOOLEAN]

GuardTypeOK ==
    /\ stage \in [Turns -> GuardStage]
    /\ message \in [Turns -> Messages \cup {{}}]
    /\ tool \in [Turns -> Tools \cup {Nothing}]
    /\ calls \in [Turns -> Nat]
    /\ found \in [Turns -> Question \cup {Nothing}]
    /\ pending \in [WRITE_TOOLS -> Question \cup {Nothing}]
    /\ counted \in Nat /\ failures \in Nat
    /\ met \in [Turns -> SUBSET Turns]
    /\ answers \subseteq AnswerType
    /\ lost \subseteq Question

\* One question has one answer, however often turns call the guard: a record is
\* taken as confirmed or declined again only by turns that overlapped, or when
\* its deletion failed.  A yes never lets a second write through later, neither
\* in its own turn nor in another, and a no is not overruled.
OneAnswerPerQuestion ==
    \A a, b \in answers :
        (a # b /\ a.ask = b.ask) => (a.turn \in met[b.turn] \/ a.ask \in lost)

==============================================================================
