--------------------------- MODULE AgentGraphProofs ---------------------------
(***************************************************************************)
(* What AgentGraph promises for every value of its constants.              *)
(***************************************************************************)
EXTENDS AgentGraph, TLAPS

USE DEF vars, classVars, toolVars, guardVars, memVars, callVars, Redacted

-----------------------------------------------------------------------------
(* Types.  TypeOK alone is not inductive: the classifier looks its domain  *)
(* up in a table without an entry for the two domains that are handed off, *)
(* the executor's answer has a number only if there is a call to answer,   *)
(* and the summarizer's horizon exists because a tool's answer always      *)
(* follows its call at once: the walk back takes one step at most.         *)

RoutedDomain ==
    node = "classifier" => customer_domain \notin {"escalate", "block"}

QuestionLast ==
    node = "guardrails_in" =>
        /\ Len(messages) > 0
        /\ messages[Len(messages)].kind = "human"

PlanLast ==
    node = "tool_executor" =>
        /\ Len(messages) > 0
        /\ messages[Len(messages)].kind = "plan"
        /\ messages[Len(messages)].tool = selected_tool
        /\ selected_tool \in AnyTool

PairsAdjacent(s) ==
    \A i \in 1 .. Len(s) :
        s[i].kind = "tool" =>
            /\ i > 1 /\ s[i].answers = i - 1
            /\ s[i - 1].kind = "plan" /\ s[i - 1].tool = s[i].tool

TypeInv ==
    /\ TypeOK
    /\ RoutedDomain
    /\ QuestionLast
    /\ PlanLast
    /\ PairsAdjacent(messages)

LEMMA MsgTypes ==
    ASSUME NEW t \in Nat, NEW kind \in AIKind \cup HumanKind
    PROVE  MsgOf(kind, t) \in Message /\ MsgOf(kind, t).kind = kind
BY DEF MsgOf, Message

LEMMA PlanMsgTypes ==
    ASSUME turn \in Nat, NEW tool \in AnyTool, NEW extra \in Nat
    PROVE  PlanMsg(tool, extra) \in Message
BY DEF PlanMsg, Message, AIKind

LEMMA ToolMsgTypes ==
    ASSUME turn \in Nat, NEW tool \in AnyTool, NEW plan \in Nat
    PROVE  ToolMsg(tool, plan) \in Message
BY DEF ToolMsg, Message, AIKind

\* When the last message is the plan, the search backwards ends there.
LEMMA AnswersLastPlan ==
    ASSUME messages \in Seq(Message), Len(messages) > 0, NEW tool,
           messages[Len(messages)].kind = "plan",
           messages[Len(messages)].tool = tool
    PROVE  ExtractToolCallId(tool) = Len(messages)
<1> DEFINE plans == {i \in 1 .. Len(messages) :
                       messages[i].kind = "plan" /\ messages[i].tool = tool}
<1>1. Len(messages) \in plans
  OBVIOUS
<1>2. \A i \in plans : (\A j \in plans : j <= i) => i = Len(messages)
  BY <1>1
<1>3. \A j \in plans : j <= Len(messages)
  OBVIOUS
<1>4. ExtractToolCallId(tool) = CHOOSE i \in plans : \A j \in plans : j <= i
  BY <1>1 DEF ExtractToolCallId
<1> HIDE DEF plans
<1>5. QED
  BY <1>1, <1>2, <1>3, <1>4

\* Every append but the executor's keeps calls and answers side by side.
LEMMA AppendOther ==
    ASSUME messages \in Seq(Message), PairsAdjacent(messages),
           NEW m \in Message, m.kind # "tool",
           messages' = Append(messages, m)
    PROVE  /\ messages' \in Seq(Message)
           /\ PairsAdjacent(messages')
           /\ Len(messages') = Len(messages) + 1
           /\ messages'[Len(messages')] = m
<1>1. /\ messages' \in Seq(Message)
      /\ Len(messages') = Len(messages) + 1
      /\ messages'[Len(messages')] = m
      /\ \A i \in 1 .. Len(messages) : messages'[i] = messages[i]
  OBVIOUS
<1>2. ASSUME NEW i \in 1 .. Len(messages'), messages'[i].kind = "tool"
      PROVE  /\ i > 1 /\ messages'[i].answers = i - 1
             /\ messages'[i - 1].kind = "plan"
             /\ messages'[i - 1].tool = messages'[i].tool
  BY <1>1, <1>2 DEF PairsAdjacent
<1>3. QED
  BY <1>1, <1>2 DEF PairsAdjacent

\* With calls and answers side by side the horizon is the last message, or the
\* call before it, and no answer starts the window behind it.
LEMMA HorizonSpec ==
    ASSUME messages \in Seq(Message), PairsAdjacent(messages),
           NEW cursor \in Nat, cursor < Len(messages) - 1
    PROVE  LET h == SafeHorizon(messages, cursor)
           IN  /\ h \in cursor .. Len(messages) - 1
               /\ h >= Len(messages) - 2
               /\ h = cursor \/ messages[h + 1].kind # "tool"
<1> DEFINE last == Len(messages) - 1
           Good(h) == /\ h = cursor \/ ~IsTool(messages, h + 1)
                      /\ \A k \in (h + 1) .. last : IsTool(messages, k + 1)
<1>1. SafeHorizon(messages, cursor) = CHOOSE h \in cursor .. last : Good(h)
  BY DEF SafeHorizon
<1>2. \E h \in cursor .. last : Good(h)
  <2>1. CASE ~IsTool(messages, last + 1)
    <3>1. Good(last) /\ last \in cursor .. last
      BY <2>1
    <3>2. QED
      BY <3>1
  <2>2. CASE IsTool(messages, last + 1)
    <3>1. last > 0 /\ messages[last].kind = "plan"
      BY <2>2 DEF IsTool, PairsAdjacent
    <3>2. Good(last - 1)
      BY <2>2, <3>1 DEF IsTool
    <3>3. QED
      BY <3>1, <3>2
  <2>3. QED
    BY <2>1, <2>2
<1> DEFINE hh == SafeHorizon(messages, cursor)
<1>3. hh \in cursor .. last /\ Good(hh)
  BY <1>1, <1>2
<1>4. hh >= last - 1
  <2> SUFFICES ASSUME hh < last - 1 PROVE FALSE
    BY <1>3
  <2>1. IsTool(messages, last) /\ IsTool(messages, last + 1)
    BY <1>3
  <2>2. QED
    BY <1>3, <2>1 DEF IsTool, PairsAdjacent
<1>5. QED
  BY <1>3, <1>4 DEF IsTool

LEMMA InitTypes == Init => TypeInv
<1> SUFFICES ASSUME Init PROVE TypeInv
  OBVIOUS
<1>1. NoCounts \in [ToolClass -> Nat] /\ NoEffects \in [Registry -> Nat]
  BY DEF NoCounts, NoEffects
<1>2. messages \in Seq(Message)
  BY DEF Init
<1>3. TypeOK
  BY <1>1, <1>2 DEF Init, TypeOK, Node, CustomerDomain, IntentType, Summary
<1>4. QED
  BY <1>3 DEF Init, TypeInv, RoutedDomain, QuestionLast, PlanLast, PairsAdjacent

LEMMA StartTurnTypes == TypeInv /\ StartTurn => TypeInv'
<1> SUFFICES ASSUME TypeInv, StartTurn PROVE TypeInv'
  OBVIOUS
<1> DEFINE m == MsgOf("human", turn + 1)
<1>1. m \in Message /\ m.kind = "human"
  BY MsgTypes DEF TypeInv, TypeOK, HumanKind
<1>2. messages \in Seq(Message) /\ messages' = Append(messages, m)
  BY DEF TypeInv, TypeOK, StartTurn
<1>3. messages' \in Seq(Message) /\ QuestionLast' /\ PairsAdjacent(messages')
  BY <1>1, <1>2, AppendOther DEF QuestionLast, TypeInv
<1> HIDE DEF m
<1>4. NoCounts \in [ToolClass -> Nat] /\ NoEffects \in [Registry -> Nat]
  BY DEF NoCounts, NoEffects
<1>5. node' = "guardrails_in" /\ turn' \in Nat
  BY DEF TypeInv, TypeOK, StartTurn
<1>6. TypeOK'
  BY <1>3, <1>4, <1>5
     DEF TypeInv, TypeOK, StartTurn, TurnReset, ResetTool, Node, IntentType
<1>7. QED
  BY <1>3, <1>5, <1>6 DEF TypeInv, RoutedDomain, PlanLast

LEMMA GuardrailsInTypes == TypeInv /\ GuardrailsIn => TypeInv'
<1> SUFFICES ASSUME TypeInv, GuardrailsIn PROVE TypeInv'
  OBVIOUS
<1>1. \/ messages' = [messages EXCEPT ![Len(messages)].kind = "redacted"]
      \/ messages' = Append(messages, Msg("rejection"))
      \/ messages' = messages
  BY DEF GuardrailsIn
<1>2. messages \in Seq(Message) /\ Len(messages) > 0
  BY DEF TypeInv, TypeOK, GuardrailsIn, Runs, QuestionLast
<1>3. Msg("rejection") \in Message /\ Msg("rejection").kind # "tool"
  BY MsgTypes DEF TypeInv, TypeOK, AIKind, Msg
<1>4. messages' \in Seq(Message) /\ PairsAdjacent(messages')
  <2>1. CASE messages' = [messages EXCEPT ![Len(messages)].kind = "redacted"]
    <3>1. messages[Len(messages)] \in Message
      BY <1>2
    <3>2. [messages[Len(messages)] EXCEPT !.kind = "redacted"] \in Message
      BY <3>1 DEF Message, HumanKind
    <3>3. /\ messages' \in Seq(Message) /\ Len(messages') = Len(messages)
          /\ \A i \in 1 .. Len(messages) :
               \/ i < Len(messages) /\ messages'[i] = messages[i]
               \/ i = Len(messages) /\ messages'[i].kind = "redacted"
      BY <1>2, <2>1, <3>2, <3>1 DEF Message
    <3>4. messages[Len(messages)].kind = "human"
      BY DEF TypeInv, GuardrailsIn, Runs, QuestionLast
    <3>5. QED
      BY <1>2, <3>3, <3>4 DEF TypeInv, PairsAdjacent
  <2>2. CASE messages' = Append(messages, Msg("rejection"))
    BY <1>2, <1>3, <2>2, AppendOther DEF TypeInv
  <2>3. CASE messages' = messages
    BY <1>2, <2>3 DEF TypeInv
  <2>4. QED
    BY <1>1, <2>1, <2>2, <2>3
<1>5. /\ node' \in {"customer_delegator", "END"}
      /\ input_safe' \in BOOLEAN
      /\ guardrail_violation' \in {"none", "input"}
  BY DEF GuardrailsIn, RouteAfterGuardrailsIn
<1>6. steps' \in Nat
  BY DEF TypeInv, TypeOK, GuardrailsIn, Runs
<1>7. TypeOK'
  BY <1>4, <1>5, <1>6 DEF TypeInv, TypeOK, GuardrailsIn, Runs, Node
<1>8. QED
  BY <1>4, <1>5, <1>7 DEF TypeInv, RoutedDomain, QuestionLast, PlanLast

LEMMA CustomerDelegatorTypes == TypeInv /\ CustomerDelegator => TypeInv'
<1> SUFFICES ASSUME TypeInv, CustomerDelegator PROVE TypeInv'
  OBVIOUS
<1>1. /\ customer_domain' \in CustomerDomain
      /\ messages' = messages /\ steps' \in Nat
  BY ConfigAssumption
     DEF CustomerDelegator, Runs, CustomerDomain, TypeInv, TypeOK
<1>2. /\ node' \in {"human_handoff", "classifier"}
      /\ node' = "classifier" => customer_domain' \notin {"escalate", "block"}
  BY DEF CustomerDelegator, RouteAfterDelegator
<1>3. TypeOK'
  BY <1>1, <1>2 DEF CustomerDelegator, Runs, TypeInv, TypeOK, Node
<1>4. QED
  BY <1>1, <1>2, <1>3 DEF TypeInv, RoutedDomain, QuestionLast, PlanLast

\* A classified intent is one of the domain's, whatever the LLM answered.
LEMMA ClassifierIntents ==
    ASSUME customer_domain \in CustomerDomain, NEW i,
           customer_domain \notin {"escalate", "block"}
    PROVE  /\ DOMAIN_FALLBACK_INTENT[customer_domain]
                \in DOMAIN_INTENT_MAP[customer_domain]
           /\ ValidateIntentForDomain(i, customer_domain)
                \in DOMAIN_INTENT_MAP[customer_domain]
           /\ DOMAIN_INTENT_MAP[customer_domain] \subseteq IntentType
<1>1. /\ DOMAIN_FALLBACK_INTENT[customer_domain]
           \in DOMAIN_INTENT_MAP[customer_domain]
      /\ DOMAIN_INTENT_MAP[customer_domain] \subseteq IntentType
  BY DEF CustomerDomain, DOMAIN_FALLBACK_INTENT, DOMAIN_INTENT_MAP, IntentType,
         INFORMATION_INTENTS, ASSISTANCE_INTENTS, ADVICE_INTENTS
<1>2. QED
  BY <1>1 DEF ValidateIntentForDomain

LEMMA ClassifierTypes == TypeInv /\ Classifier => TypeInv'
<1> SUFFICES ASSUME TypeInv, Classifier PROVE TypeInv'
  OBVIOUS
<1>1. /\ customer_domain \in CustomerDomain
      /\ customer_domain \notin {"escalate", "block"}
  BY DEF TypeInv, TypeOK, RoutedDomain, Classifier, Runs
<1>2. intent' \in IntentType
  BY <1>1, ClassifierIntents DEF Classifier
<1>3. /\ node' \in {"human_handoff", "tool_planner", "memory"}
      /\ requires_tool' \in BOOLEAN /\ needs_escalation' \in BOOLEAN
      /\ messages' = messages /\ steps' \in Nat
  BY DEF Classifier, RouteAfterClassifier, Runs, TypeInv, TypeOK
<1>4. TypeOK'
  BY <1>2, <1>3 DEF Classifier, Runs, TypeInv, TypeOK, Node
<1>5. QED
  BY <1>3, <1>4 DEF TypeInv, RoutedDomain, QuestionLast, PlanLast

LEMMA HumanHandoffTypes == TypeInv /\ HumanHandoff => TypeInv'
<1> SUFFICES ASSUME TypeInv, HumanHandoff PROVE TypeInv'
  OBVIOUS
<1>1. Msg("handoff") \in Message /\ Msg("handoff").kind # "tool"
  BY MsgTypes DEF TypeInv, TypeOK, AIKind, Msg
<1>2. messages' \in Seq(Message) /\ PairsAdjacent(messages')
  BY <1>1, AppendOther DEF TypeInv, TypeOK, HumanHandoff
<1>3. node' = "END" /\ needs_escalation' = TRUE /\ steps' \in Nat
  BY DEF HumanHandoff, Runs, TypeInv, TypeOK
<1>4. TypeOK'
  BY <1>2, <1>3 DEF HumanHandoff, Runs, TypeInv, TypeOK, Node
<1>5. QED
  BY <1>2, <1>3, <1>4 DEF TypeInv, RoutedDomain, QuestionLast, PlanLast

LEMMA ToolPlannerTypes == TypeInv /\ ToolPlanner => TypeInv'
<1> SUFFICES ASSUME TypeInv, ToolPlanner PROVE TypeInv'
  OBVIOUS
<1> DEFINE Quiescent ==
      /\ messages' = messages \/ messages' = Append(messages, Msg("remark"))
      /\ selected_tool' = "none"
<1> DEFINE Calls(tool, extra) ==
      /\ messages' = Append(messages, PlanMsg(tool, extra))
      /\ selected_tool' \in {tool, "none"}
<1>1. \/ Quiescent
      \/ \E tool \in AnyTool, extra \in Nat : Calls(tool, extra)
  <2>1. 0 .. MaxExtraCalls \subseteq Nat
    BY ConfigAssumption
  <2>2. QED
    BY <2>1 DEF ToolPlanner, PlanNothing, PlanFromLLM, PlannerFails,
       PlanRemark, PlanCall, AnyTool
<1>2. /\ Msg("remark") \in Message /\ Msg("remark").kind # "tool"
  BY MsgTypes DEF TypeInv, TypeOK, AIKind, Msg
<1>3. /\ node' = IF selected_tool' # "none" THEN "tool_executor" ELSE "memory"
      /\ steps' \in Nat
  BY DEF ToolPlanner, RouteAfterToolPlanner, Runs, TypeInv, TypeOK
<1> DEFINE Planned ==
      /\ messages' \in Seq(Message) /\ PairsAdjacent(messages')
      /\ selected_tool' \in AnyTool \cup {"none"}
      /\ selected_tool' # "none" =>
           /\ Len(messages') > 0
           /\ messages'[Len(messages')].kind = "plan"
           /\ messages'[Len(messages')].tool = selected_tool'
<1>4. Planned
  <2>1. CASE Quiescent
    BY <1>2, <2>1, AppendOther DEF TypeInv, TypeOK
  <2>2. ASSUME NEW tool \in AnyTool, NEW extra \in Nat, Calls(tool, extra)
        PROVE  Planned
    <3>1. PlanMsg(tool, extra) \in Message
      BY PlanMsgTypes DEF TypeInv, TypeOK
    <3>2. /\ PlanMsg(tool, extra).kind = "plan"
          /\ PlanMsg(tool, extra).tool = tool
      BY DEF PlanMsg
    <3>3. /\ messages' \in Seq(Message) /\ PairsAdjacent(messages')
          /\ Len(messages') = Len(messages) + 1
          /\ messages'[Len(messages')] = PlanMsg(tool, extra)
      BY <2>2, <3>1, <3>2, AppendOther DEF TypeInv, TypeOK
    <3>4. QED
      BY <2>2, <3>2, <3>3 DEF TypeInv, TypeOK
  <2>3. QED
    BY <1>1, <2>1, <2>2
<1>5. /\ tool_error' \in {"none", "planner", "executor"}
      /\ requires_tool' \in BOOLEAN /\ tool_retry_count' \in Nat
  <2>1. tool_error' \in {"none", "planner"}
    BY DEF ToolPlanner, PlanNothing, PlanFromLLM, PlannerFails, PlanRemark,
           PlanCall
  <2>2. tool_retry_count' \in {tool_retry_count + Retry, tool_retry_count + 1,
                              tool_retry_count}
    BY DEF ToolPlanner, PlanNothing, PlanFromLLM, PlannerFails, PlanRemark,
           PlanCall
  <2>3. requires_tool' = FALSE \/ requires_tool' = requires_tool
    BY DEF ToolPlanner, PlanNothing, PlanFromLLM, PlannerFails, PlanRemark,
           PlanCall
  <2>4. tool_retry_count' \in Nat
    BY <2>2 DEF TypeInv, TypeOK, Retry
  <2>5. requires_tool' \in BOOLEAN
    BY <2>3 DEF TypeInv, TypeOK
  <2>6. QED
    BY <2>1, <2>4, <2>5
<1> HIDE DEF Quiescent, Calls
<1>6. TypeOK'
  BY <1>3, <1>4, <1>5 DEF ToolPlanner, Runs, TypeInv, TypeOK, Node
<1>7. PlanLast'
  BY <1>3, <1>4 DEF PlanLast
<1>8. QED
  BY <1>3, <1>4, <1>6, <1>7 DEF TypeInv, RoutedDomain, QuestionLast

\* Where the executor's answer goes, and what it points to.
LEMMA ExecutorAnswer ==
    ASSUME TypeInv, ToolExecutor
    PROVE  /\ messages' = Append(messages, ToolMsg(selected_tool, Len(messages)))
           /\ messages' \in Seq(Message)
           /\ PairsAdjacent(messages')
<1>1. /\ messages \in Seq(Message) /\ Len(messages) > 0
      /\ messages[Len(messages)].kind = "plan"
      /\ messages[Len(messages)].tool = selected_tool
      /\ selected_tool \in AnyTool
  BY DEF TypeInv, TypeOK, PlanLast, ToolExecutor, Runs
<1> DEFINE m == ToolMsg(selected_tool, Len(messages))
<1>2. messages' = Append(messages, m)
  BY <1>1, AnswersLastPlan DEF ToolExecutor, Answer
<1>3. m \in Message
  BY <1>1, ToolMsgTypes DEF TypeInv, TypeOK
<1>4. m.answers = Len(messages) /\ m.tool = selected_tool
  BY DEF ToolMsg
<1> HIDE DEF m
<1>5. /\ messages' \in Seq(Message) /\ Len(messages') = Len(messages) + 1
      /\ messages'[Len(messages')] = m
      /\ \A i \in 1 .. Len(messages) : messages'[i] = messages[i]
  BY <1>1, <1>2, <1>3
<1>6. ASSUME NEW i \in 1 .. Len(messages'), messages'[i].kind = "tool"
      PROVE  /\ i > 1 /\ messages'[i].answers = i - 1
             /\ messages'[i - 1].kind = "plan"
             /\ messages'[i - 1].tool = messages'[i].tool
  <2>1. CASE i = Len(messages')
    BY <1>1, <1>4, <1>5, <2>1
  <2>2. CASE i < Len(messages')
    BY <1>5, <1>6, <2>2 DEF TypeInv, PairsAdjacent
  <2>3. QED
    BY <1>5, <2>1, <2>2
<1>7. PairsAdjacent(messages')
  BY <1>6 DEF PairsAdjacent
<1>8. QED
  BY <1>2, <1>5, <1>7 DEF m

LEMMA ToolExecutorTypes == TypeInv /\ ToolExecutor => TypeInv'
<1> SUFFICES ASSUME TypeInv, ToolExecutor PROVE TypeInv'
  OBVIOUS
<1>1. messages' \in Seq(Message) /\ PairsAdjacent(messages')
  BY ExecutorAnswer
<1>2. node' \in {"tool_planner", "memory"} /\ steps' \in Nat
  BY DEF ToolExecutor, RouteAfterToolExecutor, Runs, TypeInv, TypeOK
<1>3. /\ tool_error' \in {"none", "executor"}
      /\ tool_result' \in Nat
      /\ executions' \in Nat
  BY DEF ToolExecutor, LimitRefusal, CallSucceeds, CallFails, TypeInv, TypeOK
<1>4. tool_call_counts' \in [ToolClass -> Nat]
  BY DEF ToolExecutor, LimitRefusal, CallSucceeds, CallFails, TypeInv, TypeOK,
     Count, ClassifyTool, ToolClass
<1>5. effects' \in [Registry -> Nat]
  BY DEF ToolExecutor, LimitRefusal, CallSucceeds, CallFails, Reaches,
     TypeInv, TypeOK
<1>6. TypeOK'
  BY <1>1, <1>2, <1>3, <1>4, <1>5
     DEF ToolExecutor, Runs, TypeInv, TypeOK, Node
<1>7. QED
  BY <1>1, <1>2, <1>6 DEF TypeInv, RoutedDomain, QuestionLast, PlanLast

\* Where a summary leaves the cursor: past the old one, before the last
\* message or the call in front of it, and never on a tool's answer.
LEMMA SummaryCursor ==
    ASSUME TypeInv, NEW result, Summarize(result)
    PROVE  /\ summarized_message_count' \in Nat
           /\ summarized_message_count' >= summarized_message_count
                                            + SUMMARIZE_AFTER_N
           /\ summarized_message_count' < Len(messages)
           /\ summarized_message_count' >= Len(messages) - 2
           /\ messages[summarized_message_count' + 1].kind # "tool"
<1> DEFINE cursor == summarized_message_count
           h == SafeHorizon(messages, cursor)
<1>1. messages \in Seq(Message) /\ PairsAdjacent(messages) /\ cursor \in Nat
  BY DEF TypeInv, TypeOK
<1>2. h >= cursor + SUMMARIZE_AFTER_N /\ summarized_message_count' = h
  BY DEF Summarize, Fires
<1>3. cursor < Len(messages) - 1
  <2> SUFFICES ASSUME Len(messages) - 1 <= cursor PROVE FALSE
    BY <1>1
  <2>1. h = Len(messages) - 1
    BY <1>1 DEF SafeHorizon
  <2>2. QED
    BY <1>1, <1>2, <2>1, ConfigAssumption
<1>4. /\ h \in cursor .. Len(messages) - 1
      /\ h >= Len(messages) - 2
      /\ h = cursor \/ messages[h + 1].kind # "tool"
  BY <1>1, <1>3, HorizonSpec
<1> HIDE DEF h
<1>5. QED
  BY <1>1, <1>2, <1>4, ConfigAssumption

LEMMA MemoryTypes == TypeInv /\ Memory => TypeInv'
<1> SUFFICES ASSUME TypeInv, Memory PROVE TypeInv'
  OBVIOUS
<1>1. /\ context_summary' \in Summary
      /\ summarized_message_count' \in Nat
  <2>1. CASE \E result \in {"text", "empty"} : Summarize(result)
    <3>1. PICK result \in {"text", "empty"} : Summarize(result)
      BY <2>1
    <3>2. summarized_message_count' \in Nat
      BY <3>1, SummaryCursor
    <3>3. QED
      BY <3>1, <3>2 DEF Summarize, Summary, TypeInv, TypeOK
  <2>2. CASE UNCHANGED memVars
    BY <2>2 DEF TypeInv, TypeOK
  <2>3. QED
    BY <2>1, <2>2 DEF Memory
<1>2. node' = "response_generator" /\ messages' = messages /\ steps' \in Nat
  BY DEF Memory, Runs, TypeInv, TypeOK
<1>3. TypeOK'
  BY <1>1, <1>2 DEF Memory, Runs, TypeInv, TypeOK, Node
<1>4. QED
  BY <1>2, <1>3 DEF TypeInv, RoutedDomain, QuestionLast, PlanLast

LEMMA ResponseGeneratorTypes == TypeInv /\ ResponseGenerator => TypeInv'
<1> SUFFICES ASSUME TypeInv, ResponseGenerator PROVE TypeInv'
  OBVIOUS
<1>1. PICK kind \in {"reply", "fallback"} :
        messages' = Append(messages, Msg(kind))
  BY DEF ResponseGenerator
<1>2. Msg(kind) \in Message /\ Msg(kind).kind # "tool"
  BY MsgTypes DEF TypeInv, TypeOK, AIKind, Msg
<1>3. messages' \in Seq(Message) /\ PairsAdjacent(messages')
  BY <1>1, <1>2, AppendOther DEF TypeInv, TypeOK
<1>4. /\ node' = "guardrails_out" /\ output_safe' = TRUE
      /\ steps' \in Nat /\ generations' \in Nat
  BY DEF ResponseGenerator, Runs, TypeInv, TypeOK
<1>5. TypeOK'
  BY <1>3, <1>4 DEF ResponseGenerator, Runs, TypeInv, TypeOK, Node
<1>6. QED
  BY <1>3, <1>4, <1>5 DEF TypeInv, RoutedDomain, QuestionLast, PlanLast

LEMMA GuardrailsOutTypes == TypeInv /\ GuardrailsOut => TypeInv'
<1> SUFFICES ASSUME TypeInv, GuardrailsOut PROVE TypeInv'
  OBVIOUS
<1>1. /\ node' \in {"response_generator", "END"}
      /\ messages' = messages /\ steps' \in Nat
  BY DEF GuardrailsOut, RouteAfterGuardrailsOut, Runs, TypeInv, TypeOK
<1>2. /\ output_safe' \in BOOLEAN
      /\ guardrail_violation' \in {"none", "output"}
      /\ output_retry_count' \in {output_retry_count, output_retry_count + 1}
  BY DEF GuardrailsOut
<1>3. output_retry_count' \in Nat
  BY <1>2 DEF TypeInv, TypeOK
<1>4. TypeOK'
  BY <1>1, <1>2, <1>3 DEF GuardrailsOut, Runs, TypeInv, TypeOK, Node
<1>5. QED
  BY <1>1, <1>4 DEF TypeInv, RoutedDomain, QuestionLast, PlanLast

LEMMA AbortTypes == TypeInv /\ Abort => TypeInv'
<1> SUFFICES ASSUME TypeInv, Abort PROVE TypeInv'
  OBVIOUS
<1>1. effects' \in [Registry -> Nat]
  BY DEF Abort, Reaches, TypeInv, TypeOK
<1>2. node' = "END" /\ aborted' = TRUE /\ messages' = messages
  BY DEF Abort
<1>3. TypeOK'
  BY <1>1, <1>2 DEF Abort, TypeInv, TypeOK, Node
<1>4. QED
  BY <1>2, <1>3 DEF TypeInv, RoutedDomain, QuestionLast, PlanLast

LEMMA NextTypes == TypeInv /\ [Next]_vars => TypeInv'
<1>1. TypeInv /\ UNCHANGED vars => TypeInv'
  BY DEF TypeInv, TypeOK, RoutedDomain, QuestionLast, PlanLast, PairsAdjacent
<1>2. QED
  BY <1>1, StartTurnTypes, GuardrailsInTypes, CustomerDelegatorTypes,
     ClassifierTypes, HumanHandoffTypes, ToolPlannerTypes, ToolExecutorTypes,
     MemoryTypes, ResponseGeneratorTypes, GuardrailsOutTypes, AbortTypes
     DEF Next, NodeStep, Quiet

LEMMA TypeInvariant == Spec => []TypeInv
BY InitTypes, NextTypes, PTL DEF Spec

\* Every variable keeps its type, for every registry, every budget and every
\* number of turns; the messages stay a sequence of messages, and the summary's
\* cursor stays a number although it comes out of a CHOOSE.
THEOREM TypeCorrect == Spec => []TypeOK
<1>1. TypeInv => TypeOK
  BY DEF TypeInv
<1>2. QED
  BY <1>1, TypeInvariant, PTL

-----------------------------------------------------------------------------
(* Budgets.  The two retry counters, what they are compared with and the   *)
(* number of super-steps are tied together at every node of the graph.     *)

ToolBudget ==
    /\ node \in {"guardrails_in", "customer_delegator", "classifier"} =>
         executions = 0 /\ tool_retry_count = 0 /\ tool_error = "none"
    /\ node = "tool_planner" =>
         \/ /\ tool_error = "none"
            /\ executions = 0 /\ tool_retry_count = 0
         \/ /\ tool_error = "executor"
            /\ executions = tool_retry_count + 1
            /\ tool_retry_count < MAX_TOOL_RETRIES
    /\ node = "tool_executor" =>
         executions = tool_retry_count /\ executions <= MAX_TOOL_RETRIES
    /\ executions <= MAX_TOOL_RETRIES + 1
    /\ node = "memory" /\ tool_error = "executor" =>
         executions = MAX_TOOL_RETRIES + 1
    /\ node \in {"response_generator", "guardrails_out"}
         /\ tool_error = "executor" => executions > 0

BeforeResponse ==
    {"guardrails_in", "customer_delegator", "classifier", "human_handoff",
     "tool_planner", "tool_executor", "memory"}

OutputBudget ==
    /\ node \in BeforeResponse =>
         generations = 0 /\ output_retry_count = 0 /\ output_safe = TRUE
    /\ node = "response_generator" =>
         generations = output_retry_count /\ generations < GenerationBound
    /\ node = "guardrails_out" =>
         /\ generations = output_retry_count + 1
         /\ generations <= GenerationBound
    /\ node = "END" /\ ~aborted /\ output_safe = FALSE =>
         generations = GenerationBound

StepBudget ==
    /\ node = "guardrails_in" => steps = 0
    /\ node = "customer_delegator" => steps = 1
    /\ node = "classifier" => steps = 2
    /\ node = "human_handoff" => steps <= 3
    /\ node = "tool_planner" => steps = 3 + 2 * executions
    /\ node = "tool_executor" => steps = 4 + 2 * executions
    /\ node = "memory" => steps <= 5 + 2 * MAX_TOOL_RETRIES
    /\ node = "response_generator" =>
         steps <= 6 + 2 * MAX_TOOL_RETRIES + 2 * generations
    /\ node = "guardrails_out" =>
         steps <= 5 + 2 * MAX_TOOL_RETRIES + 2 * generations
    /\ steps <= StepBound

BudgetInv == ToolBudget /\ OutputBudget /\ StepBudget

LEMMA Bounds ==
    /\ GenerationBound \in Nat /\ GenerationBound >= 1
    /\ MAX_TOOL_RETRIES \in Nat /\ MAX_OUTPUT_RETRIES \in Nat
    /\ StepBound = 6 + 2 * MAX_TOOL_RETRIES + 2 * GenerationBound
BY ConfigAssumption DEF GenerationBound, StepBound

LEMMA ToolBudgetStep ==
    ASSUME TypeInv, ToolBudget, NodeStep PROVE ToolBudget'
<1> USE Bounds DEF Runs
<1>1. CASE GuardrailsIn
  BY <1>1 DEF GuardrailsIn, RouteAfterGuardrailsIn, ToolBudget, TypeInv, TypeOK
<1>2. CASE CustomerDelegator
  BY <1>2 DEF CustomerDelegator, RouteAfterDelegator, ToolBudget, TypeInv, TypeOK
<1>3. CASE Classifier
  BY <1>3 DEF Classifier, RouteAfterClassifier, ToolBudget, TypeInv, TypeOK
<1>4. CASE HumanHandoff
  BY <1>4 DEF HumanHandoff, ToolBudget, TypeInv, TypeOK
<1>5. CASE ToolPlanner
  <2>1. /\ node = "tool_planner" /\ executions' = executions
        /\ node' = IF selected_tool' # "none" THEN "tool_executor" ELSE "memory"
    BY <1>5 DEF ToolPlanner, RouteAfterToolPlanner
  <2>2. /\ selected_tool' # "none" => tool_retry_count' = tool_retry_count + Retry
        /\ tool_error' \in {"none", "planner"}
    BY <1>5 DEF ToolPlanner, PlanNothing, PlanFromLLM, PlannerFails, PlanRemark,
       PlanCall
  <2>3. QED
    BY <2>1, <2>2 DEF ToolBudget, Retry, TypeInv, TypeOK
<1>6. CASE ToolExecutor
  <2>1. /\ node = "tool_executor" /\ executions' = executions + 1
        /\ tool_retry_count' = tool_retry_count
        /\ tool_error' \in {"none", "executor"}
        /\ node' = IF tool_error' # "none" /\ tool_retry_count < MAX_TOOL_RETRIES
                     THEN "tool_planner" ELSE "memory"
    BY <1>6 DEF ToolExecutor, RouteAfterToolExecutor, LimitRefusal, CallSucceeds,
       CallFails
  <2>2. QED
    BY <2>1 DEF ToolBudget, TypeInv, TypeOK
<1>7. CASE Memory
  BY <1>7 DEF Memory, ToolBudget, TypeInv, TypeOK
<1>8. CASE ResponseGenerator
  BY <1>8 DEF ResponseGenerator, ToolBudget, TypeInv, TypeOK
<1>9. CASE GuardrailsOut
  BY <1>9 DEF GuardrailsOut, RouteAfterGuardrailsOut, ToolBudget, TypeInv, TypeOK
<1>10. QED
  BY <1>1, <1>2, <1>3, <1>4, <1>5, <1>6, <1>7, <1>8, <1>9 DEF NodeStep

LEMMA OutputBudgetStep ==
    ASSUME TypeInv, OutputBudget, NodeStep PROVE OutputBudget'
<1> USE Bounds DEF Runs
<1>1. ASSUME node \in BeforeResponse, node' \in BeforeResponse \cup
                                         {"END", "response_generator"},
             UNCHANGED <<generations, output_retry_count, output_safe>>
      PROVE  OutputBudget'
  BY <1>1 DEF OutputBudget, BeforeResponse
<1>2. CASE GuardrailsIn
  BY <1>1, <1>2 DEF GuardrailsIn, RouteAfterGuardrailsIn, BeforeResponse
<1>3. CASE CustomerDelegator
  BY <1>1, <1>3 DEF CustomerDelegator, RouteAfterDelegator, BeforeResponse
<1>4. CASE Classifier
  BY <1>1, <1>4 DEF Classifier, RouteAfterClassifier, BeforeResponse
<1>5. CASE HumanHandoff
  BY <1>1, <1>5 DEF HumanHandoff, BeforeResponse
<1>6. CASE ToolPlanner
  BY <1>1, <1>6 DEF ToolPlanner, RouteAfterToolPlanner, BeforeResponse
<1>7. CASE ToolExecutor
  BY <1>1, <1>7 DEF ToolExecutor, RouteAfterToolExecutor, BeforeResponse
<1>8. CASE Memory
  BY <1>1, <1>8 DEF Memory, BeforeResponse
<1>9. CASE ResponseGenerator
  BY <1>9 DEF ResponseGenerator, OutputBudget, BeforeResponse, TypeInv, TypeOK
<1>10. CASE GuardrailsOut
  <2>1. /\ node = "guardrails_out" /\ generations' = generations
        /\ aborted' = aborted
        /\ output_safe' = TRUE \/ output_safe' = FALSE
    BY <1>10 DEF GuardrailsOut
  <2>2. CASE output_safe' = TRUE
    <3>1. node' = "END"
      BY <1>10, <2>2 DEF GuardrailsOut, RouteAfterGuardrailsOut
    <3>2. QED
      BY <2>2, <3>1 DEF OutputBudget, BeforeResponse
  <2>3. CASE output_safe' = FALSE
    <3>1. /\ output_retry_count' = output_retry_count + 1
          /\ node' = IF output_retry_count' < MAX_OUTPUT_RETRIES
                       THEN "response_generator" ELSE "END"
      BY <1>10, <2>3 DEF GuardrailsOut, RouteAfterGuardrailsOut
    <3>2. /\ generations = output_retry_count + 1
          /\ generations <= GenerationBound
      BY <2>1 DEF OutputBudget
    <3>3. generations' = output_retry_count'
      BY <2>1, <3>1, <3>2
    <3>4. /\ node' = "response_generator" => generations' < GenerationBound
          /\ node' = "END" => generations' = GenerationBound
          /\ node' \in {"response_generator", "END"}
      BY <2>1, <3>1, <3>2, ConfigAssumption DEF GenerationBound, TypeInv, TypeOK
    <3>5. QED
      BY <3>3, <3>4 DEF OutputBudget, BeforeResponse
  <2>4. QED
    BY <2>1, <2>2, <2>3
<1>11. QED
  BY <1>2, <1>3, <1>4, <1>5, <1>6, <1>7, <1>8, <1>9, <1>10 DEF NodeStep

LEMMA StepBudgetStep ==
    ASSUME TypeInv, BudgetInv, NodeStep PROVE StepBudget'
<1> USE Bounds
<1>1. steps' = steps + 1 /\ steps \in Nat /\ executions \in Nat
      /\ generations \in Nat
  <2>1. /\ steps \in Nat /\ executions \in Nat /\ generations \in Nat
        /\ steps <= StepBound /\ StepBound \in Nat
    BY DEF BudgetInv, StepBudget, TypeInv, TypeOK
  <2>2. steps' = IF steps > StepBound THEN steps ELSE steps + 1
    BY DEF NodeStep, GuardrailsIn, CustomerDelegator, Classifier, HumanHandoff,
       ToolPlanner, ToolExecutor, Memory, ResponseGenerator, GuardrailsOut, Runs
  <2>3. QED
    BY <2>1, <2>2
<1> USE DEF Runs, BudgetInv, StepBudget
<1>2. CASE GuardrailsIn
  BY <1>1, <1>2 DEF GuardrailsIn, RouteAfterGuardrailsIn
<1>3. CASE CustomerDelegator
  BY <1>1, <1>3 DEF CustomerDelegator, RouteAfterDelegator
<1>4. CASE Classifier
  BY <1>1, <1>4 DEF Classifier, RouteAfterClassifier, ToolBudget
<1>5. CASE HumanHandoff
  BY <1>1, <1>5 DEF HumanHandoff
<1>6. CASE ToolPlanner
  <2>1. executions' = executions /\ node = "tool_planner"
        /\ node' \in {"tool_executor", "memory"}
    BY <1>6 DEF ToolPlanner, RouteAfterToolPlanner
  <2>2. executions <= MAX_TOOL_RETRIES
    BY <2>1 DEF ToolBudget, TypeInv, TypeOK
  <2>3. QED
    BY <1>1, <2>1, <2>2
<1>7. CASE ToolExecutor
  <2>1. /\ executions' = executions + 1 /\ node = "tool_executor"
        /\ node' \in {"tool_planner", "memory"}
    BY <1>7 DEF ToolExecutor, RouteAfterToolExecutor
  <2>2. executions <= MAX_TOOL_RETRIES
    BY <2>1 DEF ToolBudget, TypeInv, TypeOK
  <2>3. QED
    BY <1>1, <2>1, <2>2
<1>8. CASE Memory
  BY <1>1, <1>8 DEF Memory, OutputBudget, BeforeResponse
<1>9. CASE ResponseGenerator
  BY <1>1, <1>9 DEF ResponseGenerator, OutputBudget
<1>10. CASE GuardrailsOut
  <2>1. /\ generations' = generations /\ node = "guardrails_out"
        /\ node' \in {"response_generator", "END"}
    BY <1>10 DEF GuardrailsOut, RouteAfterGuardrailsOut
  <2>2. generations <= GenerationBound
    BY <2>1 DEF OutputBudget
  <2>3. QED
    BY <1>1, <2>1, <2>2
<1>11. QED
  BY <1>2, <1>3, <1>4, <1>5, <1>6, <1>7, <1>8, <1>9, <1>10 DEF NodeStep

LEMMA BudgetInvariant == Spec => []BudgetInv
<1>1. Init => BudgetInv
  BY Bounds DEF Init, BudgetInv, ToolBudget, OutputBudget, StepBudget,
     BeforeResponse
<1>2. TypeInv /\ BudgetInv /\ [Next]_vars => BudgetInv'
  <2> SUFFICES ASSUME TypeInv, BudgetInv, [Next]_vars PROVE BudgetInv'
    OBVIOUS
  <2>1. CASE StartTurn
    BY <2>1, Bounds DEF StartTurn, TurnReset, ResetTool, BudgetInv, ToolBudget,
       OutputBudget, StepBudget, BeforeResponse
  <2>2. CASE NodeStep
    BY <2>2, ToolBudgetStep, OutputBudgetStep, StepBudgetStep DEF BudgetInv
  <2>3. CASE Abort
    BY <2>3 DEF Abort, BudgetInv, ToolBudget, OutputBudget, StepBudget,
       BeforeResponse
  <2>4. CASE UNCHANGED vars
    BY <2>4 DEF BudgetInv, ToolBudget, OutputBudget, StepBudget
  <2>5. QED
    BY <2>1, <2>2, <2>3, <2>4 DEF Next, Quiet
<1>3. QED
  BY <1>1, <1>2, TypeInvariant, PTL DEF Spec

\* No turn takes more super-steps than the two budgets account for, so with the
\* code's budgets none runs into LangGraph's recursion limit.
THEOREM TurnsAreBounded == Spec => []StepsBounded
<1>1. BudgetInv => StepsBounded
  BY DEF BudgetInv, StepBudget, StepsBounded
<1>2. QED
  BY <1>1, BudgetInvariant, PTL

\* The retry counter counts exactly the failed runs of the executor.
THEOREM RetriesAreExact == Spec => []RetriesCountExecutions
<1>1. BudgetInv => RetriesCountExecutions
  BY DEF BudgetInv, ToolBudget, RetriesCountExecutions
<1>2. QED
  BY <1>1, BudgetInvariant, PTL

\* The customer hears of a failing tool only after the last retry.
THEOREM ApologiesAreLate == Spec => []ApologyAfterBudget
<1>1. BudgetInv => ApologyAfterBudget
  BY DEF BudgetInv, ToolBudget, ApologyAfterBudget
<1>2. QED
  BY <1>1, BudgetInvariant, PTL

\* A refused response ends a turn only after the last generation allowed.
THEOREM RefusalsSpendTheBudget == Spec => []UnsafeOnlyAfterBudget
<1>1. BudgetInv /\ TypeInv => UnsafeOnlyAfterBudget
  BY DEF BudgetInv, OutputBudget, UnsafeOnlyAfterBudget, TypeInv, TypeOK
<1>2. QED
  BY <1>1, BudgetInvariant, TypeInvariant, PTL

-----------------------------------------------------------------------------
(* Side effects.  The limits are checked against tool_call_counts, the     *)
(* promise is about what the server ran: the counters dominate the effects *)
(* while a turn runs, because a call is counted whether or not its answer  *)
(* arrives.  A crash breaks that, one effect beyond the counters, and the  *)
(* limit just checked leaves room for this one.                            *)

Dominates(counts, eff) ==
    /\ eff["cancel_order"] <= counts["destructive"]
    /\ eff["cancel_order"] + eff["initiate_refund"]
         <= counts["destructive"] + counts["write"]

CountsWithin(counts) ==
    /\ counts["destructive"] <= DestructiveLimit
    /\ counts["destructive"] + counts["write"] <= WriteLimit

EffectsInv ==
    /\ node # "END" => Dominates(tool_call_counts, effects)
    /\ CountsWithin(tool_call_counts)
    /\ EffectsWithinLimits

\* A call the limits let through leaves the counters within them, and counters
\* that dominated the effects before the call dominate those after it.
LEMMA CallWithinLimits ==
    ASSUME NEW tool \in AnyTool, NEW counts \in [ToolClass -> Nat],
           NEW eff \in [Registry -> Nat],
           ~LimitError(tool, counts), CountsWithin(counts), Dominates(counts, eff)
    PROVE  /\ CountsWithin(Count(counts, tool))
           /\ Dominates(Count(counts, tool), eff)
           /\ tool \in Registry =>
                Dominates(Count(counts, tool), [eff EXCEPT ![tool] = @ + 1])
<1> DEFINE d == counts["destructive"]
           w == counts["write"]
<1>1. /\ d \in Nat /\ w \in Nat /\ counts["read"] \in Nat
      /\ "cancel_order" \in Registry /\ "initiate_refund" \in Registry
      /\ DestructiveLimit \in Nat /\ WriteLimit \in Nat
      /\ eff["cancel_order"] \in Nat /\ eff["initiate_refund"] \in Nat
  BY ConfigAssumption DEF ToolClass
<1>2. CASE tool = "cancel_order"
  <2>1. ClassifyTool(tool) = "destructive"
    BY <1>2 DEF ClassifyTool, DESTRUCTIVE_TOOLS
  <2>2. /\ Count(counts, tool)["destructive"] = d + 1
        /\ Count(counts, tool)["write"] = w
    BY <1>1, <2>1 DEF Count, ToolClass
  <2>3. d < DestructiveLimit /\ w + d < WriteLimit
    BY <1>1, <2>1 DEF LimitError
  <2>4. QED
    BY <1>1, <1>2, <2>2, <2>3 DEF CountsWithin, Dominates
<1>3. CASE tool = "initiate_refund"
  <2>1. ClassifyTool(tool) = "write"
    BY <1>3 DEF ClassifyTool, DESTRUCTIVE_TOOLS, WRITE_TOOLS
  <2>2. /\ Count(counts, tool)["destructive"] = d
        /\ Count(counts, tool)["write"] = w + 1
    BY <1>1, <2>1 DEF Count, ToolClass
  <2>3. w + d < WriteLimit
    BY <1>1, <2>1 DEF LimitError
  <2>4. QED
    BY <1>1, <1>3, <2>2, <2>3 DEF CountsWithin, Dominates
<1>4. CASE tool \notin {"cancel_order", "initiate_refund"}
  <2>1. ClassifyTool(tool) = "read"
    BY <1>4 DEF ClassifyTool, DESTRUCTIVE_TOOLS, WRITE_TOOLS
  <2>2. /\ Count(counts, tool)["destructive"] = d
        /\ Count(counts, tool)["write"] = w
    BY <1>1, <2>1 DEF Count, ToolClass
  <2>3. QED
    BY <1>1, <1>4, <2>2 DEF CountsWithin, Dominates
<1>5. QED
  BY <1>2, <1>3, <1>4

LEMMA DominatedEffects ==
    ASSUME NEW counts \in [ToolClass -> Nat], NEW eff \in [Registry -> Nat],
           CountsWithin(counts), Dominates(counts, eff)
    PROVE  /\ eff["cancel_order"] <= DestructiveLimit
           /\ eff["cancel_order"] + eff["initiate_refund"] <= WriteLimit
BY ConfigAssumption DEF CountsWithin, Dominates, ToolClass

\* While the executor runs, whatever the call does: the counters that are (or
\* would have been) written dominate the effects it leaves.
LEMMA ExecutorEffects ==
    ASSUME TypeInv, EffectsInv, node = "tool_executor",
           ~LimitError(selected_tool, tool_call_counts),
           Reaches(selected_tool) \/ UNCHANGED effects
    PROVE  /\ CountsWithin(Count(tool_call_counts, selected_tool))
           /\ Dominates(Count(tool_call_counts, selected_tool), effects')
           /\ EffectsWithinLimits'
<1>1. /\ tool_call_counts \in [ToolClass -> Nat]
      /\ effects \in [Registry -> Nat]
      /\ selected_tool \in AnyTool
  BY DEF TypeInv, TypeOK, PlanLast
<1> DEFINE counts == Count(tool_call_counts, selected_tool)
<1>2. counts \in [ToolClass -> Nat]
  BY <1>1 DEF Count, ClassifyTool, ToolClass
<1>3. effects' \in [Registry -> Nat]
  BY <1>1 DEF Reaches
<1>4. Dominates(tool_call_counts, effects) /\ CountsWithin(tool_call_counts)
  BY DEF EffectsInv
<1>5. CountsWithin(counts) /\ Dominates(counts, effects')
  BY <1>1, <1>4, CallWithinLimits DEF Reaches
<1>6. QED
  BY <1>2, <1>3, <1>5, DominatedEffects DEF EffectsWithinLimits

LEMMA EffectsInvariant == Spec => []EffectsInv
<1>1. Init => EffectsInv
  BY ConfigAssumption DEF Init, EffectsInv, EffectsWithinLimits, Dominates,
     CountsWithin, NoCounts, NoEffects, ToolClass
<1>2. TypeInv /\ EffectsInv /\ [Next]_vars => EffectsInv'
  <2> SUFFICES ASSUME TypeInv, EffectsInv, [Next]_vars PROVE EffectsInv'
    OBVIOUS
  <2>1. CASE StartTurn
    BY <2>1, ConfigAssumption DEF StartTurn, TurnReset, ResetTool, EffectsInv,
       EffectsWithinLimits, Dominates, CountsWithin, NoCounts, NoEffects,
       ToolClass
  <2>2. ASSUME node # "END", UNCHANGED <<tool_call_counts, effects>>
        PROVE  EffectsInv'
    BY <2>2 DEF EffectsInv, EffectsWithinLimits, Dominates, CountsWithin
  <2>3. CASE NodeStep /\ ~ToolExecutor
    BY <2>2, <2>3 DEF NodeStep, GuardrailsIn, CustomerDelegator, Classifier,
       HumanHandoff, ToolPlanner, Memory, ResponseGenerator, GuardrailsOut, Runs,
       toolVars, callVars, PlanNothing, PlanFromLLM, PlannerFails, PlanRemark,
       PlanCall
  <2>4. CASE ToolExecutor
    <3>1. node = "tool_executor"
      BY <2>4 DEF ToolExecutor, Runs
    <3>2. CASE LimitRefusal
      BY <2>2, <3>1, <3>2 DEF LimitRefusal
    <3>3. CASE CallSucceeds \/ CallFails
      <4>1. /\ ~LimitError(selected_tool, tool_call_counts)
            /\ Reaches(selected_tool) \/ UNCHANGED effects
            /\ tool_call_counts' = Count(tool_call_counts, selected_tool)
        BY <3>3 DEF CallSucceeds, CallFails
      <4>2. QED
        BY <3>1, <4>1, ExecutorEffects DEF EffectsInv
    <3>4. QED
      BY <2>4, <3>2, <3>3 DEF ToolExecutor
  <2>5. CASE Abort
    <3>1. node' = "END" /\ UNCHANGED tool_call_counts /\ node # "END"
      BY <2>5 DEF Abort, toolVars
    <3>2. CASE UNCHANGED effects
      BY <2>2, <3>1, <3>2
    <3>3. CASE /\ node = "tool_executor"
               /\ ~LimitError(selected_tool, tool_call_counts)
               /\ Reaches(selected_tool)
      BY <3>1, <3>3, ExecutorEffects DEF EffectsInv, CountsWithin
    <3>4. QED
      BY <2>5, <3>2, <3>3 DEF Abort
  <2>6. CASE UNCHANGED vars
    BY <2>6 DEF EffectsInv, EffectsWithinLimits, Dominates, CountsWithin, vars,
       toolVars, callVars
  <2>7. QED
    BY <2>1, <2>3, <2>4, <2>5, <2>6 DEF Next, Quiet
<1>3. QED
  BY <1>1, <1>2, TypeInvariant, PTL DEF Spec

\* In no turn does the MCP server run more cancellations or more writes than the
\* limits allow, lost answers and crashes in mid-call included.
THEOREM EffectsAreLimited == Spec => []EffectsWithinLimits
<1>1. EffectsInv => EffectsWithinLimits
  BY DEF EffectsInv
<1>2. QED
  BY <1>1, EffectsInvariant, PTL

-----------------------------------------------------------------------------
(* The window.  The cursor is written in one turn and used in later ones:  *)
(* it stays on a message that is no tool's answer because messages are     *)
(* only ever appended, or redacted in place.                               *)

LEMMA MessagesGrow ==
    ASSUME TypeInv, [Next]_vars
    PROVE  /\ Len(messages') \in {Len(messages), Len(messages) + 1}
           /\ \A i \in 1 .. Len(messages) :
                messages[i].kind # "tool" => messages'[i].kind # "tool"
<1>1. messages \in Seq(Message)
  BY DEF TypeInv, TypeOK
<1>2. ASSUME UNCHANGED messages
      PROVE  /\ Len(messages') \in {Len(messages), Len(messages) + 1}
             /\ \A i \in 1 .. Len(messages) :
                  messages[i].kind # "tool" => messages'[i].kind # "tool"
  BY <1>2
<1>3. ASSUME NEW m, messages' = Append(messages, m)
      PROVE  /\ Len(messages') \in {Len(messages), Len(messages) + 1}
             /\ \A i \in 1 .. Len(messages) :
                  messages[i].kind # "tool" => messages'[i].kind # "tool"
  BY <1>1, <1>3
<1>4. CASE StartTurn
  BY <1>3, <1>4 DEF StartTurn
<1>5. CASE GuardrailsIn
  <2>1. PICK m : \/ messages' = messages
                 \/ messages' = Append(messages, m)
                 \/ messages' = [messages EXCEPT ![Len(messages)].kind = "redacted"]
    BY <1>5 DEF GuardrailsIn
  <2>2. CASE messages' = [messages EXCEPT ![Len(messages)].kind = "redacted"]
    BY <1>1, <2>2 DEF Message
  <2>3. QED
    BY <1>2, <1>3, <2>1, <2>2
<1>6. CASE HumanHandoff
  BY <1>3, <1>6 DEF HumanHandoff
<1>7. CASE ToolPlanner
  <2>1. \/ messages' = messages \/ \E m : messages' = Append(messages, m)
    BY <1>7 DEF ToolPlanner, PlanNothing, PlanFromLLM, PlannerFails, PlanRemark,
       PlanCall
  <2>2. QED
    BY <1>2, <1>3, <2>1
<1>8. CASE ToolExecutor
  BY <1>3, <1>8 DEF ToolExecutor, Answer
<1>9. CASE ResponseGenerator
  BY <1>3, <1>9 DEF ResponseGenerator
<1>10. CASE \/ CustomerDelegator \/ Classifier \/ Memory \/ GuardrailsOut
            \/ Abort \/ UNCHANGED vars
  BY <1>2, <1>10 DEF CustomerDelegator, Classifier, Memory, GuardrailsOut, Abort
<1>11. QED
  BY <1>4, <1>5, <1>6, <1>7, <1>8, <1>9, <1>10 DEF Next, NodeStep, Quiet

CursorInv ==
    /\ summarized_message_count > 0 =>
         /\ summarized_message_count < Len(messages)
         /\ messages[summarized_message_count + 1].kind # "tool"
    /\ context_summary = "none" => summarized_message_count = 0

DraftsInv ==
    node \in {"response_generator", "guardrails_out"}
        /\ context_summary # "empty"
        => Len(messages) - Window <= SUMMARIZE_AFTER_N + 1 + generations

LEMMA CursorStep ==
    ASSUME TypeInv, CursorInv, [Next]_vars PROVE CursorInv'
<1>1. /\ messages \in Seq(Message) /\ summarized_message_count \in Nat
  BY DEF TypeInv, TypeOK
<1>2. CASE UNCHANGED <<context_summary, summarized_message_count>>
  BY <1>1, <1>2, MessagesGrow DEF CursorInv
<1>3. ASSUME NEW result \in {"text", "empty"}, Summarize(result),
             messages' = messages
      PROVE  CursorInv'
  <2>1. context_summary' = result
    BY <1>3 DEF Summarize
  <2>2. QED
    BY <1>1, <1>3, <2>1, SummaryCursor DEF CursorInv
<1>4. CASE Memory
  BY <1>2, <1>3, <1>4 DEF Memory
<1>5. CASE [Next]_vars /\ ~Memory
  BY <1>2, <1>5 DEF Next, NodeStep, StartTurn, GuardrailsIn, CustomerDelegator,
     Classifier, HumanHandoff, ToolPlanner, ToolExecutor, ResponseGenerator,
     GuardrailsOut, Abort, Quiet
<1>6. QED
  BY <1>4, <1>5

\* What the summarizer leaves: the pair it did not cut, or less than a batch.
LEMMA WindowAfterMemory ==
    ASSUME TypeInv, CursorInv, Memory, context_summary' # "empty"
    PROVE  Len(messages) - Window' <= SUMMARIZE_AFTER_N + 1
<1> DEFINE cursor == summarized_message_count
<1>1. /\ messages \in Seq(Message) /\ PairsAdjacent(messages)
      /\ cursor \in Nat /\ context_summary \in Summary
      /\ SUMMARIZE_AFTER_N \in Nat \ {0}
  BY ConfigAssumption DEF TypeInv, TypeOK
<1>2. CASE \E result \in {"text", "empty"} : Summarize(result)
  <2>1. context_summary' = "text" /\ Summarize("text")
    BY <1>2 DEF Summarize
  <2>2. /\ cursor' \in Nat /\ cursor' >= Len(messages) - 2
        /\ cursor' >= cursor + SUMMARIZE_AFTER_N
    BY <2>1, SummaryCursor
  <2>3. Window' = cursor'
    BY <1>1, <2>1, <2>2 DEF Window, WindowStart
  <2>4. QED
    BY <1>1, <2>2, <2>3
<1>3. CASE /\ ~Fires(messages, cursor, SUMMARIZE_AFTER_N)
           /\ UNCHANGED memVars
  <2>1. Window' = cursor
    BY <1>1, <1>3 DEF Window, WindowStart, CursorInv, Summary
  <2>2. Len(messages) - cursor <= SUMMARIZE_AFTER_N + 1
    <3>1. CASE Len(messages) - 1 <= cursor
      BY <1>1, <3>1
    <3>2. CASE cursor < Len(messages) - 1
      <4>1. /\ SafeHorizon(messages, cursor) \in Int
            /\ SafeHorizon(messages, cursor) >= Len(messages) - 2
        BY <1>1, <3>2, HorizonSpec
      <4>2. SafeHorizon(messages, cursor) < cursor + SUMMARIZE_AFTER_N
        BY <1>1, <1>3, <4>1 DEF Fires
      <4>3. QED
        BY <1>1, <4>1, <4>2
    <3>3. QED
      BY <1>1, <3>1, <3>2
  <2>3. QED
    BY <2>1, <2>2
<1>4. QED
  BY <1>2, <1>3 DEF Memory

LEMMA DraftsStep ==
    ASSUME TypeInv, BudgetInv, CursorInv, DraftsInv, [Next]_vars
    PROVE  DraftsInv'
<1>1. /\ messages \in Seq(Message) /\ generations \in Nat
      /\ SUMMARIZE_AFTER_N \in Nat
  BY ConfigAssumption DEF TypeInv, TypeOK
<1>2. Window \in Nat
  BY DEF Window, WindowStart, TypeInv, TypeOK
<1>3. CASE Memory
  <2>1. generations' = 0 /\ messages' = messages
    BY <1>3 DEF Memory, Runs, BudgetInv, OutputBudget, BeforeResponse
  <2>2. QED
    BY <1>1, <1>3, <2>1, WindowAfterMemory DEF DraftsInv
<1>4. CASE ResponseGenerator
  <2>1. /\ Len(messages') = Len(messages) + 1 /\ generations' = generations + 1
        /\ Window' = Window /\ context_summary' = context_summary
        /\ node = "response_generator"
    BY <1>1, <1>4 DEF ResponseGenerator, Window, Runs
  <2>2. QED
    BY <1>1, <1>2, <2>1 DEF DraftsInv
<1>5. CASE GuardrailsOut
  BY <1>5 DEF GuardrailsOut, Runs, DraftsInv, Window
<1>6. CASE /\ ~Memory /\ ~ResponseGenerator /\ ~GuardrailsOut
           /\ Next /\ ~Quiet
  <2>1. node' \notin {"response_generator", "guardrails_out"}
    BY <1>6 DEF Next, NodeStep, StartTurn, GuardrailsIn, CustomerDelegator,
       Classifier, HumanHandoff, ToolPlanner, ToolExecutor, Abort,
       RouteAfterGuardrailsIn, RouteAfterDelegator, RouteAfterClassifier,
       RouteAfterToolPlanner, RouteAfterToolExecutor
  <2>2. QED
    BY <2>1 DEF DraftsInv
<1>7. CASE UNCHANGED vars
  BY <1>7 DEF DraftsInv, Window
<1>8. QED
  BY <1>3, <1>4, <1>5, <1>6, <1>7 DEF Quiet

LEMMA CursorInvariant == Spec => []CursorInv
<1>1. Init => CursorInv
  BY DEF Init, CursorInv
<1>2. QED
  BY <1>1, CursorStep, TypeInvariant, PTL DEF Spec

\* The window never opens on a tool's answer whose call it has cut off, however
\* many turns, crashes, retries and summaries lie between the two.
THEOREM WindowsAreWhole == Spec => []WindowPairsIntact
<1>1. TypeInv /\ CursorInv => WindowPairsIntact
  <2> SUFFICES ASSUME TypeInv, CursorInv, NEW i \in Window + 1 .. Len(messages),
                      messages[i].kind = "tool"
               PROVE  /\ messages[i].answers \in Window + 1 .. i - 1
                      /\ messages[messages[i].answers].kind = "plan"
                      /\ messages[messages[i].answers].tool = messages[i].tool
    BY DEF WindowPairsIntact
  <2>1. /\ messages \in Seq(Message) /\ PairsAdjacent(messages)
        /\ summarized_message_count \in Nat
        /\ Window \in {0, summarized_message_count}
    BY DEF TypeInv, TypeOK, Window, WindowStart
  <2>2. /\ i > 1 /\ messages[i].answers = i - 1
        /\ messages[i - 1].kind = "plan" /\ messages[i - 1].tool = messages[i].tool
    BY <2>1 DEF PairsAdjacent
  <2>3. i # Window + 1
    BY <2>1, <2>2 DEF CursorInv
  <2>4. QED
    BY <2>1, <2>2, <2>3
<1>2. QED
  BY <1>1, TypeInvariant, CursorInvariant, PTL

\* The response LLM is never given more than a batch, one call with its answer
\* and the refused drafts of this turn, unless a summary came back empty.
THEOREM WindowsAreBounded == Spec => []WindowBounded
<1>1. Init => DraftsInv
  BY DEF Init, DraftsInv
<1>2. TypeInv /\ BudgetInv /\ CursorInv /\ DraftsInv /\ [Next]_vars => DraftsInv'
  BY DraftsStep
<1>3. DraftsInv => WindowBounded
  BY DEF DraftsInv, WindowBounded
<1>4. QED
  BY <1>1, <1>2, <1>3, TypeInvariant, BudgetInvariant, CursorInvariant, PTL
     DEF Spec

-----------------------------------------------------------------------------
(* What reaches the response LLM.  A result is kept only by the success    *)
(* that ends the tool loop, and a violation only by the guard that sends   *)
(* the turn back, so neither outlives what it is about.                    *)

GroundInv ==
    /\ node \in BeforeResponse => guardrail_violation = "none"
    /\ node \in BeforeResponse \ {"memory"} => tool_result = 0
    /\ node \in {"memory", "response_generator", "guardrails_out"} =>
         /\ tool_result \in {0, turn}
         /\ tool_result = 0 \/ tool_error = "none"
    /\ node = "response_generator" =>
         guardrail_violation = (IF generations > 0 THEN "output" ELSE "none")

LEMMA GroundStep ==
    ASSUME TypeInv, BudgetInv, GroundInv, NodeStep PROVE GroundInv'
<1> USE DEF Runs, BeforeResponse
<1>1. ASSUME node \in BeforeResponse \ {"memory"},
             node' \in (BeforeResponse \ {"memory"}) \cup {"END"},
             UNCHANGED tool_result, node' = "END" \/ guardrail_violation' = "none"
      PROVE  GroundInv'
  BY <1>1 DEF GroundInv
<1>2. ASSUME node \in BeforeResponse \ {"memory"}, node' = "memory",
             UNCHANGED <<guardrail_violation, turn>>,
             tool_result' \in {0, turn}, tool_result' = 0 \/ tool_error' = "none"
      PROVE  GroundInv'
  BY <1>2 DEF GroundInv
<1>3. CASE GuardrailsIn
  BY <1>1, <1>3 DEF GuardrailsIn, RouteAfterGuardrailsIn
<1>4. CASE CustomerDelegator
  BY <1>1, <1>4 DEF CustomerDelegator, RouteAfterDelegator, GroundInv
<1>5. CASE Classifier
  <2>1. /\ node = "classifier" /\ tool_result = 0
        /\ guardrail_violation = "none"
        /\ UNCHANGED <<tool_result, tool_error, guardrail_violation, turn>>
        /\ node' \in {"human_handoff", "tool_planner", "memory"}
    BY <1>5 DEF Classifier, RouteAfterClassifier, GroundInv
  <2>2. QED
    BY <1>1, <1>2, <2>1
<1>6. CASE HumanHandoff
  BY <1>1, <1>6 DEF HumanHandoff
<1>7. CASE ToolPlanner
  <2>1. /\ node = "tool_planner" /\ tool_result = 0
        /\ guardrail_violation = "none"
        /\ UNCHANGED <<tool_result, guardrail_violation, turn>>
        /\ node' \in {"tool_executor", "memory"}
    BY <1>7 DEF ToolPlanner, RouteAfterToolPlanner, GroundInv
  <2>2. QED
    BY <1>1, <1>2, <2>1
<1>8. CASE ToolExecutor
  <2>1. /\ node = "tool_executor" /\ guardrail_violation = "none"
        /\ UNCHANGED <<guardrail_violation, turn>>
    BY <1>8 DEF ToolExecutor, GroundInv
  <2>2. \/ tool_result' = 0
        \/ tool_result' = turn /\ tool_error' = "none"
    BY <1>8 DEF ToolExecutor, LimitRefusal, CallSucceeds, CallFails
  <2>3. /\ node' \in {"tool_planner", "memory"}
        /\ node' = "tool_planner" => tool_error' # "none"
    BY <1>8 DEF ToolExecutor, RouteAfterToolExecutor
  <2>4. CASE node' = "memory"
    BY <1>2, <2>1, <2>2, <2>4
  <2>5. CASE node' = "tool_planner"
    BY <2>1, <2>2, <2>3, <2>5 DEF GroundInv
  <2>6. QED
    BY <2>3, <2>4, <2>5
<1>9. CASE Memory
  <2>1. generations = 0 /\ generations' = 0
    BY <1>9 DEF Memory, BudgetInv, OutputBudget
  <2>2. QED
    BY <1>9, <2>1 DEF Memory, GroundInv
<1>10. CASE ResponseGenerator
  BY <1>10 DEF ResponseGenerator, GroundInv
<1>11. CASE GuardrailsOut
  <2>1. /\ node = "guardrails_out"
        /\ UNCHANGED <<tool_result, tool_error, turn, generations>>
        /\ node' \in {"response_generator", "END"}
        /\ node' = "response_generator" => guardrail_violation' = "output"
    BY <1>11 DEF GuardrailsOut, RouteAfterGuardrailsOut
  <2>2. generations > 0
    BY <2>1 DEF BudgetInv, OutputBudget, TypeInv, TypeOK
  <2>3. QED
    BY <2>1, <2>2 DEF GroundInv
<1>12. QED
  BY <1>3, <1>4, <1>5, <1>6, <1>7, <1>8, <1>9, <1>10, <1>11 DEF NodeStep

\* The response LLM is told of a violation exactly when it rewrites, and works
\* with data of this turn that no error followed, whatever earlier or
\* interrupted turns left in the checkpoint.
THEOREM AnswersAreGrounded == Spec => []GroundedInThisTurn
<1>1. Init => GroundInv
  BY DEF Init, GroundInv, BeforeResponse
<1>2. TypeInv /\ BudgetInv /\ GroundInv /\ [Next]_vars => GroundInv'
  <2> SUFFICES ASSUME TypeInv, BudgetInv, GroundInv, [Next]_vars
               PROVE  GroundInv'
    OBVIOUS
  <2>1. CASE StartTurn
    BY <2>1 DEF StartTurn, TurnReset, ResetTool, GroundInv, BeforeResponse
  <2>2. CASE NodeStep
    BY <2>2, GroundStep
  <2>3. CASE Abort
    BY <2>3 DEF Abort, GroundInv, BeforeResponse
  <2>4. CASE UNCHANGED vars
    BY <2>4 DEF GroundInv
  <2>5. QED
    BY <2>1, <2>2, <2>3, <2>4 DEF Next, Quiet
<1>3. BudgetInv /\ GroundInv => GroundedInThisTurn
  BY DEF BudgetInv, ToolBudget, OutputBudget, GroundInv, GroundedInThisTurn
<1>4. QED
  BY <1>1, <1>2, <1>3, TypeInvariant, BudgetInvariant, PTL DEF Spec

-----------------------------------------------------------------------------
(* Behind which gates a tool runs.  Nothing has run before the classifier  *)
(* has chosen, and what it chose does not change while the turn lasts.     *)

GatesPassed ==
    /\ input_safe = TRUE /\ needs_escalation = FALSE
    /\ customer_domain \in TOOL_DOMAINS
    /\ intent \in DOMAIN_INTENT_MAP[customer_domain] \ NO_TOOL_INTENTS

HasRun == \E tool \in Registry : effects[tool] > 0

BeforeTools ==
    {"guardrails_in", "customer_delegator", "classifier", "human_handoff"}

GateInv ==
    /\ node \in {"customer_delegator", "classifier"} => input_safe = TRUE
    /\ node \in {"tool_planner", "tool_executor"} => GatesPassed
    /\ node \in BeforeTools => ~HasRun
    /\ HasRun => GatesPassed

gateVars == <<input_safe, needs_escalation, customer_domain, intent>>

LEMMA ToolDomainsNeedTools ==
    \A d \in TOOL_DOMAINS : DOMAIN_INTENT_MAP[d] \cap NO_TOOL_INTENTS = {}
BY DEF TOOL_DOMAINS, DOMAIN_INTENT_MAP, INFORMATION_INTENTS, ASSISTANCE_INTENTS,
   NO_TOOL_INTENTS

LEMMA GateStep ==
    ASSUME TypeInv, GateInv, NodeStep PROVE GateInv'
<1> USE DEF Runs, BeforeTools
<1>1. ASSUME UNCHANGED effects PROVE HasRun' = HasRun
  BY <1>1 DEF HasRun
<1>2. ASSUME UNCHANGED gateVars PROVE GatesPassed' = GatesPassed
  BY <1>2 DEF GatesPassed, gateVars
<1>3. CASE GuardrailsIn
  <2>1. /\ UNCHANGED effects /\ ~HasRun
        /\ node' \in {"customer_delegator", "END"}
        /\ node' = "customer_delegator" => input_safe' = TRUE
    BY <1>3 DEF GuardrailsIn, RouteAfterGuardrailsIn, GateInv, callVars
  <2>2. QED
    BY <1>1, <2>1 DEF GateInv
<1>4. CASE CustomerDelegator
  <2>1. /\ UNCHANGED <<effects, input_safe>> /\ ~HasRun /\ input_safe = TRUE
        /\ node' \in {"human_handoff", "classifier"}
    BY <1>4 DEF CustomerDelegator, RouteAfterDelegator, GateInv, callVars,
       guardVars
  <2>2. QED
    BY <1>1, <2>1 DEF GateInv
<1>5. CASE Classifier
  <2>1. /\ customer_domain \in CustomerDomain
        /\ customer_domain \notin {"escalate", "block"}
    BY <1>5 DEF TypeInv, TypeOK, RoutedDomain, Classifier
  <2>2. intent' \in DOMAIN_INTENT_MAP[customer_domain]
    BY <1>5, <2>1, ClassifierIntents DEF Classifier
  <2>3. /\ UNCHANGED <<effects, input_safe, customer_domain>>
        /\ ~HasRun /\ input_safe = TRUE
        /\ node' \in {"human_handoff", "tool_planner", "memory"}
    BY <1>5 DEF Classifier, RouteAfterClassifier, GateInv, callVars, guardVars
  <2>4. node' = "tool_planner" =>
          needs_escalation' = FALSE /\ customer_domain \in TOOL_DOMAINS
    <3>1. node' = RouteAfterClassifier(needs_escalation', requires_tool')
      BY <1>5 DEF Classifier
    <3>2. node' = "tool_planner" => ~needs_escalation' /\ requires_tool'
      BY <3>1 DEF RouteAfterClassifier
    <3>3. needs_escalation' \in BOOLEAN
      BY <1>5, ClassifierTypes DEF TypeInv, TypeOK
    <3>4. requires_tool' = (customer_domain \in TOOL_DOMAINS)
      BY <1>5 DEF Classifier
    <3>5. QED
      BY <3>2, <3>3, <3>4
  <2>5. node' = "tool_planner" => GatesPassed'
    BY <2>2, <2>3, <2>4, ToolDomainsNeedTools DEF GatesPassed
  <2>6. QED
    BY <1>1, <2>3, <2>5 DEF GateInv
<1>6. CASE HumanHandoff
  <2>1. UNCHANGED effects /\ ~HasRun /\ node' = "END"
    BY <1>6 DEF HumanHandoff, GateInv, callVars
  <2>2. QED
    BY <1>1, <2>1 DEF GateInv
<1>7. CASE ToolPlanner
  <2>1. /\ UNCHANGED effects /\ UNCHANGED gateVars /\ GatesPassed
        /\ node' \in {"tool_executor", "memory"}
    BY <1>7 DEF ToolPlanner, RouteAfterToolPlanner, GateInv, gateVars, guardVars,
       callVars
  <2>2. QED
    BY <1>2, <2>1 DEF GateInv
<1>8. CASE ToolExecutor
  <2>1. /\ UNCHANGED gateVars /\ GatesPassed
        /\ node' \in {"tool_planner", "memory"}
    BY <1>8 DEF ToolExecutor, RouteAfterToolExecutor, GateInv, gateVars,
       guardVars, classVars
  <2>2. QED
    BY <1>2, <2>1 DEF GateInv
<1>9. CASE Memory \/ ResponseGenerator \/ GuardrailsOut
  <2>1. /\ UNCHANGED effects /\ UNCHANGED gateVars
        /\ node' \in {"response_generator", "guardrails_out", "END"}
    BY <1>9 DEF Memory, ResponseGenerator, GuardrailsOut,
       RouteAfterGuardrailsOut, gateVars, guardVars, classVars, callVars
  <2>2. QED
    BY <1>1, <1>2, <2>1 DEF GateInv
<1>10. QED
  BY <1>3, <1>4, <1>5, <1>6, <1>7, <1>8, <1>9 DEF NodeStep

\* For every registry, role and limit, and whatever name the planner's LLM
\* writes: no tool runs in a turn that a gate did not let through, nor in one
\* under an intent its domain does not hold.
THEOREM ToolsRunGated == Spec => []ToolsRunBehindTheGates
<1>1. Init => GateInv
  BY DEF Init, GateInv, HasRun, NoEffects, BeforeTools
<1>2. TypeInv /\ GateInv /\ [Next]_vars => GateInv'
  <2> SUFFICES ASSUME TypeInv, GateInv, [Next]_vars PROVE GateInv'
    OBVIOUS
  <2>1. CASE StartTurn
    BY <2>1 DEF StartTurn, GateInv, HasRun, NoEffects, BeforeTools
  <2>2. CASE NodeStep
    BY <2>2, GateStep
  <2>3. CASE Abort
    <3>1. /\ node' = "END" /\ UNCHANGED gateVars
          /\ UNCHANGED effects \/ node = "tool_executor"
      BY <2>3 DEF Abort, gateVars, classVars, guardVars
    <3>2. GatesPassed' = GatesPassed
      BY <3>1 DEF GatesPassed, gateVars
    <3>3. QED
      BY <3>1, <3>2 DEF GateInv, HasRun, BeforeTools
  <2>4. CASE UNCHANGED vars
    BY <2>4 DEF GateInv, GatesPassed, HasRun, vars, classVars, guardVars, callVars
  <2>5. QED
    BY <2>1, <2>2, <2>3, <2>4 DEF Next, Quiet
<1>3. GateInv => ToolsRunBehindTheGates
  BY DEF GateInv, GatesPassed, HasRun, ToolsRunBehindTheGates
<1>4. QED
  BY <1>1, <1>2, <1>3, TypeInvariant, PTL DEF Spec

-----------------------------------------------------------------------------
(* Whose reply the client gets.  A running turn's last message is its own, *)
(* from the question it appended on.                                       *)

LastIsOwn == Len(messages) > 0 /\ messages[Len(messages)].turn = turn

LastIs(kinds) == messages[Len(messages)].kind \in kinds

ReplyInv ==
    /\ turn > 0 /\ ~aborted => LastIsOwn
    /\ node # "END" => turn > 0 /\ ~aborted
    /\ node = "guardrails_out" => LastIs({"reply", "fallback"})
    /\ node = "END" /\ ~aborted /\ turn > 0 =>
         \/ LastIs({"rejection", "handoff", "reply", "fallback"})
         \/ LastIs({"redacted"}) /\ ~input_safe

LEMMA OwnAppend ==
    ASSUME messages \in Seq(Message), NEW m, m.turn = turn,
           messages' = Append(messages, m), UNCHANGED turn
    PROVE  /\ LastIsOwn'
           /\ messages'[Len(messages')] = m
BY DEF LastIsOwn

LEMMA ReplyStep ==
    ASSUME TypeInv, ReplyInv, NodeStep PROVE ReplyInv'
<1> USE DEF Runs
<1>1. /\ messages \in Seq(Message) /\ turn \in Nat /\ aborted \in BOOLEAN
  BY DEF TypeInv, TypeOK
<1>2. /\ node # "END" /\ turn > 0 /\ ~aborted /\ LastIsOwn
      /\ UNCHANGED <<turn, aborted>>
  BY DEF NodeStep, GuardrailsIn, CustomerDelegator, Classifier, HumanHandoff,
     ToolPlanner, ToolExecutor, Memory, ResponseGenerator, GuardrailsOut,
     ReplyInv
<1>3. ASSUME LastIsOwn', node' \notin {"END", "guardrails_out"}
      PROVE  ReplyInv'
  BY <1>2, <1>3 DEF ReplyInv
<1>4. ASSUME UNCHANGED messages PROVE LastIsOwn'
  BY <1>2, <1>4 DEF LastIsOwn
<1>5. \A kind : Msg(kind).turn = turn /\ Msg(kind).kind = kind
  BY DEF Msg, MsgOf
<1>6. CASE GuardrailsIn
  <2>1. PICK safe \in BOOLEAN :
          /\ \/ messages' = [messages EXCEPT ![Len(messages)].kind = "redacted"]
             \/ messages' = Append(messages, Msg("rejection")) /\ ~safe
             \/ messages' = messages /\ safe
          /\ input_safe' = safe
          /\ node' = RouteAfterGuardrailsIn(safe)
    BY <1>6 DEF GuardrailsIn
  <2>2. CASE messages' = [messages EXCEPT ![Len(messages)].kind = "redacted"]
    <3>1. messages[Len(messages)] \in Message
      BY <1>1, <1>2 DEF LastIsOwn
    <3>2. LastIsOwn' /\ LastIs({"redacted"})'
      BY <1>1, <1>2, <2>2, <3>1 DEF LastIsOwn, LastIs, Message
    <3>3. QED
      BY <1>2, <2>1, <3>2 DEF ReplyInv, RouteAfterGuardrailsIn
  <2>3. CASE messages' = Append(messages, Msg("rejection")) /\ ~safe
    <3>1. LastIsOwn' /\ LastIs({"rejection", "handoff", "reply", "fallback"})'
      BY <1>1, <1>2, <1>5, <2>3, OwnAppend DEF LastIs
    <3>2. QED
      BY <1>2, <2>1, <2>3, <3>1 DEF ReplyInv, RouteAfterGuardrailsIn
  <2>4. CASE messages' = messages /\ safe
    BY <1>3, <1>4, <2>1, <2>4 DEF RouteAfterGuardrailsIn
  <2>5. QED
    BY <2>1, <2>2, <2>3, <2>4
<1>7. CASE CustomerDelegator
  BY <1>3, <1>4, <1>7 DEF CustomerDelegator, RouteAfterDelegator
<1>8. CASE Classifier
  BY <1>3, <1>4, <1>8 DEF Classifier, RouteAfterClassifier
<1>9. CASE HumanHandoff
  <2>1. LastIsOwn' /\ LastIs({"rejection", "handoff", "reply", "fallback"})'
    BY <1>1, <1>2, <1>5, <1>9, OwnAppend DEF HumanHandoff, LastIs
  <2>2. QED
    BY <1>2, <1>9, <2>1 DEF HumanHandoff, ReplyInv
<1>10. CASE ToolPlanner
  <2>1. \/ UNCHANGED messages
        \/ \E m : m.turn = turn /\ messages' = Append(messages, m)
    BY <1>5, <1>10 DEF ToolPlanner, PlanNothing, PlanFromLLM, PlannerFails,
       PlanRemark, PlanCall, PlanMsg
  <2>2. LastIsOwn'
    BY <1>1, <1>2, <1>4, <2>1, OwnAppend
  <2>3. QED
    BY <1>3, <1>10, <2>2 DEF ToolPlanner, RouteAfterToolPlanner
<1>11. CASE ToolExecutor
  <2>1. LastIsOwn'
    BY <1>1, <1>2, <1>11, OwnAppend DEF ToolExecutor, Answer, ToolMsg
  <2>2. QED
    BY <1>3, <1>11, <2>1 DEF ToolExecutor, RouteAfterToolExecutor
<1>12. CASE Memory
  BY <1>3, <1>4, <1>12 DEF Memory
<1>13. CASE ResponseGenerator
  <2>1. LastIsOwn' /\ LastIs({"reply", "fallback"})'
    BY <1>1, <1>2, <1>5, <1>13, OwnAppend DEF ResponseGenerator, LastIs
  <2>2. QED
    BY <1>2, <1>13, <2>1 DEF ResponseGenerator, ReplyInv
<1>14. CASE GuardrailsOut
  <2>1. /\ node = "guardrails_out" /\ UNCHANGED messages
        /\ node' \in {"response_generator", "END"}
    BY <1>14 DEF GuardrailsOut, RouteAfterGuardrailsOut
  <2>2. LastIs({"rejection", "handoff", "reply", "fallback"})'
    BY <2>1 DEF ReplyInv, LastIs
  <2>3. QED
    BY <1>2, <1>4, <2>1, <2>2 DEF ReplyInv
<1>15. QED
  BY <1>6, <1>7, <1>8, <1>9, <1>10, <1>11, <1>12, <1>13, <1>14 DEF NodeStep

\* It holds in every reachable state.
LEMMA ReplyInvariant == Spec => []ReplyInv
<1>1. Init => ReplyInv
  BY DEF Init, ReplyInv
<1>2. TypeInv /\ ReplyInv /\ [Next]_vars => ReplyInv'
  <2> SUFFICES ASSUME TypeInv, ReplyInv, [Next]_vars PROVE ReplyInv'
    OBVIOUS
  <2>1. CASE StartTurn
    <3>1. /\ messages \in Seq(Message)
          /\ messages' = Append(messages, MsgOf("human", turn'))
          /\ turn' = turn + 1 /\ turn \in Nat
          /\ node' = "guardrails_in" /\ aborted' = FALSE
      BY <2>1 DEF StartTurn, TypeInv, TypeOK
    <3>2. MsgOf("human", turn').turn = turn'
      BY DEF MsgOf
    <3>3. LastIsOwn'
      BY <3>1, <3>2 DEF LastIsOwn
    <3>4. QED
      BY <3>1, <3>3 DEF ReplyInv
  <2>2. CASE NodeStep
    BY <2>2, ReplyStep
  <2>3. CASE Abort
    BY <2>3 DEF Abort, ReplyInv
  <2>4. CASE UNCHANGED vars
    BY <2>4 DEF ReplyInv, LastIsOwn, LastIs
  <2>5. QED
    BY <2>1, <2>2, <2>3, <2>4 DEF Next, Quiet
<1>3. QED
  BY <1>1, <1>2, TypeInvariant, PTL DEF Spec

\* After a turn that ran to its end the last message is this turn's and meant
\* for the client, but for a message that was redacted and refused.
THEOREM RepliesAreOfThisTurn == Spec => []ReplyIsForThisTurn
<1>1. ReplyInv => ReplyIsForThisTurn
  BY DEF ReplyInv, LastIsOwn, LastIs, ReplyIsForThisTurn
<1>2. QED
  BY <1>1, ReplyInvariant, PTL

-----------------------------------------------------------------------------
(* The session is a conversation.  What the invariants above say of a      *)
(* turn's last message and of its effects is all the abstract steps ask;   *)
(* what remains is that the log follows the messages.                      *)

ConversationState == <<Log, turn, State, effects>>

\* A message more is an entry more.
LEMMA LogAppends ==
    ASSUME messages \in Seq(Message), NEW m \in Message,
           messages' = Append(messages, m)
    PROVE  Log' = Append(Log, Conversed!Entry(m.turn, RoleOf(m.kind)))
<1>1. /\ Len(messages) \in Nat /\ Len(messages') = Len(messages) + 1
      /\ \A i \in 1 .. Len(messages) : messages'[i] = messages[i]
      /\ messages'[Len(messages) + 1] = m
  OBVIOUS
<1> DEFINE e == Conversed!Entry(m.turn, RoleOf(m.kind))
           E(x) == Conversed!Entry(x.turn, RoleOf(x.kind))
<1>2. /\ Log = [i \in 1 .. Len(messages) |-> E(messages[i])]
      /\ Log' = [i \in 1 .. Len(messages') |-> E(messages'[i])]
  BY DEF Log, Conversed!Entry
<1>3. e = E(m)
  OBVIOUS
<1> HIDE DEF e, E
<1> DEFINE S == {Log[i] : i \in 1 .. Len(messages)} \cup {e}
<1>4. Log \in Seq(S) /\ e \in S
  <2>1. Log \in [1 .. Len(messages) -> S]
    BY <1>2
  <2> HIDE DEF S
  <2>2. Log \in Seq(S)
    BY <1>1, <2>1
  <2> QED
    BY <2>2 DEF S
<1>5. Len(Log) = Len(messages)
  BY <1>1, <1>2
<1> HIDE DEF S
<1>6. Append(Log, e) = [i \in 1 .. Len(messages) + 1 |->
                          IF i = Len(messages) + 1 THEN e ELSE Log[i]]
  <2> DEFINE a == Append(Log, e)
  <2>1. /\ a \in Seq(S) /\ Len(a) = Len(messages) + 1
        /\ \A i \in 1 .. Len(messages) : a[i] = Log[i]
        /\ a[Len(messages) + 1] = e
    BY <1>4, <1>5
  <2> HIDE DEF a
  <2>2. a = [i \in 1 .. Len(messages) + 1 |-> a[i]]
    <3>1. a = [i \in 1 .. Len(a) |-> a[i]]
      BY <2>1
    <3> QED
      BY <2>1, <3>1
  <2>3. \A i \in 1 .. Len(messages) + 1 :
          a[i] = IF i = Len(messages) + 1 THEN e ELSE Log[i]
    BY <1>1, <2>1
  <2>4. a = [i \in 1 .. Len(messages) + 1 |-> IF i = Len(messages) + 1 THEN e ELSE Log[i]]
    BY <2>2, <2>3
  <2> QED
    BY <2>4 DEF a
<1>7. \A i \in 1 .. Len(messages) : Log[i] = E(messages[i])
  BY <1>2
<1>8. \A i \in 1 .. Len(messages) + 1 :
        E(messages'[i]) = IF i = Len(messages) + 1 THEN e ELSE Log[i]
  <2> SUFFICES ASSUME NEW i \in 1 .. Len(messages) + 1
               PROVE  E(messages'[i]) = IF i = Len(messages) + 1 THEN e ELSE Log[i]
    OBVIOUS
  <2>1. CASE i = Len(messages) + 1
    BY <1>1, <1>3, <2>1
  <2>2. CASE i # Len(messages) + 1
    <3>1. i \in 1 .. Len(messages)
      BY <1>1, <2>2
    <3> QED
      BY <1>1, <1>7, <2>2, <3>1
  <2> QED
    BY <2>1, <2>2
<1> QED
  BY <1>1, <1>2, <1>6, <1>8 DEF e

LogOf(ms) ==
    [i \in 1 .. Len(ms) |-> Conversed!Entry(ms[i].turn, RoleOf(ms[i].kind))]

\* The last entry is that of the last message.
LEMMA LastEntry ==
    ASSUME NEW ms \in Seq(Message), Len(ms) > 0
    PROVE  /\ Len(LogOf(ms)) = Len(ms) /\ LogOf(ms) # <<>>
           /\ LogOf(ms)[Len(LogOf(ms))]
                = Conversed!Entry(ms[Len(ms)].turn, RoleOf(ms[Len(ms)].kind))
<1>1. DOMAIN LogOf(ms) = 1 .. Len(ms) /\ Len(ms) \in Nat \ {0}
  BY DEF LogOf
<1>2. LogOf(ms) = [i \in 1 .. Len(ms) |-> LogOf(ms)[i]]
  BY <1>1 DEF LogOf
<1>3. Len(LogOf(ms)) = Len(ms)
  BY <1>1, <1>2
<1>4. LogOf(ms) # <<>>
  BY <1>1, <1>3
<1> QED
  BY <1>1, <1>3, <1>4 DEF LogOf

\* The log, as a function of the messages.
LEMMA LogIs == Log = LogOf(messages) /\ Log' = LogOf(messages')
BY DEF Log, LogOf, Conversed!Entry

\* Redacting the last message changes the last entry.
LEMMA LogRedacts ==
    ASSUME messages \in Seq(Message), Len(messages) > 0,
           messages' = Redacted(messages)
    PROVE  Log' = [Log EXCEPT ![Len(Log)] =
                     Conversed!Entry(messages[Len(messages)].turn, "redacted")]
<1> DEFINE n == Len(messages)
<1>1. n \in Nat \ {0} /\ Len(messages') = n /\ Len(Log) = n
  BY LastEntry, LogIs
<1>2. /\ \A i \in 1 .. n : i # n => messages'[i] = messages[i]
      /\ messages'[n] = [messages[n] EXCEPT !.kind = "redacted"]
  BY <1>1
<1>3. messages[n] \in Message
  BY <1>1
<1>4. messages'[n].turn = messages[n].turn /\ messages'[n].kind = "redacted"
  BY <1>2, <1>3 DEF Message
<1>5. RoleOf("redacted") = "redacted"
  BY DEF RoleOf
<1>6. /\ Log = [i \in 1 .. n |-> Conversed!Entry(messages[i].turn, RoleOf(messages[i].kind))]
      /\ Log' = [i \in 1 .. n |-> Conversed!Entry(messages'[i].turn, RoleOf(messages'[i].kind))]
  BY <1>1 DEF Log, Conversed!Entry
<1> HIDE DEF n
<1>7. \A i \in 1 .. n :
        Conversed!Entry(messages'[i].turn, RoleOf(messages'[i].kind))
          = IF i = n THEN Conversed!Entry(messages[n].turn, "redacted") ELSE Log[i]
  <2> SUFFICES ASSUME NEW i \in 1 .. n
               PROVE  Conversed!Entry(messages'[i].turn, RoleOf(messages'[i].kind))
                        = IF i = n THEN Conversed!Entry(messages[n].turn, "redacted") ELSE Log[i]
    OBVIOUS
  <2>1. CASE i = n
    <3>1. messages'[i].turn = messages[n].turn /\ messages'[i].kind = "redacted"
      BY <1>4, <2>1
    <3>2. RoleOf(messages'[i].kind) = "redacted"
      BY <1>5, <3>1
    <3>3. Conversed!Entry(messages'[i].turn, RoleOf(messages'[i].kind))
            = Conversed!Entry(messages[n].turn, "redacted")
      BY <3>1, <3>2, Zenon
    <3> QED
      BY <2>1, <3>3
  <2>2. CASE i # n
    <3>1. messages'[i] = messages[i]
      BY <1>2, <2>2, Zenon
    <3>2. Log[i] = Conversed!Entry(messages[i].turn, RoleOf(messages[i].kind))
      BY <1>6, Zenon
    <3> QED
      BY <2>2, <3>1, <3>2, Zenon
  <2> QED
    BY <2>1, <2>2
<1>8. [Log EXCEPT ![n] = Conversed!Entry(messages[n].turn, "redacted")]
        = [i \in 1 .. n |-> IF i = n THEN Conversed!Entry(messages[n].turn, "redacted") ELSE Log[i]]
  BY <1>6
<1> QED
  BY <1>1, <1>6, <1>7, <1>8 DEF n

\* What a node says: nothing, one message of this turn, or its redaction.
LEMMA SaysOwn ==
    ASSUME TypeInv, ReplyInv, node # "END", UNCHANGED turn,
           \/ messages' = messages
           \/ \E m \in Message :
                /\ m.turn = turn /\ m.kind \notin HumanKind
                /\ messages' = Append(messages, m)
           \/ /\ messages' = Redacted(messages)
              /\ messages[Len(messages)].kind = "human"
    PROVE  Conversed!Say
<1>1. messages \in Seq(Message) /\ LastIsOwn
  BY DEF TypeInv, TypeOK, ReplyInv
<1>2. CASE messages' = messages
  BY <1>2 DEF Log, Conversed!Say
<1>3. CASE \E m \in Message : /\ m.turn = turn /\ m.kind \notin HumanKind
                              /\ messages' = Append(messages, m)
  <2>1. PICK m \in Message : /\ m.turn = turn /\ m.kind \notin HumanKind
                             /\ messages' = Append(messages, m)
    BY <1>3
  <2>2. RoleOf(m.kind) \in {"answer", "inner"}
    BY <2>1 DEF RoleOf, HumanKind
  <2>3. Log' = Append(Log, Conversed!Entry(turn, RoleOf(m.kind)))
    BY <1>1, <2>1, LogAppends
  <2> QED
    BY <2>2, <2>3 DEF Conversed!Say
<1>4. CASE messages' = Redacted(messages) /\ messages[Len(messages)].kind = "human"
  <2>1. Len(messages) > 0 /\ messages[Len(messages)].turn = turn
    BY <1>1 DEF LastIsOwn
  <2>2. Log' = [Log EXCEPT ![Len(Log)] = Conversed!Entry(turn, "redacted")]
    BY <1>1, <1>4, <2>1, LogRedacts
  <2>3. Log # <<>> /\ Log[Len(Log)] = Conversed!Entry(turn, RoleOf("human"))
    BY <1>1, <1>4, <2>1, LastEntry, LogIs
  <2>4. RoleOf("human") = "question"
    BY DEF RoleOf
  <2> QED
    BY <2>2, <2>3, <2>4 DEF Conversed!Say
<1> QED
  BY <1>2, <1>3, <1>4

\* What a tool call does: nothing, or one effect within the limits.
LEMMA ActsWithinLimits ==
    ASSUME TypeInv, EffectsInv', UNCHANGED effects \/ Reaches(selected_tool)
    PROVE  Conversed!Act
BY DEF EffectsInv, EffectsWithinLimits, Reaches, Conversed!Act

\* Each node says and does only what a conversation allows.
LEMMA NodeSaysAndActs ==
    ASSUME TypeInv, ReplyInv, NodeStep
    PROVE  /\ Conversed!Say
           /\ UNCHANGED effects \/ (node' # "END" /\ Reaches(selected_tool))
           /\ node # "END" /\ UNCHANGED <<turn, aborted>> /\ ~aborted
<1>1. node # "END" /\ UNCHANGED <<turn, aborted>> /\ ~aborted
  BY DEF NodeStep, GuardrailsIn, CustomerDelegator, Classifier, HumanHandoff,
     ToolPlanner, ToolExecutor, Memory, ResponseGenerator, GuardrailsOut, Runs,
     ReplyInv
<1>2. turn \in Nat /\ messages \in Seq(Message) /\ LastIsOwn
  BY <1>1 DEF TypeInv, TypeOK, ReplyInv
<1>3. \A kind \in AIKind : /\ Msg(kind) \in Message /\ Msg(kind).turn = turn
                           /\ Msg(kind).kind = kind /\ kind \notin HumanKind
  <2>1. \A kind : Msg(kind).turn = turn /\ Msg(kind).kind = kind
    BY DEF Msg, MsgOf
  <2>2. \A kind \in AIKind : Msg(kind) \in Message
    BY <1>2, MsgTypes DEF Msg
  <2> QED
    BY <2>1, <2>2 DEF AIKind, HumanKind
<1>4. CASE GuardrailsIn
  <2>1. \/ messages' = messages \/ messages' = Append(messages, Msg("rejection"))
        \/ messages' = Redacted(messages)
    BY <1>4 DEF GuardrailsIn
  <2>2. messages[Len(messages)].kind = "human" /\ UNCHANGED effects
    BY <1>4 DEF GuardrailsIn, Runs, TypeInv, QuestionLast
  <2>3. "rejection" \in AIKind
    BY DEF AIKind
  <2> QED
    BY <1>1, <1>3, <2>1, <2>2, <2>3, SaysOwn
<1>5. CASE CustomerDelegator \/ Classifier \/ Memory \/ GuardrailsOut
  BY <1>1, <1>5, SaysOwn DEF CustomerDelegator, Classifier, Memory, GuardrailsOut
<1>6. CASE HumanHandoff \/ ResponseGenerator
  <2>1. {"handoff", "reply", "fallback"} \subseteq AIKind
    BY DEF AIKind
  <2> QED
    BY <1>1, <1>3, <1>6, <2>1, SaysOwn DEF HumanHandoff, ResponseGenerator
<1>7. CASE ToolPlanner
  <2>1. \/ messages' = messages \/ messages' = Append(messages, Msg("remark"))
        \/ \E tool \in AnyTool, extra \in 0 .. MaxExtraCalls :
             messages' = Append(messages, PlanMsg(tool, extra))
    BY <1>7 DEF ToolPlanner, PlanNothing, PlanFromLLM, PlannerFails, PlanRemark, PlanCall
  <2>2. ASSUME NEW tool \in AnyTool, NEW extra \in 0 .. MaxExtraCalls
        PROVE  /\ PlanMsg(tool, extra) \in Message
               /\ PlanMsg(tool, extra).turn = turn /\ PlanMsg(tool, extra).kind \notin HumanKind
    <3>1. extra \in Nat
      BY ConfigAssumption
    <3>2. PlanMsg(tool, extra) \in Message
      BY <1>2, <3>1, PlanMsgTypes
    <3> QED
      BY <3>2 DEF PlanMsg, HumanKind
  <2>3. "remark" \in AIKind
    BY DEF AIKind
  <2>4. UNCHANGED effects
    BY <1>7 DEF ToolPlanner
  <2> QED
    BY <1>1, <1>3, <2>1, <2>2, <2>3, <2>4, SaysOwn
<1>8. CASE ToolExecutor
  <2>1. messages' = Append(messages, ToolMsg(selected_tool, ExtractToolCallId(selected_tool)))
    BY <1>8 DEF ToolExecutor, Answer
  <2>2. ExtractToolCallId(selected_tool) \in Nat /\ selected_tool \in AnyTool
    <3>1. ExtractToolCallId(selected_tool) = Len(messages) /\ selected_tool \in AnyTool
      BY <1>8, AnswersLastPlan DEF ToolExecutor, Runs, TypeInv, TypeOK, PlanLast
    <3> QED
      BY <1>2, <3>1
  <2>3. ToolMsg(selected_tool, ExtractToolCallId(selected_tool)) \in Message
    BY <1>2, <2>2, ToolMsgTypes
  <2>4. /\ ToolMsg(selected_tool, ExtractToolCallId(selected_tool)).turn = turn
        /\ ToolMsg(selected_tool, ExtractToolCallId(selected_tool)).kind \notin HumanKind
    BY DEF ToolMsg, HumanKind
  <2>5. Conversed!Say
    BY <1>1, <2>1, <2>3, <2>4, SaysOwn
  <2>6. UNCHANGED effects \/ (node' # "END" /\ Reaches(selected_tool))
    BY <1>8 DEF ToolExecutor, LimitRefusal, CallSucceeds, CallFails, RouteAfterToolExecutor
  <2> QED
    BY <1>1, <2>5, <2>6
<1> QED
  BY <1>1, <1>4, <1>5, <1>6, <1>7, <1>8 DEF NodeStep

\* Every step of the graph is a step of the conversation, or none.
LEMMA ConversationStep ==
    TypeInv /\ ReplyInv /\ EffectsInv /\ TypeInv' /\ ReplyInv' /\ EffectsInv' /\ [Next]_vars
    => [Conversed!Next]_ConversationState
<1> SUFFICES ASSUME TypeInv, ReplyInv, EffectsInv, TypeInv', ReplyInv', EffectsInv',
                    [Next]_vars
             PROVE  [Conversed!Next]_ConversationState
  OBVIOUS
<1>1. /\ turn \in Nat /\ messages \in Seq(Message) /\ messages' \in Seq(Message)
  BY DEF TypeInv, TypeOK
<1>2. CASE StartTurn
  <2>1. /\ messages' = Append(messages, MsgOf("human", turn + 1))
        /\ node = "END" /\ node' = "guardrails_in" /\ turn' = turn + 1 /\ effects' = NoEffects
    BY <1>2 DEF StartTurn
  <2>2. /\ MsgOf("human", turn + 1) \in Message /\ MsgOf("human", turn + 1).kind = "human"
        /\ MsgOf("human", turn + 1).turn = turn + 1
    <3>1. turn + 1 \in Nat /\ "human" \in AIKind \cup HumanKind
      BY <1>1 DEF HumanKind
    <3> QED
      BY <3>1, MsgTypes DEF MsgOf
  <2>3. Log' = Append(Log, Conversed!Entry(turn + 1, RoleOf("human")))
    BY <1>1, <2>1, <2>2, LogAppends
  <2>4. RoleOf("human") = "question"
    BY DEF RoleOf
  <2> QED
    BY <2>1, <2>3, <2>4 DEF Conversed!Next, Conversed!Ask, State, NoEffects
<1>3. CASE NodeStep
  <2>1. /\ Conversed!Say
        /\ UNCHANGED effects \/ (node' # "END" /\ Reaches(selected_tool))
        /\ node # "END" /\ UNCHANGED <<turn, aborted>> /\ ~aborted
    BY <1>3, NodeSaysAndActs
  <2>2. State = "serving"
    BY <2>1 DEF State
  <2>3. CASE node' # "END"
    <3>1. Conversed!Act
      BY <2>1, ActsWithinLimits
    <3>2. State' = "serving"
      BY <2>3 DEF State
    <3> QED
      BY <2>1, <2>2, <3>1, <3>2 DEF Conversed!Next, Conversed!Work
  <2>4. CASE node' = "END"
    <3>1. State' = "idle" /\ UNCHANGED effects
      BY <2>1, <2>4 DEF State
    <3>2. /\ Len(messages') > 0 /\ messages'[Len(messages')].turn = turn
          /\ messages'[Len(messages')].kind
               \in {"rejection", "handoff", "reply", "fallback", "redacted"}
      <4>1. turn > 0
        BY <2>1 DEF ReplyInv
      <4> QED
        BY <2>1, <2>4, <4>1 DEF ReplyInv, LastIsOwn, LastIs
    <3>3. /\ Log'[Len(Log')] = Conversed!Entry(messages'[Len(messages')].turn,
                                               RoleOf(messages'[Len(messages')].kind))
      BY <1>1, <3>2, LastEntry, LogIs
    <3>4. RoleOf(messages'[Len(messages')].kind) \in {"answer", "redacted"}
      BY <3>2 DEF RoleOf
    <3>5. Log'[Len(Log')] \in {Conversed!Entry(turn, "answer"), Conversed!Entry(turn, "redacted")}
      BY <3>2, <3>3, <3>4
    <3> QED
      BY <2>1, <2>2, <3>1, <3>5 DEF Conversed!Next, Conversed!End
  <2> QED
    BY <2>3, <2>4
<1>4. CASE Abort
  <2>1. /\ node # "END" /\ node' = "END" /\ aborted' = TRUE /\ UNCHANGED <<messages, turn>>
        /\ UNCHANGED effects \/ Reaches(selected_tool)
    BY <1>4 DEF Abort
  <2>2. Conversed!Act
    BY <2>1, ActsWithinLimits
  <2>3. State = "serving" /\ State' = "dead" /\ Log' = Log
    BY <2>1 DEF State, Log
  <2> QED
    BY <2>1, <2>2, <2>3 DEF Conversed!Next, Conversed!Die
<1>5. CASE UNCHANGED vars
  BY <1>5 DEF ConversationState, Log, State
<1> QED
  BY <1>2, <1>3, <1>4, <1>5 DEF Next, Quiet

\* Whatever the LLMs, the guards and the tools answer, and wherever turns die:
\* the session's log only grows, each turn ends with a word of its own for the
\* client, and its effects stay within the limits at every step.
THEOREM GraphImplementsTheConversation == Spec => TurnsKeepTheConversation
<1>1. Init => Conversed!Init
  <2> SUFFICES ASSUME Init PROVE Conversed!Init
    OBVIOUS
  <2>1. Len(messages) = 0
    BY DEF Init
  <2>2. Log = <<>>
    BY <2>1 DEF Log
  <2> QED
    BY <2>2 DEF Init, State, NoEffects, Conversed!Init
<1>2. TypeInv /\ ReplyInv /\ EffectsInv /\ TypeInv' /\ ReplyInv' /\ EffectsInv' /\ [Next]_vars
      => [Conversed!Next]_(Conversed!conversationVars)
  BY ConversationStep DEF ConversationState, Conversed!conversationVars
<1> QED
  BY <1>1, <1>2, TypeInvariant, ReplyInvariant, EffectsInvariant, PTL
  DEF Spec, TurnsKeepTheConversation, Conversed!Spec

-----------------------------------------------------------------------------
(* What a conversation promises, and with it the checkpointed messages.    *)

Question == {"question", "redacted"}

\* The log is turn after turn, in order and none left out, each with one
\* question, which comes first.
TurnByTurn(log, t) ==
    /\ log \in Seq([turn : Nat, role : Conversed!Roles]) /\ t \in Nat
    /\ Len(log) = 0 <=> t = 0
    /\ Len(log) > 0 => log[1].turn = 1 /\ log[1].role \in Question /\ log[Len(log)].turn = t
    /\ \A i \in 2 .. Len(log) :
          \/ log[i].turn = log[i - 1].turn /\ log[i].role \notin Question
          \/ log[i].turn = log[i - 1].turn + 1 /\ log[i].role \in Question

TurnsAreWhole == TurnByTurn(Log, turn)

\* Nothing that was said is taken back or altered, but for the question that is
\* redacted before anything was said to it.
NothingIsRewritten ==
    \A i \in 1 .. Len(Log) :
        /\ i <= Len(Log')
        /\ \/ Log'[i] = Log[i]
           \/ /\ i = Len(Log) /\ Log[i] = Conversed!Entry(turn, "question")
              /\ Log'[i] = Conversed!Entry(turn, "redacted")

LEMMA AskingKeepsTurns ==
    ASSUME NEW log, NEW t, TurnByTurn(log, t)
    PROVE  TurnByTurn(Append(log, Conversed!Entry(t + 1, "question")), t + 1)
<1> DEFINE e == Conversed!Entry(t + 1, "question")
           n == Len(log)
           l == Append(log, e)
<1>1. /\ log \in Seq([turn : Nat, role : Conversed!Roles]) /\ t \in Nat /\ n \in Nat
      /\ e \in [turn : Nat, role : Conversed!Roles] /\ e.turn = t + 1 /\ e.role \in Question
  BY DEF TurnByTurn, Conversed!Entry, Conversed!Roles, Question
<1> HIDE DEF e
<1>2. /\ l \in Seq([turn : Nat, role : Conversed!Roles]) /\ Len(l) = n + 1 /\ l[n + 1] = e
      /\ \A i \in 1 .. n : l[i] = log[i]
  BY <1>1
<1> HIDE DEF l
<1>3. CASE n = 0
  <2>1. t = 0
    BY <1>3 DEF TurnByTurn
  <2>2. Len(l) = 1 /\ l[1] = e
    BY <1>1, <1>2, <1>3
  <2>3. TurnByTurn(l, t + 1)
    BY <1>1, <1>2, <2>1, <2>2 DEF TurnByTurn
  <2> QED
    BY <2>3 DEF l, e
<1>4. CASE n > 0
  <2>1. l[1] = log[1] /\ l[n] = log[n] /\ log[n].turn = t /\ l[Len(l)].turn = t + 1
    BY <1>1, <1>2, <1>4 DEF TurnByTurn
  <2>2. \A i \in 2 .. Len(l) :
          \/ l[i].turn = l[i - 1].turn /\ l[i].role \notin Question
          \/ l[i].turn = l[i - 1].turn + 1 /\ l[i].role \in Question
    <3> TAKE i \in 2 .. Len(l)
    <3>1. CASE i = n + 1
      <4>1. l[i] = e /\ l[i - 1] = log[n]
        BY <1>1, <1>2, <2>1, <3>1
      <4> QED
        BY <1>1, <2>1, <4>1
    <3>2. CASE i # n + 1
      <4> HIDE DEF n
      <4>0. i \in 2 .. n /\ i \in 1 .. n /\ i - 1 \in 1 .. n
        BY <1>1, <1>2, <3>2
      <4> USE DEF n
      <4>1. i \in 2 .. n /\ l[i] = log[i] /\ l[i - 1] = log[i - 1]
        BY <1>2, <4>0
      <4> QED
        BY <4>1 DEF TurnByTurn
    <3> QED
      BY <3>1, <3>2
  <2>3. TurnByTurn(l, t + 1)
    BY <1>1, <1>2, <1>4, <2>1, <2>2 DEF TurnByTurn
  <2> QED
    BY <2>3 DEF l, e
<1> QED
  BY <1>1, <1>3, <1>4

LEMMA AnsweringKeepsTurns ==
    ASSUME NEW log, NEW t, TurnByTurn(log, t), t # 0, NEW role \in {"answer", "inner"}
    PROVE  TurnByTurn(Append(log, Conversed!Entry(t, role)), t)
<1> DEFINE e == Conversed!Entry(t, role)
           n == Len(log)
           l == Append(log, e)
<1>1. /\ log \in Seq([turn : Nat, role : Conversed!Roles]) /\ t \in Nat /\ n \in Nat /\ n > 0
      /\ e \in [turn : Nat, role : Conversed!Roles] /\ e.turn = t /\ e.role \notin Question
  BY DEF TurnByTurn, Conversed!Entry, Conversed!Roles, Question
<1> HIDE DEF e
<1>2. /\ l \in Seq([turn : Nat, role : Conversed!Roles]) /\ Len(l) = n + 1 /\ l[n + 1] = e
      /\ \A i \in 1 .. n : l[i] = log[i]
  BY <1>1
<1> HIDE DEF l
<1>3. l[1] = log[1] /\ l[n] = log[n] /\ log[n].turn = t /\ l[Len(l)].turn = t
  BY <1>1, <1>2 DEF TurnByTurn
<1>4. \A i \in 2 .. Len(l) :
        \/ l[i].turn = l[i - 1].turn /\ l[i].role \notin Question
        \/ l[i].turn = l[i - 1].turn + 1 /\ l[i].role \in Question
  <2> TAKE i \in 2 .. Len(l)
  <2>1. CASE i = n + 1
    <3>1. l[i] = e /\ l[i - 1] = log[n]
      BY <1>1, <1>2, <1>3, <2>1
    <3> QED
      BY <1>1, <1>3, <3>1
  <2>2. CASE i # n + 1
    <3>0. i \in 2 .. n /\ i \in 1 .. n /\ i - 1 \in 1 .. n
      BY <1>1, <1>2, <2>2
    <3>1. i \in 2 .. n /\ l[i] = log[i] /\ l[i - 1] = log[i - 1]
      BY <1>2, <3>0
    <3> QED
      BY <3>1 DEF TurnByTurn
  <2> QED
    BY <2>1, <2>2
<1>5. TurnByTurn(l, t)
  BY <1>1, <1>2, <1>3, <1>4 DEF TurnByTurn
<1> QED
  BY <1>5 DEF l, e

LEMMA RedactingKeepsTurns ==
    ASSUME NEW log, NEW t, TurnByTurn(log, t), t # 0,
           log[Len(log)] = Conversed!Entry(t, "question")
    PROVE  TurnByTurn([log EXCEPT ![Len(log)] = Conversed!Entry(t, "redacted")], t)
<1> DEFINE e == Conversed!Entry(t, "redacted")
           n == Len(log)
           l == [log EXCEPT ![n] = e]
<1>1. /\ log \in Seq([turn : Nat, role : Conversed!Roles]) /\ t \in Nat /\ n \in Nat /\ n > 0
      /\ e \in [turn : Nat, role : Conversed!Roles] /\ e.turn = t /\ e.role \in Question
      /\ log[n].turn = t /\ log[n].role \in Question
  BY DEF TurnByTurn, Conversed!Entry, Conversed!Roles, Question
<1> HIDE DEF e
<1>2. /\ l \in Seq([turn : Nat, role : Conversed!Roles]) /\ Len(l) = n /\ l[n] = e
      /\ \A i \in 1 .. n : i # n => l[i] = log[i]
  BY <1>1
<1> HIDE DEF l
<1>3. \A i \in 1 .. n : l[i].turn = log[i].turn /\ (l[i].role \in Question <=> log[i].role \in Question)
  BY <1>1, <1>2
<1>4. \A i \in 2 .. Len(l) :
        \/ l[i].turn = l[i - 1].turn /\ l[i].role \notin Question
        \/ l[i].turn = l[i - 1].turn + 1 /\ l[i].role \in Question
  <2> TAKE i \in 2 .. Len(l)
  <2>1. i \in 2 .. n /\ i \in 1 .. n /\ i - 1 \in 1 .. n
    BY <1>1, <1>2
  <2>2. \/ log[i].turn = log[i - 1].turn /\ log[i].role \notin Question
        \/ log[i].turn = log[i - 1].turn + 1 /\ log[i].role \in Question
    BY <2>1 DEF TurnByTurn
  <2> QED
    BY <1>3, <2>1, <2>2
<1>5. l[1].turn = 1 /\ l[1].role \in Question /\ l[Len(l)].turn = t
  <2>1. log[1].turn = 1 /\ log[1].role \in Question /\ 1 \in 1 .. n /\ n \in 1 .. n
    BY <1>1 DEF TurnByTurn
  <2> QED
    BY <1>1, <1>2, <1>3, <2>1
<1>6. TurnByTurn(l, t)
  BY <1>1, <1>2, <1>4, <1>5 DEF TurnByTurn
<1> QED
  BY <1>6 DEF l, e

LogInv == TurnsAreWhole /\ (State = "serving" => turn # 0)

LEMMA LogStep ==
    ASSUME LogInv, [Conversed!Next]_(Conversed!conversationVars)
    PROVE  LogInv' /\ NothingIsRewritten
<1> DEFINE log == Log
           s == State
<1>0. TurnsAreWhole' <=> TurnByTurn(log', turn')
  BY DEF TurnsAreWhole, TurnByTurn
<1>1. TurnByTurn(log, turn) /\ (s = "serving" => turn # 0)
  BY DEF LogInv, TurnsAreWhole
<1>2. Len(log) \in Nat /\ turn \in Nat /\ log \in Seq([turn : Nat, role : Conversed!Roles])
  BY <1>1 DEF TurnByTurn
<1>3. SUFFICES /\ TurnByTurn(log', turn') /\ (s' = "serving" => turn' # 0)
               /\ \A i \in 1 .. Len(log) :
                    /\ i <= Len(log')
                    /\ \/ log'[i] = log[i]
                       \/ /\ i = Len(log) /\ log[i] = Conversed!Entry(turn, "question")
                          /\ log'[i] = Conversed!Entry(turn, "redacted")
  BY <1>0 DEF LogInv, NothingIsRewritten
<1>4. CASE Conversed!Ask
  <2>1. log' = Append(log, Conversed!Entry(turn + 1, "question")) /\ turn' = turn + 1
    BY <1>4 DEF Conversed!Ask
  <2> HIDE DEF log, s
  <2>2. TurnByTurn(log', turn')
    BY <1>1, <2>1, AskingKeepsTurns
  <2> QED
    BY <1>2, <2>1, <2>2
<1>5. ASSUME s = "serving", Conversed!Say, turn' = turn
      PROVE  <1>3!1
  <2> HIDE DEF s
  <2>1. CASE log' = log
    <3> HIDE DEF log
    <3> QED
      BY <1>1, <1>2, <1>5, <2>1
  <2>2. ASSUME NEW role \in {"answer", "inner"}, log' = Append(log, Conversed!Entry(turn, role))
        PROVE  <1>3!1
    <3> HIDE DEF log
    <3>1. TurnByTurn(log', turn')
      BY <1>1, <1>5, <2>2, AnsweringKeepsTurns
    <3> QED
      BY <1>1, <1>2, <1>5, <2>2, <3>1
  <2>3. CASE /\ log # <<>> /\ log[Len(log)] = Conversed!Entry(turn, "question")
             /\ log' = [log EXCEPT ![Len(log)] = Conversed!Entry(turn, "redacted")]
    <3> HIDE DEF log
    <3>1. TurnByTurn(log', turn')
      BY <1>1, <1>5, <2>3, RedactingKeepsTurns
    <3> QED
      BY <1>1, <1>2, <1>5, <2>3, <3>1
  <2> QED
    BY <1>5, <2>1, <2>2, <2>3 DEF Conversed!Say
<1>6. CASE Conversed!Work \/ Conversed!End
  BY <1>5, <1>6 DEF Conversed!Work, Conversed!End
<1>7. CASE Conversed!Die \/ UNCHANGED Conversed!conversationVars
  <2>1. log' = log /\ turn' = turn /\ s' \in {s, "dead"}
    BY <1>7 DEF Conversed!Die, Conversed!conversationVars
  <2> HIDE DEF log, s
  <2> QED
    BY <1>1, <1>2, <2>1
<1> QED
  BY <1>4, <1>6, <1>7 DEF Conversed!Next

LEMMA LogBegins == Conversed!Init => LogInv
<1> SUFFICES ASSUME Conversed!Init PROVE LogInv
  OBVIOUS
<1>1. Log = <<>> /\ turn = 0 /\ State = "idle"
  BY DEF Conversed!Init
<1>2. TurnByTurn(<<>>, 0)
  BY DEF TurnByTurn
<1> QED
  BY <1>1, <1>2 DEF LogInv, TurnsAreWhole

\* The checkpointed messages are turn after turn, none left out or mixed with
\* another, each beginning with its one user message, also when turns die.
THEOREM TheLogIsTurnByTurn == Spec => []TurnsAreWhole
<1>1. LogInv => TurnsAreWhole
  BY DEF LogInv
<1>2. LogInv /\ [Conversed!Next]_(Conversed!conversationVars) => LogInv'
  BY LogStep
<1> QED
  BY <1>1, <1>2, LogBegins, GraphImplementsTheConversation, PTL
  DEF TurnsKeepTheConversation, Conversed!Spec

\* No node, retry, rewrite or crash alters what the session already holds.
THEOREM NothingSaidIsAltered == Spec => [][NothingIsRewritten]_ConversationState
<1>1. LogInv /\ [Conversed!Next]_(Conversed!conversationVars)
      => LogInv' /\ [NothingIsRewritten]_ConversationState
  BY LogStep
<1> QED
  BY <1>1, LogBegins, GraphImplementsTheConversation, PTL
  DEF TurnsKeepTheConversation, Conversed!Spec

=============================================================================
