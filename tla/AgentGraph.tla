------------------------------ MODULE AgentGraph ------------------------------
(***************************************************************************)
(* The LangGraph state machine behind the chat endpoints: one session (one *)
(* thread_id), one turn at a time, one action per node.  LangGraph merges a*)
(* node's partial update into the state, evaluates the conditional edge on *)
(* the merged state and checkpoints the result, so a node and the edge     *)
(* behind it are one atomic step.  What an LLM, a guard or the MCP server  *)
(* answers is a nondeterministic choice.                                   *)
(***************************************************************************)
EXTENDS AgentVocabulary, SessionMemory, FiniteSets

CONSTANTS
    UserRole,            \* the role in the caller's token
    Registry,            \* the tools the MCP server lists
    UnlistedTool,        \* a tool name the planner's LLM made up
    LLMDomains,          \* the domains the delegator's LLM may answer
    LLMIntents,          \* the intents the classifier's LLM may answer
    MAX_TOOL_RETRIES,
    MAX_OUTPUT_RETRIES,
    SUMMARIZE_AFTER_N,
    DestructiveLimit,    \* settings.agent_tool_destructive_limit
    WriteLimit,          \* settings.agent_tool_write_limit
    ReadLimit,           \* settings.agent_tool_read_limit: all calls together
    MaxExtraCalls,       \* bound: tool calls in one AIMessage beyond the first
    MaxTurns             \* bound: turns in the session

ASSUME ConfigAssumption ==
    /\ UserRole \in Role
    /\ UnlistedTool \notin Registry
    /\ "none" \notin Registry \cup {UnlistedTool}
    /\ "cancel_order" \in Registry /\ "initiate_refund" \in Registry
    /\ LLMDomains \subseteq CustomerDomain
    /\ LLMIntents \subseteq IntentType
    /\ MAX_TOOL_RETRIES \in Nat /\ MAX_OUTPUT_RETRIES \in Nat
    /\ SUMMARIZE_AFTER_N \in Nat \ {0}
    /\ DestructiveLimit \in Nat /\ WriteLimit \in Nat /\ ReadLimit \in Nat
    /\ MaxExtraCalls \in Nat /\ MaxTurns \in Nat

VARIABLES
    node,                \* the node about to run, or "END" between turns
    messages,
    customer_domain, intent, requires_tool, needs_escalation,
    selected_tool, tool_result, tool_error, tool_call_counts,
    tool_retry_count, output_retry_count,
    input_safe, output_safe, guardrail_violation,
    context_summary, summarized_message_count,
    \* History variables: no action's guard reads them.
    turn,                \* the number of the current or last turn
    aborted,             \* the last turn died before reaching END
    steps,               \* super-steps of this turn
    executions,          \* completed runs of tool_executor in this turn
    effects,             \* calls of each tool the MCP server ran in this turn
    generations          \* runs of response_generator in this turn

classVars == <<customer_domain, intent, requires_tool>>
toolVars  == <<selected_tool, tool_result, tool_error, tool_call_counts,
               tool_retry_count>>
guardVars == <<input_safe, output_safe, guardrail_violation,
               output_retry_count>>
memVars   == <<context_summary, summarized_message_count>>
callVars  == <<executions, effects>>

vars == <<node, messages, classVars, needs_escalation, toolVars, guardVars,
          memVars, turn, aborted, steps, callVars, generations>>

-----------------------------------------------------------------------------
Node ==
    {"END", "guardrails_in", "customer_delegator", "classifier",
     "human_handoff", "tool_planner", "tool_executor", "memory",
     "response_generator", "guardrails_out"}

\* A reply is the LLM's text, a fallback the canned one; a remark is the text
\* the planner's LLM wrote instead of calling a tool; a plan carries calls.
AIKind == {"rejection", "handoff", "remark", "plan", "reply", "fallback"}

HumanKind == {"human", "redacted"}

AnyTool == Registry \cup {UnlistedTool}

\* calls: tool calls a plan carries.  answers: the index of the plan a
\* ToolMessage's tool_call_id points into, 0 for the sentinel id.
Message ==
    [kind : AIKind \cup HumanKind \cup {"tool"}, turn : Nat,
     tool : AnyTool \cup {"none"}, calls : Nat, answers : Nat]

MsgOf(kind, t) ==
    [kind |-> kind, turn |-> t, tool |-> "none", calls |-> 0, answers |-> 0]

Msg(kind) == MsgOf(kind, turn)

PlanMsg(tool, extra) ==
    [kind |-> "plan", turn |-> turn, tool |-> tool, calls |-> 1 + extra,
     answers |-> 0]

ToolMsg(tool, plan) ==
    [kind |-> "tool", turn |-> turn, tool |-> tool, calls |-> 0,
     answers |-> plan]

\* _extract_tool_call_id: the most recent AIMessage that calls this tool.
ExtractToolCallId(tool) ==
    LET plans == {i \in 1 .. Len(messages) :
                    messages[i].kind = "plan" /\ messages[i].tool = tool}
    IN  IF plans = {} THEN 0
        ELSE CHOOSE i \in plans : \A j \in plans : j <= i

NoCounts == [class \in ToolClass |-> 0]

NoEffects == [tool \in Registry |-> 0]

\* Mutant: the destructive limit compared with > instead of >=.
LimitErrorOffByOne(tool, counts) ==
    LET class      == ClassifyTool(tool)
        writeTotal == counts["write"] + counts["destructive"]
    IN  \/ class = "destructive" /\ counts["destructive"] > DestructiveLimit
        \/ class \in {"write", "destructive"} /\ writeTotal >= WriteLimit
        \/ writeTotal + counts["read"] >= ReadLimit

\* _check_tool_limits: destructive, then write (which includes destructive),
\* then the cap on all calls.
LimitError(tool, counts) ==
    LET class      == ClassifyTool(tool)
        writeTotal == counts["write"] + counts["destructive"]
    IN  \/ class = "destructive" /\ counts["destructive"] >= DestructiveLimit
        \/ class \in {"write", "destructive"} /\ writeTotal >= WriteLimit
        \/ writeTotal + counts["read"] >= ReadLimit

Count(counts, tool) == [counts EXCEPT ![ClassifyTool(tool)] = @ + 1]

\* Mutant: the LLM's intent is taken as it is.
TrustedIntent(i, domain) == i

ValidateIntentForDomain(i, domain) ==
    IF i \in DOMAIN_INTENT_MAP[domain] THEN i ELSE DOMAIN_FALLBACK_INTENT[domain]

\* The longest turn: the tool path with every retry and every rewrite.  A
\* rejected response is counted before the edge reads the counter, so the
\* budget is the number of generations, and 0 and 1 both mean a single one.
GenerationBound == IF MAX_OUTPUT_RETRIES = 0 THEN 1 ELSE MAX_OUTPUT_RETRIES

StepBound == 4 + 2 * (MAX_TOOL_RETRIES + 1) + 2 * GenerationBound

-----------------------------------------------------------------------------
(* The conditional edges.                                                  *)

RouteAfterGuardrailsIn(safe) ==
    IF safe THEN "customer_delegator" ELSE "END"

RouteAfterDelegator(domain) ==
    IF domain \in {"escalate", "block"} THEN "human_handoff" ELSE "classifier"

\* Mutant: a direct response is sent back to the node before.
RouteAfterClassifierBack(escalate, tool) ==
    IF escalate THEN "human_handoff"
    ELSE IF tool THEN "tool_planner"
    ELSE "customer_delegator"

RouteAfterClassifier(escalate, tool) ==
    IF escalate THEN "human_handoff"
    ELSE IF tool THEN "tool_planner"
    ELSE "memory"

\* Mutant: a planner that called no tool has answered already.
RouteAfterToolPlannerToEnd(tool) ==
    IF tool # "none" THEN "tool_executor" ELSE "END"

RouteAfterToolPlanner(tool) ==
    IF tool # "none" THEN "tool_executor" ELSE "memory"

\* Mutant: one retry too few.
RouteAfterToolExecutorEarly(error, retries) ==
    IF error # "none" /\ retries + 1 < MAX_TOOL_RETRIES
      THEN "tool_planner" ELSE "memory"

RouteAfterToolExecutor(error, retries) ==
    IF error # "none" /\ retries < MAX_TOOL_RETRIES
      THEN "tool_planner" ELSE "memory"

\* Mutants: rewriting without a budget, and with one generation too few.
RouteAfterGuardrailsOutForever(safe, retries) ==
    IF ~safe THEN "response_generator" ELSE "END"

RouteAfterGuardrailsOutEarly(safe, retries) ==
    IF ~safe /\ retries + 1 < MAX_OUTPUT_RETRIES
      THEN "response_generator" ELSE "END"

RouteAfterGuardrailsOut(safe, retries) ==
    IF ~safe /\ retries < MAX_OUTPUT_RETRIES
      THEN "response_generator" ELSE "END"

-----------------------------------------------------------------------------
(* The initial state: create_initial_state, before the first message.      *)

Init ==
    /\ node = "END"
    /\ messages = <<>>
    /\ customer_domain = "need_advice"
    /\ intent = "unknown"
    /\ requires_tool = FALSE /\ needs_escalation = FALSE
    /\ selected_tool = "none"
    /\ tool_result = 0
    /\ tool_error = "none"
    /\ tool_call_counts = NoCounts
    /\ tool_retry_count = 0 /\ output_retry_count = 0
    /\ input_safe = TRUE /\ output_safe = TRUE
    /\ guardrail_violation = "none"
    /\ context_summary = "none" /\ summarized_message_count = 0
    /\ turn = 0 /\ aborted = FALSE /\ steps = 0
    /\ executions = 0 /\ effects = NoEffects /\ generations = 0

\* Mutant: _TURN_RESET without "tool_result".
ResetToolButResult ==
    /\ selected_tool' = "none" /\ tool_error' = "none"
    /\ tool_call_counts' = NoCounts
    /\ tool_retry_count' = 0
    /\ UNCHANGED tool_result

\* Mutant: _TURN_RESET without "tool_retry_count".
ResetToolButCount ==
    /\ selected_tool' = "none" /\ tool_result' = 0 /\ tool_error' = "none"
    /\ tool_call_counts' = NoCounts
    /\ UNCHANGED tool_retry_count

ResetTool ==
    /\ selected_tool' = "none" /\ tool_result' = 0 /\ tool_error' = "none"
    /\ tool_call_counts' = NoCounts
    /\ tool_retry_count' = 0

TurnReset ==
    /\ ResetTool
    /\ intent' = "unknown"
    /\ requires_tool' = FALSE /\ needs_escalation' = FALSE
    /\ input_safe' = TRUE /\ output_safe' = TRUE
    /\ guardrail_violation' = "none" /\ output_retry_count' = 0

\* A new message: _build_turn_input appends it and resets the per-turn fields.
\* The summary, its cursor and customer_domain survive.
StartTurn ==
    /\ node = "END" /\ turn < MaxTurns
    /\ node' = "guardrails_in"
    /\ turn' = turn + 1
    /\ messages' = Append(messages, MsgOf("human", turn + 1))
    /\ TurnReset
    /\ aborted' = FALSE /\ steps' = 0
    /\ executions' = 0 /\ effects' = NoEffects /\ generations' = 0
    /\ UNCHANGED <<customer_domain, memVars>>

\* A node runs: one more super-step of this turn.  The counter stops one past
\* the bound StepsBounded states, so that a turn that loops is finite-state.
Runs(n) ==
    /\ node = n
    /\ steps' = IF steps > StepBound THEN steps ELSE steps + 1
    /\ UNCHANGED <<turn, aborted>>

\* Mutant: the session's first message is redacted.
RedactedFirst(log) == [log EXCEPT ![1].kind = "redacted"]

\* The redacted text takes the place of the message just asked.
Redacted(log) == [log EXCEPT ![Len(log)].kind = "redacted"]

\* tooLong is checked first and returns before PII is looked for; the rate
\* limit and the injection scan come after it.  Their rejection and the PII
\* redaction both write the key "messages", and the redaction wins.
GuardrailsIn ==
    /\ Runs("guardrails_in")
    /\ \E tooLong, hasPii, overLimit, injection \in BOOLEAN :
         LET rejected == tooLong \/ overLimit \/ injection
             redacted == ~tooLong /\ hasPii
         IN  /\ messages' =
                  IF redacted THEN Redacted(messages)
                    ELSE IF rejected THEN Append(messages, Msg("rejection"))
                    ELSE messages
             /\ input_safe' = ~rejected
             /\ guardrail_violation' = IF rejected THEN "input" ELSE "none"
             /\ node' = RouteAfterGuardrailsIn(~rejected)
    /\ UNCHANGED <<classVars, needs_escalation, toolVars, output_safe,
                   output_retry_count, memVars, callVars, generations>>

\* No answer, an error or a low confidence all leave "need_advice".
CustomerDelegator ==
    /\ Runs("customer_delegator")
    /\ customer_domain' \in LLMDomains \cup {"need_advice"}
    /\ node' = RouteAfterDelegator(customer_domain')
    /\ UNCHANGED <<messages, intent, requires_tool, needs_escalation, toolVars,
                   guardVars, memVars, callVars, generations>>

\* The LLM's intent is forced into the domain's set; an error or a low
\* confidence leaves the domain's fallback.
Classifier ==
    /\ Runs("classifier")
    /\ \/ intent' = DOMAIN_FALLBACK_INTENT[customer_domain]
       \/ \E i \in LLMIntents :
            intent' = ValidateIntentForDomain(i, customer_domain)
    /\ requires_tool' = (customer_domain \in TOOL_DOMAINS)
    /\ needs_escalation' = (intent' \in ESCALATION_INTENTS)
    /\ node' = RouteAfterClassifier(needs_escalation', requires_tool')
    /\ UNCHANGED <<messages, customer_domain, toolVars, guardVars, memVars,
                   callVars, generations>>

HumanHandoff ==
    /\ Runs("human_handoff")
    /\ messages' = Append(messages, Msg("handoff"))
    /\ needs_escalation' = TRUE
    /\ node' = "END"
    /\ UNCHANGED <<classVars, toolVars, guardVars, memVars, callVars,
                   generations>>

-----------------------------------------------------------------------------
(* The planner.  A planner entered with tool_error set is a retry and      *)
(* counts itself; a failed validation counts always.                       *)

\* Mutant: retries go uncounted.
RetryUncounted == 0

Retry == IF tool_error # "none" THEN 1 ELSE 0

\* An intent that needs no tool: the node's own early return.
PlanNothing ==
    /\ intent \in NO_TOOL_INTENTS
    /\ selected_tool' = "none" /\ tool_error' = "none"
    /\ requires_tool' = FALSE
    /\ UNCHANGED <<messages, tool_retry_count>>

\* The registry or the LLM raised.
PlannerFails ==
    /\ selected_tool' = "none" /\ tool_error' = "planner"
    /\ tool_retry_count' = tool_retry_count + Retry
    /\ UNCHANGED <<messages, requires_tool>>

\* The LLM answered with a text and no tool call.
PlanRemark ==
    /\ selected_tool' = "none" /\ tool_error' = "none"
    /\ requires_tool' = FALSE
    /\ tool_retry_count' = tool_retry_count + Retry
    /\ messages' = Append(messages, Msg("remark"))

\* The tools the planner's LLM is bound to, the only ones whose schema a call's
\* arguments are held against.
Scope == ScopeToolsForIntent(Registry, intent, UserRole)

\* Only the first of the message's calls is planned.  A name outside the scope
\* matches no schema and passes, whether the server lists it or nobody does.
PlanCall(tool, extra) ==
    /\ messages' = Append(messages, PlanMsg(tool, extra))
    /\ UNCHANGED requires_tool
    /\ \/ /\ selected_tool' = tool /\ tool_error' = "none"
          /\ tool_retry_count' = tool_retry_count + Retry
       \/ /\ tool \in Scope
          /\ selected_tool' = "none" /\ tool_error' = "planner"
          /\ tool_retry_count' = tool_retry_count + 1

PlanFromLLM ==
    \/ PlannerFails
    \/ PlanRemark
    \/ \E tool \in AnyTool, extra \in 0 .. MaxExtraCalls : PlanCall(tool, extra)

ToolPlanner ==
    /\ Runs("tool_planner")
    /\ IF intent \in NO_TOOL_INTENTS THEN PlanNothing ELSE PlanFromLLM
    /\ node' = RouteAfterToolPlanner(selected_tool')
    /\ UNCHANGED <<customer_domain, intent, needs_escalation, tool_result,
                   tool_call_counts, guardVars, memVars, callVars, generations>>

-----------------------------------------------------------------------------
(* The executor: one ToolMessage on every path.                            *)

Answer == messages' = Append(messages,
                             ToolMsg(selected_tool,
                                     ExtractToolCallId(selected_tool)))

\* The limit is checked before the call and a refused call is not counted.
LimitRefusal ==
    /\ LimitError(selected_tool, tool_call_counts)
    /\ tool_result' = 0 /\ tool_error' = "executor"
    /\ UNCHANGED <<tool_call_counts, effects>>

Reaches(tool) ==
    /\ tool \in Registry
    /\ effects' = [effects EXCEPT ![tool] = @ + 1]

\* The server ran the tool and its answer arrived (a refusal on business
\* grounds is an answer too: a dict with an "error" key).
CallSucceeds ==
    /\ ~LimitError(selected_tool, tool_call_counts)
    /\ Reaches(selected_tool)
    /\ tool_result' = turn /\ tool_error' = "none"
    /\ tool_call_counts' = Count(tool_call_counts, selected_tool)

\* The connection failed, the tool is not listed, the tool raised, or its
\* answer was lost after it ran: the same exception handler either way.
CallFails ==
    /\ ~LimitError(selected_tool, tool_call_counts)
    /\ Reaches(selected_tool) \/ UNCHANGED effects
    /\ tool_result' = 0 /\ tool_error' = "executor"
    /\ tool_call_counts' = Count(tool_call_counts, selected_tool)

ToolExecutor ==
    /\ Runs("tool_executor")
    /\ LimitRefusal \/ CallSucceeds \/ CallFails
    /\ Answer
    /\ executions' = executions + 1
    /\ node' = RouteAfterToolExecutor(tool_error', tool_retry_count)
    /\ UNCHANGED <<classVars, needs_escalation, selected_tool, tool_retry_count,
                   guardVars, memVars, generations>>

-----------------------------------------------------------------------------
(* Memory, response and output guard.                                      *)

\* A failing summarizer LLM yields a note in place of a text, and the cursor
\* advances all the same.
Summarize(result) ==
    /\ Fires(messages, summarized_message_count, SUMMARIZE_AFTER_N)
    /\ context_summary' = result
    /\ summarized_message_count' =
         SafeHorizon(messages, summarized_message_count)

Memory ==
    /\ Runs("memory")
    /\ \/ \E result \in {"text", "empty"} : Summarize(result)
       \/ /\ ~Fires(messages, summarized_message_count, SUMMARIZE_AFTER_N)
          /\ UNCHANGED memVars
    /\ node' = "response_generator"
    /\ UNCHANGED <<messages, classVars, needs_escalation, toolVars, guardVars,
                   callVars, generations>>

ResponseGenerator ==
    /\ Runs("response_generator")
    /\ \E kind \in {"reply", "fallback"} :
         messages' = Append(messages, Msg(kind))
    /\ output_safe' = TRUE
    /\ generations' = generations + 1
    /\ node' = "guardrails_out"
    /\ UNCHANGED <<classVars, needs_escalation, toolVars, input_safe,
                   guardrail_violation, output_retry_count, memVars, callVars>>

\* Any text of the LLM may fail a check; the canned fallbacks pass them all.
GuardrailsOut ==
    /\ Runs("guardrails_out")
    /\ \E safe \in BOOLEAN :
         /\ safe \/ messages[Len(messages)].kind = "reply"
         /\ output_safe' = safe
         /\ guardrail_violation' = IF safe THEN "none" ELSE "output"
         /\ output_retry_count' =
              IF safe THEN output_retry_count ELSE output_retry_count + 1
    /\ node' = RouteAfterGuardrailsOut(output_safe', output_retry_count')
    /\ UNCHANGED <<messages, classVars, needs_escalation, toolVars, input_safe,
                   memVars, callVars, generations>>

-----------------------------------------------------------------------------
(* The turn dies between two checkpoints: the process is restarted or the  *)
(* client's disconnect cancels the event stream.  The last checkpoint      *)
(* stays; a tool call on its way may have taken effect unrecorded.         *)

Abort ==
    /\ node # "END"
    /\ node' = "END" /\ aborted' = TRUE
    /\ \/ UNCHANGED effects
       \/ /\ node = "tool_executor"
          /\ ~LimitError(selected_tool, tool_call_counts)
          /\ Reaches(selected_tool)
    /\ UNCHANGED <<messages, classVars, needs_escalation, toolVars, guardVars,
                   memVars, turn, steps, executions, generations>>

\* The user sends nothing more (the bound on turns is reached).
Quiet ==
    /\ node = "END" /\ turn = MaxTurns
    /\ UNCHANGED vars

NodeStep ==
    \/ GuardrailsIn \/ CustomerDelegator \/ Classifier \/ HumanHandoff
    \/ ToolPlanner \/ ToolExecutor \/ Memory \/ ResponseGenerator
    \/ GuardrailsOut

Next == StartTurn \/ NodeStep \/ Abort \/ Quiet

Spec == Init /\ [][Next]_vars

\* LangGraph schedules the next node as soon as the one before returned, and
\* no node waits for ever: Redis and MCP calls have configured timeouts, LLM
\* calls the OpenAI client's default one.  The user need not go on.
FairSpec == Spec /\ WF_vars(NodeStep)

-----------------------------------------------------------------------------
(* What the graph promises.                                                *)

TypeOK ==
    /\ node \in Node
    /\ messages \in Seq(Message)
    /\ customer_domain \in CustomerDomain
    /\ intent \in IntentType
    /\ requires_tool \in BOOLEAN /\ needs_escalation \in BOOLEAN
    /\ selected_tool \in AnyTool \cup {"none"}
    /\ tool_result \in Nat
    /\ tool_error \in {"none", "planner", "executor"}
    /\ tool_call_counts \in [ToolClass -> Nat]
    /\ tool_retry_count \in Nat /\ output_retry_count \in Nat
    /\ input_safe \in BOOLEAN /\ output_safe \in BOOLEAN
    /\ guardrail_violation \in {"none", "input", "output"}
    /\ context_summary \in Summary
    /\ summarized_message_count \in Nat
    /\ turn \in Nat /\ aborted \in BOOLEAN /\ steps \in Nat
    /\ executions \in Nat /\ effects \in [Registry -> Nat]
    /\ generations \in Nat

\* No turn runs into LangGraph's recursion limit: however the tool loop and
\* the rewrite loop interleave with errors, the number of super-steps stays
\* below a bound computed from the two retry constants.
StepsBounded == steps <= StepBound

\* A retry is charged exactly once: when the executor is about to run,
\* tool_retry_count is the number of runs that already failed in this turn,
\* although planner and executor each see only a part of the loop.
RetriesCountExecutions ==
    node = "tool_executor" =>
        /\ tool_retry_count = executions
        /\ executions <= MAX_TOOL_RETRIES

\* The per-turn limits hold for what the MCP server really ran, calls whose
\* answer was lost and calls cut short by a crash included: no turn cancels
\* an order more often than the destructive limit, nor writes more often than
\* the write limit.
EffectsWithinLimits ==
    /\ effects["cancel_order"] <= DestructiveLimit
    /\ effects["cancel_order"] + effects["initiate_refund"] <= WriteLimit

\* The customer is told of a failing tool only when the whole retry budget was
\* spent on running it.
ApologyAfterBudget ==
    node = "memory" /\ tool_error = "executor"
        => executions = MAX_TOOL_RETRIES + 1

\* A turn ends with a response the output guard refused only when it refused
\* as many generations as the budget allows.
UnsafeOnlyAfterBudget ==
    node = "END" /\ ~aborted /\ ~output_safe
        => generations = GenerationBound

\* The response generator is told about a violation exactly when it rewrites:
\* never about one of an earlier turn, and never without it.  Its data come
\* from this turn, and never together with an error; a tool's error is one of
\* this turn, too.
GroundedInThisTurn ==
    node = "response_generator" =>
        /\ guardrail_violation = (IF generations > 0 THEN "output" ELSE "none")
        /\ tool_result \in {0, turn}
        /\ tool_result = 0 \/ tool_error = "none"
        /\ tool_error = "executor" => executions > 0
        /\ output_retry_count = generations

\* The planner plans, and the server runs what is planned, only behind the three
\* gates of this turn, whichever tool the planner's LLM names: the input guard
\* let the question pass, the delegator chose a domain that uses tools, and the
\* classifier's intent is one of that domain, needs a tool and calls for no
\* human.  Of a turn that died, what the server ran is bound by it, too.
ToolsRunBehindTheGates ==
    node = "tool_planner" \/ (\E tool \in Registry : effects[tool] > 0) =>
        /\ input_safe /\ ~needs_escalation
        /\ customer_domain \in TOOL_DOMAINS
        /\ intent \in DOMAIN_INTENT_MAP[customer_domain] \ NO_TOOL_INTENTS

Window == WindowStart(context_summary, summarized_message_count)

\* The cut never separates a tool's answer from the call it answers: the plan
\* each ToolMessage of the window points to is in the window, before it.
WindowPairsIntact ==
    \A i \in Window + 1 .. Len(messages) :
        messages[i].kind = "tool" =>
            /\ messages[i].answers \in Window + 1 .. i - 1
            /\ messages[messages[i].answers].kind = "plan"
            /\ messages[messages[i].answers].tool = messages[i].tool

\* The window the response LLM gets never outgrows the batch size by more
\* than one call-answer pair and the rejected drafts of this turn, as long as
\* the summarizer has not answered with an empty text.
WindowBounded ==
    node = "response_generator" /\ context_summary # "empty"
        => Len(messages) - Window <= SUMMARIZE_AFTER_N + 1 + generations

\* What the client gets is the last AIMessage.  After a turn that ran to END
\* it was written in that turn, for the client: no plan, no remark of the
\* planner, nothing left over.  The one exception is a redacted and refused
\* message, which leaves the turn without an AIMessage.
ReplyIsForThisTurn ==
    node = "END" /\ ~aborted /\ turn > 0 =>
        LET last == messages[Len(messages)]
        IN  /\ last.turn = turn
            /\ \/ last.kind \in {"rejection", "handoff", "reply", "fallback"}
               \/ last.kind = "redacted" /\ ~input_safe

\* The session as the conversation it is for the client and for later turns.
RoleOf(kind) ==
    IF kind = "human" THEN "question"
    ELSE IF kind = "redacted" THEN "redacted"
    ELSE IF kind \in {"rejection", "handoff", "reply", "fallback"} THEN "answer"
    ELSE "inner"

Log ==
    [i \in 1 .. Len(messages) |->
        [turn |-> messages[i].turn, role |-> RoleOf(messages[i].kind)]]

State ==
    IF node # "END" THEN "serving" ELSE IF aborted THEN "dead" ELSE "idle"

Conversed == INSTANCE Conversation WITH
    Tools <- Registry, Cancel <- "cancel_order", Refund <- "initiate_refund",
    log <- Log, state <- State, ran <- effects

\* A turn adds to the session and changes nothing of the turns before it, but
\* for redacting its own question; it ends with a word of its own for the
\* client or behind that redaction; and its tools stay within the limits at
\* every step, retries, rewrites, lost answers and deaths included.
TurnsKeepTheConversation == Conversed!Spec

\* Every message a user sent and no crash cut short gets its turn to an end.
TurnEnds == node # "END" ~> node = "END"

==============================================================================
