----------------------------- MODULE EvalHarness -----------------------------
(***************************************************************************)
(* One run of an evaluation: a suite feeds the records of its dataset to a *)
(* node of the agent, a few at a time, and ends with exit code 0 or 1.     *)
(*                                                                         *)
(* The calls overlap, share one LLM object with one callback, and each has *)
(* its tokens counted by the handler of its own task.  Nodes answer an LLM *)
(* failure with a fallback, so that most failures reach the metrics as an  *)
(* ordinary answer.                                                        *)
(***************************************************************************)
EXTENDS EvalMetrics

CONSTANTS
    Suites,
    Size,         \* bound: records of a suite's dataset that parse
    ExecutorCases,  \* the records a tool_executor dataset may have
    Concurrency   \* --concurrency

\* The thresholds that a rounded rate is compared to, 1.0 among them.
RoundedAgainst == {T.safety_recall, T.tool_selection, T.overall, All}

\* limit stands for the three limit categories; a record may expect anything.
ExecutorCase ==
    [category : {"success_read", "success_write", "limit", "no_tool", "server_error",
                 "tool_not_found"},
     selected_tool : BOOLEAN, expected_success : BOOLEAN,
     expected_counts_incremented : BOOLEAN, include_writes : BOOLEAN]

ASSUME ConfigAssumption ==
    /\ None \notin {0, 1}
    /\ ExecutorCases \subseteq ExecutorCase
    /\ Suites \subseteq {"customer_delegator", "classifier", "tool_planner", "tool_executor",
                        "product_tools", "memory", "response_generator"}
    /\ T.safety_recall \in 1 .. All
    /\ {T.tool_selection, T.overall, T.entity_retention, T.off_topic_refusal,
         T.false_block} \subseteq 0 .. All
    /\ \A s \in Suites :
           Size[s] \in Nat /\ \A t \in RoundedAgainst : Coarse(t, Size[s])

VARIABLES
    suite,
    include_writes,
    dataset,
    status,     \* of each record's task; <<>> before run_all
    active,     \* _token_handler_var as each task sees it: whose handler
    handler,    \* prompt_tokens of each task's TokenCaptureHandler
    answer,     \* what the node came to
    recorded,   \* the tokens in the result
    exit,
    spent       \* history: tokens of the calls the task itself made

vars == <<suite, include_writes, dataset, status, active, handler, answer, recorded,
          exit, spent>>

-----------------------------------------------------------------------------
(* Records.                                                                *)

Case(s) ==
    CASE s = "customer_delegator" -> [expected : Domains]
      [] s = "classifier" ->
             UNION {[domain : {d}, expected : Intents[d]] : d \in DOMAIN Intents}
      [] s = "tool_planner" -> [expected : {None, "own"}, customer : BOOLEAN]
      [] s = "tool_executor" -> ExecutorCases
      [] s = "product_tools" ->
             [category : {"search", "status_exclusion", "keyword_miss", "detail", "not_found"}]
      [] s = "memory" -> [category : {"below_threshold", "at_threshold", "pair_preservation"}]
      [] s = "response_generator" -> [asks : BOOLEAN, off_topic : BOOLEAN]

Triggers(record) == record.category # "below_threshold"

\* Checks of a suite an answer may fail, one at a time.
Faults(checks) == {{}} \cup {{c} : c \in checks}

UsesLLM == suite \notin {"tool_executor", "product_tools"}

-----------------------------------------------------------------------------
(* What the node may come to, and what run_single makes of it.             *)

\* Only the planner's verdict looks at the time a record took that raised.
Raised == [raised : {TRUE}, slow : IF suite = "tool_planner" THEN BOOLEAN ELSE {FALSE}]

DelegatorAnswers == [raised : {FALSE}, domain : Domains]

DelegatorResult(record, a) ==
    [expected |-> record.expected,
     predicted |-> IF a.raised THEN "need_advice" ELSE a.domain]

\* sure: a confidence above 0.
ClassifierAnswers(record) ==
    [raised : {FALSE}, intent : Intents[record.domain], sure : {TRUE}]
        \cup [raised : {FALSE}, intent : {DomainFallback(record.domain)}, sure : {FALSE}]

ClassifierResult(record, a) ==
    [expected |-> record.expected, domain |-> record.domain,
     predicted |-> IF a.raised THEN DomainFallback(record.domain) ELSE a.intent,
     requires_tool |-> ~a.raised /\ record.domain \in ToolDomains,
     error |-> IF a.raised THEN "raised"
               ELSE IF a.sure THEN "none" ELSE "classifier_fallback"]

\* reserved: a tool customers may not have; filled: hundredths of the arguments.
PlannerAnswers ==
    [raised : {FALSE}, tool : {None, "wrong", "reserved"}, filled : {0}, slow : BOOLEAN]
        \cup [raised : {FALSE}, tool : {"own"}, filled : {50, 100}, slow : BOOLEAN]

PlannerResult(record, a) ==
    [expected |-> record.expected, customer |-> record.customer,
     predicted |-> IF a.raised THEN None ELSE a.tool,
     tool_correct |-> ~a.raised /\ a.tool = record.expected,
     args_covered |-> IF a.raised THEN 0 ELSE a.filled,
     slow |-> a.slow]

\* refused: a tool_error with the text that the record expects; failed: any
\* other; payload: a result that carries the server's error inside; partial: one
\* without a key the record expects.  counted: of the tool the record selects.
ExecutorAnswers ==
    [raised : {FALSE}, outcome : {"data", "partial", "payload", "failed", "refused"},
     message : {"none", "linked", "stray"}, counted : BOOLEAN, slow : BOOLEAN]

Skipped(record) ==
    suite = "tool_executor" /\ record.include_writes /\ ~include_writes

ExecutorResult(record, a) ==
    LET outcome == IF a.raised THEN "failed" ELSE a.outcome
        message == IF a.raised THEN "none" ELSE a.message
        counted == ~a.raised /\ record.selected_tool /\ a.counted
        tool_error == outcome \in {"failed", "refused"}
    IN  [category |-> record.category, skipped |-> FALSE, error |-> a.raised,
         failed |-> tool_error,
         tool_message_appended |-> message # "none",
         tool_call_id_linked |-> message # "stray",
         counts_incremented_correctly |-> counted = record.expected_counts_incremented,
         limit_error_correct |->
             record.category = "limit" =>
                 IF record.expected_success THEN ~tool_error ELSE outcome = "refused",
         success_correct |-> IF record.expected_success
                               THEN outcome \in {"data", "payload"}
                               ELSE outcome \in {"payload", "failed", "refused"},
         slow |-> ~a.raised /\ a.slow]

SkippedResult(record) ==
    [category |-> record.category, skipped |-> TRUE, error |-> FALSE, failed |-> FALSE,
     tool_message_appended |-> FALSE, tool_call_id_linked |-> TRUE,
     counts_incremented_correctly |-> TRUE, limit_error_correct |-> TRUE,
     success_correct |-> TRUE, slow |-> FALSE]

ProductAnswers ==
    [raised : {FALSE},
     failed : Faults({"success", "contains", "excluded", "count", "error_type", "fields"})]

ProductResult(record, a) ==
    [category |-> record.category, error |-> a.raised,
     failed |-> IF a.raised THEN {} ELSE a.failed]

\* No summary, or one of 2 or 8 tokens for every 10; an outage leaves a short
\* one that has lost what it was to keep.
MemoryAnswers ==
    [raised : {FALSE}, summary : {FALSE}]
        \cup [raised : {FALSE}, summary : {TRUE},
              failed : Faults({"contains", "excludes", "pair", "long", "wordy"})]

MemoryResult(record, a) ==
    LET triggered == ~a.raised /\ a.summary
        Failed(check) == triggered /\ check \in a.failed
    IN  [category |-> record.category, expected_triggers |-> Triggers(record),
         actual_triggers |-> triggered,
         contains_passed |-> triggered /\ ~Failed("contains"),
         excludes_passed |-> ~Failed("excludes"), pair_preserved |-> ~Failed("pair"),
         long |-> Failed("long"), input |-> IF triggered THEN 10 ELSE 0,
         output |-> IF Failed("wordy") THEN 8 ELSE IF triggered THEN 2 ELSE 0]

ResponseAnswers == [raised : {FALSE}, failed : Faults({"missing", "leak"}), refuses : BOOLEAN]

\* Without a response nothing leaks; only what was asked for is missing.
ResponseResult(record, a) ==
    [off_topic |-> record.off_topic,
     must_contain_passed |-> record.asks => (~a.raised /\ "missing" \notin a.failed),
     must_not_contain_passed |-> a.raised \/ "leak" \notin a.failed,
     is_refusal |-> ~a.raised /\ a.refuses]

Answers(record) ==
    CASE suite = "customer_delegator" -> DelegatorAnswers
      [] suite = "classifier" -> ClassifierAnswers(record)
      [] suite = "tool_planner" -> PlannerAnswers
      [] suite = "tool_executor" -> ExecutorAnswers
      [] suite = "product_tools" -> ProductAnswers
      [] suite = "memory" -> MemoryAnswers
      [] suite = "response_generator" -> ResponseAnswers

\* The answers of a node whose LLM call failed.
Fallback(record, a) ==
    CASE suite = "customer_delegator" -> a.domain = "need_advice"
      [] suite = "classifier" -> ~a.sure
      [] suite = "tool_planner" -> a.tool = None
      [] suite = "memory" -> a.summary => "contains" \in a.failed
      [] suite = "response_generator" -> "missing" \in a.failed /\ ~a.refuses
      [] OTHER -> TRUE

Result(record, a) ==
    CASE suite = "customer_delegator" -> DelegatorResult(record, a)
      [] suite = "classifier" -> ClassifierResult(record, a)
      [] suite = "tool_planner" -> PlannerResult(record, a)
      [] suite = "tool_executor" ->
             IF Skipped(record) THEN SkippedResult(record) ELSE ExecutorResult(record, a)
      [] suite = "product_tools" -> ProductResult(record, a)
      [] suite = "memory" -> MemoryResult(record, a)
      [] suite = "response_generator" -> ResponseResult(record, a)

Passes(res) ==
    CASE suite = "customer_delegator" -> ~DelegatorAborts(res) /\ DelegatorPasses(res)
      [] suite = "classifier" ->
             /\ ~ClassifierAborts(res) /\ ~ClassifierCrashes(res)
             /\ ClassifierPasses(res)
      [] suite = "tool_planner" -> PlannerPasses(res)
      [] suite = "tool_executor" -> ExecutorPasses(res)
      [] suite = "product_tools" -> ProductToolsPass(res)
      [] suite = "memory" -> MemoryPasses(res)
      [] suite = "response_generator" -> ResponsesPass(res)

-----------------------------------------------------------------------------
(* The run.                                                                *)

Tasks == DOMAIN dataset
Running == {i \in DOMAIN status : status[i] \in {"running", "called"}}

Init ==
    /\ suite \in Suites
    /\ include_writes \in IF suite = "tool_executor" THEN BOOLEAN ELSE {FALSE}
    /\ dataset \in UNION {[1 .. n -> Case(suite)] : n \in 0 .. Size[suite]}
    /\ status = <<>>
    /\ active = [i \in Tasks |-> 0] /\ handler = [i \in Tasks |-> 0]
    /\ answer = [i \in Tasks |-> None] /\ recorded = [i \in Tasks |-> 0]
    /\ exit = None /\ spent = [i \in Tasks |-> 0]

\* Nothing parsed, the MCP server is not there, or a record's messages cannot
\* be built, which run_single does outside of its try.
NeverRuns ==
    /\ status = <<>> /\ exit = None
    /\ exit' = 1
    /\ UNCHANGED <<suite, include_writes, dataset, status, active, handler, answer,
                   recorded, spent>>

RunAll ==
    /\ status = <<>> /\ exit = None /\ dataset # <<>>
    /\ status' = [i \in Tasks |-> IF Skipped(dataset[i]) THEN "done" ELSE "waiting"]
    /\ UNCHANGED <<suite, include_writes, dataset, active, handler, answer, recorded,
                   exit, spent>>

\* Mutant: one handler for all tasks, the one set last.
ActivatedForAll(i) == [j \in Tasks |-> i]

\* capture_tokens sets the variable in the context of its own task.
Activated(i) == [active EXCEPT ![i] = i]

\* The semaphore admits the tasks in the order they were made.
Start(i) ==
    /\ exit = None /\ status[i] = "waiting"
    /\ \A j \in 1 .. i - 1 : status[j] # "waiting"
    /\ Cardinality(Running) < Concurrency
    /\ status' = [status EXCEPT ![i] = "running"]
    /\ active' = IF UsesLLM THEN Activated(i) ELSE active
    /\ UNCHANGED <<suite, include_writes, dataset, handler, answer, recorded, exit, spent>>

\* on_llm_end: the callback on the shared LLM object finds the handler.
LLMEnds(i) ==
    /\ UsesLLM /\ exit = None /\ status[i] = "running"
    /\ status' = [status EXCEPT ![i] = "called"]
    /\ spent' = [spent EXCEPT ![i] = @ + 1]
    /\ handler' = IF active[i] = 0 THEN handler
                  ELSE [handler EXCEPT ![active[i]] = @ + 1]
    /\ UNCHANGED <<suite, include_writes, dataset, active, answer, recorded, exit>>

\* The node returns or raises; the tokens are read only after a return.
Finish(i, a) ==
    /\ exit = None /\ i \in Running
    /\ (status[i] = "running" /\ ~a.raised) => Fallback(dataset[i], a)
    /\ status' = [status EXCEPT ![i] = "done"]
    /\ answer' = [answer EXCEPT ![i] = a]
    /\ recorded' = [recorded EXCEPT ![i] = IF a.raised THEN 0 ELSE handler[i]]
    /\ active' = [active EXCEPT ![i] = 0]
    /\ UNCHANGED <<suite, include_writes, dataset, handler, exit, spent>>

\* main: the aborts, the report, the verdict, sys.exit.
Report ==
    /\ exit = None /\ status # <<>> /\ \A i \in Tasks : status[i] = "done"
    /\ exit' = IF Passes([i \in Tasks |-> Result(dataset[i], answer[i])]) THEN 0 ELSE 1
    /\ UNCHANGED <<suite, include_writes, dataset, status, active, handler, answer,
                   recorded, spent>>

Next ==
    \/ NeverRuns \/ RunAll \/ Report
    \/ \E i \in DOMAIN status :
           \/ Start(i) \/ LLMEnds(i)
           \/ \E a \in Answers(dataset[i]) \cup Raised : Finish(i, a)

Spec == Init /\ [][Next]_vars

-----------------------------------------------------------------------------
(* What a run promises.                                                    *)

\* A result carries the tokens of its record's own calls, however the calls
\* overlapped, and none if the node raised.
TokensAreTheirOwn ==
    \A i \in DOMAIN status :
        status[i] = "done" /\ answer[i] # None =>
            recorded[i] = IF answer[i].raised THEN 0 ELSE spent[i]

Share(good, due, t) == All * Cardinality(good) >= t * Cardinality(due)

\* Records, and among them those whose node returned something with P.
Of(Q(_)) == {i \in Tasks : ~Skipped(dataset[i]) /\ Q(dataset[i])}
With(S, P(_)) == {i \in S : ~answer[i].raised /\ P(answer[i])}

GreenDelegator ==
    /\ \A c \in {"escalate", "block"} :
           LET due == Of(LAMBDA r : r.expected = c) IN
           due # {} /\ Share(With(due, LAMBDA a : a.domain = c), due, T.safety_recall)
    /\ LET legitimate == Of(LAMBDA r : r.expected # "block") IN
       All * Cardinality(With(legitimate, LAMBDA a : a.domain = "block"))
           <= T.false_block * Cardinality(legitimate)

GreenClassifier ==
    /\ \A d \in DOMAIN Intents : Of(LAMBDA r : r.domain = d) # {}
    /\ With(Of(LAMBDA r : r.domain \in ToolDomains), LAMBDA a : TRUE)
           = Of(LAMBDA r : r.domain \in ToolDomains)
    /\ 5 * Cardinality(With(Tasks, LAMBDA a : ~a.sure)) <= Len(dataset)

GreenPlanner ==
    /\ Share({i \in With(Tasks, LAMBDA a : TRUE) : answer[i].tool = dataset[i].expected},
             Tasks, T.tool_selection)
    /\ With(Of(LAMBDA r : r.customer), LAMBDA a : a.tool = "reserved") = {}

\* A call below its limit goes through, one at the limit is refused.
LimitHeld(record, a) ==
    IF record.expected_success THEN a.outcome \notin {"failed", "refused"}
    ELSE a.outcome = "refused"

\* Records that were skipped are not looked at.
GreenExecutor ==
    \A i \in Of(LAMBDA r : TRUE) :
        /\ ~answer[i].raised
        /\ dataset[i].selected_tool =>
               answer[i].counted = dataset[i].expected_counts_incremented
        /\ dataset[i].category = "limit" => LimitHeld(dataset[i], answer[i])
        /\ dataset[i].category = "no_tool" =>
               answer[i].message = "none" /\ answer[i].outcome \in {"failed", "refused"}
        /\ dataset[i].category # "no_tool" => answer[i].message = "linked"

\* Records that raised are not looked at.
GreenProducts ==
    LET returned == With(Tasks, LAMBDA a : TRUE) IN
    /\ Share(With(returned, LAMBDA a : a.failed = {}), returned, T.overall)
    /\ With(Of(LAMBDA r : r.category = "status_exclusion"),
            LAMBDA a : "excluded" \in a.failed) = {}

GreenMemory ==
    /\ With(Tasks, LAMBDA a : a.summary) = Of(Triggers)
    /\ Of(Triggers) # {}
    /\ With(Of(Triggers), LAMBDA a : a.failed \cap {"excludes", "long"} # {}) = {}
    /\ With(Of(LAMBDA r : r.category = "pair_preservation"),
            LAMBDA a : "pair" \in a.failed) = {}
    /\ Share(With(Of(Triggers), LAMBDA a : "contains" \notin a.failed), Of(Triggers),
             T.entity_retention)

GreenResponses ==
    /\ With(Tasks, LAMBDA a : "leak" \in a.failed) = {}
    /\ LET due == Of(LAMBDA r : r.off_topic) IN
       Share(With(due, LAMBDA a : a.refuses), due, T.off_topic_refusal)

\* A run that ends with 0 has seen its node do what the suite is there to see,
\* in the records that its verdict is over.  Where an escalation, a block, a
\* tool or a summary was due, a record that raised is a miss; one that raised
\* fails a run of the executor, and of the classifier in a domain with tools.
\* The executor's verdict is over the records it did not skip and that of the
\* product tools over those that did not raise: a run with none of them ends
\* with 0 as well, and has seen nothing.
GreenRunsSawIt ==
    exit = 0 =>
        CASE suite = "customer_delegator" -> GreenDelegator
          [] suite = "classifier" -> GreenClassifier
          [] suite = "tool_planner" -> GreenPlanner
          [] suite = "tool_executor" -> GreenExecutor
          [] suite = "product_tools" -> GreenProducts
          [] suite = "memory" -> GreenMemory
          [] suite = "response_generator" -> GreenResponses

==============================================================================
