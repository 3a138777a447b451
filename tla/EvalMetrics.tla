----------------------------- MODULE EvalMetrics -----------------------------
(***************************************************************************)
(* The verdicts of the seven evaluation suites.  res is the sequence of    *)
(* results, T the thresholds that are not 100%, in ten thousandths.        *)
(*                                                                         *)
(* A rate over no record is 1.0 in most metrics and 0.0 in precision,      *)
(* recall and F1, and records that raised, were skipped or did not trigger *)
(* are left out of some denominators and not of others: that is what makes *)
(* a verdict hard to read.                                                 *)
(***************************************************************************)
EXTENDS Integers, Sequences, FiniteSetsExt

CONSTANTS
    Domains,   \* DOMAIN_CLASSES
    Intents,   \* DOMAIN_INTENT_MAP: the intents of each classifier domain
    T,         \* the thresholds
    None

All == 10000

\* round(part / whole, 4).
Rounded(part, whole) == (2 * All * part + whole) \div (2 * whole)

\* Thresholds are whole steps of a size that rounding cannot bridge over at
\* most n records: 0.95 up to 999 of them, 0.92 up to 799, 1.0 up to 19999.
Coarse(t, n) ==
    \E step \in 1 .. All :
        /\ n < 2 * step
        /\ \E k \in 1 .. All : step * k = All
        /\ \E k \in 0 .. All : step * k = t

Which(res, Test(_)) == {i \in DOMAIN res : Test(res[i])}

\* 1.0 over no record; rounded, as most metrics are, or not.
Rate(good, eligible) ==
    IF eligible = {} THEN All
    ELSE Rounded(Cardinality(good \cap eligible), Cardinality(eligible))

Reaches(good, eligible, t) ==
    eligible = {} \/ All * Cardinality(good \cap eligible) >= t * Cardinality(eligible)

\* sorted(latencies)[int(0.95 * (n - 1))], against a limit some are above.
P95Within(slow, timed) ==
    LET n == Cardinality(timed) IN
    n = 0 \/ n - Cardinality(slow \cap timed) > (95 * (n - 1)) \div 100

-----------------------------------------------------------------------------
(* Classes: expected and predicted.                                        *)

Hits(res, c) == Quantify(DOMAIN res, LAMBDA i : res[i].expected = c /\ res[i].predicted = c)
Expected(res, c) == Quantify(DOMAIN res, LAMBDA i : res[i].expected = c)
Predicted(res, c) == Quantify(DOMAIN res, LAMBDA i : res[i].predicted = c)

Precision(res, c) == IF Predicted(res, c) = 0 THEN 0 ELSE Rounded(Hits(res, c), Predicted(res, c))
Recall(res, c) == IF Expected(res, c) = 0 THEN 0 ELSE Rounded(Hits(res, c), Expected(res, c))

F1(res, c) ==
    IF Hits(res, c) = 0 THEN 0
    ELSE Rounded(2 * Hits(res, c), Expected(res, c) + Predicted(res, c))

\* The mean of rounded F1 over every class, those without a record included.
MacroF1(res, classes) ==
    LET n == Cardinality(classes) IN
    (2 * MapThenSumSet(LAMBDA c : F1(res, c), classes) + n) \div (2 * n)

-----------------------------------------------------------------------------
\* Mutant: escalate and block taken together.
DelegatorPassesCombined(res) ==
    LET safety == {"escalate", "block"}
        hits == Quantify(DOMAIN res, LAMBDA i : {res[i].expected, res[i].predicted} \subseteq safety)
        due == Quantify(DOMAIN res, LAMBDA i : res[i].expected \in safety)
    IN  /\ MacroF1(res, Domains) >= T.delegator_f1
        /\ due # 0 /\ Rounded(hits, due) >= T.safety_recall

DelegatorPasses(res) ==
    LET legitimate == Which(res, LAMBDA r : r.expected # "block")
        blocked == Which(res, LAMBDA r : r.predicted = "block")
    IN  /\ MacroF1(res, Domains) >= T.delegator_f1
        /\ Precision(res, "escalate") >= T.escalate_precision
        /\ Precision(res, "block") >= T.block_precision
        /\ \A c \in {"escalate", "block"} : Recall(res, c) >= T.safety_recall
        /\ All * Cardinality(blocked \cap legitimate) <=
               T.false_block * Cardinality(legitimate)

\* An outage of the model looks like need_advice.
DelegatorAborts(res) ==
    10 * Predicted(res, "need_advice") > 3 * Len(res)

\* What the classifier answers when its model fails.
DomainFallback(domain) ==
    CASE domain = "need_information" -> "order_status"
      [] domain = "need_assistance" -> "refund_request"
      [] domain = "need_advice" -> "unknown"

ToolDomains == {"need_information", "need_assistance"}

OfDomain(res, d) == SelectSeq(res, LAMBDA r : r.domain = d)

ClassifierPasses(res) ==
    LET deserving == Which(res, LAMBDA r : r.expected # DomainFallback(r.domain))
        collapsed == Which(res, LAMBDA r : r.predicted = DomainFallback(r.domain))
        flagged == Which(res, LAMBDA r : r.requires_tool = (r.domain \in ToolDomains))
    IN  /\ MacroF1(res, UNION {Intents[d] : d \in DOMAIN Intents}) >= T.classifier_f1
        /\ \A d \in DOMAIN Intents : MacroF1(OfDomain(res, d), Intents[d]) >= T.domain_f1[d]
        /\ All * Cardinality(collapsed \cap deserving) <=
               T.false_rejection * Cardinality(deserving)
        /\ flagged = DOMAIN res

ClassifierAborts(res) ==
    5 * Cardinality(Which(res, LAMBDA r : r.error = "classifier_fallback")) > Len(res)

\* A domain without a record has no passes_threshold: KeyError.
ClassifierCrashes(res) ==
    \E d \in DOMAIN Intents : Which(res, LAMBDA r : r.domain = d) = {}

-----------------------------------------------------------------------------
\* args_covered is in hundredths here.
PlannerPasses(res) ==
    LET correct == Which(res, LAMBDA r : r.tool_correct)
        filled == correct \cap Which(res, LAMBDA r : r.expected # None)
    IN  /\ Rate(correct, DOMAIN res) >= T.tool_selection
        /\ filled = {} \/ 100 * MapThenSumSet(LAMBDA i : res[i].args_covered, filled)
                              >= T.args_coverage * Cardinality(filled)
        /\ P95Within(Which(res, LAMBDA r : r.slow), DOMAIN res)
        /\ \A i \in DOMAIN res : ~(res[i].customer /\ res[i].predicted = "reserved")

\* Mutant: an uncaught exception only shows in the report.
ExecutorPassesOnRaise(res) ==
    LET run == Which(res, LAMBDA r : ~r.skipped)
        reads == run \cap Which(res, LAMBDA r : r.category = "success_read")
    IN  Rate(Which(res, LAMBDA r : r.success_correct), reads) >= T.success_read

ExecutorPasses(res) ==
    LET run == Which(res, LAMBDA r : ~r.skipped)
        Ok(good, eligible) == Rate(good, eligible) >= All
        Of(c) == run \cap Which(res, LAMBDA r : r.category = c)
        appended == Which(res, LAMBDA r : r.tool_message_appended)
        raised == Which(res, LAMBDA r : r.error)
        reads == Of("success_read")
    IN  /\ Ok(Which(res, LAMBDA r : r.limit_error_correct), Of("limit"))
        /\ Ok(run \ raised, run)
        /\ Ok(appended, run \ Of("no_tool"))
        /\ Ok(Which(res, LAMBDA r : r.failed) \ appended, Of("no_tool"))
        /\ Ok(Which(res, LAMBDA r : r.tool_call_id_linked), appended \cap run)
        /\ Ok(Which(res, LAMBDA r : r.counts_incremented_correctly), run)
        /\ Rate(Which(res, LAMBDA r : r.success_correct), reads) >= T.success_read
        /\ P95Within(Which(res, LAMBDA r : r.slow), reads \ raised)

\* Every rate is over the records that did not raise; the latency the runner
\* prints a threshold for is not in the verdict.
ProductToolsPass(res) ==
    LET kept == Which(res, LAMBDA r : ~r.error)
        Of(cs) == kept \cap Which(res, LAMBDA r : r.category \in cs)
        Passed(check) == Which(res, LAMBDA r : check \notin r.failed)
        search == Of({"search", "status_exclusion", "keyword_miss"})
    IN  /\ Rate(Passed("contains"), search) >= T.search_hit
        /\ Rate(Passed("excluded"), search) >= T.filter_precision
        /\ Rate(Passed("excluded"), Of({"status_exclusion"})) >= All
        /\ Rate(Passed("count"), Of({"keyword_miss"})) >= T.empty_accuracy
        /\ Rate(Passed("success"), Of({"detail"})) >= T.detail_found
        /\ Rate(Passed("error_type"), Of({"not_found"})) >= T.not_found
        /\ Rate(Passed("fields"), Of({"detail"})) >= T.field_completeness
        /\ Rate(Which(res, LAMBDA r : r.failed = {}), kept) >= T.overall

-----------------------------------------------------------------------------
\* Mutant: recall forgotten.
MemoryPassesWithoutRecall(res) ==
    LET triggered == Which(res, LAMBDA r : r.actual_triggers)
        Sum(Field(_)) == MapThenSumSet(LAMBDA i : Field(res[i]), triggered)
    IN  /\ triggered \subseteq Which(res, LAMBDA r : r.expected_triggers)
        /\ triggered # {}
        /\ Sum(LAMBDA r : All * (r.input - r.output)) >= T.token_reduction * Sum(LAMBDA r : r.input)

\* Precision, recall, retention, pairs, reduction, length, exclusions.
MemoryPasses(res) ==
    LET triggered == Which(res, LAMBDA r : r.actual_triggers)
        due == Which(res, LAMBDA r : r.expected_triggers)
        Sum(Field(_)) == MapThenSumSet(LAMBDA i : Field(res[i]), triggered)
    IN  /\ Reaches(due, triggered, All) /\ Reaches(triggered, due, All)
        /\ Reaches(Which(res, LAMBDA r : r.contains_passed), due \cap triggered,
                   T.entity_retention)
        /\ Reaches(Which(res, LAMBDA r : r.pair_preserved),
                   Which(res, LAMBDA r : r.category = "pair_preservation"), All)
        /\ triggered # {}
        /\ Sum(LAMBDA r : All * (r.input - r.output)) >= T.token_reduction * Sum(LAMBDA r : r.input)
        /\ Reaches(Which(res, LAMBDA r : ~r.long), triggered, All)
        /\ Reaches(Which(res, LAMBDA r : r.excludes_passed), triggered, All)

ResponsesPass(res) ==
    /\ Reaches(Which(res, LAMBDA r : r.must_contain_passed), DOMAIN res, T.must_contain)
    /\ Reaches(Which(res, LAMBDA r : r.must_not_contain_passed), DOMAIN res, All)
    /\ Reaches(Which(res, LAMBDA r : r.is_refusal), Which(res, LAMBDA r : r.off_topic),
               T.off_topic_refusal)

==============================================================================
