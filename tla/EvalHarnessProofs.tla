-------------------------- MODULE EvalHarnessProofs --------------------------
(***************************************************************************)
(* What an evaluation promises, for datasets of any size the thresholds    *)
(* allow, any number of calls at a time, and any answers of its node.      *)
(*                                                                         *)
(* First the arithmetic of a rate: what reaches its threshold after        *)
(* rounding reaches it before.  Then, suite by suite, what a passing       *)
(* verdict says of the answers behind it.  Last the run itself, which      *)
(* gives a verdict once, when every node has answered.                     *)
(***************************************************************************)
EXTENDS EvalHarness, FiniteSetTheorems, TLAPS

-----------------------------------------------------------------------------
(* Rates.                                                                  *)

LEMMA Quotient ==
    \A a, d \in Nat, q \in Int : d > 0 /\ a \div d >= q => a >= d * q
OBVIOUS

LEMMA Products == \A x, y, z \in Int : (x * y) * z = x * (y * z) /\ x * y = y * x
OBVIOUS

LEMMA RoundedMeans ==
    ASSUME NEW p \in Nat, NEW w \in Nat \ {0}, NEW t \in Nat, Rounded(p, w) >= t
    PROVE  2 * All * p + w >= 2 * w * t
<1>1. 2 * All * p + w \in Nat /\ 2 * w \in Nat /\ 2 * w > 0
    BY DEF All
<1>2. (2 * All * p + w) \div (2 * w) >= t
    BY DEF Rounded
<1> QED BY <1>1, <1>2, Quotient

\* A rate the metrics round to four places reaches its threshold only if the
\* exact one does: one that falls short does so by a whole step at least, and
\* rounding adds less than that to so few records.
THEOREM RoundingLiftsNothing ==
    ASSUME NEW t \in Nat, NEW n \in Nat, Coarse(t, n),
           NEW p \in Nat, NEW w \in 1 .. n, Rounded(p, w) >= t
    PROVE  All * p >= t * w
<1>1. PICK step \in 1 .. All, a \in 1 .. All, b \in 0 .. All :
          n < 2 * step /\ step * a = All /\ step * b = t
    BY DEF Coarse
<1> DEFINE x == a * p
           y == b * w
<1>2. x \in Nat /\ y \in Nat
    OBVIOUS
<1>3. All * p = step * x /\ t * w = step * y
    BY <1>1, Products
<1>4. 2 * All * p + w >= 2 * w * t
    BY RoundedMeans
<1>5. (2 * All) * p = 2 * (All * p) /\ (2 * w) * t = 2 * (t * w)
    BY Products DEF All
<1>6. SUFFICES ASSUME x < y PROVE FALSE
    BY <1>1, <1>2, <1>3
<1> HIDE DEF x, y
<1>7. step * y >= step * (x + 1) /\ step * (x + 1) = step * x + step
    BY <1>2, <1>6
<1>8. step * x \in Nat /\ step * y \in Nat
    BY <1>2
<1>9. 2 * (step * x) + w >= 2 * (step * y)
    BY <1>3, <1>4, <1>5
<1> QED BY <1>1, <1>7, <1>8, <1>9

LEMMA Parts ==
    ASSUME NEW S, NEW R, IsFiniteSet(S)
    PROVE  /\ IsFiniteSet(R \cap S) /\ IsFiniteSet(S)
           /\ Cardinality(R \cap S) \in Nat /\ Cardinality(S) \in Nat
           /\ Cardinality(R \cap S) <= Cardinality(S)
           /\ Cardinality(R \cap S) = Cardinality(S) => S \subseteq R
           /\ S = {} <=> Cardinality(S) = 0
<1>1. R \cap S \in SUBSET S
    OBVIOUS
<1>2. IsFiniteSet(R \cap S) /\ Cardinality(R \cap S) <= Cardinality(S)
      /\ (Cardinality(S) = Cardinality(R \cap S) => S = R \cap S)
    BY <1>1, FS_Subset
<1> QED BY <1>2, FS_CardinalityType, FS_EmptySet

\* A rounded rate that reaches its threshold is a share that does.
LEMMA RateIsAShare ==
    ASSUME NEW good, NEW eligible, IsFiniteSet(eligible), NEW n \in Nat,
           Cardinality(eligible) <= n, NEW t \in Nat, Coarse(t, n),
           Rate(good, eligible) >= t
    PROVE  Share(good \cap eligible, eligible, t)
<1> DEFINE p == Cardinality(good \cap eligible)
           w == Cardinality(eligible)
<1>1. p \in Nat /\ w \in Nat /\ p <= w /\ (eligible = {} <=> w = 0)
    BY Parts
<1>2. CASE w = 0
    BY <1>1, <1>2 DEF Share, All
<1>3. CASE w # 0
  <2>1. Rounded(p, w) >= t
    BY <1>1, <1>3 DEF Rate
  <2>2. w \in 1 .. n
    BY <1>1, <1>3
  <2> QED BY <1>1, <2>1, <2>2, RoundingLiftsNothing DEF Share
<1> QED BY <1>2, <1>3

LEMMA FullShare ==
    ASSUME NEW good, NEW eligible, IsFiniteSet(eligible),
           Share(good \cap eligible, eligible, All)
    PROVE  eligible \subseteq good
<1>1. Cardinality(good \cap eligible) >= Cardinality(eligible)
    BY Parts DEF Share, All
<1> QED BY <1>1, Parts

LEMMA FullRate ==
    ASSUME NEW good, NEW eligible, IsFiniteSet(eligible), NEW n \in Nat,
           Cardinality(eligible) <= n, Coarse(All, n), Rate(good, eligible) >= All
    PROVE  eligible \subseteq good
<1>1. All \in Nat
    BY DEF All
<1>2. Share(good \cap eligible, eligible, All)
    BY <1>1, RateIsAShare
<1> QED BY <1>2, FullShare

LEMMA ReachIsAShare ==
    ASSUME NEW good, NEW eligible, IsFiniteSet(eligible), NEW t \in Nat,
           Reaches(good, eligible, t)
    PROVE  Share(good \cap eligible, eligible, t)
<1>1. CASE eligible = {}
    BY <1>1, Parts DEF Share, All
<1>2. CASE eligible # {}
    BY <1>2 DEF Reaches, Share
<1> QED BY <1>1, <1>2

LEMMA FullReach ==
    ASSUME NEW good, NEW eligible, IsFiniteSet(eligible), Reaches(good, eligible, All)
    PROVE  eligible \subseteq good
<1>1. All \in Nat
    BY DEF All
<1>2. Share(good \cap eligible, eligible, All)
    BY <1>1, ReachIsAShare
<1> QED BY <1>2, FullShare

-----------------------------------------------------------------------------
(* What the results say of the answers.                                    *)

Results == [i \in Tasks |-> Result(dataset[i], answer[i])]

DatasetParsed ==
    /\ suite \in Suites
    /\ \E n \in 0 .. Size[suite] : dataset \in [1 .. n -> Case(suite)]

LEMMA DatasetsAreFinite ==
    ASSUME DatasetParsed, NEW S \in SUBSET Tasks
    PROVE  /\ IsFiniteSet(S) /\ Cardinality(S) \in Nat
           /\ Size[suite] \in Nat /\ Cardinality(S) <= Size[suite]
<1>1. PICK n \in 0 .. Size[suite] : dataset \in [1 .. n -> Case(suite)]
    BY DEF DatasetParsed
<1>2. Size[suite] \in Nat
    BY ConfigAssumption DEF DatasetParsed, ConfigAssumption
<1>3. Tasks = 1 .. n /\ n \in Nat
    BY <1>1, <1>2 DEF Tasks
<1>4. IsFiniteSet(Tasks) /\ Cardinality(Tasks) = n
    BY <1>3, FS_Interval
<1> QED BY <1>1, <1>2, <1>4, FS_Subset, FS_CardinalityType

LEMMA Lengths ==
    ASSUME DatasetParsed
    PROVE  Len(Results) = Len(dataset)
<1>1. PICK n \in 0 .. Size[suite] : dataset \in [1 .. n -> Case(suite)]
    BY DEF DatasetParsed
<1>2. n \in Nat
    BY <1>1, ConfigAssumption DEF DatasetParsed, ConfigAssumption
<1>3. dataset \in Seq(Case(suite)) /\ Len(dataset) = n
    BY <1>1, <1>2
<1> DEFINE R == {Results[i] : i \in 1 .. n}
<1>4. Results \in [1 .. n -> R]
    BY <1>1 DEF Results, Tasks
<1> HIDE DEF R
<1>5. Len(Results) = n
    BY <1>2, <1>4
<1> QED BY <1>3, <1>5

LEMMA Selections ==
    ASSUME NEW res, NEW Test(_)
    PROVE  \A i : i \in Which(res, Test) <=> i \in DOMAIN res /\ Test(res[i])
BY DEF Which

LEMMA GreenDelegators ==
    ASSUME DatasetParsed, suite = "customer_delegator", DelegatorPasses(Results)
    PROVE  GreenDelegator
<1>1. DOMAIN Results = Tasks
    BY DEF Results
<1>2. \A i \in Tasks :
          /\ ~Skipped(dataset[i])
          /\ Results[i].expected = dataset[i].expected
          /\ Results[i].predicted = IF answer[i].raised THEN "need_advice" ELSE answer[i].domain
    BY DEF Results, Result, DelegatorResult, Skipped
<1> DEFINE t == T.safety_recall
<1>3. t \in Nat /\ t >= 1 /\ Coarse(t, Size[suite])
  <2>1. t \in 1 .. All /\ Coarse(t, Size[suite])
      BY ConfigAssumption DEF ConfigAssumption, DatasetParsed, RoundedAgainst
  <2> HIDE DEF t
  <2> QED BY <2>1 DEF All
<1>4. ASSUME NEW c \in {"escalate", "block"}
      PROVE  LET due == Of(LAMBDA r : r.expected = c) IN
             due # {} /\ Share(With(due, LAMBDA a : a.domain = c), due, T.safety_recall)
  <2> DEFINE due == {i \in Tasks : dataset[i].expected = c}
             hits == {i \in Tasks : dataset[i].expected = c /\ Results[i].predicted = c}
  <2>1. Of(LAMBDA r : r.expected = c) = due
      BY <1>2 DEF Of
  <2>2. With(due, LAMBDA a : a.domain = c) = hits
      BY <1>2 DEF With
  <2>3. Expected(Results, c) = Cardinality(due)
    <3>1. {i \in DOMAIN Results : Results[i].expected = c} = due
        BY <1>1, <1>2
    <3> QED BY <3>1 DEF Expected, Quantify
  <2>4. Hits(Results, c) = Cardinality(hits)
    <3>1. {i \in DOMAIN Results : Results[i].expected = c /\ Results[i].predicted = c} = hits
        BY <1>1, <1>2
    <3> QED BY <3>1 DEF Hits, Quantify
  <2>5. Recall(Results, c) >= t
      BY DEF DelegatorPasses
  <2>6. IsFiniteSet(due) /\ Cardinality(due) <= Size[suite] /\ Size[suite] \in Nat
      BY DatasetsAreFinite
  <2>7. hits \cap due = hits
      OBVIOUS
  <2> HIDE DEF due, hits, t
  <2>8. Cardinality(due) # 0
    <3>1. SUFFICES ASSUME Cardinality(due) = 0 PROVE FALSE
        OBVIOUS
    <3>2. Recall(Results, c) = 0
        BY <2>3, <3>1 DEF Recall
    <3> QED BY <1>3, <2>5, <3>2
  <2>9. due # {} /\ Rate(hits, due) >= t
    <3>1. due # {}
        BY <2>8, FS_EmptySet
    <3>2. Recall(Results, c) = Rounded(Cardinality(hits), Cardinality(due))
        BY <2>3, <2>4, <2>8 DEF Recall
    <3>3. Rate(hits, due) = Rounded(Cardinality(hits), Cardinality(due))
        BY <2>7, <3>1 DEF Rate
    <3> QED BY <2>5, <3>1, <3>2, <3>3
  <2>10. Share(hits, due, t)
      BY <1>3, <2>6, <2>7, <2>9, RateIsAShare
  <2> QED BY <2>1, <2>2, <2>9, <2>10 DEF t
<1>5. LET legitimate == Of(LAMBDA r : r.expected # "block") IN
      All * Cardinality(With(legitimate, LAMBDA a : a.domain = "block"))
          <= T.false_block * Cardinality(legitimate)
  <2> DEFINE legitimate == {i \in Tasks : dataset[i].expected # "block"}
             blocked == {i \in Tasks : Results[i].predicted = "block"}
  <2>1. Of(LAMBDA r : r.expected # "block") = legitimate
      BY <1>2 DEF Of
  <2>2. With(legitimate, LAMBDA a : a.domain = "block") = blocked \cap legitimate
      BY <1>2 DEF With
  <2>3. Which(Results, LAMBDA r : r.expected # "block") = legitimate
      BY <1>1, <1>2 DEF Which
  <2>4. Which(Results, LAMBDA r : r.predicted = "block") = blocked
      BY <1>1 DEF Which
  <2> HIDE DEF legitimate, blocked
  <2> QED BY <2>1, <2>2, <2>3, <2>4 DEF DelegatorPasses
<1> QED BY <1>4, <1>5 DEF GreenDelegator

LEMMA GreenClassifiers ==
    ASSUME DatasetParsed, suite = "classifier", ClassifierPasses(Results),
           ~ClassifierAborts(Results), ~ClassifierCrashes(Results)
    PROVE  GreenClassifier
<1>1. DOMAIN Results = Tasks
    BY DEF Results
<1>2. \A i \in Tasks :
          /\ ~Skipped(dataset[i])
          /\ Results[i].domain = dataset[i].domain
          /\ Results[i].requires_tool = (~answer[i].raised /\ dataset[i].domain \in ToolDomains)
          /\ Results[i].error = "classifier_fallback" <=> ~answer[i].raised /\ ~answer[i].sure
    BY DEF Results, Result, ClassifierResult, Skipped
<1>3. \A d \in DOMAIN Intents : Of(LAMBDA r : r.domain = d) # {}
  <2>1. SUFFICES ASSUME NEW d \in DOMAIN Intents
                 PROVE  Of(LAMBDA r : r.domain = d) # {}
      OBVIOUS
  <2>2. Which(Results, LAMBDA r : r.domain = d) # {}
      BY DEF ClassifierCrashes
  <2>3. PICK i \in Tasks : Results[i].domain = d
      BY <1>1, <2>2 DEF Which
  <2> QED BY <1>2, <2>3 DEF Of
<1>4. With(Of(LAMBDA r : r.domain \in ToolDomains), LAMBDA a : TRUE)
          = Of(LAMBDA r : r.domain \in ToolDomains)
  <2>1. Which(Results, LAMBDA r : r.requires_tool = (r.domain \in ToolDomains)) = Tasks
      BY <1>1 DEF ClassifierPasses
  <2>2. \A i \in Tasks : Results[i].requires_tool = (Results[i].domain \in ToolDomains)
      BY <1>1, <2>1 DEF Which
  <2>3. \A i \in Tasks : dataset[i].domain \in ToolDomains => ~answer[i].raised
      BY <1>2, <2>2
  <2> QED BY <2>3 DEF With, Of
<1>5. 5 * Cardinality(With(Tasks, LAMBDA a : ~a.sure)) <= Len(dataset)
  <2>1. Which(Results, LAMBDA r : r.error = "classifier_fallback")
            = With(Tasks, LAMBDA a : ~a.sure)
      BY <1>1, <1>2 DEF Which, With
  <2> DEFINE unsure == With(Tasks, LAMBDA a : ~a.sure)
  <2>2. unsure \in SUBSET Tasks
      BY DEF With
  <2> HIDE DEF unsure
  <2>3. Cardinality(unsure) \in Nat
      BY <2>2, DatasetsAreFinite
  <2>4. Len(dataset) \in Nat
      BY ConfigAssumption DEF DatasetParsed, ConfigAssumption
  <2>5. ~(5 * Cardinality(unsure) > Len(dataset))
      BY <2>1, Lengths DEF ClassifierAborts, unsure
  <2> QED BY <2>3, <2>4, <2>5 DEF unsure
<1> QED BY <1>3, <1>4, <1>5 DEF GreenClassifier

LEMMA GreenPlanners ==
    ASSUME DatasetParsed, suite = "tool_planner", PlannerPasses(Results)
    PROVE  GreenPlanner
<1>1. DOMAIN Results = Tasks
    BY DEF Results
<1>2. \A i \in Tasks :
          /\ ~Skipped(dataset[i])
          /\ Results[i].customer = dataset[i].customer
          /\ Results[i].predicted = IF answer[i].raised THEN None ELSE answer[i].tool
          /\ Results[i].tool_correct
                 = (~answer[i].raised /\ answer[i].tool = dataset[i].expected)
    BY DEF Results, Result, PlannerResult, Skipped
<1> DEFINE t == T.tool_selection
<1>3. t \in Nat /\ Coarse(t, Size[suite])
  <2>1. t \in 0 .. All /\ Coarse(t, Size[suite])
      BY ConfigAssumption DEF ConfigAssumption, DatasetParsed, RoundedAgainst
  <2> HIDE DEF t
  <2> QED BY <2>1 DEF All
<1> DEFINE correct == {i \in With(Tasks, LAMBDA a : TRUE) : answer[i].tool = dataset[i].expected}
<1>4. Share(correct, Tasks, t)
  <2>1. Which(Results, LAMBDA r : r.tool_correct) = correct
      BY <1>1, <1>2 DEF Which, With
  <2>2. Rate(correct, Tasks) >= t
      BY <1>1, <2>1 DEF PlannerPasses
  <2>3. correct \cap Tasks = correct
      BY DEF With
  <2> HIDE DEF t, correct
  <2>4. IsFiniteSet(Tasks) /\ Cardinality(Tasks) <= Size[suite] /\ Size[suite] \in Nat
      BY DatasetsAreFinite
  <2> QED BY <1>3, <2>2, <2>3, <2>4, RateIsAShare
<1>5. With(Of(LAMBDA r : r.customer), LAMBDA a : a.tool = "reserved") = {}
  <2>1. \A i \in Tasks : ~(Results[i].customer /\ Results[i].predicted = "reserved")
      BY <1>1 DEF PlannerPasses
  <2>2. \A i \in Tasks : ~(dataset[i].customer /\ ~answer[i].raised /\ answer[i].tool = "reserved")
      BY <1>2, <2>1
  <2> QED BY <2>2 DEF With, Of
<1> QED BY <1>4, <1>5 DEF GreenPlanner

LEMMA GreenResponders ==
    ASSUME DatasetParsed, suite = "response_generator", ResponsesPass(Results)
    PROVE  GreenResponses
<1>1. DOMAIN Results = Tasks
    BY DEF Results
<1>2. \A i \in Tasks :
          /\ ~Skipped(dataset[i])
          /\ Results[i].off_topic = dataset[i].off_topic
          /\ Results[i].must_not_contain_passed
                 = (answer[i].raised \/ "leak" \notin answer[i].failed)
          /\ Results[i].is_refusal = (~answer[i].raised /\ answer[i].refuses)
    BY DEF Results, Result, ResponseResult, Skipped
<1> DEFINE t == T.off_topic_refusal
<1>3. t \in Nat
  <2>1. t \in 0 .. All
      BY ConfigAssumption DEF ConfigAssumption
  <2> HIDE DEF t
  <2> QED BY <2>1 DEF All
<1>4. With(Tasks, LAMBDA a : "leak" \in a.failed) = {}
  <2> DEFINE clean == Which(Results, LAMBDA r : r.must_not_contain_passed)
  <2>1. Reaches(clean, Tasks, All)
      BY <1>1 DEF ResponsesPass
  <2>2. Tasks \subseteq clean
      BY <2>1, DatasetsAreFinite, FullReach
  <2>3. \A i \in Tasks : Results[i].must_not_contain_passed
      BY <2>2 DEF Which
  <2>4. \A i \in Tasks : answer[i].raised \/ "leak" \notin answer[i].failed
      BY <1>2, <2>3
  <2> QED BY <2>4 DEF With
<1>5. LET due == Of(LAMBDA r : r.off_topic) IN
      Share(With(due, LAMBDA a : a.refuses), due, T.off_topic_refusal)
  <2> DEFINE due == {i \in Tasks : dataset[i].off_topic}
             refused == Which(Results, LAMBDA r : r.is_refusal)
  <2>1. Of(LAMBDA r : r.off_topic) = due
      BY <1>2 DEF Of
  <2>2. Which(Results, LAMBDA r : r.off_topic) = due
      BY <1>1, <1>2 DEF Which
  <2>3. With(due, LAMBDA a : a.refuses) = refused \cap due
      BY <1>1, <1>2 DEF With, Which
  <2>4. Reaches(refused, due, t)
      BY <2>2 DEF ResponsesPass
  <2>5. IsFiniteSet(due)
      BY DatasetsAreFinite
  <2> HIDE DEF due, refused, t
  <2>6. Share(refused \cap due, due, t)
      BY <1>3, <2>4, <2>5, ReachIsAShare
  <2> QED BY <2>1, <2>3, <2>6 DEF t
<1> QED BY <1>4, <1>5 DEF GreenResponses

\* The node of every record that was not skipped has returned or raised.
AnswersGiven ==
    \A i \in Tasks : ~Skipped(dataset[i]) => answer[i] \in Answers(dataset[i]) \cup Raised

LEMMA FullSteps ==
    ASSUME DatasetParsed
    PROVE  Coarse(All, Size[suite])
BY ConfigAssumption DEF ConfigAssumption, DatasetParsed, RoundedAgainst

\* What an executor's result tells of an answer.
ExecutorTells(r, record, a) ==
    /\ r.error = a.raised
    /\ ~a.raised =>
          /\ r.failed = (a.outcome \in {"failed", "refused"})
          /\ r.tool_message_appended = (a.message # "none")
          /\ r.tool_call_id_linked = (a.message # "stray")
          /\ r.limit_error_correct => (record.category = "limit" => LimitHeld(record, a))
          /\ r.counts_incremented_correctly =
                 ((record.selected_tool /\ a.counted) = record.expected_counts_incremented)

LEMMA ExecutorFields ==
    ASSUME NEW record, NEW a
    PROVE  ExecutorTells(ExecutorResult(record, a), record, a)
<1> DEFINE r == ExecutorResult(record, a)
<1>1. r.error = a.raised
    BY DEF ExecutorResult
<1>2. ASSUME ~a.raised
      PROVE  /\ r.failed = (a.outcome \in {"failed", "refused"})
             /\ r.tool_message_appended = (a.message # "none")
             /\ r.tool_call_id_linked = (a.message # "stray")
    BY <1>2 DEF ExecutorResult
<1>3. ASSUME ~a.raised, r.limit_error_correct, record.category = "limit"
      PROVE  LimitHeld(record, a)
    BY <1>3 DEF ExecutorResult, LimitHeld
<1>4. ASSUME ~a.raised
      PROVE  r.counts_incremented_correctly =
                 ((record.selected_tool /\ a.counted) = record.expected_counts_incremented)
    BY <1>4, Zenon DEF ExecutorResult
<1> HIDE DEF r
<1>5. ExecutorTells(r, record, a)
    BY <1>1, <1>2, <1>3, <1>4, Zenon DEF ExecutorTells
<1> QED BY <1>5 DEF r

LEMMA GreenExecutors ==
    ASSUME DatasetParsed, AnswersGiven, suite = "tool_executor", ExecutorPasses(Results)
    PROVE  GreenExecutor
<1>1. DOMAIN Results = Tasks
    BY DEF Results
<1> DEFINE Ran == {i \in Tasks : ~Skipped(dataset[i])}
<1>2. \A i \in Tasks : Results[i].skipped <=> Skipped(dataset[i])
    BY DEF Results, Result, SkippedResult, ExecutorResult
<1>3. \A i \in Tasks : Results[i].category = dataset[i].category
    BY DEF Results, Result, SkippedResult, ExecutorResult
<1>4. \A i \in Ran : Results[i] = ExecutorResult(dataset[i], answer[i])
    BY DEF Results, Result
<1>5. \A i \in Ran : ~answer[i].raised =>
          answer[i].message \in {"none", "linked", "stray"} /\ answer[i].counted \in BOOLEAN
  <2>1. SUFFICES ASSUME NEW i \in Ran, ~answer[i].raised
                 PROVE  answer[i].message \in {"none", "linked", "stray"}
                        /\ answer[i].counted \in BOOLEAN
      OBVIOUS
  <2>2. answer[i] \in ExecutorAnswers \cup Raised
      BY DEF AnswersGiven, Answers
  <2>3. answer[i] \notin Raised
      BY <2>1 DEF Raised
  <2>4. answer[i] \in ExecutorAnswers
      BY <2>2, <2>3
  <2> QED BY <2>4 DEF ExecutorAnswers
<1>6. \A i \in Ran : ExecutorTells(Results[i], dataset[i], answer[i])
    BY <1>4, ExecutorFields
<1>7. \A S : S \in SUBSET Tasks => IsFiniteSet(S) /\ Cardinality(S) <= Size[suite]
    BY DatasetsAreFinite
<1>8. Which(Results, LAMBDA r : ~r.skipped) = Ran
    BY <1>1, <1>2 DEF Which
<1>9. ASSUME NEW good, NEW eligible \in SUBSET Tasks, Rate(good, eligible) >= All
      PROVE  eligible \subseteq good
    BY <1>7, <1>9, FullSteps, FullRate, DatasetsAreFinite
<1> DEFINE appended == Which(Results, LAMBDA r : r.tool_message_appended)
           raised == Which(Results, LAMBDA r : r.error)
           failed == Which(Results, LAMBDA r : r.failed)
           linked == Which(Results, LAMBDA r : r.tool_call_id_linked)
           counts == Which(Results, LAMBDA r : r.counts_incremented_correctly)
           limits == Which(Results, LAMBDA r : r.limit_error_correct)
           limited == {i \in Ran : dataset[i].category = "limit"}
           toolless == {i \in Ran : dataset[i].category = "no_tool"}
<1>10. /\ Ran \cap Which(Results, LAMBDA r : r.category = "limit") = limited
       /\ Ran \cap Which(Results, LAMBDA r : r.category = "no_tool") = toolless
    BY <1>1, <1>3 DEF Which
<1>11. /\ Ran \subseteq Ran \ raised /\ Ran \subseteq counts
       /\ limited \subseteq limits /\ Ran \ toolless \subseteq appended
       /\ toolless \subseteq failed \ appended /\ appended \cap Ran \subseteq linked
  <2>1. /\ Rate(limits, limited) >= All /\ Rate(Ran \ raised, Ran) >= All
        /\ Rate(appended, Ran \ toolless) >= All
        /\ Rate(failed \ appended, toolless) >= All
        /\ Rate(linked, appended \cap Ran) >= All /\ Rate(counts, Ran) >= All
      BY <1>8, <1>10 DEF ExecutorPasses
  <2>2. Ran \subseteq Tasks /\ limited \subseteq Tasks /\ toolless \subseteq Tasks
      OBVIOUS
  <2> HIDE DEF appended, raised, failed, linked, counts, limits, limited, toolless, Ran
  <2> QED BY <2>1, <2>2, <1>9
<1>12. \A i \in Tasks :
           /\ i \in appended <=> Results[i].tool_message_appended
           /\ i \in raised <=> Results[i].error
           /\ i \in failed <=> Results[i].failed
           /\ i \in linked <=> Results[i].tool_call_id_linked
           /\ i \in counts <=> Results[i].counts_incremented_correctly
           /\ i \in limits <=> Results[i].limit_error_correct
    BY <1>1 DEF Which
<1> HIDE DEF appended, raised, failed, linked, counts, limits
<1>13. ASSUME NEW i \in Ran
       PROVE  /\ ~answer[i].raised
              /\ dataset[i].selected_tool =>
                     answer[i].counted = dataset[i].expected_counts_incremented
              /\ dataset[i].category = "limit" => LimitHeld(dataset[i], answer[i])
              /\ dataset[i].category = "no_tool" =>
                     answer[i].message = "none" /\ answer[i].outcome \in {"failed", "refused"}
              /\ dataset[i].category # "no_tool" => answer[i].message = "linked"
  <2>1. i \in Tasks /\ ExecutorTells(Results[i], dataset[i], answer[i])
      BY <1>6
  <2>2. ~answer[i].raised
      BY <1>11, <1>12, <2>1 DEF ExecutorTells
  <2>3. dataset[i].selected_tool => answer[i].counted = dataset[i].expected_counts_incremented
    <3>1. Results[i].counts_incremented_correctly
        BY <1>11, <1>12
    <3>2. (dataset[i].selected_tool /\ answer[i].counted) = dataset[i].expected_counts_incremented
        BY <2>1, <2>2, <3>1, Zenon DEF ExecutorTells
    <3>3. answer[i].counted \in BOOLEAN
        BY <1>5, <2>2
    <3> QED BY <3>2, <3>3, Zenon
  <2>4. dataset[i].category = "limit" => LimitHeld(dataset[i], answer[i])
    <3>1. dataset[i].category = "limit" => Results[i].limit_error_correct
        BY <1>11, <1>12
    <3> QED BY <2>1, <2>2, <3>1 DEF ExecutorTells
  <2>5. dataset[i].category = "no_tool" =>
            answer[i].message = "none" /\ answer[i].outcome \in {"failed", "refused"}
    <3>1. dataset[i].category = "no_tool" =>
              ~Results[i].tool_message_appended /\ Results[i].failed
        BY <1>11, <1>12
    <3> QED BY <2>1, <2>2, <3>1 DEF ExecutorTells
  <2>6. dataset[i].category # "no_tool" => answer[i].message = "linked"
    <3>1. dataset[i].category # "no_tool" =>
              Results[i].tool_message_appended /\ Results[i].tool_call_id_linked
        BY <1>11, <1>12
    <3> QED BY <1>5, <2>1, <2>2, <3>1 DEF ExecutorTells
  <2> QED BY <2>2, <2>3, <2>4, <2>5, <2>6
<1>14. Of(LAMBDA r : TRUE) = Ran
    BY DEF Of
<1> QED BY <1>13, <1>14, Zenon DEF GreenExecutor

LEMMA GreenProductTools ==
    ASSUME DatasetParsed, suite = "product_tools", ProductToolsPass(Results)
    PROVE  GreenProducts
<1>1. DOMAIN Results = Tasks
    BY DEF Results
<1>2. \A i \in Tasks :
          /\ ~Skipped(dataset[i])
          /\ Results[i].category = dataset[i].category
          /\ Results[i].error = answer[i].raised
          /\ ~answer[i].raised => Results[i].failed = answer[i].failed
    BY DEF Results, Result, ProductResult, Skipped
<1> DEFINE t == T.overall
           returned == {i \in Tasks : ~answer[i].raised}
           clean == Which(Results, LAMBDA r : r.failed = {})
           included == Which(Results, LAMBDA r : "excluded" \notin r.failed)
           drafts == {i \in returned : dataset[i].category = "status_exclusion"}
<1>3. t \in Nat /\ Coarse(t, Size[suite])
  <2>1. t \in 0 .. All /\ Coarse(t, Size[suite])
      BY ConfigAssumption DEF ConfigAssumption, DatasetParsed, RoundedAgainst
  <2> HIDE DEF t
  <2> QED BY <2>1 DEF All
<1>4. /\ Which(Results, LAMBDA r : ~r.error) = returned
      /\ returned \cap Which(Results, LAMBDA r : r.category \in {"status_exclusion"}) = drafts
    BY <1>1, <1>2 DEF Which
<1>5. Rate(clean, returned) >= t /\ Rate(included, drafts) >= All
    BY <1>4 DEF ProductToolsPass
<1>6. /\ returned \subseteq Tasks /\ drafts \subseteq Tasks
      /\ IsFiniteSet(returned) /\ Cardinality(returned) <= Size[suite]
      /\ IsFiniteSet(drafts) /\ Cardinality(drafts) <= Size[suite]
      /\ Size[suite] \in Nat
    BY DatasetsAreFinite
<1>7. /\ With(Tasks, LAMBDA a : TRUE) = returned
      /\ With(returned, LAMBDA a : a.failed = {}) = clean \cap returned
    BY <1>1, <1>2 DEF With, Which
<1>8. With(Of(LAMBDA r : r.category = "status_exclusion"), LAMBDA a : "excluded" \in a.failed)
          = {i \in drafts : "excluded" \in Results[i].failed}
    BY <1>2 DEF With, Of
<1>9. \A i \in included : "excluded" \notin Results[i].failed
    BY DEF Which
<1> HIDE DEF t, returned, clean, included, drafts
<1>10. Share(clean \cap returned, returned, t)
    BY <1>3, <1>5, <1>6, RateIsAShare
<1>11. drafts \subseteq included
    BY <1>5, <1>6, FullSteps, FullRate
<1>12. {i \in drafts : "excluded" \in Results[i].failed} = {}
    BY <1>9, <1>11
<1> QED BY <1>7, <1>8, <1>10, <1>12 DEF GreenProducts, t

\* What a summary's result tells of an answer.
Summarises(a) == ~a.raised /\ a.summary

MemoryTells(r, record, a) ==
    /\ r.category = record.category
    /\ r.expected_triggers = Triggers(record)
    /\ r.actual_triggers = Summarises(a)
    /\ r.contains_passed = (Summarises(a) /\ "contains" \notin a.failed)
    /\ r.excludes_passed = ~(Summarises(a) /\ "excludes" \in a.failed)
    /\ r.pair_preserved = ~(Summarises(a) /\ "pair" \in a.failed)
    /\ r.long = (Summarises(a) /\ "long" \in a.failed)

LEMMA MemoryFields ==
    ASSUME NEW record, NEW a
    PROVE  MemoryTells(MemoryResult(record, a), record, a)
<1> DEFINE r == MemoryResult(record, a)
<1>1. r.category = record.category /\ r.expected_triggers = Triggers(record)
    BY DEF MemoryResult
<1>2. r.actual_triggers = Summarises(a)
    BY DEF MemoryResult, Summarises
<1>3. /\ r.contains_passed = (Summarises(a) /\ "contains" \notin a.failed)
      /\ r.excludes_passed = ~(Summarises(a) /\ "excludes" \in a.failed)
    BY DEF MemoryResult, Summarises
<1>4. /\ r.pair_preserved = ~(Summarises(a) /\ "pair" \in a.failed)
      /\ r.long = (Summarises(a) /\ "long" \in a.failed)
    BY DEF MemoryResult, Summarises
<1> HIDE DEF r
<1>5. MemoryTells(r, record, a)
    BY <1>1, <1>2, <1>3, <1>4, Zenon DEF MemoryTells
<1> QED BY <1>5 DEF r

LEMMA GreenSummaries ==
    ASSUME DatasetParsed, suite = "memory", MemoryPasses(Results)
    PROVE  GreenMemory
<1>1. DOMAIN Results = Tasks
    BY DEF Results
<1> DEFINE triggered == Which(Results, LAMBDA r : r.actual_triggers)
           expected == Which(Results, LAMBDA r : r.expected_triggers)
           contains == Which(Results, LAMBDA r : r.contains_passed)
           paired == Which(Results, LAMBDA r : r.pair_preserved)
           pairs == Which(Results, LAMBDA r : r.category = "pair_preservation")
           short == Which(Results, LAMBDA r : ~r.long)
           excludes == Which(Results, LAMBDA r : r.excludes_passed)
           t == T.entity_retention
<1>2. t \in Nat
  <2>1. t \in 0 .. All
      BY ConfigAssumption DEF ConfigAssumption
  <2> HIDE DEF t
  <2> QED BY <2>1 DEF All
<1>3. \A i \in Tasks : ~Skipped(dataset[i]) /\ MemoryTells(Results[i], dataset[i], answer[i])
    BY MemoryFields DEF Results, Result, Skipped
<1>4. /\ Reaches(expected, triggered, All) /\ Reaches(triggered, expected, All)
      /\ Reaches(contains, expected \cap triggered, t) /\ Reaches(paired, pairs, All)
      /\ triggered # {}
      /\ Reaches(short, triggered, All) /\ Reaches(excludes, triggered, All)
    BY DEF MemoryPasses
<1>5. \A i :
          /\ i \in triggered <=> i \in Tasks /\ Summarises(answer[i])
          /\ i \in expected <=> i \in Tasks /\ Triggers(dataset[i])
          /\ i \in pairs <=> i \in Tasks /\ dataset[i].category = "pair_preservation"
    BY <1>1, <1>3 DEF Which, MemoryTells
<1>6. \A i :
          /\ i \in contains => Summarises(answer[i]) /\ "contains" \notin answer[i].failed
          /\ i \in paired => ~(Summarises(answer[i]) /\ "pair" \in answer[i].failed)
          /\ i \in short => ~(Summarises(answer[i]) /\ "long" \in answer[i].failed)
          /\ i \in excludes => ~(Summarises(answer[i]) /\ "excludes" \in answer[i].failed)
    BY <1>1, <1>3 DEF Which, MemoryTells
<1>7. \A i \in Tasks :
          (Summarises(answer[i]) /\ "contains" \notin answer[i].failed) => i \in contains
    BY <1>1, <1>3 DEF Which, MemoryTells
<1>8. IsFiniteSet(triggered) /\ IsFiniteSet(expected) /\ IsFiniteSet(pairs)
      /\ IsFiniteSet(expected \cap triggered)
    BY <1>5, DatasetsAreFinite
<1> HIDE DEF triggered, expected, contains, paired, pairs, short, excludes, t
<1>9. /\ triggered = expected /\ triggered \subseteq short /\ triggered \subseteq excludes
      /\ pairs \subseteq paired
    BY <1>4, <1>8, FullReach
<1>10. Share(contains \cap expected, expected, t)
  <2>1. contains \cap (expected \cap triggered) = contains \cap expected
        /\ expected \cap triggered = expected
      BY <1>9
  <2>2. Share(contains \cap (expected \cap triggered), expected \cap triggered, t)
      BY <1>2, <1>4, <1>8, ReachIsAShare
  <2> QED BY <2>1, <2>2
<1>11. Of(Triggers) = expected
    BY <1>3, <1>5 DEF Of
<1>12. With(Tasks, LAMBDA a : a.summary) = triggered
    BY <1>5 DEF With, Summarises
<1>13. With(expected, LAMBDA a : a.failed \cap {"excludes", "long"} # {}) = {}
    BY <1>5, <1>6, <1>9 DEF With
<1>14. With(Of(LAMBDA r : r.category = "pair_preservation"), LAMBDA a : "pair" \in a.failed) = {}
  <2>1. \A i \in pairs : Triggers(dataset[i])
      BY <1>5 DEF Triggers
  <2>2. \A i \in pairs : Summarises(answer[i]) /\ i \in paired
      BY <1>5, <1>9, <2>1
  <2>3. Of(LAMBDA r : r.category = "pair_preservation") = pairs
      BY <1>3, <1>5 DEF Of
  <2> QED BY <1>6, <2>2, <2>3 DEF With
<1>15. With(expected, LAMBDA a : "contains" \notin a.failed) = contains \cap expected
  <2>1. \A i \in expected : i \in Tasks /\ Summarises(answer[i])
      BY <1>5, <1>9
  <2> QED BY <1>6, <1>7, <2>1 DEF With, Summarises
<1> QED BY <1>4, <1>9, <1>10, <1>11, <1>12, <1>13, <1>14, <1>15 DEF GreenMemory, t

-----------------------------------------------------------------------------
(* The run.                                                                *)

Stage == {"waiting", "running", "called", "done"}

TypeOK ==
    /\ DatasetParsed
    /\ status = <<>> \/ status \in [Tasks -> Stage]
    /\ active \in [Tasks -> Nat] /\ handler \in [Tasks -> Nat]
    /\ recorded \in [Tasks -> Nat] /\ spent \in [Tasks -> Nat]
    /\ answer = [i \in Tasks |-> answer[i]]
    /\ exit \in {None, 0, 1}

\* A task sees no handler but its own, and sees it while its node runs.
HandlersAreTheirOwn ==
    \A i \in Tasks :
        /\ handler[i] = spent[i] /\ active[i] \in {0, i}
        /\ (UsesLLM /\ i \in Running) => active[i] = i

AnsweredAreDone ==
    /\ status = <<>> => \A i \in Tasks : answer[i] = None
    /\ \A i \in DOMAIN status : status[i] = "done" /\ ~Skipped(dataset[i]) =>
           answer[i] \in Answers(dataset[i]) \cup Raised

VerdictStands ==
    exit = 0 =>
        status # <<>> /\ (\A i \in Tasks : status[i] = "done") /\ Passes(Results)

IInv ==
    /\ TypeOK /\ HandlersAreTheirOwn /\ AnsweredAreDone /\ TokensAreTheirOwn
    /\ VerdictStands

LEMMA InitEstablishes == Init => IInv
<1> SUFFICES ASSUME Init PROVE IInv
    OBVIOUS
<1>1. None # 0
    BY ConfigAssumption DEF ConfigAssumption
<1>2. DatasetParsed
    BY DEF Init, DatasetParsed
<1>3. TypeOK
    BY <1>2 DEF Init, TypeOK
<1>4. DOMAIN status = {}
    BY DEF Init
<1>5. HandlersAreTheirOwn /\ AnsweredAreDone /\ TokensAreTheirOwn
    BY <1>4 DEF Init, HandlersAreTheirOwn, AnsweredAreDone, TokensAreTheirOwn, Running
<1>6. VerdictStands
    BY <1>1 DEF Init, VerdictStands
<1> QED BY <1>3, <1>5, <1>6 DEF IInv

\* Answers are read against a dataset and a suite that never change.
LEMMA ReadingsStand ==
    ASSUME UNCHANGED <<suite, include_writes, dataset>>
    PROVE  /\ Tasks' = Tasks /\ UsesLLM' = UsesLLM /\ DatasetParsed' = DatasetParsed
           /\ Raised' = Raised
           /\ \A r : Skipped(r)' = Skipped(r) /\ Answers(r)' = Answers(r)
<1>1. Tasks' = Tasks /\ UsesLLM' = UsesLLM /\ DatasetParsed' = DatasetParsed
    BY DEF Tasks, UsesLLM, DatasetParsed
<1>2. \A r : Skipped(r)' = Skipped(r)
    BY DEF Skipped
<1>3. \A r : Answers(r)' = Answers(r)
    BY DEF Answers
<1>4. Raised' = Raised
    BY DEF Raised
<1> QED BY <1>1, <1>2, <1>3, <1>4

LEMMA ResultsStand ==
    ASSUME UNCHANGED <<suite, include_writes, dataset, answer>>
    PROVE  Results' = Results /\ Passes(Results)' = Passes(Results)
<1>1. Results' = Results
    BY DEF Results, Result, Tasks, Skipped
<1>2. Passes(Results)' = Passes(Results)
    BY <1>1 DEF Passes
<1> QED BY <1>1, <1>2

\* A verdict is given once: nothing runs after it.
LEMMA NothingAfterTheVerdict ==
    ASSUME exit = None, exit' = exit \/ exit' = 1
    PROVE  VerdictStands'
BY ConfigAssumption DEF ConfigAssumption, VerdictStands

LEMMA TasksStart ==
    ASSUME IInv, RunAll
    PROVE  IInv'
<1>1. UNCHANGED <<suite, include_writes, dataset>>
    BY DEF RunAll
<1>2. TypeOK'
    BY <1>1, ReadingsStand DEF IInv, TypeOK, RunAll, Stage
<1>3. DOMAIN status' = Tasks /\ \A i \in Tasks : status'[i] \in {"waiting", "done"}
    BY DEF RunAll
<1>4. \A i \in Tasks : answer[i] = None /\ (status'[i] = "done" => Skipped(dataset[i]))
    BY DEF IInv, AnsweredAreDone, RunAll
<1>5. Running' = {}
    BY <1>3 DEF Running
<1>6. HandlersAreTheirOwn'
    BY <1>1, <1>5, ReadingsStand DEF IInv, HandlersAreTheirOwn, RunAll
<1>7. AnsweredAreDone' /\ TokensAreTheirOwn'
    BY <1>1, <1>3, <1>4, ReadingsStand DEF AnsweredAreDone, TokensAreTheirOwn, RunAll
<1>8. VerdictStands'
    BY NothingAfterTheVerdict DEF RunAll
<1> QED BY <1>2, <1>6, <1>7, <1>8 DEF IInv

LEMMA TasksAreNumbered ==
    ASSUME DatasetParsed
    PROVE  Tasks \subseteq Nat \ {0}
<1>1. PICK n \in 0 .. Size[suite] : dataset \in [1 .. n -> Case(suite)]
    BY DEF DatasetParsed
<1>2. n \in Nat
    BY <1>1, ConfigAssumption DEF DatasetParsed, ConfigAssumption
<1> QED BY <1>1, <1>2 DEF Tasks

LEMMA OneTaskMoves ==
    ASSUME IInv, NEW i \in DOMAIN status
    PROVE  status \in [Tasks -> Stage] /\ i \in Tasks /\ i # 0
<1>1. status \in [Tasks -> Stage]
    BY DEF IInv, TypeOK
<1>2. Tasks \subseteq Nat \ {0}
    BY TasksAreNumbered DEF IInv, TypeOK
<1> QED BY <1>1, <1>2

LEMMA StartKeeps ==
    ASSUME IInv, NEW i \in DOMAIN status, Start(i)
    PROVE  IInv'
<1>1. UNCHANGED <<suite, include_writes, dataset>>
    BY DEF Start
<1>2. status \in [Tasks -> Stage] /\ i \in Tasks /\ i # 0
    BY OneTaskMoves
<1>3. TypeOK'
  <2>1. status' \in [Tasks -> Stage]
      BY <1>2 DEF Start, Stage
  <2>2. Tasks \subseteq Nat
      BY TasksAreNumbered DEF IInv, TypeOK
  <2>3. active' \in [Tasks -> Nat]
      BY <1>2, <2>2 DEF IInv, TypeOK, Start, Activated
  <2> QED BY <1>1, <2>1, <2>3, ReadingsStand DEF IInv, TypeOK, Start
<1>4. DOMAIN status' = Tasks /\ \A j \in Tasks : status'[j] = IF j = i THEN "running" ELSE status[j]
    BY <1>2 DEF Start
<1>5. \A j \in Tasks : active'[j] = IF j = i /\ UsesLLM THEN i ELSE active[j]
    BY <1>2 DEF IInv, TypeOK, Start, Activated
<1>6. \A j \in Tasks : j \in Running' => j = i \/ j \in Running
    BY <1>2, <1>4 DEF Running
<1>7. HandlersAreTheirOwn'
    BY <1>1, <1>2, <1>5, <1>6, ReadingsStand DEF IInv, HandlersAreTheirOwn, Start
<1>8. \A j \in Tasks : status'[j] = "done" => status[j] = "done"
    BY <1>4
<1>9. AnsweredAreDone' /\ TokensAreTheirOwn'
    BY <1>1, <1>2, <1>4, <1>8, ReadingsStand
    DEF IInv, AnsweredAreDone, TokensAreTheirOwn, Start
<1>10. VerdictStands'
    BY NothingAfterTheVerdict DEF Start
<1> QED BY <1>3, <1>7, <1>9, <1>10 DEF IInv

LEMMA LLMEndsKeeps ==
    ASSUME IInv, NEW i \in DOMAIN status, LLMEnds(i)
    PROVE  IInv'
<1>1. UNCHANGED <<suite, include_writes, dataset>>
    BY DEF LLMEnds
<1>2. status \in [Tasks -> Stage] /\ i \in Tasks /\ i # 0
    BY OneTaskMoves
<1>3. active[i] = i
    BY <1>2 DEF IInv, HandlersAreTheirOwn, LLMEnds, Running
<1>4. handler' = [handler EXCEPT ![i] = @ + 1] /\ spent' = [spent EXCEPT ![i] = @ + 1]
    BY <1>2, <1>3 DEF LLMEnds
<1>5. handler \in [Tasks -> Nat] /\ spent \in [Tasks -> Nat]
    BY DEF IInv, TypeOK
<1>6. TypeOK'
  <2>1. status' \in [Tasks -> Stage]
      BY <1>2 DEF LLMEnds, Stage
  <2>2. handler' \in [Tasks -> Nat] /\ spent' \in [Tasks -> Nat]
      BY <1>2, <1>4, <1>5
  <2> QED BY <1>1, <2>1, <2>2, ReadingsStand DEF IInv, TypeOK, LLMEnds
<1>7. DOMAIN status' = Tasks /\ \A j \in Tasks : status'[j] = IF j = i THEN "called" ELSE status[j]
    BY <1>2 DEF LLMEnds
<1>8. \A j \in Tasks : j \in Running' => j \in Running
    BY <1>2, <1>7 DEF Running, LLMEnds
<1>9. /\ handler'[i] = handler[i] + 1 /\ spent'[i] = spent[i] + 1
      /\ \A j \in Tasks : j # i => handler'[j] = handler[j] /\ spent'[j] = spent[j]
    BY <1>2, <1>4, <1>5
<1>10. HandlersAreTheirOwn'
  <2>1. \A j \in Tasks : handler[j] = spent[j] /\ active[j] \in {0, j}
                         /\ (UsesLLM /\ j \in Running => active[j] = j)
      BY DEF IInv, HandlersAreTheirOwn
  <2>2. \A j \in Tasks : handler'[j] = spent'[j]
      BY <1>9, <2>1
  <2>3. \A j \in Tasks : active'[j] \in {0, j}
                         /\ (UsesLLM /\ j \in Running' => active'[j] = j)
      BY <1>8, <2>1 DEF LLMEnds
  <2> QED BY <1>1, <2>2, <2>3, ReadingsStand DEF HandlersAreTheirOwn
<1>11. \A j \in Tasks : status'[j] = "done" => status[j] = "done" /\ spent'[j] = spent[j]
    BY <1>7, <1>9
<1>12. AnsweredAreDone' /\ TokensAreTheirOwn'
    BY <1>1, <1>2, <1>7, <1>11, ReadingsStand
    DEF IInv, AnsweredAreDone, TokensAreTheirOwn, LLMEnds
<1>13. VerdictStands'
    BY NothingAfterTheVerdict DEF LLMEnds
<1> QED BY <1>6, <1>10, <1>12, <1>13 DEF IInv

LEMMA FinishKeeps ==
    ASSUME IInv, NEW i \in DOMAIN status,
           NEW a \in Answers(dataset[i]) \cup Raised, Finish(i, a)
    PROVE  IInv'
<1>1. UNCHANGED <<suite, include_writes, dataset>>
    BY DEF Finish
<1>2. status \in [Tasks -> Stage] /\ i \in Tasks /\ i # 0
    BY OneTaskMoves
<1>3. \A j \in Tasks :
          /\ answer'[j] = IF j = i THEN a ELSE answer[j]
          /\ recorded'[j] = IF j = i THEN (IF a.raised THEN 0 ELSE handler[i]) ELSE recorded[j]
          /\ active'[j] = IF j = i THEN 0 ELSE active[j]
    BY <1>2 DEF IInv, TypeOK, Finish
<1>4. TypeOK'
  <2>1. answer' = [j \in Tasks |-> answer'[j]]
      BY DEF IInv, TypeOK, Finish
  <2>2. recorded' \in [Tasks -> Nat] /\ active' \in [Tasks -> Nat]
      BY <1>2 DEF IInv, TypeOK, Finish
  <2>3. status' \in [Tasks -> Stage]
      BY <1>2 DEF Finish, Stage
  <2> QED BY <1>1, <2>1, <2>2, <2>3, ReadingsStand DEF IInv, TypeOK, Finish
<1>5. DOMAIN status' = Tasks /\ \A j \in Tasks : status'[j] = IF j = i THEN "done" ELSE status[j]
    BY <1>2 DEF Finish
<1>6. \A j \in Tasks : j \in Running' => j # i /\ j \in Running
    BY <1>2, <1>5 DEF Running
<1>7. HandlersAreTheirOwn'
    BY <1>1, <1>3, <1>6, ReadingsStand DEF IInv, HandlersAreTheirOwn, Finish
<1>8. AnsweredAreDone'
    BY <1>1, <1>2, <1>3, <1>5, ReadingsStand DEF IInv, AnsweredAreDone, Finish
<1>9. TokensAreTheirOwn'
  <2>1. SUFFICES ASSUME NEW j \in Tasks, status'[j] = "done" /\ answer'[j] # None
                 PROVE  recorded'[j] = IF answer'[j].raised THEN 0 ELSE spent'[j]
      BY <1>5 DEF TokensAreTheirOwn
  <2>2. CASE j = i
      BY <1>2, <1>3, <2>2 DEF IInv, HandlersAreTheirOwn, Finish
  <2>3. CASE j # i
      BY <1>2, <1>3, <1>5, <2>1, <2>3 DEF IInv, TokensAreTheirOwn, Finish
  <2> QED BY <2>2, <2>3
<1>10. VerdictStands'
    BY NothingAfterTheVerdict DEF Finish
<1> QED BY <1>4, <1>7, <1>8, <1>9, <1>10 DEF IInv

LEMMA EndsKeep ==
    ASSUME IInv, NeverRuns \/ Report
    PROVE  IInv'
<1>1. UNCHANGED <<suite, include_writes, dataset, status, active, handler, answer,
                  recorded, spent>>
    BY DEF NeverRuns, Report
<1>2. exit' \in {0, 1}
    BY DEF NeverRuns, Report
<1>3. TypeOK'
    BY <1>1, <1>2, ReadingsStand DEF IInv, TypeOK
<1>4. HandlersAreTheirOwn' /\ AnsweredAreDone' /\ TokensAreTheirOwn'
    BY <1>1, ReadingsStand
    DEF IInv, HandlersAreTheirOwn, Running, AnsweredAreDone, TokensAreTheirOwn
<1>5. VerdictStands'
  <2>1. CASE NeverRuns
      BY <2>1, NothingAfterTheVerdict DEF NeverRuns
  <2>2. CASE Report /\ exit' = 0
    <3>1. Passes(Results)
        BY <2>2 DEF Report, Results
    <3>2. Passes(Results)'
        BY <1>1, <3>1, ResultsStand
    <3> QED BY <1>1, <2>2, <3>2, ReadingsStand DEF Report, VerdictStands
  <2>3. CASE exit' # 0
      BY <2>3 DEF VerdictStands
  <2> QED BY <2>1, <2>2, <2>3
<1> QED BY <1>3, <1>4, <1>5 DEF IInv

LEMMA StutterKeeps ==
    ASSUME IInv, UNCHANGED vars
    PROVE  IInv'
<1>1. UNCHANGED <<suite, include_writes, dataset, status, active, handler, answer,
                  recorded, exit, spent>>
    BY DEF vars
<1>2. TypeOK'
    BY <1>1, ReadingsStand DEF IInv, TypeOK
<1>3. HandlersAreTheirOwn' /\ AnsweredAreDone' /\ TokensAreTheirOwn'
    BY <1>1, ReadingsStand
    DEF IInv, HandlersAreTheirOwn, Running, AnsweredAreDone, TokensAreTheirOwn
<1>4. VerdictStands'
    BY <1>1, ReadingsStand, ResultsStand DEF IInv, VerdictStands
<1> QED BY <1>2, <1>3, <1>4 DEF IInv

LEMMA NextKeeps == IInv /\ [Next]_vars => IInv'
<1> SUFFICES ASSUME IInv, [Next]_vars PROVE IInv'
    OBVIOUS
<1>1. CASE RunAll
    BY <1>1, TasksStart
<1>2. CASE NeverRuns \/ Report
    BY <1>2, EndsKeep
<1>3. ASSUME NEW i \in DOMAIN status, Start(i)
      PROVE  IInv'
    BY <1>3, StartKeeps
<1>4. ASSUME NEW i \in DOMAIN status, LLMEnds(i)
      PROVE  IInv'
    BY <1>4, LLMEndsKeeps
<1>5. ASSUME NEW i \in DOMAIN status,
             NEW a \in Answers(dataset[i]) \cup Raised, Finish(i, a)
      PROVE  IInv'
    BY <1>5, FinishKeeps
<1>6. CASE UNCHANGED vars
    BY <1>6, StutterKeeps
<1> QED BY <1>1, <1>2, <1>3, <1>4, <1>5, <1>6 DEF Next

LEMMA InvariantHolds == Spec => []IInv
<1>1. Init => IInv
    BY InitEstablishes
<1>2. IInv /\ [Next]_vars => IInv'
    BY NextKeeps
<1> QED BY <1>1, <1>2, PTL DEF Spec

-----------------------------------------------------------------------------
(* Theorems.                                                               *)

\* A result carries the tokens of its record's own calls.
THEOREM ResultsCarryTheirOwnTokens == Spec => []TokensAreTheirOwn
<1>1. IInv => TokensAreTheirOwn
    BY DEF IInv
<1> QED BY <1>1, InvariantHolds, PTL

LEMMA VerdictsAreGreen == IInv => GreenRunsSawIt
<1> SUFFICES ASSUME IInv, exit = 0
             PROVE  CASE suite = "customer_delegator" -> GreenDelegator
                      [] suite = "classifier" -> GreenClassifier
                      [] suite = "tool_planner" -> GreenPlanner
                      [] suite = "tool_executor" -> GreenExecutor
                      [] suite = "product_tools" -> GreenProducts
                      [] suite = "memory" -> GreenMemory
                      [] suite = "response_generator" -> GreenResponses
    BY DEF GreenRunsSawIt
<1>1. DatasetParsed /\ Passes(Results)
    BY DEF IInv, TypeOK, VerdictStands
<1>2. AnswersGiven
  <2>1. DOMAIN status = Tasks /\ \A i \in Tasks : status[i] = "done"
      BY DEF IInv, TypeOK, VerdictStands
  <2> QED BY <2>1 DEF IInv, AnsweredAreDone, AnswersGiven
<1>3. suite = "customer_delegator" => GreenDelegator
    BY <1>1, GreenDelegators DEF Passes
<1>4. suite = "classifier" => GreenClassifier
    BY <1>1, GreenClassifiers DEF Passes
<1>5. suite = "tool_planner" => GreenPlanner
    BY <1>1, GreenPlanners DEF Passes
<1>6. suite = "tool_executor" => GreenExecutor
    BY <1>1, <1>2, GreenExecutors DEF Passes
<1>7. suite = "product_tools" => GreenProducts
    BY <1>1, GreenProductTools DEF Passes
<1>8. suite = "memory" => GreenMemory
    BY <1>1, GreenSummaries DEF Passes
<1>9. suite = "response_generator" => GreenResponses
    BY <1>1, GreenResponders DEF Passes
<1>10. suite \in {"customer_delegator", "classifier", "tool_planner", "tool_executor",
                  "product_tools", "memory", "response_generator"}
    BY <1>1, ConfigAssumption DEF DatasetParsed, ConfigAssumption
<1> QED BY <1>3, <1>4, <1>5, <1>6, <1>7, <1>8, <1>9, <1>10

\* Exit code 0 means that the node did what the suite is there to see, in the
\* records that the suite's verdict is over.
THEOREM ExitZeroMeansIt == Spec => []GreenRunsSawIt
BY VerdictsAreGreen, InvariantHolds, PTL

==============================================================================
