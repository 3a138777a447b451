----------------------------- MODULE MCAgentGraph -----------------------------
(***************************************************************************)
(* Constants for model checking AgentGraph.                                *)
(***************************************************************************)
EXTENDS AgentGraph

\* The code's own retry budgets keep a turn inside LangGraph's default
\* recursion_limit, which no call of the graph overrides.
ASSUME RecursionLimitAssumption == StepBound <= 25

==============================================================================
