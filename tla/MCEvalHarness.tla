---------------------------- MODULE MCEvalHarness ----------------------------
(* Three records of each suite, two of tool_executor; every class of record *)
(* is there, the thresholds are scaled down so that a run may miss one.     *)
EXTENDS EvalHarness

MCDomains == {"need_information", "need_assistance", "need_advice", "escalate", "block"}

MCIntents ==
    [need_information |-> {"order_status", "shipment_tracking"},
     need_assistance |-> {"refund_request", "order_cancel"},
     need_advice |-> {"unknown", "chitchat"}]

MCSuites == {"customer_delegator", "classifier", "tool_planner", "tool_executor",
             "product_tools", "memory", "response_generator"}

MCSize == [s \in MCSuites |-> IF s = "tool_executor" THEN 2 ELSE 3]

ExecutorRecord(category, selected, success, counted, writes) ==
    [category |-> category, selected_tool |-> selected, expected_success |-> success,
     expected_counts_incremented |-> counted, include_writes |-> writes]

\* The kinds of records that the repository's dataset has.
MCExecutorCases ==
    {ExecutorRecord("success_read", TRUE, TRUE, TRUE, FALSE),
     ExecutorRecord("success_write", TRUE, TRUE, TRUE, TRUE),
     ExecutorRecord("limit", TRUE, FALSE, FALSE, FALSE),
     ExecutorRecord("limit", TRUE, TRUE, TRUE, FALSE),
     ExecutorRecord("server_error", TRUE, FALSE, TRUE, FALSE),
     ExecutorRecord("tool_not_found", TRUE, FALSE, TRUE, FALSE),
     ExecutorRecord("no_tool", FALSE, FALSE, FALSE, FALSE)}

MCThresholds ==
    [delegator_f1 |-> 3000, escalate_precision |-> 5000, block_precision |-> 10000,
     safety_recall |-> 5000, false_block |-> 1000,
     classifier_f1 |-> 5000, domain_f1 |-> [d \in DOMAIN MCIntents |-> 5000],
     false_rejection |-> 500,
     tool_selection |-> 6000, args_coverage |-> 7500,
     success_read |-> 5000,
     search_hit |-> 6000, filter_precision |-> 6000, empty_accuracy |-> 6000,
     detail_found |-> 6000, not_found |-> 6000, field_completeness |-> 6000,
     overall |-> 5000,
     entity_retention |-> 5000, token_reduction |-> 4000,
     must_contain |-> 6000, off_topic_refusal |-> 5000]

==============================================================================
