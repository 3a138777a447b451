--------------------------- MODULE AgentVocabulary ---------------------------
(***************************************************************************)
(* The static tables the agent graph routes by: intents and domains        *)
(* (app/agent/state.py), the intent-to-tool scope (app/agent/tool_scope.py)*)
(* and the classification of tools by their effect                         *)
(* (app/agent/nodes/tool_executor.py).  Nothing here changes at run time.  *)
(***************************************************************************)

IntentType ==
    {"order_status", "order_cancel", "shipment_tracking", "refund_request",
     "refund_status", "product_inquiry", "product_search", "account_info",
     "review_lookup", "faq_policy", "chitchat", "complaint", "unknown"}

CustomerDomain ==
    {"need_information", "need_assistance", "need_advice", "escalate", "block"}

INFORMATION_INTENTS ==
    {"order_status", "shipment_tracking", "refund_status", "account_info",
     "review_lookup", "product_inquiry", "product_search"}

ASSISTANCE_INTENTS == {"order_cancel", "refund_request"}

ADVICE_INTENTS == {"faq_policy", "chitchat", "unknown"}

ESCALATION_INTENTS == {"complaint"}

\* Only these three domains have a bounded set of intents; the delegator sends
\* "escalate" and "block" to the human hand-off before the classifier runs.
DOMAIN_INTENT_MAP ==
    [need_information |-> INFORMATION_INTENTS,
     need_assistance  |-> ASSISTANCE_INTENTS,
     need_advice      |-> ADVICE_INTENTS]

DOMAIN_FALLBACK_INTENT ==
    [need_information |-> "order_status",
     need_assistance  |-> "refund_request",
     need_advice      |-> "unknown"]

TOOL_DOMAINS == {"need_information", "need_assistance"}

NO_TOOL_INTENTS == {"chitchat", "faq_policy", "unknown", "complaint"}

-----------------------------------------------------------------------------
Role == {"customer", "support_agent", "admin"}

INTENT_TOOL_SCOPE ==
    [order_status      |-> {"get_orders", "get_order_items"},
     order_cancel      |-> {"cancel_order"},
     shipment_tracking |-> {"track_shipment"},
     refund_request    |-> {"initiate_refund"},
     refund_status     |-> {"get_refund_status"},
     product_inquiry   |-> {"get_product_detail"},
     product_search    |-> {"search_products"},
     account_info      |-> {"get_account_info"},
     review_lookup     |-> {"get_reviews"}]

SUPPORT_ADDITIONS ==
    [order_status      |-> {"get_orders_any_user"},
     refund_status     |-> {"get_refund_status_any_user"},
     shipment_tracking |-> {"track_shipment_any_user"}]

ADMIN_ADDITIONS ==
    [order_cancel   |-> {"force_cancel_order"},
     refund_request |-> {"force_initiate_refund"},
     review_lookup  |-> {"get_all_reviews"}]

\* A scope table read as Python's dict.get(intent, []).
ScopeOf(table, intent) ==
    IF intent \in DOMAIN table THEN table[intent] ELSE {}

\* The tools the planner's LLM is bound to.  Two fallbacks hand it the whole
\* list: an intent without a scope, and a scope none of whose tools is listed.
ScopeToolsForIntent(tools, intent, role) ==
    LET base    == ScopeOf(INTENT_TOOL_SCOPE, intent)
        support == IF role \in {"support_agent", "admin"}
                     THEN ScopeOf(SUPPORT_ADDITIONS, intent) ELSE {}
        admin   == IF role = "admin"
                     THEN ScopeOf(ADMIN_ADDITIONS, intent) ELSE {}
        scoped  == tools \cap (base \cup support \cup admin)
    IN  IF base = {} \/ scoped = {} THEN tools ELSE scoped

-----------------------------------------------------------------------------
\* The executor's own classification.  The counters are kept per class: the
\* limits only ever add them up by class, never look at a single tool.
ToolClass == {"destructive", "write", "read"}

WRITE_TOOLS == {"initiate_refund", "cancel_order"}

DESTRUCTIVE_TOOLS == {"cancel_order"}

ClassifyTool(tool) ==
    IF tool \in DESTRUCTIVE_TOOLS THEN "destructive"
    ELSE IF tool \in WRITE_TOOLS THEN "write"
    ELSE "read"

==============================================================================
