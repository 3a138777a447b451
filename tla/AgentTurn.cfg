SPECIFICATION Spec
CONSTANTS
    UserRole = "customer"
    Registry = {"cancel_order", "initiate_refund", "get_orders", "get_order_detail"}
    UnlistedTool = "made_up_tool"
    LLMDomains = {"need_information", "need_assistance", "need_advice", "escalate", "block"}
    LLMIntents = {"order_status", "shipment_tracking", "order_cancel", "refund_request", "complaint", "chitchat"}
    MAX_TOOL_RETRIES = 2
    MAX_OUTPUT_RETRIES = 2
    SUMMARIZE_AFTER_N = 10
    DestructiveLimit = 1
    WriteLimit = 3
    ReadLimit = 10
    MaxExtraCalls = 1
    MaxTurns = 1
INVARIANTS
    StepsBounded
    RetriesCountExecutions
    EffectsWithinLimits
    ApologyAfterBudget
    UnsafeOnlyAfterBudget
    ToolsRunBehindTheGates
