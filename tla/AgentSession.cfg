SPECIFICATION FairSpec
CONSTANTS
    UserRole = "admin"
    Registry = {"cancel_order", "initiate_refund"}
    UnlistedTool = "made_up_tool"
    LLMDomains = {"need_assistance"}
    LLMIntents = {"refund_request"}
    MAX_TOOL_RETRIES = 1
    MAX_OUTPUT_RETRIES = 2
    SUMMARIZE_AFTER_N = 3
    DestructiveLimit = 1
    WriteLimit = 1
    ReadLimit = 2
    MaxExtraCalls = 0
    MaxTurns = 2
INVARIANTS
    WindowPairsIntact
    WindowBounded
    GroundedInThisTurn
    ReplyIsForThisTurn
    RetriesCountExecutions
PROPERTIES
    TurnsKeepTheConversation
    TurnEnds
