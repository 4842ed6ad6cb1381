SPECIFICATION Spec
CONSTANTS
    Backends = {ollama, gemini}
    MaxChain = 3
    MaxChunks = 3
    HoldLimit = 2
INVARIANTS SharedFollowsClient RejectedUnseen CachedIsWhatClientSaw CallsSettle JoinedHearTheEnd
CHECK_DEADLOCK FALSE
