\* One tab with two requests in flight, and pages that are closed in the middle
\* of a refresh.
CONSTANTS
    t1 = t1
    t2 = t2
    s1 = s1
    Tab = {t1}
    Call <- TwoCalls
    Stray = {s1}
    Initializers <- ParticipantInitializers
    Gates = {}
    Kinds <- ParticipantKinds
    PasswordSignsOut = TRUE
    MaxTokens = 2
SPECIFICATION LiveSpec
CHECK_DEADLOCK FALSE
INVARIANTS
    WaitersHaveRefresh
PROPERTIES
    RequestsSettle
