\* A page of the administrators' application and one of its settings forms.
CONSTANTS
    t1 = t1
    t2 = t2
    s1 = s1
    Tab = {t1}
    Call <- OneCall
    Stray = {}
    Initializers <- AdminInitializers
    Gates = {"layout"}
    Kinds <- AdminKinds
    PasswordSignsOut = TRUE
    MaxTokens = 2
SPECIFICATION Spec
CHECK_DEADLOCK FALSE
PROPERTIES
    OldTokenDiscarded
