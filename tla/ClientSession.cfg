\* Two tabs of the participants' application, on one localStorage.
CONSTANTS
    t1 = t1
    t2 = t2
    s1 = s1
    Tab = {t1, t2}
    Call <- OneCallEach
    Stray = {}
    Initializers <- ParticipantInitializers
    Gates = {}
    Kinds = {"save"}
    PasswordSignsOut = FALSE
    MaxTokens = 2
SPECIFICATION Spec
SYMMETRY TabSymmetry
CHECK_DEADLOCK FALSE
INVARIANTS
    TypeOK
    OneTokenPerLogin
PROPERTIES
    OldTokenDiscarded
    LoginsEndForGood
    ImplementsLoginChain
