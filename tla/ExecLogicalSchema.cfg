SPECIFICATION FairSpec
CONSTANTS
    base = base
    like = like
    bad = bad
    alterBase = alterBase
    alterBad = alterBad
    NoStmt = NoStmt
    Creates <- MCCreates
    Alters <- MCAlters
    Needs <- MCNeeds
    Invalid <- MCInvalid
    Faults = {"lock", "conn"}
    Concurrency = 2
INVARIANTS
    TypeOK
    NoSendAfterClose
    SchemaIsFinal
    OutcomeIsDeterministic
    FirstErrorWins
    NoSilentLoss
    LikeRetrySuffices
PROPERTIES
    ImplementsBatch
    Terminates
\* Terminates finds every stop but the intended one.
CHECK_DEADLOCK FALSE
