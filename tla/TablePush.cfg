SPECIFICATION Spec
CONSTANT Cases <- AllCases
INVARIANTS
    NoIllegalStatement
    PushedMatches
    ClusteringKept
    MinimalMoves
    Converges

    
