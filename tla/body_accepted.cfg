SPECIFICATION Spec
CONSTANT
    Programs <- AllBodies
INVARIANTS
    TypeOK
    ReadsAreWritten
    LifetimesAgree
PROPERTY
    FollowsTheGraph
