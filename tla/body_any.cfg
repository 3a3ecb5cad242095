SPECIFICATION Spec
INVARIANTS
    InternalErrorIsMissingReturn
    UnreachableNeverRuns
PROPERTY
    GetsOn
