SPECIFICATION Spec
CONSTANT Programs <- SiblingArms
INVARIANT DeclarationsAreIdentities
CHECK_DEADLOCK FALSE
