SPECIFICATION Spec
CONSTANT Programs <- AllPrograms
INVARIANTS
    TypeOK
    BindsLexically
    NamesVerdict
    LookupsAgree
    LabelVerdict
    StructsAreGrounded
    SlotsHoldTheirType
    ParamsKeepTheirValue
CHECK_DEADLOCK FALSE
