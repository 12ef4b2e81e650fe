SPECIFICATION Spec
CONSTANTS
    Null = Null
    LeftSchema <- MCLeftSchema
    RightSchema <- MCRightSchema
    LeftRows <- MCLeftRows
    RightRows <- MCRightRows
    MaxRows = 3
    Kinds = {"inner", "left", "right", "full", "cross"}
    Conditions <- MCConditions
    Variants = {"sync", "async"}
    Interval = 2
CHECK_DEADLOCK FALSE
INVARIANTS
    TypeOK
    ExactElsewhere
    OnlyDocumentedRows
    CancelHeeded
