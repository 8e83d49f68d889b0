CONSTANTS
    UeIds = {"u1"}
    SliceOf <- UeSlice
    Templates = {"basic", "ulcl-2slice"}
    LabEvents = 2
    LateAnswers = 1
    Nothing = "none"
SPECIFICATION LabSpec
CHECK_DEADLOCK FALSE
INVARIANTS GnbHasCore
