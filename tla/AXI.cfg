SPECIFICATION Spec
CONSTANTS
    Regs = {0, 1}
    Lanes = {1, 2}
    Bytes = {0, 1}
    ReadOnly = {1}
    PipelinedReads = FALSE
INVARIANTS RegistersAgree ResponsesMatch
PROPERTIES PulseIsWrite Answered
