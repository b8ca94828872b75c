SPECIFICATION Spec

CONSTANTS
    MaxEdits = 2
    SecondEdits = {"highlight_style", "citation_restyled", "double_break",
                   "list_zero_padded"}
    MaxChanges = 4
    MaxClock = 2
    MaxDataEdits = 4
    Missing = Missing

INVARIANTS
    CasesAreCaught
    GreenMeansFaithful
    GreenMeansSealed
    DepositHeldTheBytes
    
    RunKeepsToSeal
    PassingDataIsRegistered
    

CHECK_DEADLOCK FALSE
