CONSTANTS
    InputGroups <- SwitchGroups
    OutLens <- ConvOutLens
SPECIFICATION Spec
INVARIANT TextMeaning
CHECK_DEADLOCK FALSE
