CONSTANTS
    KEY_BUFFER_SIZE = 3
    Codes <- SwitchCodes
    NoEvent = NoEvent
    Keys <- SwitchKeys
    CodeOf <- SwitchCodeOf
    Extended = {}
    TTYs <- TwoTTYs
    MaxBytes = 1
SPECIFICATION SafetySpec
INVARIANTS TypeOK DispatchInFront
PROPERTIES RefinesEventQueue LostOnlyWhenFull
