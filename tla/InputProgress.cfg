CONSTANTS
    KEY_BUFFER_SIZE = 2
    Codes <- ShiftCodes
    NoEvent = NoEvent
    Keys <- ShiftKeys
    CodeOf <- ShiftCodeOf
    Extended = {"up"}
    TTYs <- TwoTTYs
    MaxBytes = 1
SPECIFICATION Spec
INVARIANTS ModifiersFollow PrefixForOneKey
PROPERTIES EventsHandled BytesRead
