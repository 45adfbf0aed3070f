CONSTANTS
    TTYs <- MCTTYs
    Games = {"snake"}
    Words = {"word"}
    MaxWords = 2
    Interval = 2
SPECIFICATION Spec
INVARIANTS ModesAgree LineOnScreen RunningIsPlayed
PROPERTIES GameIsShown
