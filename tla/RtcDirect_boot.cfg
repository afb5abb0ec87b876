\* Both firmwares under Darwin and another system; two threads use the clock.
CONSTANTS
    Null = Null
    Systems = {"Darwin", "Other"}
    Firmwares = {"switch", "awac"}
    Gpes <- MCGpes
    Sleeps = {3, 4}
    Threads = {t1, t2}
    Bank = 2
    Sizes <- MCSizes
SPECIFICATION Spec
INVARIANTS
    OneClock
    OthersHaveOneClock
    RefsBalanced
PROPERTIES
    RtcAnswers
