SPECIFICATION Spec
SYMMETRY Symmetry
CONSTANTS
    Account = {a}
    Sub = {s, t}
    Lifecycle <- MCLifecycle
    Hook = {v, w}
    Desk = {w}
    Cron = w
    MaxEvents = 2
    MaxMishaps = 1
PROPERTIES
    OnlyRacesDuplicate
    OnlyStaleNewsRevives
    OnlyTheseGiveAway
    OnlyTheseTakeAway
