SPECIFICATION Spec
CONSTANTS
    Account = {a, b}
    Sub = {s, t}
    Lifecycle <- MCShort
    Hook = {w}
    Desk = {w}
    Cron = w
    MaxEvents = 1
    MaxMishaps = 1
PROPERTIES
    SafetyNet
