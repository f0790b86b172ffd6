SPECIFICATION Spec
SYMMETRY Symmetry
CONSTANTS
    Request = {a, b}
    MaxSessions = 3
    MaxCsrf = 4
    MaxLinks = 2
    MaxSecrets = 2
    MaxBatches = 2
    Invite = {i}
    OTP_MAX_ATTEMPTS = 2
    MaxCodes = 2
    Account = {"s1", "s2"}
    Base = {"ana", "loja"}
    RESERVED_SLUGS = {"loja"}
    LastSuffix = 3
    Date = {1, 2}
    Percent = {30}
    MaxEdits = 2
    LimitOf <- MCLimitOf
    Custom = {3}
    MaxCount = 3
    MaxExceptions = 2
INVARIANTS
    TypesOK
PROPERTIES
    
    
    OnlyStaleWritesHarm
    OnlyOverlapsReuse
    OnlyRacesMisaddress
    OnlyTheseMisjudge
    OnlyOverlapsMixSettings
CHECK_DEADLOCK FALSE
