CONSTANTS
    Thread = {"first", "second", "third", "local"}
    MaxLogins = 2
    Role = {"admin", "editor", "viewer"}
    Env = {"stage", "local"}
    Key = {"cookie", "item", "indexedDB"}
    Unwatched = {"indexedDB"}
    RolesOf <- Roles
    EnvOf <- Envs
    SetBy <- Keys
    NoFile = NoFile
    Empty = Empty
    Garbled = Garbled
SPECIFICATION SSSpec
CHECK_DEADLOCK FALSE
INVARIANTS
    SSTypeOK
    SeededAsDeclared
    ResolvingAloneHeals
