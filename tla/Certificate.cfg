SPECIFICATION Spec
CONSTANTS
    Lifetime = 360
    Window = 120
    RenewEvery = 2
    ReloadEvery = 1
    Day = 4
    Retries = 58
INVARIANT
    ServedIsValid
