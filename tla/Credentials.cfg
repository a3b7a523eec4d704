SPECIFICATION Spec
CONSTANTS
    Secret = {x, y}  Req = {r1, r2}
    MaxCrash = 2  None = None  Torn = Torn
INVARIANTS CanSetUp SecretKept KeysStable
CHECK_DEADLOCK FALSE
