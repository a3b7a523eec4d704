SPECIFICATION FairSpec
CONSTANTS
    Handshake = {h1, h2}  MaxVersion = 3  MaxCrash = 2  None = None
INVARIANTS UnchangedIsCurrent SelfSignedUsable
PROPERTIES NeverOlder EventuallyLatest
CHECK_DEADLOCK FALSE
