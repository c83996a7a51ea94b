SPECIFICATION Spec
CONSTANTS
    Branches = {"send1", "send2"}
    OwnerOf <- OneNode
    Unnamed = {"send2"}
    Announced = {"send2"}
    Values = {0, 1}
    MaxMessages = 1
    MaxChunks = 2
    None = None
INVARIANTS
    TypeOK
    LegalStream
    OpenIsOwned
    StateInSync
PROPERTIES
    OpenIsEnded
CHECK_DEADLOCK FALSE
