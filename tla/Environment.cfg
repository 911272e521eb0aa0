CONSTANTS
    Names = {1, 2, 3, 4}
    Values = {"a", "b"}
    None = None
    size = 3
    hash <- MCHash
    Default <- MCDefault
    Refused <- MCRefused
    ENV_SIZE = 2
    Blocks = 2
    block <- MCBlock
    MaxEnters = 3
SPECIFICATION Spec
INVARIANTS Findable FilledCounts
PROPERTIES ImplementsNameStore
