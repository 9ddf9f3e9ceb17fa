SPECIFICATION Spec
CONSTANTS
    h1 = h1  h2 = h2  h3 = h3  p1 = p1
    Callers <- OneCaller
    Handles <- ThreeHandles
    Commands <- AllCommands
    NoHandle = NoHandle
    CharDevice = TRUE
    Free = Free
    Stale = Stale
PROPERTY SessionKindAllowed
