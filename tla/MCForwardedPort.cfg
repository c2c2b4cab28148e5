SPECIFICATION Spec
CONSTANTS
    Words <- AllWords
    Setups <- PortSetups
    Entries <- Starts
INVARIANT ForwardedPortIsUsed
