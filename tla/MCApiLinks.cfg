SPECIFICATION Spec
CONSTANTS
    Words <- AllWords
    Setups <- AllSetups
    Entries <- Starts
INVARIANTS LinksComeBack LinksLeadWhereTheySay
