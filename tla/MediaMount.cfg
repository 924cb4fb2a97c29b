SPECIFICATION Spec
CONSTANTS
    Extensions <- MCExtensions
    NotedHeads <- MCNotedHeads
    Offers <- MCOffers
    MaxLines = 5
INVARIANTS
    MountsInOrder
CHECK_DEADLOCK FALSE
