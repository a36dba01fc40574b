SPECIFICATION MCSpec
CONSTANTS
    alice = alice
    bob = bob
    carol = carol
    dave = dave
    mint = mint
    sink = sink
    fee = fee
    first = first
    second = second
    other = other
    badge = badge
    earn = earn
    spend = spend
    there = there
    back = back
    nothing = nothing
    None = None
    Viewers <- MCViewers
    Mint = mint
    Sink = sink
    Ops <- MCOps
    Debit <- MCDebit
    Credit <- MCCredit
    Amount <- MCAmount
    Key <- MCKey
    Opening <- MCOpening
    Items <- MCItems
    Purchases <- MCPurchases
    Item <- MCItem
    OpeningStock <- MCStock
    MaxPerUser <- MCMaxPerUser
INVARIANTS
    NoCoinIsInvented
    OwnedIfPaid
PROPERTIES
    KeepsBooks
    EveryPurchaseEnds
CHECK_DEADLOCK FALSE
