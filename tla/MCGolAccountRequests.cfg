SPECIFICATION Spec
CONSTANTS
    owner = owner
    self = self
    usdc = usdc
    zero = zero
    faucet = faucet
    agent = agent
    shop = shop
    cafe = cafe
    Addr <- MCAddr
    Caller <- MCCaller
    Payee <- ShopOrZero
    Allowlist <- ShopLists
    Owner = owner
    Self = self
    Usdc = usdc
    Zero = zero
    Faucet = faucet
    RequestId = {1, 2, 3}
    Amount = {0, 1, 2}
    Supply = 2
    MaxMandates = 1
    MaxTime = 1
    MaxDuration = 1
    MaxRecipients = 1
INVARIANTS
    TypeOK
    SpentWithinCap
    SpendingIsPartitioned
    EventsMatchRecords
    SpentIsExecutedTotal
PROPERTIES
    RecordsArePermanent
CHECK_DEADLOCK FALSE
