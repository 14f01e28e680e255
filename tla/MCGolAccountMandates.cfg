SPECIFICATION Spec
CONSTANTS
    owner = owner
    self = self
    usdc = usdc
    zero = zero
    faucet = faucet
    agent = agent
    shop = shop
    cafe = cafe
    Addr <- MCAddr
    Caller <- MCCaller
    Payee <- ShopOrSelf
    Allowlist <- OpenOrClosed
    Owner = owner
    Self = self
    Usdc = usdc
    Zero = zero
    Faucet = faucet
    RequestId = {1}
    Amount = {0, 1, 2}
    Supply = 1
    MaxMandates = 2
    MaxTime = 1
    MaxDuration = 1
    MaxRecipients = 1
INVARIANTS
    SoleLiveMandate
    ValueFollowsEvidence
    IndexMatchesContract
PROPERTIES
    DeadMandatesStayDead
    ImplementsLedger
CHECK_DEADLOCK FALSE
