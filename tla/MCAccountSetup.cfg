SPECIFICATION FairSpec
CONSTANTS
    o1 = o1
    o2 = o2
    l1 = l1
    l2 = l2
    Owner = {o1, o2}
    Login = {l1, l2}
    Controls <- SharedWallet
    Call = {c1, c2}
    Request = {r}
    NoLink = NoLink
    NoJob = NoJob
    NoAgent = NoAgent
    KmsKey = KmsKey
    Choices = {"all"}
    Providers = {"privy", "aws_kms"}
    MaxReleases = 1
INVARIANTS
    TypeOK
    LinksAgree
    ServedByItsAgent
PROPERTIES
    RequestsFollowTheirLink
    LinksSurvive
    QueueIsServedUnlessMoved
CHECK_DEADLOCK FALSE
