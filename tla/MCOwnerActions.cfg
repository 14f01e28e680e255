SPECIFICATION Spec
CONSTANTS
    Kind = {"create_account", "provision_agent", "fund_account", "sign_mandate", "revoke_mandate", "withdraw", "fund_agent_gas", "aave_action"}
    Load = {l1}
    NoView = NoView
    MaxSent = 3
    MaxTries = 2
    MaxReloads = 1
INVARIANTS
    TypeOK
    NothingShownAhead
    LoneSubmission
    RulesAwaitFirstApproval
CHECK_DEADLOCK FALSE
