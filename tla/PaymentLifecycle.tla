---------------------------- MODULE PaymentLifecycle ----------------------------
(***************************************************************************)
(* What the payment service promises about one request, whoever serves it: *)
(* the request takes effect on the chain at most once, and what its owner  *)
(* is finally told agrees with that effect for good.                       *)
(*                                                                         *)
(* PaymentWorker implements this module; ClientView is built on it.        *)
(***************************************************************************)
CONSTANT Request

VARIABLES
    told,     \* what the journal answers about each request
    effect    \* what the account contract recorded for it

lifecycleVars == <<told, effect>>

Open == {"working", "unknown"}
Final == {"executed", "refused", "technical_failure", "needs_clarification",
          "signer_blocked"}
Told == {"absent"} \cup Open \cup Final
Effect == {"UNSEEN", "EXECUTED", "REFUSED"}

LifecycleInit ==
    /\ told = [r \in Request |-> "absent"]
    /\ effect = [r \in Request |-> "UNSEEN"]

Accept(r) ==
    /\ told[r] = "absent"
    /\ told' = [told EXCEPT ![r] = "working"]
    /\ UNCHANGED effect

\* The outcome cannot be proven yet; from here the journal only settles.
Park(r) ==
    /\ told[r] = "working"
    /\ told' = [told EXCEPT ![r] = "unknown"]
    /\ UNCHANGED effect

\* A blocked request may still take effect: the one verdict that promises nothing.
TakeEffect(r, o) ==
    /\ told[r] \in Open \cup {"signer_blocked"}
    /\ effect[r] = "UNSEEN"
    /\ o # "UNSEEN"
    /\ effect' = [effect EXCEPT ![r] = o]
    /\ UNCHANGED told

\* The effect each verdict needs.
EffectOf(verdict) ==
    CASE verdict = "executed"       -> {"EXECUTED"}
      [] verdict = "refused"        -> {"REFUSED"}
      [] verdict = "signer_blocked" -> Effect
      [] OTHER                      -> {"UNSEEN"}

Settle(r, verdict) ==
    /\ told[r] \in Open
    /\ effect[r] \in EffectOf(verdict)
    /\ told' = [told EXCEPT ![r] = verdict]
    /\ UNCHANGED effect

LifecycleNext ==
    \E r \in Request :
        \/ Accept(r)
        \/ Park(r)
        \/ \E o \in Effect : TakeEffect(r, o)
        \/ \E verdict \in Final : Settle(r, verdict)

LifecycleSpec == LifecycleInit /\ [][LifecycleNext]_lifecycleVars

=============================================================================
