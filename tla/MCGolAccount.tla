---------------------------- MODULE MCGolAccount ----------------------------
(***************************************************************************)
(* Small instances of GolAccount and its index for TLC.                    *)
(***************************************************************************)
EXTENDS GolEvidence

CONSTANTS owner, self, usdc, zero, faucet, agent, shop, cafe

MCAddr == {owner, self, usdc, zero, faucet, agent, shop, cafe}
MCCaller == {agent, owner}

\* Replacing mandates: open and closed lists, the account paying itself.
OpenOrClosed == {{}, {cafe}, {self}}
ShopOrSelf == {shop, self}

\* Many requests under one mandate: one payee, and lists that are too long.
ShopLists == {{shop}, {shop, cafe}}
ShopOrZero == {shop, zero}

=============================================================================
