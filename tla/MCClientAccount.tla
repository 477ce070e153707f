------------------------ MODULE MCClientAccount ------------------------
(***************************************************************************)
(* An instance of ClientAccount for TLC: a product with a balance and one  *)
(* that registers.                                                         *)
(***************************************************************************)
EXTENDS ClientAccount

CONSTANTS old, new, sandboxUSDC, productionUSDC, THB, SGD, r1, r2, r3

OpeningBalance == [p \in Existing |-> [available |-> 3, reserved |-> 1]]

Ask(kind, p, amount) ==
    [kind |-> kind, product |-> p, amount |-> amount, vaults |-> {}, currencies |-> {}]

(* Two reservations that fit alone and not together, as do the reserved      *)
(* funds for one of the release and the deduction.                           *)
Asked ==
    {[Ask("create", new, 0) EXCEPT !.vaults = Vaults],
     [Ask("strategies", new, 0) EXCEPT !.vaults = SandboxVaults],
     Ask("add", old, 2), Ask("add", new, 2),
     Ask("reserve", old, 2), Ask("release", old, 1), Ask("deduct", old, 2),
     [Ask("accounts", old, 0) EXCEPT !.currencies = {THB}],
     [Ask("accounts", old, 0) EXCEPT !.currencies = {SGD}],
     [Ask("currencies", old, 0) EXCEPT !.currencies = {THB, SGD}]}
=========================================================================
