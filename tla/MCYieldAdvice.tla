------------------------- MODULE MCYieldAdvice -------------------------
(***************************************************************************)
(* An instance of YieldAdvice for TLC: two protocols, two tokens, one      *)
(* strategy that weighs the protocols' rates against trust in them.        *)
(***************************************************************************)
EXTENDS YieldAdvice, TLC

CONSTANTS aave, morpho, usdc, usdt, c1, c2

Protocol2 == <<aave, morpho>>

(* Risk-adjusted prefers Aave by a little, and asks for a gain before it     *)
(* leaves it.                                                                *)
Styles ==
    [s \in {"risk"} |->
        [score   |-> [p \in {aave, morpho} |-> [r \in Rates |->
                          IF p = aave THEN r + 1 ELSE r]],
         allowed |-> [p \in {aave, morpho} |-> Rates],
         delta   |-> [p \in {aave, morpho} |-> [q \in {aave, morpho} |->
                          IF p = aave THEN 2 ELSE 1]]]]

Ask(kind, t, ts, s) == [kind |-> kind, token |-> t, tokens |-> ts, strategy |-> s]

Asked ==
    {Ask("optimize", usdc, {usdc}, "risk"),
     Ask("positions", usdt, {usdt}, NoStrategy)}

(* Both protocols offer the same, and the wallet is in Aave. *)
Start ==
    [rate : {[p \in {aave, morpho} |-> [t \in {usdc, usdt} |-> 4]]},
     holding : {{<<aave, usdc>>}}]

Symmetry == Permutations(Calls)

Volatile == {<<aave, usdc>>}
=========================================================================
