-------------------------- MODULE MCSettlement --------------------------
(***************************************************************************)
(* Instances of Settlement for TLC: two products, of which the first has   *)
(* deposits of both environments and a withdrawal.  Withdrawals ask for    *)
(* tenths of a cent.                                                       *)
(***************************************************************************)
EXTENDS Settlement

CONSTANTS d1, d2, d3, w1, w2, p1, p2, vaultWallet, keyWallet, b1, b2

Owner == [o \in Orders |-> IF o \in {d2, w2} THEN p2 ELSE p1]

OnlyThirdProduction ==
    [o \in Orders |-> IF o = d3 THEN "production" ELSE "sandbox"]

(* Apart the withdrawals come to 2 and 4 cents, and together to 7.          *)
Tenths ==
    [o \in Orders |->
       IF o = d1 THEN 30 ELSE IF o = w1 THEN 24 ELSE IF o = w2 THEN 44 ELSE 40]

Cents == [o \in Orders |-> IF o = d1 THEN 3 ELSE IF o = w1 THEN 2 ELSE 4]

(* The second product has no token vault in the sandbox. *)
OneVault == [at \in Products \X Environments |->
               IF at = <<p2, "sandbox">> THEN NoWallet ELSE vaultWallet]

(* Enough for the first withdrawal twice, of either product for the second. *)
Idle == [p \in Products |-> IF p = p1 THEN 5 ELSE 4]

(* The key signs for another wallet, which pays for both withdrawals once. *)
Custody == [w \in Wallets |-> IF w = keyWallet THEN 7 ELSE 4]

OneKey == [env \in Environments |-> IF env = "sandbox" THEN keyWallet ELSE NoWallet]

Batch(orders, scope, first) ==
    [kind |-> "batch", orders |-> orders, scope |-> scope, first |-> first]

Single(o) == [kind |-> "single", orders |-> {o}, scope |-> {}, first |-> p1]

(* By the dashboard over both products, and by a product's API key. *)
Asked ==
    {Batch({d1, d2, d3}, {p1, p2}, p1), Batch({d1, d2}, {p2}, p2),
     Batch({w1, w2}, {p1, p2}, p1), Batch({w1}, {p1}, p1), Single(d1), Single(w1)}
=========================================================================
