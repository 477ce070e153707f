----------------------- MODULE WithdrawalContract -----------------------
(***************************************************************************)
(* What a withdrawal promises whatever interleaves or dies: the order is   *)
(* opened once; one payout is queued for it; the account is debited at     *)
(* most once, by exactly what was queued; an operator may settle the order *)
(* any time after it is opened.                                            *)
(***************************************************************************)
EXTENDS Integers

CONSTANTS Orders, Accounts, AccountOf

VARIABLES status,     \* of an order: "none" before it is opened
          payout,     \* amount queued for an order, 0 before
          paid,       \* amount an order has debited
          withdrawn   \* total debited from an account

vars == <<status, payout, paid, withdrawn>>

Init ==
    /\ status = [o \in Orders |-> "none"]
    /\ payout = [o \in Orders |-> 0]
    /\ paid = [o \in Orders |-> 0]
    /\ withdrawn = [a \in Accounts |-> 0]

Open(o) ==
    /\ status[o] = "none"
    /\ status' = [status EXCEPT ![o] = "pending"]
    /\ UNCHANGED <<payout, paid, withdrawn>>

Enqueue(o) ==
    /\ status[o] # "none"
    /\ payout[o] = 0
    /\ payout'[o] \in Nat \ {0}
    /\ payout' = [payout EXCEPT ![o] = payout'[o]]
    /\ UNCHANGED <<status, paid, withdrawn>>

Debit(o) ==
    /\ payout[o] # 0
    /\ paid[o] = 0
    /\ paid' = [paid EXCEPT ![o] = payout[o]]
    /\ withdrawn' = [withdrawn EXCEPT ![AccountOf[o]] = @ + payout[o]]
    /\ UNCHANGED <<status, payout>>

Settle(o, outcome) ==
    /\ status[o] # "none"
    /\ status' = [status EXCEPT ![o] = outcome]
    /\ UNCHANGED <<payout, paid, withdrawn>>

Next ==
    \E o \in Orders :
        \/ Open(o)
        \/ Enqueue(o)
        \/ Debit(o)
        \/ \E outcome \in {"completed", "failed"} : Settle(o, outcome)

Spec == Init /\ [][Next]_vars
=========================================================================
