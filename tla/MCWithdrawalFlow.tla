------------------------ MODULE MCWithdrawalFlow ------------------------
(***************************************************************************)
(* Instances of WithdrawalFlow for TLC: two withdrawals of one account in  *)
(* the sandbox, which has one client vault.                                *)
(***************************************************************************)
EXTENDS WithdrawalFlow

CONSTANTS w1, w2, user, vault

(* Both orders withdraw from the one account there is. *)
OneAccount == [o \in Orders |-> user]

AllSandbox == [x \in Accounts \cup Vaults |-> "sandbox"]
=========================================================================
