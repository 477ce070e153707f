-------------------------- MODULE MCDepositFlow --------------------------
(***************************************************************************)
(* Instances of DepositFlow for TLC: two or three orders, which are of one *)
(* user or of two, and two client vaults.                                  *)
(***************************************************************************)
EXTENDS DepositFlow, TLC

CONSTANTS o1, o2, o3, sandboxUser, productionUser, sandboxVault, productionVault,
          h1, h2, h3

(* Both orders are of the one account there is. *)
OneAccount == [o \in Orders |-> CHOOSE a \in Accounts : TRUE]

(* The first order is of the sandbox user, the others of the production one. *)
TwoAccounts == [o \in Orders |-> IF o = o1 THEN sandboxUser ELSE productionUser]

ByName == [x \in Accounts \cup Vaults |->
             IF x \in {sandboxUser, sandboxVault} THEN "sandbox" ELSE "production"]

(* Everything happens in the sandbox. *)
AllSandbox == [x \in Accounts \cup Vaults |-> "sandbox"]

HandlerSymmetry == Permutations(Handlers)

==========================================================================
