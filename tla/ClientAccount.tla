------------------------- MODULE ClientAccount -------------------------
(***************************************************************************)
(* A client of the platform: its product (client_organizations), its       *)
(* prepaid balance, the vaults it is given when it registers, and the      *)
(* currencies and bank accounts it configures.  Every request is a         *)
(* sequence of statements outside any transaction; what one has read may   *)
(* be stale when the next one writes, and nothing is undone when one fails.*)
(* The idle balance of a product is in Settlement, its vaults' money in    *)
(* VaultLedger.  The product id is drawn by the router for each            *)
(* registration, so no two registrations share one; the upsert of the      *)
(* owner's privy account, which cannot conflict, is left out.              *)
(***************************************************************************)
EXTENDS Integers, FiniteSets, Sums

CONSTANTS Products,      \* client_organizations
          Existing,      \* those registered before the requests served here
          Opening,       \* their prepaid balances
          Vaults,        \* (chain, token, environment) of a client vault
          SandboxVaults, \* those of the sandbox
          PrivyVault,    \* production USDC on Base, with a wallet of its own
          Currencies,
          Requests,      \* HTTP requests served, each of them once
          Menu,          \* what callers ask
          Faults,        \* TRUE: statements fail, servers die
          NoBalance, NoProduct, NoVault, NoRequest

Balances == [available : Nat, reserved : Nat]

LedgerKinds == {"add", "reserve", "release", "deduct"}

(* vaults: those to create, or the one to configure. *)
AskType ==
    [kind : {"create", "strategies", "accounts", "currencies"} \cup LedgerKinds,
     product : Products, amount : Nat,
     vaults : SUBSET Vaults, currencies : SUBSET Currencies]

ASSUME ConstantsAssumption ==
    /\ IsFiniteSet(Requests)
    /\ Existing \subseteq Products
    /\ Opening \in [Existing -> Balances]
    /\ SandboxVaults \subseteq Vaults /\ PrivyVault \in Vaults \ SandboxVaults
    /\ Menu \subseteq AskType
    /\ \A q \in Menu : /\ q.kind = "create" => q.product \notin Existing
                       /\ q.kind = "strategies" => q.vaults \subseteq SandboxVaults
    /\ Faults \in BOOLEAN
    /\ NoBalance \notin Balances /\ NoProduct \notin Products
    /\ NoVault \notin Vaults /\ NoRequest \notin Requests

NoAsk == [kind |-> "none", product |-> NoProduct, amount |-> 0,
          vaults |-> {}, currencies |-> {}]

VARIABLES
    products,   \* the rows of client_organizations
    balance,    \* client_balances: [available, reserved], both CHECK >= 0
    vault,      \* client_vaults: the wallet a vault was inserted with
    banked,     \* currencies in the JSON column bank_accounts
    supported,  \* those in another, supported_currencies
    pc,         \* the statement a request is about to run
    req,        \* what it asks
    todo,       \* vaults it has still to look at
    making,     \* the vault it found missing
    applied,    \* history: the requests whose UPDATE changed the balance
    logged,     \* the requests whose entry is in audit_logs
    writer,     \* history: who last wrote banked, and supported
    met         \* history: the pairs of requests that were served at once

rowVars == <<products, balance, vault, banked, supported>>
historyVars == <<applied, logged, writer, met>>
vars == <<products, balance, vault, banked, supported, pc, req, todo, making,
          applied, logged, writer, met>>

-----------------------------------------------------------------------------

Running == {"insert", "balance", "find", "vault", "make", "check", "update",
            "log", "accounts", "currencies"}
Ended   == {"done", "failed"}

InFlight(r) == pc[r] \in Running

Goto(r, label) == pc' = [pc EXCEPT ![r] = label]

Kind(r)    == req[r].kind
Product(r) == req[r].product
Amount(r)  == req[r].amount

HasBalance(p) == balance[p] # NoBalance

Init ==
    /\ products = Existing
    /\ balance = [p \in Products |-> IF p \in Existing THEN Opening[p] ELSE NoBalance]
    /\ vault = [p \in Products |-> [v \in Vaults |->
                  IF p \in Existing THEN "organization" ELSE "none"]]
    /\ banked = [p \in Products |-> {}]
    /\ supported = [p \in Products |-> {}]
    /\ pc = [r \in Requests |-> "idle"]
    /\ req = [r \in Requests |-> NoAsk]
    /\ todo = [r \in Requests |-> {}]
    /\ making = [r \in Requests |-> NoVault]
    /\ applied = {}
    /\ logged = {}
    /\ writer = [p \in Products |-> [banked |-> NoRequest, supported |-> NoRequest]]
    /\ met = {}

(* The first statement of a request of each kind: registration draws a new   *)
(* product, releasing and deducting look at nothing before their UPDATE.     *)
FirstOf(kind) ==
    CASE kind = "create"             -> "insert"
      [] kind \in {"add", "reserve"} -> "check"
      [] kind \in {"release", "deduct"} -> "update"
      [] OTHER                       -> "find"

Begin(r, ask) ==
    /\ pc[r] = "idle"
    /\ ask.kind = "create" =>
          \A c \in Requests : ~(Kind(c) = "create" /\ Product(c) = ask.product)
    /\ req' = [req EXCEPT ![r] = ask]
    /\ todo' = [todo EXCEPT ![r] = ask.vaults]
    /\ met' = met \cup UNION {{<<r, c>>, <<c, r>>} : c \in {d \in Requests : InFlight(d)}}
    /\ Goto(r, FirstOf(ask.kind))
    /\ UNCHANGED <<rowVars, making, applied, logged, writer>>

-----------------------------------------------------------------------------
(* Registration, and the vaults of a product.                              *)

InsertProduct(r) ==
    /\ pc[r] = "insert"
    /\ products' = products \cup {Product(r)}
    /\ Goto(r, "balance")
    /\ UNCHANGED <<balance, vault, banked, supported, req, todo, making, historyVars>>

CreateBalance(r) ==
    /\ pc[r] = "balance"
    /\ balance' = [balance EXCEPT ![Product(r)] = [available |-> 0, reserved |-> 0]]
    /\ Goto(r, "vault")
    /\ UNCHANGED <<products, vault, banked, supported, req, todo, making, historyVars>>

(* The dashboard's requests look the product up by its id. *)
Find(r) ==
    /\ pc[r] = "find"
    /\ Goto(r, IF Product(r) \notin products THEN "failed"
               ELSE IF Kind(r) = "strategies" THEN "vault" ELSE Kind(r))
    /\ UNCHANGED <<rowVars, req, todo, making, historyVars>>

(* getOrCreateVault for each vault: those that exist are left as they are.   *)
SelectVault(r, v) ==
    /\ pc[r] = "vault" /\ v \in todo[r]
    /\ IF vault[Product(r)][v] = "none"
       THEN Goto(r, "make") /\ making' = [making EXCEPT ![r] = v] /\ UNCHANGED todo
       ELSE todo' = [todo EXCEPT ![r] = @ \ {v}] /\ UNCHANGED <<pc, making>>
    /\ UNCHANGED <<rowVars, req, historyVars>>

(* (Slip: a vault without a Privy wallet gets none at all.) *)
WalletFor_Bare(r, v) ==
    IF Kind(r) # "create" THEN {"none of its own"}
    ELSE IF v = PrivyVault THEN {"privy", "none of its own"}
    ELSE {"organization"}

(* The wallet a vault is inserted with: a new one from Privy, for which the  *)
(* organization's stands in when Privy fails; configuring strategies knows   *)
(* of none.                                                                  *)
WalletFor(r, v) ==
    IF Kind(r) # "create" THEN {"none of its own"}
    ELSE IF v = PrivyVault THEN {"privy", "organization"}
    ELSE {"organization"}

(* Another request may have inserted it since: the constraint refuses, and   *)
(* the rest of the registration is not run.                                  *)
InsertVault(r) ==
    /\ pc[r] = "make"
    /\ LET p == Product(r)  v == making[r]
       IN  IF vault[p][v] # "none"
           THEN Goto(r, "failed") /\ UNCHANGED <<vault, todo>>
           ELSE /\ \E wallet \in WalletFor(r, v) :
                      vault' = [vault EXCEPT ![p][v] = wallet]
                /\ todo' = [todo EXCEPT ![r] = @ \ {v}]
                /\ Goto(r, "vault")
    /\ making' = [making EXCEPT ![r] = NoVault]
    /\ UNCHANGED <<products, balance, banked, supported, req, historyVars>>

(* The strategies themselves are one column, written whole. *)
EndVaults(r) ==
    /\ pc[r] = "vault" /\ todo[r] = {}
    /\ Goto(r, "done")
    /\ UNCHANGED <<rowVars, req, todo, making, historyVars>>

-----------------------------------------------------------------------------
(* The prepaid balance.                                                    *)

(* (Slip: the amount is not compared.) *)
Sufficient_Any(r) == TRUE

Sufficient(r) ==
    Kind(r) = "reserve" => balance[Product(r)].available >= Amount(r)

(* Adding and reserving read the row first. *)
Check(r) ==
    /\ pc[r] = "check"
    /\ Goto(r, IF HasBalance(Product(r)) /\ Sufficient(r) THEN "update" ELSE "failed")
    /\ UNCHANGED <<rowVars, req, todo, making, historyVars>>

(* (Slip: the UPDATE trusts the check made before.) *)
Applies_Unguarded(r) == HasBalance(Product(r))

(* The guard of the UPDATE: where it fails no row changes, which nobody      *)
(* looks at.                                                                 *)
Applies(r) ==
    LET row == balance[Product(r)]
    IN  /\ HasBalance(Product(r))
        /\ Kind(r) = "reserve" => row.available >= Amount(r)
        /\ Kind(r) \in {"release", "deduct"} => row.reserved >= Amount(r)

(* (Slip: what is released stays reserved.) *)
Updated_Kept(kind, row, amount) ==
    CASE kind = "add"     -> [row EXCEPT !.available = @ + amount]
      [] kind = "reserve" -> [available |-> row.available - amount,
                              reserved  |-> row.reserved + amount]
      [] kind = "release" -> [row EXCEPT !.available = @ + amount]
      [] kind = "deduct"  -> [row EXCEPT !.reserved = @ - amount]

Updated(kind, row, amount) ==
    CASE kind = "add"     -> [row EXCEPT !.available = @ + amount]
      [] kind = "reserve" -> [available |-> row.available - amount,
                              reserved  |-> row.reserved + amount]
      [] kind = "release" -> [available |-> row.available + amount,
                              reserved  |-> row.reserved - amount]
      [] kind = "deduct"  -> [row EXCEPT !.reserved = @ - amount]

Update(r) ==
    /\ pc[r] = "update"
    /\ IF Applies(r)
       THEN /\ balance' = [balance EXCEPT ![Product(r)] = Updated(Kind(r), @, Amount(r))]
            /\ applied' = applied \cup {r}
       ELSE UNCHANGED <<balance, applied>>
    /\ Goto(r, "log")
    /\ UNCHANGED <<products, vault, banked, supported, req, todo, making,
                   logged, writer, met>>

(* The entry says that the amount was added, reserved, released, deducted. *)
Log(r) ==
    /\ pc[r] = "log"
    /\ logged' = logged \cup {r}
    /\ Goto(r, "done")
    /\ UNCHANGED <<rowVars, req, todo, making, applied, writer, met>>

-----------------------------------------------------------------------------
(* Currencies.  Configuring bank accounts replaces them all, and then the    *)
(* list of currencies; the list can also be set alone.                       *)

ReplaceBankAccounts(r) ==
    /\ pc[r] = "accounts"
    /\ banked' = [banked EXCEPT ![Product(r)] = req[r].currencies]
    /\ writer' = [writer EXCEPT ![Product(r)].banked = r]
    /\ Goto(r, "currencies")
    /\ UNCHANGED <<products, balance, vault, supported, req, todo, making,
                   applied, logged, met>>

(* (Slip: currencies are added to those that were supported.) *)
UpdateSupported_Union(r) ==
    /\ pc[r] = "currencies"
    /\ supported' = [supported EXCEPT ![Product(r)] = @ \cup req[r].currencies]
    /\ writer' = [writer EXCEPT ![Product(r)].supported = r]
    /\ Goto(r, "done")
    /\ UNCHANGED <<products, balance, vault, banked, req, todo, making,
                   applied, logged, met>>

UpdateSupported(r) ==
    /\ pc[r] = "currencies"
    /\ supported' = [supported EXCEPT ![Product(r)] = req[r].currencies]
    /\ writer' = [writer EXCEPT ![Product(r)].supported = r]
    /\ Goto(r, "done")
    /\ UNCHANGED <<products, balance, vault, banked, req, todo, making,
                   applied, logged, met>>

-----------------------------------------------------------------------------

(* A statement fails or the server dies: what is written stays. *)
Fail(r) ==
    /\ Faults /\ InFlight(r)
    /\ Goto(r, "failed")
    /\ UNCHANGED <<rowVars, req, todo, making, historyVars>>

Step(r) ==
    \/ InsertProduct(r)
    \/ CreateBalance(r)
    \/ Find(r)
    \/ \E v \in Vaults : SelectVault(r, v)
    \/ InsertVault(r)
    \/ EndVaults(r)
    \/ Check(r)
    \/ Update(r)
    \/ Log(r)
    \/ ReplaceBankAccounts(r)
    \/ UpdateSupported(r)

Next ==
    \E r \in Requests :
        \/ \E ask \in Menu : Begin(r, ask)
        \/ Step(r)
        \/ Fail(r)

Spec == Init /\ [][Next]_vars

-----------------------------------------------------------------------------
(* Properties.                                                             *)

(* Every variable has its type: whatever overlaps, neither part of a balance *)
(* falls below zero.                                                         *)
Wallets == {"none", "organization", "privy", "none of its own"}

TypeOK ==
    /\ products \in SUBSET Products
    /\ balance \in [Products -> Balances \cup {NoBalance}]
    /\ vault \in [Products -> [Vaults -> Wallets]]
    /\ banked \in [Products -> SUBSET Currencies]
    /\ supported \in [Products -> SUBSET Currencies]
    /\ pc \in [Requests -> {"idle"} \cup Running \cup Ended]
    /\ req \in [Requests -> Menu \cup {NoAsk}]
    /\ todo \in [Requests -> SUBSET Vaults]
    /\ making \in [Requests -> Vaults \cup {NoVault}]
    /\ applied \subseteq Requests /\ logged \subseteq Requests
    /\ writer \in [Products -> [banked : Requests \cup {NoRequest},
                                supported : Requests \cup {NoRequest}]]
    /\ met \subseteq Requests \X Requests

(* Money neither appears nor disappears: available and reserved together are *)
(* what the product opened with, plus what was added, less what was deducted.*)
FundsConserved ==
    LET of(p, kind) == {r \in applied : Product(r) = p /\ Kind(r) = kind}
        total(p, kind) == SumOver([r \in Requests |-> Amount(r)], of(p, kind))
        opening(p) == IF p \in Existing THEN Opening[p].available + Opening[p].reserved ELSE 0
    IN  \A p \in Products :
           IF HasBalance(p)
           THEN balance[p].available + balance[p].reserved
                  = opening(p) + total(p, "add") - total(p, "deduct")
           ELSE {r \in applied : Product(r) = p} = {}

(* The audit log answers for the balance: a change that is not in it was     *)
(* made by a request that failed or is about to write its entry, and an      *)
(* entry of a reservation that was never made was written by a request that  *)
(* another reservation of the product overtook.                              *)
Overtaken(r) ==
    \E c \in applied : /\ Kind(c) = "reserve" /\ Product(c) = Product(r)
                       /\ <<r, c>> \in met

LogExplained ==
    /\ \A r \in applied \ logged : pc[r] \in {"log", "failed"}
    /\ \A r \in logged \ applied : Kind(r) = "reserve" => Overtaken(r)

(* Who was told that a product is registered has its balance and all the     *)
(* vaults asked for, and those lack a wallet only if strategies were being   *)
(* configured at the same time.                                              *)
CreatedIsComplete ==
    \A r \in Requests : Kind(r) = "create" /\ pc[r] = "done" =>
       /\ Product(r) \in products /\ HasBalance(Product(r))
       /\ \A v \in req[r].vaults :
             /\ vault[Product(r)][v] # "none"
             /\ vault[Product(r)][v] = "none of its own" =>
                   \E c \in Requests : Kind(c) = "strategies" /\ <<r, c>> \in met

(* A product supports exactly the currencies it has bank accounts for,       *)
(* unless the list was set alone, or the two columns were last written by    *)
(* two configurations that overlapped or one that did not finish.            *)
CurrenciesFollowAccounts ==
    \A p \in Products :
       LET a == writer[p].banked  c == writer[p].supported
       IN  supported[p] # banked[p] =>
              \/ c # NoRequest /\ Kind(c) = "currencies"
              \/ a # NoRequest /\ pc[a] # "done"
              \/ <<a, c>> \in met
=========================================================================
