---------------------- MODULE ClientAccountProofs ----------------------
(***************************************************************************)
(* Theorems about ClientAccount, for every set of products, vaults,        *)
(* requests and amounts.  What a request knows where it stands is Stage;   *)
(* what overlapped, MetInv; one invariant for each of the three groups of  *)
(* columns does the rest.  The sums of FundsConserved come last.           *)
(***************************************************************************)
EXTENDS ClientAccount, SumTheorems, TLAPS

USE ConstantsAssumption DEF ConstantsAssumption

(* The statements of each kind of request. *)
Stage ==
    \A r \in Requests :
       /\ IF pc[r] = "idle" THEN req[r] = NoAsk ELSE req[r] \in Menu
       /\ pc[r] \in {"insert", "balance"} => Kind(r) = "create"
       /\ pc[r] \in {"vault", "make"} => Kind(r) \in {"create", "strategies"}
       /\ pc[r] = "find" => Kind(r) \in {"strategies", "accounts", "currencies"}
       /\ pc[r] = "check" => Kind(r) \in {"add", "reserve"}
       /\ pc[r] \in {"update", "log"} => Kind(r) \in LedgerKinds
       /\ pc[r] = "accounts" => Kind(r) = "accounts"
       /\ pc[r] = "currencies" => Kind(r) \in {"accounts", "currencies"}
       /\ pc[r] = "make" => making[r] \in Vaults

(* Two requests in flight have met. *)
MetInv ==
    \A a, b \in Requests : InFlight(a) /\ InFlight(b) /\ a # b => <<a, b>> \in met

(* A registration finds no balance of its product. *)
OwnProduct ==
    /\ \A a, b \in Requests : Kind(a) = "create" /\ Kind(b) = "create"
                              /\ Product(a) = Product(b) => a = b
    /\ \A r \in Requests : pc[r] \in {"insert", "balance"} => ~HasBalance(Product(r))
    /\ \A p \in Products : HasBalance(p) =>
          p \in Existing \/ \E r \in Requests : Kind(r) = "create" /\ Product(r) = p

(* A reservation whose check has passed still fits, was made, or was         *)
(* overtaken.                                                                *)
LogInv ==
    /\ \A r \in applied : Kind(r) \in LedgerKinds /\ pc[r] \in {"log", "failed", "done"}
    /\ \A r \in logged : pc[r] = "done"
    /\ \A r \in Requests :
          /\ pc[r] = "done" /\ Kind(r) \in LedgerKinds => r \in logged
          /\ pc[r] = "update" /\ Kind(r) = "reserve" => Applies(r) \/ Overtaken(r)
          /\ pc[r] \in {"log", "done"} /\ Kind(r) = "reserve" =>
                r \in applied \/ Overtaken(r)

(* What registrations have built, and who else touches it. *)
Bare(r, v) == vault[Product(r)][v] = "none of its own"

(* One registration. *)
Built(r) ==
    /\ pc[r] \in {"insert", "balance"} => todo[r] = req[r].vaults
    /\ pc[r] \in {"balance", "vault", "make"} => Product(r) \in products
    /\ Kind(r) = "create" /\ pc[r] \in {"vault", "make", "done"} =>
          /\ Product(r) \in products /\ HasBalance(Product(r))
          /\ \A v \in req[r].vaults \ todo[r] : vault[Product(r)][v] # "none"
          /\ pc[r] = "done" => todo[r] = {}

(* Why a vault of it may lack a wallet. *)
Excused(r) ==
    Kind(r) = "create" /\ pc[r] # "failed" =>
       \A v \in req[r].vaults : Bare(r, v) =>
          \E c \in Requests : Kind(c) = "strategies" /\ <<r, c>> \in met

Placed ==
    /\ \A p \in products : p \in Existing
                           \/ \E r \in Requests : Kind(r) = "create" /\ Product(r) = p
    /\ \A p \in Products, v \in Vaults : vault[p][v] # "none" => p \in products

VaultInv == Placed /\ \A r \in Requests : Built(r) /\ Excused(r)

(* The columns of a product answer to their last writers. *)
Banker(p) == writer[p].banked
Lister(p) == writer[p].supported

Written(p) ==
    LET a == Banker(p)  c == Lister(p)
    IN  /\ a = NoRequest => banked[p] = {}
        /\ c = NoRequest => supported[p] = {}
        /\ a # NoRequest => /\ Kind(a) = "accounts" /\ Product(a) = p
                            /\ banked[p] = req[a].currencies
                            /\ pc[a] \in {"currencies", "done", "failed"}
        /\ c # NoRequest => /\ Kind(c) \in {"accounts", "currencies"} /\ Product(c) = p
                            /\ supported[p] = req[c].currencies
                            /\ pc[c] = "done"
        /\ c # NoRequest /\ a # NoRequest /\ a # c /\ pc[a] = "done"
           /\ Kind(c) = "accounts" => <<a, c>> \in met

Configuring(r) ==
    Kind(r) = "accounts" =>
       LET a == Banker(Product(r))  c == Lister(Product(r))
       IN  /\ pc[r] \in {"currencies", "done"} => a # NoRequest
           /\ pc[r] = "currencies" => a = r \/ <<a, r>> \in met
           /\ pc[r] = "done" => c # NoRequest

WriterInv == \A p \in Products : Written(p)

Configured == \A r \in Requests : Configuring(r)

-----------------------------------------------------------------------------
(* Types and stages.                                                       *)

TypeInv == TypeOK /\ Stage

LEMMA Labels ==
    /\ \A l \in Running : l \notin Ended /\ l # "idle"
    /\ \A l \in Ended : l # "idle"
    /\ \A r \in Requests : InFlight(r) => pc[r] # "idle"
  BY DEF Running, Ended, InFlight

(* The ask of a request that has begun. *)
LEMMA AskFacts ==
    ASSUME TypeInv, NEW r \in Requests, pc[r] # "idle"
    PROVE  /\ req[r] \in Menu
           /\ Product(r) \in Products /\ Amount(r) \in Nat
           /\ req[r].vaults \in SUBSET Vaults /\ req[r].currencies \in SUBSET Currencies
           /\ Kind(r) \in {"create", "strategies", "accounts", "currencies"} \cup LedgerKinds
           /\ Kind(r) = "create" => Product(r) \notin Existing
  BY DEF TypeInv, Stage, AskType, Product, Amount, Kind

LEMMA IdleFacts ==
    ASSUME TypeInv, NEW r \in Requests, pc[r] = "idle"
    PROVE  Kind(r) = "none" /\ Product(r) = NoProduct
  BY DEF TypeInv, Stage, NoAsk, Kind, Product

(* Who has a kind has begun. *)
LEMMA KindFacts ==
    ASSUME TypeInv, NEW r \in Requests, Kind(r) # "none"
    PROVE  pc[r] # "idle"
  BY IdleFacts

(* What a request's step leaves alone: everybody else, and every ask. *)
Frame(r) ==
    /\ req' = req /\ met' = met
    /\ pc' \in [Requests -> {"idle"} \cup Running \cup Ended]
    /\ todo' \in [Requests -> SUBSET Vaults]
    /\ making' \in [Requests -> Vaults \cup {NoVault}]
    /\ pc[r] \in Running /\ pc'[r] \notin {"idle", "insert"}
    /\ pc'[r] = "balance" => pc[r] = "insert"
    /\ \A c \in Requests \ {r} : pc'[c] = pc[c] /\ todo'[c] = todo[c] /\ making'[c] = making[c]

LEMMA GotoFrame ==
    ASSUME TypeInv, NEW r \in Requests, NEW label \in Running \cup Ended, Goto(r, label),
           label # "insert", label = "balance" => pc[r] = "insert",
           pc[r] \in Running, req' = req, met' = met, todo' = todo, making' = making
    PROVE  Frame(r) /\ pc'[r] = label
  BY Labels DEF TypeInv, TypeOK, Goto, Frame

(* Its own stage after the step is then all there is to show. *)
LEMMA StageFrame ==
    ASSUME TypeInv, NEW r \in Requests, Frame(r),
           /\ pc'[r] \in {"insert", "balance"} => Kind(r) = "create"
           /\ pc'[r] \in {"vault", "make"} => Kind(r) \in {"create", "strategies"}
           /\ pc'[r] = "find" => Kind(r) \in {"strategies", "accounts", "currencies"}
           /\ pc'[r] = "check" => Kind(r) \in {"add", "reserve"}
           /\ pc'[r] \in {"update", "log"} => Kind(r) \in LedgerKinds
           /\ pc'[r] = "accounts" => Kind(r) = "accounts"
           /\ pc'[r] = "currencies" => Kind(r) \in {"accounts", "currencies"}
           /\ pc'[r] = "make" => making'[r] \in Vaults
    PROVE  Stage'
  <1>1. pc[r] # "idle"
    BY Labels DEF Frame
  <1>2. \A c \in Requests : Kind(c)' = Kind(c)
    BY DEF Frame, Kind
  <1> QED BY <1>1, <1>2 DEF TypeInv, Stage, Frame

(* Labels of the next statement. *)
LEMMA LabelFacts ==
    /\ \A l \in {"insert", "balance", "find", "vault", "make", "check", "update",
                 "log", "accounts", "currencies"} : l \in Running /\ l \in Running \cup Ended
    /\ \A l \in {"done", "failed"} : l \in Ended /\ l \in Running \cup Ended
  BY DEF Running, Ended

(* No balance falls below zero. *)
LEMMA UpdatedType ==
    ASSUME TypeInv, NEW r \in Requests, pc[r] = "update", Applies(r)
    PROVE  /\ balance[Product(r)] \in Balances
           /\ Updated(Kind(r), balance[Product(r)], Amount(r)) \in Balances
           /\ Kind(r) # "reserve" =>
                 Updated(Kind(r), balance[Product(r)], Amount(r)).available
                    >= balance[Product(r)].available
  <1> DEFINE row == balance[Product(r)]
             n == Amount(r)
  <1>1. Product(r) \in Products /\ n \in Nat /\ Kind(r) \in LedgerKinds
    BY AskFacts DEF TypeInv, Stage
  <1>2. row \in Balances
    BY <1>1 DEF TypeInv, TypeOK, Applies, HasBalance
  <1>3. row.available \in Nat /\ row.reserved \in Nat
        /\ row = [available |-> row.available, reserved |-> row.reserved]
    BY <1>2 DEF Balances
  <1>4. CASE Kind(r) = "add"
    <2>1. Updated(Kind(r), row, n) = [row EXCEPT !.available = @ + n]
      BY <1>4 DEF Updated
    <2> QED BY <1>1, <1>2, <1>3, <1>4, <2>1 DEF Balances
  <1>5. CASE Kind(r) = "reserve"
    <2>1. Updated(Kind(r), row, n)
            = [available |-> row.available - n, reserved |-> row.reserved + n]
      BY <1>5 DEF Updated
    <2>2. row.available >= n
      BY <1>5 DEF Applies
    <2> QED BY <1>1, <1>2, <1>3, <1>5, <2>1, <2>2 DEF Balances
  <1>6. CASE Kind(r) = "release"
    <2>1. Updated(Kind(r), row, n)
            = [available |-> row.available + n, reserved |-> row.reserved - n]
      BY <1>6 DEF Updated
    <2>2. row.reserved >= n
      BY <1>6 DEF Applies
    <2> QED BY <1>1, <1>2, <1>3, <1>6, <2>1, <2>2 DEF Balances
  <1>7. CASE Kind(r) = "deduct"
    <2>1. Updated(Kind(r), row, n) = [row EXCEPT !.reserved = @ - n]
      BY <1>7 DEF Updated
    <2>2. row.reserved >= n
      BY <1>7 DEF Applies
    <2> QED BY <1>1, <1>2, <1>3, <1>7, <2>1, <2>2 DEF Balances
  <1> QED BY <1>1, <1>4, <1>5, <1>6, <1>7 DEF LedgerKinds

LEMMA BeginType ==
    ASSUME TypeInv, NEW r \in Requests, NEW ask \in Menu, Begin(r, ask)
    PROVE  /\ TypeInv'
           /\ req'[r] = ask /\ pc'[r] = FirstOf(ask.kind) /\ todo'[r] = ask.vaults
           /\ pc'[r] \in {"insert", "check", "update", "find"}
           /\ ask.kind \in LedgerKinds <=> pc'[r] \in {"check", "update"}
           /\ ask.kind = "reserve" => pc'[r] = "check"
           /\ ask.kind = "create" <=> pc'[r] = "insert"
           /\ \A c \in Requests \ {r} : pc'[c] = pc[c] /\ req'[c] = req[c] /\ todo'[c] = todo[c]
           /\ met \subseteq met'
  <1>1. ask \in AskType
    OBVIOUS
  <1>2. /\ FirstOf(ask.kind) \in {"insert", "check", "update", "find"}
        /\ ask.kind \in LedgerKinds <=> FirstOf(ask.kind) \in {"check", "update"}
        /\ ask.kind \in {"add", "reserve"} <=> FirstOf(ask.kind) = "check"
        /\ ask.kind = "create" <=> FirstOf(ask.kind) = "insert"
        /\ ask.kind \in {"strategies", "accounts", "currencies"} <=> FirstOf(ask.kind) = "find"
    BY <1>1 DEF FirstOf, AskType, LedgerKinds
  <1>3. /\ req' \in [Requests -> Menu \cup {NoAsk}] /\ req'[r] = ask
        /\ pc' \in [Requests -> {"idle"} \cup Running \cup Ended]
        /\ pc'[r] = FirstOf(ask.kind)
        /\ todo' \in [Requests -> SUBSET Vaults] /\ todo'[r] = ask.vaults
        /\ \A c \in Requests \ {r} : pc'[c] = pc[c] /\ req'[c] = req[c] /\ todo'[c] = todo[c]
    BY <1>1, <1>2, LabelFacts DEF TypeInv, TypeOK, Begin, Goto, AskType
  <1>4. met' \subseteq Requests \X Requests /\ met \subseteq met'
    BY DEF TypeInv, TypeOK, Begin
  <1>5. TypeOK'
    BY <1>3, <1>4 DEF TypeInv, TypeOK, Begin, rowVars
  <1>6. Kind(r)' = ask.kind /\ \A c \in Requests \ {r} : Kind(c)' = Kind(c)
    BY <1>3 DEF Kind
  <1>7. Stage'
    BY <1>2, <1>3, <1>6 DEF TypeInv, Stage, Begin
  <1> QED BY <1>2, <1>3, <1>4, <1>5, <1>7 DEF TypeInv

LEMMA SelectFrame ==
    ASSUME TypeInv, NEW r \in Requests, NEW v \in Vaults, SelectVault(r, v)
    PROVE  Frame(r) /\ Stage'
  <1>0. pc[r] = "vault" /\ pc[r] \in Running /\ Kind(r) \in {"create", "strategies"}
    BY LabelFacts DEF SelectVault, TypeInv, Stage
  <1>1. CASE vault[Product(r)][v] = "none"
    <2>1. /\ Goto(r, "make") /\ making' = [making EXCEPT ![r] = v]
          /\ todo' = todo /\ req' = req /\ met' = met
      BY <1>1 DEF SelectVault, historyVars
    <2>2. Frame(r) /\ pc'[r] = "make" /\ making'[r] = v
      BY <1>0, <2>1, LabelFacts, Labels DEF TypeInv, TypeOK, Goto, Frame
    <2> QED BY <1>0, <2>2, StageFrame
  <1>2. CASE vault[Product(r)][v] # "none"
    <2>1. /\ todo' = [todo EXCEPT ![r] = @ \ {v}]
          /\ pc' = pc /\ making' = making /\ req' = req /\ met' = met
      BY <1>2 DEF SelectVault, historyVars
    <2>2. Frame(r) /\ pc'[r] = "vault"
      BY <1>0, <2>1, LabelFacts, Labels DEF TypeInv, TypeOK, Frame
    <2> QED BY <1>0, <2>2, StageFrame
  <1> QED BY <1>1, <1>2

LEMMA InsertFrame ==
    ASSUME TypeInv, NEW r \in Requests, InsertVault(r)
    PROVE  Frame(r) /\ Stage'
  <1>0. pc[r] = "make" /\ pc[r] \in Running /\ Kind(r) \in {"create", "strategies"}
        /\ req' = req /\ met' = met /\ making' = [making EXCEPT ![r] = NoVault]
    BY LabelFacts DEF InsertVault, TypeInv, Stage, historyVars
  <1>1. CASE vault[Product(r)][making[r]] # "none"
    <2>1. Goto(r, "failed") /\ todo' = todo
      BY <1>1 DEF InsertVault
    <2>2. Frame(r) /\ pc'[r] = "failed"
      BY <1>0, <2>1, LabelFacts, Labels DEF TypeInv, TypeOK, Goto, Frame
    <2> QED BY <2>2, StageFrame
  <1>2. CASE vault[Product(r)][making[r]] = "none"
    <2>1. Goto(r, "vault") /\ todo' = [todo EXCEPT ![r] = @ \ {making[r]}]
      BY <1>2 DEF InsertVault
    <2>2. Frame(r) /\ pc'[r] = "vault"
      BY <1>0, <2>1, LabelFacts, Labels DEF TypeInv, TypeOK, Goto, Frame
    <2> QED BY <1>0, <2>2, StageFrame
  <1> QED BY <1>1, <1>2

(* Every step of a request is framed and keeps the stages. *)
LEMMA StepFrame ==
    ASSUME TypeInv, NEW r \in Requests, Step(r) \/ Fail(r)
    PROVE  Frame(r) /\ Stage'
  <1>1. ASSUME InsertProduct(r) PROVE Frame(r) /\ Stage'
    <2>1. Frame(r) /\ pc'[r] = "balance" /\ Kind(r) = "create"
      BY <1>1, GotoFrame, LabelFacts DEF InsertProduct, historyVars, TypeInv, Stage
    <2> QED BY <2>1, StageFrame
  <1>2. ASSUME CreateBalance(r) PROVE Frame(r) /\ Stage'
    <2>1. Frame(r) /\ pc'[r] = "vault" /\ Kind(r) = "create"
      BY <1>2, GotoFrame, LabelFacts DEF CreateBalance, historyVars, TypeInv, Stage
    <2> QED BY <2>1, StageFrame
  <1>3. ASSUME Find(r) PROVE Frame(r) /\ Stage'
    <2>1. pc[r] = "find" /\ Kind(r) \in {"strategies", "accounts", "currencies"}
          /\ req' = req /\ met' = met /\ todo' = todo /\ making' = making
      BY <1>3 DEF Find, historyVars, TypeInv, Stage
    <2>2. \/ Goto(r, "failed")
          \/ Kind(r) = "strategies" /\ Goto(r, "vault")
          \/ Kind(r) = "accounts" /\ Goto(r, "accounts")
          \/ Kind(r) = "currencies" /\ Goto(r, "currencies")
      BY <1>3, <2>1 DEF Find
    <2>3. /\ Frame(r)
          /\ \/ pc'[r] = "failed"
             \/ Kind(r) = "strategies" /\ pc'[r] = "vault"
             \/ Kind(r) = "accounts" /\ pc'[r] = "accounts"
             \/ Kind(r) = "currencies" /\ pc'[r] = "currencies"
      BY <2>1, <2>2, GotoFrame, LabelFacts
    <2> QED BY <2>3, StageFrame
  <1>4. ASSUME EndVaults(r) PROVE Frame(r) /\ Stage'
    <2>1. Frame(r) /\ pc'[r] = "done"
      BY <1>4, GotoFrame, LabelFacts DEF EndVaults, historyVars
    <2> QED BY <2>1, StageFrame
  <1>5. ASSUME Check(r) PROVE Frame(r) /\ Stage'
    <2>1. pc[r] = "check" /\ Kind(r) \in {"add", "reserve"}
          /\ req' = req /\ met' = met /\ todo' = todo /\ making' = making
          /\ (Goto(r, "update") \/ Goto(r, "failed"))
      BY <1>5 DEF Check, historyVars, TypeInv, Stage
    <2>2. Frame(r) /\ pc'[r] \in {"update", "failed"}
      BY <2>1, GotoFrame, LabelFacts
    <2> QED BY <2>1, <2>2, StageFrame DEF LedgerKinds
  <1>6. ASSUME Update(r) PROVE Frame(r) /\ Stage'
    <2>1. Frame(r) /\ pc'[r] = "log" /\ Kind(r) \in LedgerKinds
      BY <1>6, GotoFrame, LabelFacts DEF Update, TypeInv, Stage
    <2> QED BY <2>1, StageFrame
  <1>7. ASSUME Log(r) PROVE Frame(r) /\ Stage'
    <2>1. Frame(r) /\ pc'[r] = "done"
      BY <1>7, GotoFrame, LabelFacts DEF Log
    <2> QED BY <2>1, StageFrame
  <1>8. ASSUME ReplaceBankAccounts(r) PROVE Frame(r) /\ Stage'
    <2>1. Frame(r) /\ pc'[r] = "currencies" /\ Kind(r) = "accounts"
      BY <1>8, GotoFrame, LabelFacts DEF ReplaceBankAccounts, TypeInv, Stage
    <2> QED BY <2>1, StageFrame
  <1>9. ASSUME UpdateSupported(r) PROVE Frame(r) /\ Stage'
    <2>1. Frame(r) /\ pc'[r] = "done"
      BY <1>9, GotoFrame, LabelFacts DEF UpdateSupported
    <2> QED BY <2>1, StageFrame
  <1>10. ASSUME Fail(r) PROVE Frame(r) /\ Stage'
    <2>1. Frame(r) /\ pc'[r] = "failed"
      BY <1>10, GotoFrame, LabelFacts DEF Fail, InFlight, historyVars
    <2> QED BY <2>1, StageFrame
  <1> QED
    BY <1>1, <1>2, <1>3, <1>4, <1>5, <1>6, <1>7, <1>8, <1>9, <1>10, SelectFrame, InsertFrame
    DEF Step

(* Each request writes rows of its own type. *)
LEMMA StepRows ==
    ASSUME TypeInv, NEW r \in Requests, Step(r) \/ Fail(r)
    PROVE  TypeOK'
  <1> USE StepFrame DEF Frame
  <1>0. /\ pc[r] # "idle" /\ Product(r) \in Products /\ req[r].currencies \in SUBSET Currencies
        /\ req' \in [Requests -> Menu \cup {NoAsk}] /\ met' \subseteq Requests \X Requests
    BY AskFacts, Labels DEF TypeInv, TypeOK
  <1> DEFINE History == applied' \subseteq Requests /\ logged' \subseteq Requests
  <1>1. ASSUME UNCHANGED <<rowVars, historyVars>> PROVE TypeOK'
    BY <1>0, <1>1 DEF TypeInv, TypeOK, rowVars, historyVars
  <1>2. ASSUME InsertProduct(r) PROVE TypeOK'
    BY <1>0, <1>2 DEF TypeInv, TypeOK, InsertProduct, historyVars
  <1>3. ASSUME CreateBalance(r) PROVE TypeOK'
    <2>1. [available |-> 0, reserved |-> 0] \in Balances
      BY DEF Balances
    <2>2. balance' \in [Products -> Balances \cup {NoBalance}]
      BY <1>3, <2>1 DEF TypeInv, TypeOK, CreateBalance
    <2> QED BY <1>0, <1>3, <2>2 DEF TypeInv, TypeOK, CreateBalance, historyVars
  <1>4. ASSUME InsertVault(r) PROVE TypeOK'
    <2>1. vault' \in [Products -> [Vaults -> Wallets]]
      <3>1. ASSUME NEW wallet \in WalletFor(r, making[r]),
                   vault' = [vault EXCEPT ![Product(r)][making[r]] = wallet]
            PROVE  vault' \in [Products -> [Vaults -> Wallets]]
        <4>1. wallet \in Wallets
          BY DEF WalletFor, Wallets
        <4> QED BY <3>1, <4>1, <1>0 DEF TypeInv, TypeOK
      <3> QED BY <1>4, <3>1 DEF InsertVault, TypeInv, TypeOK
    <2> QED BY <1>0, <1>4, <2>1 DEF TypeInv, TypeOK, InsertVault, historyVars
  <1>5. ASSUME Update(r) PROVE TypeOK'
    <2> DEFINE row == Updated(Kind(r), balance[Product(r)], Amount(r))
               Kept == /\ balance' \in [Products -> Balances \cup {NoBalance}]
                          /\ applied' \subseteq Requests
    <2>1. ASSUME Applies(r) PROVE Kept
      <3>1. /\ balance' = [balance EXCEPT ![Product(r)] = row] /\ applied' = applied \cup {r}
            /\ row \in Balances
        BY <1>5, <2>1, UpdatedType DEF Update
      <3> HIDE DEF row
      <3> QED BY <3>1, <1>0 DEF TypeInv, TypeOK
    <2>2. ASSUME ~Applies(r) PROVE Kept
      BY <1>5, <2>2 DEF TypeInv, TypeOK, Update
    <2>3. Kept
      BY <2>1, <2>2
    <2> QED BY <1>0, <1>5, <2>3 DEF TypeInv, TypeOK, Update
  <1>6. ASSUME Log(r) PROVE TypeOK'
    BY <1>0, <1>6 DEF TypeInv, TypeOK, Log, rowVars
  <1>7. ASSUME ReplaceBankAccounts(r) PROVE TypeOK'
    <2>1. banked' \in [Products -> SUBSET Currencies]
      BY <1>0, <1>7 DEF TypeInv, TypeOK, ReplaceBankAccounts
    <2>2. writer' \in [Products -> [banked : Requests \cup {NoRequest},
                                    supported : Requests \cup {NoRequest}]]
      <3>1. writer' = [writer EXCEPT ![Product(r)].banked = r]
        BY <1>7 DEF ReplaceBankAccounts
      <3> QED BY ONLY <3>1, <1>0, TypeInv, r \in Requests DEF TypeInv, TypeOK
    <2> QED BY <1>0, <1>7, <2>1, <2>2 DEF TypeInv, TypeOK, ReplaceBankAccounts
  <1>8. ASSUME UpdateSupported(r) PROVE TypeOK'
    <2>1. supported' \in [Products -> SUBSET Currencies]
      BY <1>0, <1>8 DEF TypeInv, TypeOK, UpdateSupported
    <2>2. writer' \in [Products -> [banked : Requests \cup {NoRequest},
                                    supported : Requests \cup {NoRequest}]]
      <3>1. writer' = [writer EXCEPT ![Product(r)].supported = r]
        BY <1>8 DEF UpdateSupported
      <3> QED BY ONLY <3>1, <1>0, TypeInv, r \in Requests DEF TypeInv, TypeOK
    <2> QED BY <1>0, <1>8, <2>1, <2>2 DEF TypeInv, TypeOK, UpdateSupported
  <1>9. ASSUME Find(r) \/ EndVaults(r) \/ Check(r) \/ Fail(r) PROVE TypeOK'
    BY <1>1, <1>9 DEF Find, EndVaults, Check, Fail
  <1>10. ASSUME NEW v \in Vaults, SelectVault(r, v) PROVE TypeOK'
    BY <1>1, <1>10 DEF SelectVault
  <1> QED
    BY <1>2, <1>3, <1>4, <1>5, <1>6, <1>7, <1>8, <1>9, <1>10 DEF Step

LEMMA TypeInit == Init => TypeInv
  <1> SUFFICES ASSUME Init PROVE TypeInv
    OBVIOUS
  <1>1. balance \in [Products -> Balances \cup {NoBalance}]
    BY DEF Init
  <1> QED BY <1>1 DEF Init, TypeInv, TypeOK, Stage, Wallets

LEMMA TypeStep == TypeInv /\ [Next]_vars => TypeInv'
  <1> SUFFICES ASSUME TypeInv, [Next]_vars PROVE TypeInv'
    OBVIOUS
  <1>1. CASE UNCHANGED vars
    BY <1>1 DEF TypeInv, TypeOK, Stage, Kind, vars
  <1>2. CASE Next
    BY <1>2, BeginType, StepFrame, StepRows DEF Next, TypeInv
  <1> QED BY <1>1, <1>2

(* Every behaviour is well typed: neither part of a balance falls below zero,*)
(* whatever overlaps.                                                        *)
THEOREM TypeCorrect == Spec => []TypeOK
  <1>1. Spec => []TypeInv
    BY TypeInit, TypeStep, PTL DEF Spec
  <1>2. TypeInv => TypeOK
    BY DEF TypeInv
  <1> QED BY <1>1, <1>2, PTL

-----------------------------------------------------------------------------
(* Who met whom, and whose product is whose.                               *)

LEMMA MetStep ==
    ASSUME TypeInv, MetInv, [Next]_vars
    PROVE  MetInv' /\ met \subseteq met'
  <1>1. CASE UNCHANGED vars
    BY <1>1 DEF MetInv, InFlight, vars
  <1>2. ASSUME NEW r \in Requests, NEW ask \in Menu, Begin(r, ask)
        PROVE  MetInv' /\ met \subseteq met'
    <2>1. ASSUME NEW c \in Requests \ {r}, pc[c] \in Running
          PROVE  <<r, c>> \in met' /\ <<c, r>> \in met'
      BY <1>2, <2>1 DEF Begin, InFlight
    <2>2. met \subseteq met' /\ \A c \in Requests \ {r} : pc'[c] = pc[c]
      BY <1>2, BeginType
    <2>3. ASSUME NEW a \in Requests, NEW b \in Requests, a # b,
                 pc'[a] \in Running, pc'[b] \in Running
          PROVE  <<a, b>> \in met'
      <3>1. CASE a = r
        BY <3>1, <2>1, <2>2, <2>3
      <3>2. CASE b = r
        BY <3>2, <2>1, <2>2, <2>3
      <3>3. CASE a # r /\ b # r
        BY <3>3, <2>2, <2>3 DEF MetInv, InFlight
      <3> QED BY <3>1, <3>2, <3>3
    <2> QED BY <2>2, <2>3 DEF MetInv, InFlight
  <1>3. ASSUME NEW r \in Requests, Step(r) \/ Fail(r) PROVE MetInv' /\ met \subseteq met'
    BY <1>3, StepFrame DEF MetInv, InFlight, Frame
  <1> QED BY <1>1, <1>2, <1>3 DEF Next

(* A step of another request meets one in flight. *)
LEMMA Meeting ==
    ASSUME TypeInv, MetInv, NEW r \in Requests, Step(r) \/ Fail(r),
           NEW c \in Requests \ {r}, pc[c] \in Running
    PROVE  <<r, c>> \in met /\ <<c, r>> \in met
  BY StepFrame DEF MetInv, InFlight, Frame

LEMMA OwnStep ==
    ASSUME TypeInv, OwnProduct, [Next]_vars
    PROVE  OwnProduct' /\ \A p \in Products : HasBalance(p) => HasBalance(p)'
  <1>1. CASE UNCHANGED vars
    BY <1>1 DEF OwnProduct, HasBalance, Kind, Product, vars
  <1>2. ASSUME NEW r \in Requests, NEW ask \in Menu, Begin(r, ask)
        PROVE  OwnProduct' /\ \A p \in Products : HasBalance(p) => HasBalance(p)'
    <2>1. /\ Kind(r)' = ask.kind /\ Product(r)' = ask.product /\ Kind(r) = "none"
          /\ \A c \in Requests \ {r} : Kind(c)' = Kind(c) /\ Product(c)' = Product(c)
                                       /\ pc'[c] = pc[c]
          /\ \A p : HasBalance(p)' <=> HasBalance(p)
          /\ pc'[r] # "balance" /\ (pc'[r] = "insert" => ask.kind = "create")
          /\ ask.product \in Products
      <3>1. /\ pc[r] = "idle" /\ balance' = balance /\ ask \in AskType
        BY <1>2 DEF Begin, rowVars
      <3> QED BY <1>2, <3>1, BeginType, IdleFacts DEF HasBalance, Kind, Product, AskType
    <2>2. ask.kind = "create" => /\ ask.product \notin Existing
                                 /\ \A c \in Requests : ~(Kind(c) = "create"
                                                          /\ Product(c) = ask.product)
      BY <1>2 DEF Begin
    <2>3. \A a, b \in Requests : Kind(a)' = "create" /\ Kind(b)' = "create"
                                 /\ Product(a)' = Product(b)' => a = b
      BY <2>1, <2>2 DEF OwnProduct
    <2>4. \A c \in Requests : pc'[c] \in {"insert", "balance"} => ~HasBalance(Product(c))'
      BY <2>1, <2>2 DEF OwnProduct
    <2>5. \A p \in Products : HasBalance(p)' =>
             p \in Existing \/ \E c \in Requests : Kind(c)' = "create" /\ Product(c)' = p
      BY <2>1 DEF OwnProduct
    <2> QED BY <2>1, <2>3, <2>4, <2>5 DEF OwnProduct
  <1>3. ASSUME NEW r \in Requests, Step(r) \/ Fail(r)
        PROVE  OwnProduct' /\ \A p \in Products : HasBalance(p) => HasBalance(p)'
    <2>1. /\ \A c \in Requests : Kind(c)' = Kind(c) /\ Product(c)' = Product(c)
          /\ Frame(r) /\ Product(r) \in Products
      BY <1>3, StepFrame, AskFacts, Labels DEF Frame, Kind, Product
    <2>2. CASE CreateBalance(r)
      <3>1. /\ pc[r] = "balance" /\ Kind(r) = "create" /\ pc'[r] = "vault"
            /\ balance' = [balance EXCEPT ![Product(r)] = [available |-> 0, reserved |-> 0]]
        BY <2>2 DEF CreateBalance, TypeInv, TypeOK, Stage, Goto
      <3>2. [available |-> 0, reserved |-> 0] \in Balances
        BY DEF Balances
      <3>3. HasBalance(Product(r))' /\ \A p \in Products \ {Product(r)} :
                                          HasBalance(p)' = HasBalance(p)
        BY <2>1, <3>1, <3>2 DEF HasBalance, TypeInv, TypeOK
      <3>4. \A c \in Requests \ {r} : pc[c] \in {"insert", "balance"} =>
               Product(c) \in Products \ {Product(r)}
        BY <3>1, AskFacts, Labels, LabelFacts DEF OwnProduct, TypeInv, Stage
      <3> QED BY <2>1, <3>1, <3>3, <3>4 DEF OwnProduct, Frame
    <2>3. CASE Update(r)
      <3>1. \A p \in Products : HasBalance(p)' <=> HasBalance(p)
        <4>1. CASE Applies(r)
          <5>1. /\ balance' = [balance EXCEPT ![Product(r)] = Updated(Kind(r), @, Amount(r))]
                /\ pc[r] = "update"
            BY <2>3, <4>1 DEF Update
          <5> QED BY <2>1, <4>1, <5>1, UpdatedType DEF HasBalance, TypeInv, TypeOK
        <4>2. CASE ~Applies(r)
          BY <2>3, <4>2 DEF Update, HasBalance
        <4> QED BY <4>1, <4>2
      <3>2. pc'[r] = "log" /\ \A c \in Requests : pc[c] \in {"insert", "balance"} =>
                                 Product(c) \in Products
        BY <2>3, AskFacts DEF Update, Goto, TypeInv, TypeOK
      <3> QED BY <2>1, <3>1, <3>2 DEF OwnProduct, Frame
    <2>4. CASE ~CreateBalance(r) /\ ~Update(r)
      <3>1. balance' = balance
        BY <1>3, <2>4 DEF Step, InsertProduct, Find, SelectVault, InsertVault, EndVaults, Check,
             Log, ReplaceBankAccounts, UpdateSupported, Fail, rowVars
      <3>2. \A p : HasBalance(p)' <=> HasBalance(p)
        BY <3>1 DEF HasBalance
      <3>3. pc'[r] \in {"insert", "balance"} => pc[r] = "insert"
        BY <2>1, Labels, LabelFacts DEF Frame
      <3> QED BY <2>1, <3>2, <3>3 DEF OwnProduct, Frame
    <2> QED BY <2>2, <2>3, <2>4
  <1> QED BY <1>1, <1>2, <1>3 DEF Next

-----------------------------------------------------------------------------
(* The audit log.                                                          *)

(* Being overtaken is for good. *)
LEMMA OvertakenStays ==
    ASSUME TypeInv, LogInv, met \subseteq met', applied \subseteq applied',
           \A c \in Requests : pc[c] # "idle" => req'[c] = req[c],
           NEW r \in Requests, pc[r] # "idle", Overtaken(r)
    PROVE  Overtaken(r)'
  BY DEF Overtaken, LogInv, Kind, Product, TypeInv, TypeOK

(* A reservation that fits still does when somebody else has moved, unless   *)
(* that was another reservation.                                             *)
LEMMA AppliesStays ==
    ASSUME TypeInv, MetInv, OwnProduct, NEW r \in Requests, Kind(r) = "reserve",
           pc[r] = "update", Applies(r),
           NEW c \in Requests \ {r}, Step(c) \/ Fail(c)
    PROVE  Applies(r)' \/ Overtaken(r)'
  <1> DEFINE p == Product(r)
             q == Product(c)
  <1>1. /\ p \in Products /\ q \in Products /\ Amount(r) \in Nat
        /\ HasBalance(p) /\ balance[p] \in Balances /\ balance[p].available >= Amount(r)
        /\ <<r, c>> \in met /\ Frame(c)
    <2>1. Frame(c) /\ pc[c] # "idle"
      BY StepFrame, Labels DEF Frame
    <2>2. p \in Products /\ q \in Products /\ Amount(r) \in Nat
      BY <2>1, AskFacts
    <2>3. <<r, c>> \in met
      BY Meeting, LabelFacts
    <2>4. HasBalance(p) /\ balance[p].available >= Amount(r)
      BY DEF Applies
    <2>5. balance[p] \in Balances
      BY <2>2, <2>4 DEF HasBalance, TypeInv, TypeOK
    <2> QED BY <2>1, <2>2, <2>3, <2>4, <2>5
  <1>2. /\ Kind(r)' = "reserve" /\ Product(r)' = p /\ Amount(r)' = Amount(r)
        /\ Kind(c)' = Kind(c) /\ Product(c)' = q /\ met' = met
    BY <1>1 DEF Frame, Kind, Product, Amount
  <1>3. ASSUME balance'[p] \in Balances, balance'[p].available >= balance[p].available
        PROVE  Applies(r)'
    <2>1. balance'[p].available \in Nat /\ balance[p].available \in Nat
      BY <1>1, <1>3 DEF Balances
    <2>2. balance'[p].available >= Amount(r)
      BY <1>1, <1>3, <2>1
    <2>3. HasBalance(p)'
      BY <1>2, <1>3 DEF HasBalance
    <2> QED BY <1>2, <2>2, <2>3 DEF Applies
  <1>4. CASE balance'[p] = balance[p]
    BY <1>1, <1>3, <1>4 DEF Balances
  <1>5. CASE Update(c) /\ Applies(c) /\ p = q
    <2>1. /\ balance'[p] = Updated(Kind(c), balance[q], Amount(c))
          /\ applied' = applied \cup {c} /\ pc[c] = "update"
      BY <1>1, <1>5 DEF Update, TypeInv, TypeOK
    <2>2. CASE Kind(c) = "reserve"
      BY <1>1, <1>2, <1>5, <2>1, <2>2 DEF Overtaken
    <2>3. CASE Kind(c) # "reserve"
      BY <1>3, <1>5, <2>1, <2>3, UpdatedType
    <2> QED BY <2>2, <2>3
  <1>6. CASE CreateBalance(c)
    <2>1. pc[c] = "balance" /\ p # q
      BY <1>1, <1>6 DEF CreateBalance, OwnProduct
    <2> QED BY <1>1, <1>4, <1>6, <2>1 DEF CreateBalance, TypeInv, TypeOK
  <1>7. CASE Update(c) /\ (~Applies(c) \/ p # q)
    BY <1>1, <1>4, <1>7 DEF Update, TypeInv, TypeOK
  <1>8. CASE ~CreateBalance(c) /\ ~Update(c)
    <2>1. balance' = balance
      BY <1>8 DEF Step, InsertProduct, Find, SelectVault, InsertVault, EndVaults, Check,
           Log, ReplaceBankAccounts, UpdateSupported, Fail, rowVars
    <2> QED BY <1>4, <2>1
  <1> QED BY <1>5, <1>6, <1>7, <1>8

LEMMA LogBegin ==
    ASSUME TypeInv, MetInv, LogInv, NEW r \in Requests, NEW ask \in Menu, Begin(r, ask)
    PROVE  LogInv'
  <1>1. /\ pc[r] = "idle" /\ pc'[r] \in {"insert", "check", "update", "find"}
        /\ ask.kind = "reserve" => pc'[r] = "check"
        /\ req'[r] = ask /\ met \subseteq met'
        /\ \A c \in Requests \ {r} : pc'[c] = pc[c] /\ req'[c] = req[c]
        /\ applied' = applied /\ logged' = logged /\ balance' = balance
    BY BeginType DEF Begin, rowVars
  <1>2. r \notin applied /\ r \notin logged /\ applied \subseteq Requests /\ logged \subseteq Requests
    BY <1>1 DEF LogInv, TypeInv, TypeOK
  <1>3. \A c \in Requests \ {r} : Kind(c)' = Kind(c) /\ (Applies(c)' <=> Applies(c))
    BY <1>1 DEF Kind, Applies, HasBalance, Product, Amount
  <1>4. \A c \in Requests \ {r} : pc[c] # "idle" /\ Overtaken(c) => Overtaken(c)'
    BY <1>1, OvertakenStays
  <1>5. Kind(r)' = ask.kind
    BY <1>1 DEF Kind
  <1>6. \A c \in applied' : Kind(c)' \in LedgerKinds /\ pc'[c] \in {"log", "failed", "done"}
    BY <1>1, <1>2, <1>3 DEF LogInv
  <1>7. \A c \in logged' : pc'[c] = "done"
    BY <1>1, <1>2 DEF LogInv
  <1>8. ASSUME NEW c \in Requests
        PROVE  /\ pc'[c] = "done" /\ Kind(c)' \in LedgerKinds => c \in logged'
               /\ pc'[c] = "update" /\ Kind(c)' = "reserve" => Applies(c)' \/ Overtaken(c)'
               /\ pc'[c] \in {"log", "done"} /\ Kind(c)' = "reserve" =>
                     c \in applied' \/ Overtaken(c)'
    <2>1. CASE c = r
      BY <1>1, <1>5, <2>1
    <2>2. CASE c # r
      BY <1>1, <1>3, <1>4, <2>2 DEF LogInv
    <2> QED BY <2>1, <2>2
  <1> QED BY <1>6, <1>7, <1>8 DEF LogInv

(* What its step does to the log and to the history of a request. *)
LEMMA LogOwn ==
    ASSUME TypeInv, MetInv, OwnProduct, LogInv, NEW r \in Requests, Step(r) \/ Fail(r)
    PROVE  /\ applied \subseteq applied' /\ applied' \subseteq applied \cup {r}
           /\ logged \subseteq logged' /\ logged' \subseteq logged \cup {r}
           /\ r \in applied' => Kind(r) \in LedgerKinds /\ pc'[r] \in {"log", "failed", "done"}
           /\ r \in logged' => pc'[r] = "done"
           /\ pc'[r] = "done" /\ Kind(r) \in LedgerKinds => r \in logged'
           /\ pc'[r] = "update" /\ Kind(r) = "reserve" => Applies(r)'
           /\ pc'[r] \in {"log", "done"} /\ Kind(r) = "reserve" =>
                 r \in applied' \/ Overtaken(r)
  <1> DEFINE Goal ==
           /\ applied \subseteq applied' /\ applied' \subseteq applied \cup {r}
           /\ logged \subseteq logged' /\ logged' \subseteq logged \cup {r}
           /\ r \in applied' => Kind(r) \in LedgerKinds /\ pc'[r] \in {"log", "failed", "done"}
           /\ r \in logged' => pc'[r] = "done"
           /\ pc'[r] = "done" /\ Kind(r) \in LedgerKinds => r \in logged'
           /\ pc'[r] = "update" /\ Kind(r) = "reserve" => Applies(r)'
           /\ pc'[r] \in {"log", "done"} /\ Kind(r) = "reserve" =>
                 r \in applied' \/ Overtaken(r)
  <1>0. /\ pc[r] \in Running /\ Frame(r) /\ r \notin logged
        /\ r \in applied => pc[r] = "log" /\ Kind(r) \in LedgerKinds
        /\ Kind(r)' = Kind(r)
    BY StepFrame, Labels, LabelFacts DEF Frame, LogInv, Kind
  <1>1. ASSUME applied' = applied, logged' = logged,
               pc'[r] \notin {"update", "log"},
               pc'[r] = "done" => Kind(r) \notin LedgerKinds,
               r \in applied => pc'[r] = "failed"
        PROVE  Goal
    BY <1>0, <1>1 DEF LedgerKinds
  <1>2. CASE Check(r)
    <2>1. /\ applied' = applied /\ logged' = logged /\ balance' = balance
          /\ pc[r] = "check" /\ pc'[r] \in {"update", "failed"}
          /\ pc'[r] = "update" => HasBalance(Product(r)) /\ Sufficient(r)
      BY <1>2 DEF Check, historyVars, rowVars, Goto, TypeInv, TypeOK
    <2>2. pc'[r] = "update" /\ Kind(r) = "reserve" => Applies(r)'
      BY <1>0, <2>1 DEF Sufficient, Applies, HasBalance, Product, Amount, Kind, Frame
    <2> QED BY <1>0, <2>1, <2>2
  <1>3. CASE Update(r)
    <2>1. /\ pc[r] = "update" /\ pc'[r] = "log" /\ logged' = logged
          /\ Kind(r) \in LedgerKinds
          /\ applied' = IF Applies(r) THEN applied \cup {r} ELSE applied
      BY <1>3 DEF Update, Goto, TypeInv, TypeOK, Stage
    <2>2. Kind(r) = "reserve" => Applies(r) \/ Overtaken(r)
      BY <2>1 DEF LogInv
    <2> QED BY <1>0, <2>1, <2>2
  <1>4. CASE Log(r)
    <2>1. /\ pc[r] = "log" /\ pc'[r] = "done" /\ logged' = logged \cup {r}
          /\ Kind(r) \in LedgerKinds /\ applied' = applied
      BY <1>4 DEF Log, Goto, TypeInv, TypeOK, Stage
    <2>2. Kind(r) = "reserve" => r \in applied \/ Overtaken(r)
      BY <2>1 DEF LogInv
    <2> QED BY <1>0, <2>1, <2>2
  <1>5. CASE Fail(r)
    <2>1. applied' = applied /\ logged' = logged /\ pc'[r] = "failed"
      BY <1>5 DEF Fail, historyVars, Goto, TypeInv, TypeOK
    <2> QED BY <1>1, <2>1
  <1>6. CASE InsertProduct(r) \/ CreateBalance(r) \/ Find(r) \/ InsertVault(r) \/ EndVaults(r)
             \/ ReplaceBankAccounts(r) \/ UpdateSupported(r)
    <2>1. applied' = applied /\ logged' = logged /\ r \notin applied
      BY <1>0, <1>6 DEF InsertProduct, CreateBalance, Find, InsertVault, EndVaults,
         ReplaceBankAccounts, UpdateSupported, historyVars
    <2>2. pc'[r] \notin {"update", "log"} /\ Kind(r) \notin LedgerKinds
      BY <1>6 DEF InsertProduct, CreateBalance, Find, InsertVault, EndVaults,
         ReplaceBankAccounts, UpdateSupported, Goto, TypeInv, TypeOK, Stage, LedgerKinds
    <2> QED BY <1>1, <2>1, <2>2
  <1>7. ASSUME NEW v \in Vaults, SelectVault(r, v) PROVE Goal
    <2>1. applied' = applied /\ logged' = logged /\ r \notin applied
      BY <1>0, <1>7 DEF SelectVault, historyVars
    <2>2. pc'[r] \notin {"update", "log"} /\ Kind(r) \notin LedgerKinds
      BY <1>7 DEF SelectVault, Goto, TypeInv, TypeOK, Stage, LedgerKinds
    <2> QED BY <1>1, <2>1, <2>2
  <1> QED BY <1>2, <1>3, <1>4, <1>5, <1>6, <1>7 DEF Step

LEMMA LogStep ==
    ASSUME TypeInv, MetInv, OwnProduct, LogInv, [Next]_vars
    PROVE  LogInv'
  <1>1. CASE UNCHANGED vars
    BY <1>1 DEF LogInv, Kind, Applies, HasBalance, Product, Amount, Overtaken, vars
  <1>2. ASSUME NEW r \in Requests, Step(r) \/ Fail(r) PROVE LogInv'
    <2>1. /\ applied \subseteq applied' /\ applied' \subseteq applied \cup {r}
          /\ logged \subseteq logged' /\ logged' \subseteq logged \cup {r}
          /\ Frame(r) /\ \A c \in Requests : Kind(c)' = Kind(c)
          /\ applied \subseteq Requests /\ logged \subseteq Requests
      BY <1>2, LogOwn, StepFrame DEF Frame, Kind, TypeInv, TypeOK
    <2>2. \A c \in Requests : pc[c] # "idle" /\ Overtaken(c) => Overtaken(c)'
      BY <2>1, OvertakenStays DEF Frame
    <2>3. pc[r] # "idle"
      BY <2>1, Labels DEF Frame
    <2>4. \A c \in applied' : Kind(c)' \in LedgerKinds /\ pc'[c] \in {"log", "failed", "done"}
      BY <1>2, <2>1, LogOwn DEF LogInv, Frame
    <2>5. \A c \in logged' : pc'[c] = "done"
      BY <1>2, <2>1, LogOwn DEF LogInv, Frame
    <2>6. ASSUME NEW c \in Requests
          PROVE  /\ pc'[c] = "done" /\ Kind(c)' \in LedgerKinds => c \in logged'
                 /\ pc'[c] = "update" /\ Kind(c)' = "reserve" => Applies(c)' \/ Overtaken(c)'
                 /\ pc'[c] \in {"log", "done"} /\ Kind(c)' = "reserve" =>
                       c \in applied' \/ Overtaken(c)'
      <3>1. CASE c = r
        BY <1>2, <2>1, <2>2, <2>3, <3>1, LogOwn
      <3>2. CASE c # r
        <4>1. pc'[c] = pc[c] /\ Kind(c)' = Kind(c)
          BY <2>1, <3>2 DEF Frame
        <4>2. pc[c] = "done" /\ Kind(c) \in LedgerKinds => c \in logged'
          BY <2>1 DEF LogInv
        <4>3. pc[c] = "update" /\ Kind(c) = "reserve" => Applies(c)' \/ Overtaken(c)'
          BY <1>2, <2>2, <3>2, AppliesStays DEF LogInv
        <4>4. pc[c] \in {"log", "done"} /\ Kind(c) = "reserve" => c \in applied' \/ Overtaken(c)'
          BY <2>1, <2>2 DEF LogInv
        <4> QED BY <4>1, <4>2, <4>3, <4>4
      <3> QED BY <3>1, <3>2
    <2> QED BY <2>4, <2>5, <2>6 DEF LogInv
  <1> QED BY <1>1, <1>2, LogBegin DEF Next

LEMMA InvInit == Init => MetInv /\ OwnProduct /\ LogInv
  <1> SUFFICES ASSUME Init PROVE MetInv /\ OwnProduct /\ LogInv
    OBVIOUS
  <1>1. \A r \in Requests : pc[r] = "idle" /\ Kind(r) = "none"
    BY DEF Init, Kind, NoAsk
  <1>2. \A p \in Products : HasBalance(p) => p \in Existing
    BY DEF Init, HasBalance
  <1> QED BY <1>1, <1>2, LabelFacts DEF Init, MetInv, InFlight, Running, OwnProduct, LogInv

(* The audit log answers for every change of a balance, and an entry of a    *)
(* reservation that was not made names a request that another overtook.      *)
THEOREM LogExplainedAlways == Spec => []LogExplained
  <1> DEFINE Inv == TypeInv /\ MetInv /\ OwnProduct /\ LogInv
  <1>1. Init => Inv
    BY TypeInit, InvInit
  <1>2. Inv /\ [Next]_vars => Inv'
    BY TypeStep, MetStep, OwnStep, LogStep
  <1>3. Inv => LogExplained
    <2>1. ASSUME Inv PROVE LogExplained
      <3>1. \A r \in applied \ logged : pc[r] \in {"log", "failed"}
        BY <2>1 DEF LogInv, TypeInv, TypeOK
      <3>2. \A r \in logged \ applied : Kind(r) = "reserve" => Overtaken(r)
        BY <2>1 DEF LogInv, TypeInv, TypeOK
      <3> QED BY <3>1, <3>2 DEF LogExplained
    <2> QED BY <2>1
  <1> QED BY <1>1, <1>2, <1>3, PTL DEF Spec

-----------------------------------------------------------------------------
(* Registration.                                                           *)

(* What every step but Begin does to products and vaults: it adds products,  *)
(* or inserts one vault that was missing.                                    *)
Filled(r) ==
    /\ products \subseteq products'
    /\ \A p \in Products, v \in Vaults :
          \/ vault'[p][v] = vault[p][v]
          \/ /\ vault[p][v] = "none" /\ vault'[p][v] # "none"
             /\ pc[r] = "make" /\ p = Product(r)
             /\ vault'[p][v] = "none of its own" => Kind(r) = "strategies"

LEMMA FilledStep ==
    ASSUME TypeInv, NEW r \in Requests, Step(r) \/ Fail(r)
    PROVE  Filled(r) /\ products' \subseteq products \cup {Product(r)}
           /\ (products' = products \/ pc[r] = "insert")
  <1>1. CASE InsertVault(r) /\ vault[Product(r)][making[r]] = "none"
    <2>1. /\ pc[r] = "make" /\ making[r] \in Vaults /\ products' = products
          /\ Kind(r) \in {"create", "strategies"}
      BY <1>1 DEF InsertVault, TypeInv, Stage
    <2>2. PICK wallet \in WalletFor(r, making[r]) :
             vault' = [vault EXCEPT ![Product(r)][making[r]] = wallet]
      BY <1>1 DEF InsertVault
    <2>3. wallet # "none" /\ (wallet = "none of its own" => Kind(r) = "strategies")
      BY <2>1 DEF WalletFor
    <2>4. vault \in [Products -> [Vaults -> Wallets]] /\ Product(r) \in Products
      BY <2>1, AskFacts DEF TypeInv, TypeOK
    <2>5. ASSUME NEW p \in Products, NEW v \in Vaults
          PROVE  \/ vault'[p][v] = vault[p][v]
                 \/ /\ vault[p][v] = "none" /\ vault'[p][v] # "none"
                    /\ pc[r] = "make" /\ p = Product(r)
                    /\ vault'[p][v] = "none of its own" => Kind(r) = "strategies"
      <3>1. CASE p = Product(r) /\ v = making[r]
        <4>1. vault'[p][v] = wallet
          BY <2>1, <2>2, <2>4, <3>1
        <4> QED BY <1>1, <2>1, <2>3, <3>1, <4>1
      <3>2. CASE ~(p = Product(r) /\ v = making[r])
        BY <2>1, <2>2, <2>4, <3>2
      <3> QED BY <3>1, <3>2
    <2> QED BY <2>1, <2>5 DEF Filled
  <1>2. CASE InsertProduct(r)
    BY <1>2 DEF InsertProduct, Filled
  <1>3. CASE ~InsertProduct(r) /\ ~(InsertVault(r) /\ vault[Product(r)][making[r]] = "none")
    <2>1. products' = products /\ vault' = vault
      BY <1>3 DEF Step, CreateBalance, Find, SelectVault, InsertVault, EndVaults, Check,
           Update, Log, ReplaceBankAccounts, UpdateSupported, Fail, rowVars
    <2> QED BY <2>1 DEF Filled
  <1> QED BY <1>1, <1>2, <1>3

LEMMA VaultParts == VaultInv => Placed /\ \A r \in Requests : Built(r) /\ Excused(r)
  BY DEF VaultInv

LEMMA PlacedStep ==
    ASSUME TypeInv, VaultInv, NEW r \in Requests, Step(r) \/ Fail(r)
    PROVE  Placed'
  <1>1. /\ \A c \in Requests : Kind(c)' = Kind(c) /\ Product(c)' = Product(c)
        /\ Frame(r) /\ Filled(r) /\ products' \subseteq products \cup {Product(r)}
        /\ (products' = products \/ pc[r] = "insert")
        /\ pc[r] = "insert" => Kind(r) = "create"
        /\ pc[r] = "make" => Product(r) \in products
    BY StepFrame, FilledStep, VaultParts DEF Frame, Kind, Product, TypeInv, Stage, Built
  <1>2. Placed
    BY VaultParts
  <1>3. \A p \in products' : p \in Existing
                           \/ \E c \in Requests : Kind(c)' = "create" /\ Product(c)' = p
    BY <1>1, <1>2 DEF Placed
  <1>4. \A p \in Products, v \in Vaults : vault'[p][v] # "none" => p \in products'
    BY <1>1, <1>2 DEF Placed, Filled
  <1> QED BY <1>3, <1>4 DEF Placed

(* The request that moves. *)
LEMMA BuiltOwn ==
    ASSUME TypeInv, VaultInv, NEW r \in Requests, Step(r) \/ Fail(r),
           \A p \in Products : HasBalance(p) => HasBalance(p)'
    PROVE  Built(r)'
  <1>0. /\ Frame(r) /\ Filled(r) /\ Built(r) /\ Product(r) \in Products
        /\ Kind(r)' = Kind(r) /\ Product(r)' = Product(r) /\ req' = req
        /\ vault \in [Products -> [Vaults -> Wallets]]
        /\ req[r].vaults \in SUBSET Vaults
        /\ pc \in [Requests -> {"idle"} \cup Running \cup Ended]
        /\ todo \in [Requests -> SUBSET Vaults]
    BY StepFrame, FilledStep, VaultParts, AskFacts, Labels DEF Frame, Kind, Product, TypeInv, TypeOK
  <1>a. ASSUME pc'[r] \notin {"insert", "balance", "vault", "make", "done"} PROVE Built(r)'
    BY <1>0, <1>a DEF Built
  <1>b. ASSUME pc'[r] = "done", Kind(r) # "create" PROVE Built(r)'
    BY <1>0, <1>b DEF Built
  (* Filling keeps what was there. *)
  <1>c. \A v \in req[r].vaults : vault[Product(r)][v] # "none" => vault'[Product(r)][v] # "none"
    BY <1>0 DEF Filled
  <1>1. CASE InsertProduct(r)
    <2>1. pc[r] = "insert" /\ pc'[r] = "balance" /\ todo' = todo /\ products' = products \cup {Product(r)}
      BY <1>0, <1>1 DEF InsertProduct, Goto
    <2> QED BY <1>0, <2>1 DEF Built
  <1>2. CASE CreateBalance(r)
    <2>1. /\ pc[r] = "balance" /\ pc'[r] = "vault" /\ todo' = todo /\ products' = products
          /\ balance' = [balance EXCEPT ![Product(r)] = [available |-> 0, reserved |-> 0]]
      BY <1>0, <1>2 DEF CreateBalance, Goto
    <2>2. [available |-> 0, reserved |-> 0] \in Balances
      BY DEF Balances
    <2>3. HasBalance(Product(r))'
      BY <1>0, <2>1, <2>2 DEF HasBalance, TypeInv, TypeOK
    <2> QED BY <1>0, <2>1, <2>3 DEF Built
  <1>3. CASE Find(r)
    <2>1. /\ pc[r] = "find" /\ todo' = todo /\ products' = products
          /\ Kind(r) \in {"strategies", "accounts", "currencies"}
          /\ \/ pc'[r] \in {"failed", "accounts", "currencies"}
             \/ Kind(r) = "strategies" /\ pc'[r] = "vault" /\ Product(r) \in products
      BY <1>0, <1>3 DEF Find, Goto, rowVars, TypeInv, Stage
    <2> QED BY <1>0, <1>a, <2>1 DEF Built
  <1>4. ASSUME NEW v \in Vaults, SelectVault(r, v) PROVE Built(r)'
    <2>1. /\ pc[r] = "vault" /\ products' = products /\ vault' = vault
          /\ \/ pc'[r] = "make" /\ todo' = todo
             \/ /\ pc'[r] = "vault" /\ todo'[r] = todo[r] \ {v}
                /\ vault[Product(r)][v] # "none"
      BY <1>0, <1>4 DEF SelectVault, Goto, rowVars
    <2>2. HasBalance(Product(r)) => HasBalance(Product(r))'
      BY <1>0
    <2> QED BY <1>0, <2>1, <2>2 DEF Built
  <1>5. CASE InsertVault(r)
    <2>1. CASE pc'[r] = "failed"
      BY <1>a, <2>1
    <2>2. CASE pc'[r] # "failed"
      <3>1. /\ pc[r] = "make" /\ products' = products /\ pc'[r] = "vault"
            /\ todo'[r] = todo[r] \ {making[r]} /\ making[r] \in Vaults
            /\ vault[Product(r)][making[r]] = "none"
        BY <1>0, <1>5, <2>2 DEF InsertVault, Goto, TypeInv, Stage
      <3>2. PICK wallet \in WalletFor(r, making[r]) :
               vault' = [vault EXCEPT ![Product(r)][making[r]] = wallet]
        BY <1>5, <3>1 DEF InsertVault
      <3>3. vault'[Product(r)][making[r]] = wallet /\ wallet # "none"
        BY <1>0, <3>1, <3>2 DEF WalletFor
      <3>4. HasBalance(Product(r)) => HasBalance(Product(r))'
        BY <1>0
      <3>5. \A v \in req[r].vaults \ todo'[r] : v = making[r] \/ v \in req[r].vaults \ todo[r]
        BY <3>1
      <3> QED BY <1>0, <1>c, <3>1, <3>3, <3>4, <3>5 DEF Built
    <2> QED BY <2>1, <2>2
  <1>6. CASE EndVaults(r)
    <2>1. /\ pc[r] = "vault" /\ products' = products /\ pc'[r] = "done" /\ todo' = todo
          /\ todo[r] = {} /\ vault' = vault
      BY <1>0, <1>6 DEF EndVaults, Goto, rowVars
    <2>2. HasBalance(Product(r)) => HasBalance(Product(r))'
      BY <1>0
    <2> QED BY <1>0, <2>1, <2>2 DEF Built
  <1>7. CASE Check(r) \/ Update(r) \/ Fail(r) \/ ReplaceBankAccounts(r)
    <2>1. pc'[r] \in {"update", "failed", "log", "currencies"}
      BY <1>0, <1>7 DEF Check, Update, Fail, ReplaceBankAccounts, Goto
    <2> QED BY <1>a, <2>1
  <1>8. CASE Log(r) \/ UpdateSupported(r)
    <2>1. pc'[r] = "done" /\ Kind(r) # "create"
      BY <1>0, <1>8 DEF Log, UpdateSupported, Goto, TypeInv, Stage, LedgerKinds
    <2> QED BY <1>b, <2>1
  <1> QED BY <1>1, <1>2, <1>3, <1>4, <1>5, <1>6, <1>7, <1>8 DEF Step

(* Another one, on the same product or not. *)
LEMMA BuiltOther ==
    ASSUME TypeInv, VaultInv, NEW r \in Requests, Step(r) \/ Fail(r),
           \A p \in Products : HasBalance(p) => HasBalance(p)',
           NEW c \in Requests \ {r}
    PROVE  Built(c)'
  <1>1. /\ pc'[c] = pc[c] /\ todo'[c] = todo[c] /\ Kind(c)' = Kind(c)
        /\ Product(c)' = Product(c) /\ req' = req /\ Filled(r) /\ Built(c)
    BY StepFrame, FilledStep, VaultParts DEF Frame, Kind, Product
  <1>2. CASE pc[c] = "idle"
    BY <1>1, <1>2 DEF Built
  <1>3. CASE pc[c] # "idle"
    <2>1. Product(c) \in Products /\ req[c].vaults \in SUBSET Vaults
      BY <1>3, AskFacts
    <2>2. \A v \in req[c].vaults : vault[Product(c)][v] # "none" => vault'[Product(c)][v] # "none"
      BY <1>1, <2>1 DEF Filled
    <2>3. products \subseteq products' /\ (HasBalance(Product(c)) => HasBalance(Product(c))')
      BY <1>1, <2>1 DEF Filled
    <2> QED BY <1>1, <2>2, <2>3 DEF Built
  <1> QED BY <1>2, <1>3

LEMMA ExcusedStep ==
    ASSUME TypeInv, MetInv, VaultInv, NEW r \in Requests, Step(r) \/ Fail(r), NEW c \in Requests
    PROVE  Excused(c)'
  <1>1. /\ Frame(r) /\ \A d \in Requests : Kind(d)' = Kind(d) /\ Product(d)' = Product(d)
        /\ req' = req /\ met' = met /\ Filled(r) /\ Built(c) /\ Excused(c)
    BY StepFrame, FilledStep, VaultParts DEF Frame, Kind, Product
  <1>2. SUFFICES ASSUME Kind(c) = "create", pc'[c] # "failed",
                        NEW v \in req[c].vaults, vault'[Product(c)][v] = "none of its own"
                 PROVE  \E d \in Requests : Kind(d) = "strategies" /\ <<c, d>> \in met
    BY <1>1 DEF Excused, Bare
  <1>3. pc[c] # "idle" /\ Product(c) \in Products /\ v \in Vaults /\ pc[c] # "failed"
    <2>1. pc[c] # "idle"
      BY <1>2, KindFacts
    <2>2. pc[r] \in Running
      BY <1>1 DEF Frame
    <2> QED BY <1>1, <1>2, <2>1, <2>2, AskFacts, Labels, LabelFacts DEF Frame
  <1>4. CASE vault'[Product(c)][v] = vault[Product(c)][v]
    BY <1>1, <1>2, <1>3, <1>4 DEF Excused, Bare
  <1>5. CASE vault'[Product(c)][v] # vault[Product(c)][v]
    <2>1. /\ vault[Product(c)][v] = "none" /\ pc[r] = "make"
          /\ Kind(r) = "strategies"
      BY <1>1, <1>2, <1>3, <1>5 DEF Filled
    <2>2. c # r /\ pc[c] # "done"
      BY <1>1, <1>2, <2>1 DEF Built
    <2>3. pc[c] \in Running
      BY <1>3, <2>2 DEF TypeInv, TypeOK, Ended
    <2>4. <<c, r>> \in met
      BY <2>2, <2>3, Meeting
    <2> QED BY <2>1, <2>4
  <1> QED BY <1>4, <1>5

LEMMA VaultBegin ==
    ASSUME TypeInv, OwnProduct, VaultInv, NEW r \in Requests, NEW ask \in Menu, Begin(r, ask)
    PROVE  VaultInv'
  <1>1. /\ pc[r] = "idle" /\ pc'[r] \in {"insert", "check", "update", "find"}
        /\ req'[r] = ask /\ todo'[r] = ask.vaults /\ met \subseteq met'
        /\ (ask.kind = "create" <=> pc'[r] = "insert")
        /\ \A c \in Requests \ {r} : pc'[c] = pc[c] /\ req'[c] = req[c] /\ todo'[c] = todo[c]
        /\ balance' = balance /\ vault' = vault /\ products' = products
        /\ ask \in AskType
    BY BeginType DEF Begin, rowVars
  <1>2. /\ Kind(r)' = ask.kind /\ Product(r)' = ask.product /\ Kind(r) = "none"
        /\ \A c \in Requests \ {r} : Kind(c)' = Kind(c) /\ Product(c)' = Product(c)
    BY <1>1, IdleFacts DEF Kind, Product
  <1>3. Placed /\ \A c \in Requests : Built(c) /\ Excused(c)
    BY VaultParts
  <1>4. Placed'
    BY <1>1, <1>2, <1>3 DEF Placed
  <1>5. ASSUME NEW c \in Requests \ {r} PROVE Built(c)' /\ Excused(c)'
    <2>1. Built(c)'
      BY <1>1, <1>2, <1>3 DEF Built, HasBalance
    <2>2. Excused(c)'
      <3>1. Kind(c) = "create" => \A d \in Requests : Kind(d) = "strategies" => Kind(d)' = "strategies"
        BY <1>2
      <3> QED BY <1>1, <1>2, <1>3, <3>1 DEF Excused, Bare
    <2> QED BY <2>1, <2>2
  <1>6. Built(r)'
    BY <1>1 DEF Built
  <1>7. Excused(r)'
    <2>1. ASSUME ask.kind = "create" PROVE \A v \in ask.vaults : vault[ask.product][v] = "none"
      <3>1. ask.product \in Products /\ ask.vaults \in SUBSET Vaults /\ ask.product \notin Existing
        BY <1>1, <2>1 DEF AskType
      <3>2. \A c \in Requests : ~(Kind(c) = "create" /\ Product(c) = ask.product)
        BY <2>1 DEF Begin
      <3>3. ask.product \notin products
        BY <1>3, <3>1, <3>2 DEF Placed
      <3> QED BY <1>3, <3>1, <3>3 DEF Placed
    <2> QED BY <1>1, <1>2, <2>1 DEF Excused, Bare
  <1>8. \A c \in Requests : Built(c)' /\ Excused(c)'
    BY <1>5, <1>6, <1>7
  <1> QED BY <1>4, <1>8 DEF VaultInv

LEMMA VaultStep ==
    ASSUME TypeInv, MetInv, OwnProduct, VaultInv, [Next]_vars
    PROVE  VaultInv'
  <1>1. CASE UNCHANGED vars
    <2>1. /\ pc' = pc /\ req' = req /\ todo' = todo /\ met' = met /\ vault' = vault
          /\ products' = products /\ balance' = balance
      BY <1>1 DEF vars
    <2>2. ASSUME NEW c \in Requests PROVE Built(c)' /\ Excused(c)'
      <3>1. Built(c)'
        BY <2>1, VaultParts DEF Built, Kind, Product, HasBalance
      <3>2. Excused(c)'
        BY <2>1, VaultParts DEF Excused, Kind, Product, Bare
      <3> QED BY <3>1, <3>2
    <2>3. Placed'
      BY <2>1, VaultParts DEF Placed, Kind, Product
    <2> QED BY <2>2, <2>3 DEF VaultInv
  <1>2. ASSUME NEW r \in Requests, Step(r) \/ Fail(r) PROVE VaultInv'
    <2>1. \A p \in Products : HasBalance(p) => HasBalance(p)'
      BY <1>2, OwnStep
    <2>2. \A c \in Requests : Built(c)'
      BY <1>2, <2>1, BuiltOwn, BuiltOther
    <2>3. \A c \in Requests : Excused(c)'
      BY <1>2, ExcusedStep
    <2>4. Placed'
      BY <1>2, PlacedStep
    <2> QED BY <2>2, <2>3, <2>4 DEF VaultInv
  <1> QED BY <1>1, <1>2, VaultBegin DEF Next

LEMMA VaultInit == Init => VaultInv
  <1> SUFFICES ASSUME Init PROVE VaultInv
    OBVIOUS
  <1>1. \A r \in Requests : pc[r] = "idle" /\ Kind(r) = "none"
    BY DEF Init, Kind, NoAsk
  <1>2. \A p \in Products, v \in Vaults : vault[p][v] # "none" => p \in products
    BY DEF Init
  <1>3. Placed
    BY <1>2 DEF Init, Placed
  <1>4. \A r \in Requests : Built(r) /\ Excused(r)
    BY <1>1 DEF Built, Excused
  <1> QED BY <1>3, <1>4 DEF VaultInv

(* A registration that was answered has its balance and its vaults, and one  *)
(* of these lacks a wallet only because strategies were configured meanwhile.*)
THEOREM RegistrationIsComplete == Spec => []CreatedIsComplete
  <1> DEFINE Inv == TypeInv /\ MetInv /\ OwnProduct /\ VaultInv
  <1>1. Init => Inv
    BY TypeInit, InvInit, VaultInit
  <1>2. Inv /\ [Next]_vars => Inv'
    BY TypeStep, MetStep, OwnStep, VaultStep
  <1>3. Inv => CreatedIsComplete
    BY VaultParts DEF CreatedIsComplete, Built, Excused, Bare
  <1> QED BY <1>1, <1>2, <1>3, PTL DEF Spec

-----------------------------------------------------------------------------
(* Bank accounts and currencies.                                           *)

LEMMA WriterParts ==
    /\ WriterInv => \A p \in Products : Written(p)
    /\ Configured => \A r \in Requests : Configuring(r)
  BY DEF WriterInv, Configured

LEMMA WriterTypes ==
    ASSUME TypeInv, NEW p \in Products
    PROVE  /\ Banker(p) \in Requests \cup {NoRequest}
           /\ Lister(p) \in Requests \cup {NoRequest}
  BY DEF TypeInv, TypeOK, Banker, Lister

(* What a step does to the columns and to their writers. *)
LEMMA WriterStep ==
    ASSUME TypeInv, NEW r \in Requests, Step(r) \/ Fail(r), NEW p \in Products
    PROVE  /\ IF ReplaceBankAccounts(r) /\ p = Product(r)
              THEN /\ banked'[p] = req[r].currencies /\ Banker(p)' = r
                   /\ pc[r] = "accounts" /\ pc'[r] = "currencies" /\ Kind(r) = "accounts"
              ELSE banked'[p] = banked[p] /\ Banker(p)' = Banker(p)
           /\ IF UpdateSupported(r) /\ p = Product(r)
              THEN /\ supported'[p] = req[r].currencies /\ Lister(p)' = r
                   /\ pc[r] = "currencies" /\ pc'[r] = "done"
                   /\ Kind(r) \in {"accounts", "currencies"}
              ELSE supported'[p] = supported[p] /\ Lister(p)' = Lister(p)
  <1>0. /\ Frame(r) /\ Product(r) \in Products /\ pc[r] # "idle"
        /\ pc \in [Requests -> {"idle"} \cup Running \cup Ended]
        /\ banked \in [Products -> SUBSET Currencies]
        /\ supported \in [Products -> SUBSET Currencies]
        /\ writer \in [Products -> [banked : Requests \cup {NoRequest},
                                    supported : Requests \cup {NoRequest}]]
    BY StepFrame, AskFacts, Labels DEF Frame, TypeInv, TypeOK
  <1>1. CASE ReplaceBankAccounts(r)
    <2>1. /\ pc[r] = "accounts" /\ pc'[r] = "currencies" /\ Kind(r) = "accounts"
          /\ supported' = supported /\ ~UpdateSupported(r)
          /\ banked' = [banked EXCEPT ![Product(r)] = req[r].currencies]
      BY <1>0, <1>1 DEF ReplaceBankAccounts, UpdateSupported, Goto, TypeInv, Stage
    <2> DEFINE row == [writer[Product(r)] EXCEPT !.banked = r]
    <2>2. writer' = [writer EXCEPT ![Product(r)] = row]
      BY <1>1 DEF ReplaceBankAccounts
    <2>3. row.banked = r /\ row.supported = writer[Product(r)].supported
      BY <1>0
    <2> HIDE DEF row
    <2>4. CASE p = Product(r)
      <3>1. writer'[p] = row
        BY <1>0, <2>2, <2>4
      <3> QED BY <1>0, <1>1, <2>1, <2>3, <2>4, <3>1 DEF Banker, Lister
    <2>5. CASE p # Product(r)
      <3>1. writer'[p] = writer[p]
        BY <1>0, <2>2, <2>5
      <3> QED BY <1>0, <2>1, <2>5, <3>1 DEF Banker, Lister
    <2> QED BY <2>4, <2>5
  <1>2. CASE UpdateSupported(r)
    <2>1. /\ pc[r] = "currencies" /\ pc'[r] = "done" /\ Kind(r) \in {"accounts", "currencies"}
          /\ banked' = banked /\ ~ReplaceBankAccounts(r)
          /\ supported' = [supported EXCEPT ![Product(r)] = req[r].currencies]
      BY <1>0, <1>2 DEF UpdateSupported, ReplaceBankAccounts, Goto, TypeInv, Stage
    <2> DEFINE row == [writer[Product(r)] EXCEPT !.supported = r]
    <2>2. writer' = [writer EXCEPT ![Product(r)] = row]
      BY <1>2 DEF UpdateSupported
    <2>3. row.supported = r /\ row.banked = writer[Product(r)].banked
      BY <1>0
    <2> HIDE DEF row
    <2>4. CASE p = Product(r)
      <3>1. writer'[p] = row
        BY <1>0, <2>2, <2>4
      <3> QED BY <1>0, <1>2, <2>1, <2>3, <2>4, <3>1 DEF Banker, Lister
    <2>5. CASE p # Product(r)
      <3>1. writer'[p] = writer[p]
        BY <1>0, <2>2, <2>5
      <3> QED BY <1>0, <2>1, <2>5, <3>1 DEF Banker, Lister
    <2> QED BY <2>4, <2>5
  <1>3. CASE ~ReplaceBankAccounts(r) /\ ~UpdateSupported(r)
    <2>1. banked' = banked /\ supported' = supported /\ writer' = writer
      BY <1>3 DEF Step, InsertProduct, CreateBalance, Find, SelectVault, InsertVault, EndVaults,
         Check, Update, Log, Fail, rowVars, historyVars
    <2> QED BY <1>3, <2>1 DEF Banker, Lister
  <1> QED BY <1>1, <1>2, <1>3

(* The way of a configuration through its statements. *)
LEMMA AccountsPath ==
    ASSUME TypeInv, NEW r \in Requests, Step(r) \/ Fail(r)
    PROVE  /\ pc[r] = "currencies" => pc'[r] = "failed" \/ UpdateSupported(r)
           /\ Kind(r) = "accounts" /\ pc'[r] = "currencies" => ReplaceBankAccounts(r)
           /\ Kind(r) = "accounts" /\ pc'[r] = "done" => UpdateSupported(r)
  <1> DEFINE Goal ==
           /\ pc[r] = "currencies" => pc'[r] = "failed" \/ UpdateSupported(r)
           /\ Kind(r) = "accounts" /\ pc'[r] = "currencies" => ReplaceBankAccounts(r)
           /\ Kind(r) = "accounts" /\ pc'[r] = "done" => UpdateSupported(r)
  <1>0. pc \in [Requests -> {"idle"} \cup Running \cup Ended]
    BY DEF TypeInv, TypeOK
  <1>1. CASE InsertProduct(r) \/ CreateBalance(r) \/ InsertVault(r)
    BY <1>0, <1>1 DEF InsertProduct, CreateBalance, InsertVault, Goto
  <1>2. CASE Find(r) \/ Check(r) \/ Update(r) \/ Fail(r)
    BY <1>0, <1>2 DEF Find, Check, Update, Fail, Goto
  <1>3. CASE EndVaults(r) \/ Log(r)
    <2>1. Kind(r) # "accounts" /\ pc[r] # "currencies"
      BY <1>3 DEF EndVaults, Log, TypeInv, Stage, LedgerKinds
    <2> QED BY <2>1
  <1>4. ASSUME NEW v \in Vaults, SelectVault(r, v) PROVE Goal
    BY <1>0, <1>4 DEF SelectVault, Goto
  <1>5. CASE ReplaceBankAccounts(r)
    BY <1>0, <1>5 DEF ReplaceBankAccounts, Goto
  <1>6. CASE UpdateSupported(r)
    BY <1>0, <1>6 DEF UpdateSupported, Goto
  <1> QED BY <1>1, <1>2, <1>3, <1>4, <1>5, <1>6 DEF Step

LEMMA WrittenStep ==
    ASSUME TypeInv, MetInv, WriterInv, Configured, NEW r \in Requests, Step(r) \/ Fail(r),
           NEW p \in Products
    PROVE  Written(p)'
  <1>1. /\ req' = req /\ met' = met /\ pc[r] \in Running /\ pc[r] \notin Ended
        /\ \A d : Kind(d)' = Kind(d) /\ Product(d)' = Product(d)
        /\ \A d \in Requests \ {r} : pc'[d] = pc[d]
    BY StepFrame, Labels DEF Frame, Kind, Product
  <1>2. /\ Written(p) /\ Configuring(r)
        /\ Banker(p) \in Requests \cup {NoRequest} /\ Lister(p) \in Requests \cup {NoRequest}
    BY WriterParts, WriterTypes
  <1> DEFINE Banks == ReplaceBankAccounts(r) /\ p = Product(r)
             Lists == UpdateSupported(r) /\ p = Product(r)
  <1>3. /\ IF Banks THEN /\ banked'[p] = req[r].currencies /\ Banker(p)' = r
                         /\ pc'[r] = "currencies" /\ Kind(r) = "accounts"
           ELSE banked'[p] = banked[p] /\ Banker(p)' = Banker(p)
        /\ IF Lists THEN /\ supported'[p] = req[r].currencies /\ Lister(p)' = r
                         /\ pc[r] = "currencies" /\ pc'[r] = "done"
                         /\ Kind(r) \in {"accounts", "currencies"}
           ELSE supported'[p] = supported[p] /\ Lister(p)' = Lister(p)
    BY WriterStep
  <1>4. ASSUME Banker(p) = r
        PROVE  pc[r] = "currencies" /\ (pc'[r] = "failed" \/ (Lists /\ pc'[r] = "done"))
    <2>1. pc[r] = "currencies" /\ Product(r) = p
      BY <1>1, <1>2, <1>4, LabelFacts DEF Written
    <2>2. UpdateSupported(r) => pc'[r] = "done"
      BY <1>3, <2>1
    <2> QED BY <2>1, <2>2, AccountsPath
  <1>5. Lister(p) # r
    BY <1>1, <1>2, LabelFacts DEF Written
  <1>6. Banker(p)' = NoRequest => banked'[p] = {}
    BY <1>2, <1>3 DEF Written
  <1>7. Lister(p)' = NoRequest => supported'[p] = {}
    BY <1>2, <1>3 DEF Written
  <1>8. ASSUME Banker(p)' # NoRequest
        PROVE  /\ Kind(Banker(p)') = "accounts" /\ Product(Banker(p)') = p
               /\ banked'[p] = req[Banker(p)'].currencies
               /\ pc'[Banker(p)'] \in {"currencies", "done", "failed"}
    <2>1. CASE Banks
      BY <1>3, <2>1
    <2>2. CASE ~Banks /\ Banker(p) = r
      BY <1>2, <1>3, <1>4, <1>8, <2>2 DEF Written
    <2>3. CASE ~Banks /\ Banker(p) # r
      BY <1>1, <1>2, <1>3, <1>8, <2>3 DEF Written
    <2> QED BY <2>1, <2>2, <2>3
  <1>9. ASSUME Lister(p)' # NoRequest
        PROVE  /\ Kind(Lister(p)') \in {"accounts", "currencies"} /\ Product(Lister(p)') = p
               /\ supported'[p] = req[Lister(p)'].currencies
               /\ pc'[Lister(p)'] = "done"
    <2>1. CASE Lists
      BY <1>3, <2>1
    <2>2. CASE ~Lists
      BY <1>1, <1>2, <1>3, <1>5, <1>9, <2>2 DEF Written
    <2> QED BY <2>1, <2>2
  <1>10. ASSUME Lister(p)' # NoRequest, Banker(p)' # NoRequest, Banker(p)' # Lister(p)',
                pc'[Banker(p)'] = "done", Kind(Lister(p)') = "accounts"
         PROVE  <<Banker(p)', Lister(p)'>> \in met
    <2>1. ~Banks /\ Banker(p)' = Banker(p)
      BY <1>3, <1>10
    <2>2. CASE Lists
      <3>1. Product(r) = p /\ Kind(r) = "accounts" /\ pc[r] = "currencies" /\ Lister(p)' = r
        BY <1>3, <1>10, <2>2
      <3> QED BY <1>2, <1>10, <2>1, <3>1 DEF Configuring
    <2>3. CASE ~Lists
      <3>1. Banker(p) # r /\ Lister(p)' = Lister(p)
        BY <1>3, <1>4, <1>10, <2>1, <2>3
      <3> QED BY <1>1, <1>2, <1>10, <2>1, <3>1 DEF Written
    <2> QED BY <2>2, <2>3
  <1> QED BY <1>1, <1>6, <1>7, <1>8, <1>9, <1>10 DEF Written

LEMMA ConfiguringStep ==
    ASSUME TypeInv, MetInv, Configured, NEW r \in Requests, Step(r) \/ Fail(r),
           NEW d \in Requests
    PROVE  Configuring(d)'
  <1>1. /\ req' = req /\ met' = met
        /\ Kind(d)' = Kind(d) /\ Product(d)' = Product(d)
        /\ d # r => pc'[d] = pc[d]
    BY StepFrame, Labels DEF Frame, Kind, Product
  <1>2. CASE Kind(d) # "accounts"
    BY <1>1, <1>2 DEF Configuring
  <1>3. CASE Kind(d) = "accounts" /\ d = r
    <2>1. PICK p \in Products : p = Product(r)
      BY StepFrame, AskFacts, Labels DEF Frame
    <2>2. pc'[r] = "currencies" => Banker(p)' = r
      BY <1>3, <2>1, AccountsPath, WriterStep
    <2>3. ASSUME pc'[r] = "done" PROVE Lister(p)' = r /\ Banker(p)' # NoRequest
      <3>1. Lister(p)' = r /\ pc[r] = "currencies"
        BY <1>3, <2>1, <2>3, AccountsPath, WriterStep
      <3>2. Banker(p)' = Banker(p)
        BY <3>1, WriterStep
      <3>3. Banker(p) # NoRequest
        BY <1>3, <2>1, <3>1, WriterParts DEF Configuring
      <3> QED BY <3>1, <3>2, <3>3
    <2>4. Product(d)' = p /\ Product(d) = p
      BY <1>1, <1>3, <2>1
    <2> QED BY <1>1, <1>3, <2>2, <2>3, <2>4 DEF Configuring, Banker, Lister
  <1>4. CASE Kind(d) = "accounts" /\ d # r
    <2>1. PICK p \in Products : p = Product(d) /\ Configuring(d)
      BY <1>4, KindFacts, AskFacts, WriterParts
    <2>2. Banker(p)' \in {Banker(p), r} /\ Lister(p)' \in {Lister(p), r}
      BY <2>1, WriterStep
    <2>3. pc[d] = "currencies" => <<r, d>> \in met
      BY <1>4, Meeting, LabelFacts
    <2> QED BY <1>1, <1>4, <2>1, <2>2, <2>3 DEF Configuring
  <1> QED BY <1>2, <1>3, <1>4

LEMMA WriterBegin ==
    ASSUME TypeInv, WriterInv, Configured, NEW r \in Requests, NEW ask \in Menu, Begin(r, ask)
    PROVE  WriterInv' /\ Configured'
  <1>1. /\ pc[r] = "idle" /\ pc'[r] \in {"insert", "check", "update", "find"}
        /\ met \subseteq met'
        /\ \A c \in Requests \ {r} : pc'[c] = pc[c] /\ req'[c] = req[c]
        /\ banked' = banked /\ supported' = supported /\ writer' = writer
    BY BeginType DEF Begin, rowVars
  <1>2. /\ Kind(r) = "none"
        /\ \A c \in Requests \ {r} : Kind(c)' = Kind(c) /\ Product(c)' = Product(c)
        /\ \A p : Banker(p)' = Banker(p) /\ Lister(p)' = Lister(p)
    BY <1>1, IdleFacts DEF Kind, Product, Banker, Lister
  <1>3. ASSUME NEW p \in Products PROVE Written(p)'
    <2>1. Written(p) /\ Banker(p) \in Requests \cup {NoRequest}
          /\ Lister(p) \in Requests \cup {NoRequest}
      BY WriterParts, WriterTypes
    <2>2. Banker(p) # r /\ Lister(p) # r
      BY <1>2, <2>1 DEF Written
    <2> QED BY <1>1, <1>2, <2>1, <2>2 DEF Written
  <1>4. ASSUME NEW c \in Requests PROVE Configuring(c)'
    <2>1. CASE c = r
      BY <1>1, <2>1 DEF Configuring
    <2>2. CASE c # r
      BY <1>1, <1>2, <2>2, WriterParts DEF Configuring
    <2> QED BY <2>1, <2>2
  <1> QED BY <1>3, <1>4 DEF WriterInv, Configured

LEMMA WritersStep ==
    ASSUME TypeInv, MetInv, WriterInv, Configured, [Next]_vars
    PROVE  WriterInv' /\ Configured'
  <1>1. CASE UNCHANGED vars
    BY <1>1 DEF WriterInv, Configured, Written, Configuring, Banker, Lister, Kind, Product, vars
  <1>2. ASSUME NEW r \in Requests, Step(r) \/ Fail(r) PROVE WriterInv' /\ Configured'
    <2>1. (\A p \in Products : Written(p)') /\ \A d \in Requests : Configuring(d)'
      BY <1>2, WrittenStep, ConfiguringStep
    <2> QED BY <2>1 DEF WriterInv, Configured
  <1> QED BY <1>1, <1>2, WriterBegin DEF Next

LEMMA WriterInit == Init => WriterInv /\ Configured
  <1> SUFFICES ASSUME Init PROVE WriterInv /\ Configured
    OBVIOUS
  <1>1. \A p \in Products : /\ Banker(p) = NoRequest /\ Lister(p) = NoRequest
                            /\ banked[p] = {} /\ supported[p] = {}
    BY DEF Init, Banker, Lister
  <1>2. \A r \in Requests : pc[r] = "idle"
    BY DEF Init
  <1>3. WriterInv
    BY <1>1 DEF WriterInv, Written
  <1>4. Configured
    BY <1>2 DEF Configured, Configuring
  <1> QED BY <1>3, <1>4

(* The currencies of a product disagree with its bank accounts only after a  *)
(* list set alone, an unfinished configuration, or two that overlapped.      *)
THEOREM CurrenciesExplained == Spec => []CurrenciesFollowAccounts
  <1> DEFINE Inv == TypeInv /\ MetInv /\ WriterInv /\ Configured
  <1>1. Init => Inv
    BY TypeInit, InvInit, WriterInit
  <1>2. Inv /\ [Next]_vars => Inv'
    BY TypeStep, MetStep, WritersStep
  <1>3. ASSUME Inv PROVE CurrenciesFollowAccounts
    <2>1. SUFFICES ASSUME NEW p \in Products, supported[p] # banked[p],
                          ~(Lister(p) # NoRequest /\ Kind(Lister(p)) = "currencies"),
                          ~(Banker(p) # NoRequest /\ pc[Banker(p)] # "done")
                   PROVE  <<Banker(p), Lister(p)>> \in met
      BY DEF CurrenciesFollowAccounts, Banker, Lister
    <2>2. Written(p) /\ \A r \in Requests : Configuring(r)
      BY <1>3, WriterParts
    <2>3. Banker(p) \in Requests \cup {NoRequest} /\ Lister(p) \in Requests \cup {NoRequest}
      BY <1>3, WriterTypes
    <2>4. Banker(p) # NoRequest
      <3>1. SUFFICES ASSUME Banker(p) = NoRequest PROVE FALSE
        OBVIOUS
      <3>2. Lister(p) \in Requests /\ Kind(Lister(p)) = "accounts" /\ pc[Lister(p)] = "done"
            /\ Product(Lister(p)) = p
        BY <2>1, <2>2, <2>3, <3>1 DEF Written
      <3> QED BY <2>2, <3>1, <3>2 DEF Configuring
    <2>5. Banker(p) \in Requests /\ pc[Banker(p)] = "done" /\ Kind(Banker(p)) = "accounts"
          /\ Product(Banker(p)) = p
      BY <2>1, <2>2, <2>3, <2>4 DEF Written
    <2>6. Lister(p) # NoRequest
      BY <2>2, <2>5 DEF Configuring
    <2>7. Kind(Lister(p)) = "accounts" /\ Lister(p) # Banker(p)
      BY <2>1, <2>2, <2>4, <2>6 DEF Written
    <2> QED BY <2>2, <2>4, <2>5, <2>6, <2>7 DEF Written
  <1> QED BY <1>1, <1>2, <1>3, PTL DEF Spec


-----------------------------------------------------------------------------
(* The money of a product.                                                 *)

(* The names FundsConserved gives its parts. *)
Payers(p, kind) == {r \in applied : Product(r) = p /\ Kind(r) = kind}
Payments        == [r \in Requests |-> Amount(r)]
Paid(p, kind)   == SumOver(Payments, Payers(p, kind))
OpenedWith(p)   == IF p \in Existing THEN Opening[p].available + Opening[p].reserved ELSE 0

Conserved(p) ==
    IF HasBalance(p)
    THEN balance[p].available + balance[p].reserved
           = OpenedWith(p) + Paid(p, "add") - Paid(p, "deduct")
    ELSE {r \in applied : Product(r) = p} = {}

LEMMA FundsByProduct == FundsConserved <=> \A p \in Products : Conserved(p)
  BY DEF FundsConserved, Conserved, OpenedWith, Paid, Payers, Payments

LEMMA PaymentTypes ==
    ASSUME TypeInv
    PROVE  /\ \A r \in Requests : Amount(r) \in Nat /\ Payments[r] = Amount(r)
           /\ \A p, kind : IsFiniteSet(Payers(p, kind)) /\ Payers(p, kind) \in SUBSET Requests
           /\ \A p, kind : Paid(p, kind) \in Int
           /\ \A p : OpenedWith(p) \in Int
  <1>1. ASSUME NEW r \in Requests PROVE Amount(r) \in Nat /\ Payments[r] = Amount(r)
    <2>1. CASE pc[r] = "idle"
      BY <2>1 DEF TypeInv, Stage, Amount, NoAsk, Payments
    <2>2. CASE pc[r] # "idle"
      BY <2>2, AskFacts DEF Payments
    <2> QED BY <2>1, <2>2
  <1>2. \A p, kind : IsFiniteSet(Payers(p, kind)) /\ Payers(p, kind) \in SUBSET Requests
    <2>1. \A p, kind : Payers(p, kind) \in SUBSET Requests
      BY DEF Payers, TypeInv, TypeOK
    <2> QED BY <2>1, FS_Subset
  <1>3. ASSUME NEW p, NEW kind PROVE Paid(p, kind) \in Int
    <2>1. IsFiniteSet(Payers(p, kind)) /\ \A r \in Payers(p, kind) : Payments[r] \in Int
      BY <1>1, <1>2
    <2> QED BY ONLY <2>1, SumIsInt DEF Paid
  <1>4. ASSUME NEW p PROVE OpenedWith(p) \in Int
    <2>1. p \in Existing => Opening[p].available \in Nat /\ Opening[p].reserved \in Nat
      BY DEF Balances
    <2> QED BY <2>1 DEF OpenedWith
  <1> QED BY <1>1, <1>2, <1>3, <1>4

(* A request that has not changed a balance adds to no payment.            *)
LEMMA PaidKeeps ==
    ASSUME TypeInv, applied' = applied, \A r \in applied : req'[r] = req[r],
           NEW p, NEW kind
    PROVE  Paid(p, kind)' = Paid(p, kind) /\ Payers(p, kind)' = Payers(p, kind)
  <1> DEFINE S == Payers(p, kind)
             before == Payments
             after == [r \in Requests |-> Amount(r)']
  <1>1. Payers(p, kind)' = S
    BY DEF Payers, Product, Kind
  <1>2. IsFiniteSet(S) /\ \A r \in S : after[r] = before[r]
    <2>1. \A r \in S : r \in Requests /\ r \in applied
      BY PaymentTypes DEF Payers
    <2>2. \A r \in S : Amount(r)' = Amount(r)
      BY <2>1 DEF Amount
    <2> QED BY <2>1, <2>2, PaymentTypes
  <1>3. SumOver(after, S) = SumOver(before, S)
    <2> HIDE DEF after, before, S
    <2> QED BY ONLY <1>2, SumOfSame
  <1> QED BY <1>1, <1>3 DEF Paid, Payments

(* One that does is one payment more, of its product and kind.              *)
LEMMA PaidGrows ==
    ASSUME TypeInv, NEW r \in Requests, r \notin applied, applied' = applied \cup {r},
           req' = req, NEW p, NEW kind
    PROVE  Paid(p, kind)'
             = Paid(p, kind) + (IF Product(r) = p /\ Kind(r) = kind THEN Amount(r) ELSE 0)
  <1> DEFINE S == Payers(p, kind)
             f == Payments
  <1>1. Payments' = f
    BY DEF Payments, Amount
  <1>2. /\ IsFiniteSet(S) /\ \A x \in S : f[x] \in Int
        /\ r \notin S /\ f[r] \in Int /\ f[r] = Amount(r) /\ SumOver(f, S) \in Int
    <2>1. r \notin S
      BY DEF Payers
    <2> QED BY <2>1, PaymentTypes DEF Paid
  <1>3. CASE Product(r) = p /\ Kind(r) = kind
    <2>1. Payers(p, kind)' = S \cup {r}
      BY <1>3 DEF Payers, Product, Kind
    <2>2. SumOver(f, S \cup {r}) = SumOver(f, S) + f[r]
      <3> HIDE DEF f, S
      <3> QED BY ONLY <1>2, SumPutsIn
    <2> QED BY <1>1, <1>2, <1>3, <2>1, <2>2 DEF Paid
  <1>4. CASE ~ (Product(r) = p /\ Kind(r) = kind)
    <2>1. Payers(p, kind)' = S
      BY <1>4 DEF Payers, Product, Kind
    <2> QED BY <1>1, <1>2, <1>4, <2>1 DEF Paid
  <1> QED BY <1>3, <1>4

(* Reserving and releasing move money within a balance; adding and deducting *)
(* change what there is by what was asked.                                   *)
LEMMA UpdatedFunds ==
    ASSUME NEW kind \in LedgerKinds, NEW row \in Balances, NEW n \in Nat,
           NEW new, new = Updated(kind, row, n)
    PROVE  new.available + new.reserved
             = row.available + row.reserved + (IF kind = "add" THEN n ELSE 0)
                                            - (IF kind = "deduct" THEN n ELSE 0)
  <1>1. /\ row.available \in Nat /\ row.reserved \in Nat
        /\ row = [available |-> row.available, reserved |-> row.reserved]
    BY DEF Balances
  <1>2. CASE kind = "add"
    <2>1. new.available = row.available + n /\ new.reserved = row.reserved
      BY <1>1, <1>2 DEF Updated
    <2> QED BY <1>1, <1>2, <2>1
  <1>3. CASE kind = "deduct"
    <2>1. new.available = row.available /\ new.reserved = row.reserved - n
      BY <1>1, <1>3 DEF Updated
    <2> QED BY <1>1, <1>3, <2>1
  <1>4. CASE kind = "reserve"
    <2>1. new.available = row.available - n /\ new.reserved = row.reserved + n
      BY <1>4 DEF Updated
    <2> QED BY <1>1, <1>4, <2>1
  <1>5. CASE kind = "release"
    <2>1. new.available = row.available + n /\ new.reserved = row.reserved - n
      BY <1>5 DEF Updated
    <2> QED BY <1>1, <1>5, <2>1
  <1> QED BY <1>2, <1>3, <1>4, <1>5 DEF LedgerKinds

LEMMA FundsStep ==
    ASSUME TypeInv, OwnProduct, LogInv, FundsConserved, [Next]_vars
    PROVE  FundsConserved'
  <1> SUFFICES ASSUME NEW p \in Products PROVE Conserved(p)'
    BY FundsByProduct DEF FundsConserved, Conserved, OpenedWith, Paid, Payers, Payments
  <1>0. Conserved(p) /\ OpenedWith(p)' = OpenedWith(p)
    BY FundsByProduct DEF OpenedWith
  <1>1. ASSUME balance'[p] = balance[p], applied' = applied, \A r \in applied : req'[r] = req[r]
        PROVE  Conserved(p)'
    <2>1. {r \in applied : Product(r) = p}' = {r \in applied : Product(r) = p}
      BY <1>1 DEF Product
    <2> QED BY <1>0, <1>1, <2>1, PaidKeeps DEF Conserved, HasBalance
  <1>2. CASE UNCHANGED vars
    BY <1>1, <1>2 DEF vars
  <1>3. ASSUME NEW r \in Requests, NEW ask \in Menu, Begin(r, ask)
        PROVE  Conserved(p)'
    <2>1. balance' = balance /\ applied' = applied /\ pc[r] = "idle"
      BY <1>3 DEF Begin, rowVars
    <2>2. \A c \in applied : c # r /\ c \in Requests
      BY <2>1 DEF LogInv, TypeInv, TypeOK
    <2>3. \A c \in applied : req'[c] = req[c]
      BY <1>3, <2>2, BeginType
    <2> QED BY <1>1, <2>1, <2>3
  <1>4. ASSUME NEW r \in Requests, Step(r) \/ Fail(r)
        PROVE  Conserved(p)'
    <2>0. req' = req /\ pc[r] # "idle" /\ Product(r) \in Products /\ Amount(r) \in Nat
      BY <1>4, StepFrame, Labels, AskFacts DEF Frame
    <2>1. CASE CreateBalance(r)
      <3>1. /\ pc[r] = "balance" /\ applied' = applied
            /\ balance' = [balance EXCEPT ![Product(r)] = [available |-> 0, reserved |-> 0]]
        BY <2>1 DEF CreateBalance, historyVars
      <3>2. CASE p # Product(r)
        BY <1>1, <2>0, <3>1, <3>2 DEF TypeInv, TypeOK
      <3>3. CASE p = Product(r)
        <4>1. /\ ~HasBalance(p) /\ p \notin Existing
          BY <2>0, <3>1, <3>3, AskFacts DEF OwnProduct, TypeInv, Stage
        <4>2. {c \in applied : Product(c) = p} = {}
          BY <1>0, <4>1 DEF Conserved
        <4>3. \A kind : Payers(p, kind) = {}
          BY <4>2 DEF Payers
        <4>4. Paid(p, "add") = 0 /\ Paid(p, "deduct") = 0
          BY <4>3, SumOfNothing DEF Paid
        <4>5. Paid(p, "add")' = 0 /\ Paid(p, "deduct")' = 0
          BY <2>0, <3>1, <4>4, PaidKeeps
        <4>6. balance'[p].available = 0 /\ balance'[p].reserved = 0
          BY <3>1, <3>3 DEF TypeInv, TypeOK
        <4>7. HasBalance(p)'
          <5>1. balance'[p] = [available |-> 0, reserved |-> 0]
            BY <3>1, <3>3 DEF TypeInv, TypeOK
          <5> QED BY <5>1 DEF HasBalance, Balances
        <4> QED BY <1>0, <4>1, <4>5, <4>6, <4>7 DEF Conserved, OpenedWith
      <3> QED BY <3>2, <3>3
    <2>2. CASE Update(r) /\ Applies(r)
      <3> DEFINE row == balance[Product(r)]
                 new == Updated(Kind(r), balance[Product(r)], Amount(r))
      <3>1. /\ pc[r] = "update" /\ applied' = applied \cup {r}
            /\ balance' = [balance EXCEPT ![Product(r)] = new]
        BY <2>2 DEF Update
      <3>2. r \notin applied /\ Kind(r) \in LedgerKinds
        BY <3>1 DEF LogInv, TypeInv, Stage
      <3>3. \A kind : Paid(p, kind)' = Paid(p, kind)
                        + (IF Product(r) = p /\ Kind(r) = kind THEN Amount(r) ELSE 0)
        BY <2>0, <3>1, <3>2, PaidGrows
      <3>4. CASE p # Product(r)
        <4>1. balance'[p] = balance[p]
          BY <3>1, <3>4 DEF TypeInv, TypeOK
        <4>2. {c \in applied : Product(c) = p}' = {c \in applied : Product(c) = p}
          BY <2>0, <3>1, <3>4 DEF Product
        <4>3. \A kind : Paid(p, kind)' = Paid(p, kind)
          BY <3>3, <3>4, PaymentTypes
        <4> QED BY <1>0, <4>1, <4>2, <4>3 DEF Conserved, HasBalance
      <3>5. CASE p = Product(r)
        <4>1. row \in Balances /\ new \in Balances
          BY <2>2, <3>1, UpdatedType
        <4>2. new.available + new.reserved
                = row.available + row.reserved + (IF Kind(r) = "add" THEN Amount(r) ELSE 0)
                                               - (IF Kind(r) = "deduct" THEN Amount(r) ELSE 0)
          <5> HIDE DEF row
          <5> QED BY <2>0, <3>2, <4>1, UpdatedFunds DEF row
        <4>3. balance'[p] = new /\ balance[p] = row
          BY <3>1, <3>5 DEF TypeInv, TypeOK
        <4>4. HasBalance(p) /\ HasBalance(p)'
          BY <4>1, <4>3 DEF HasBalance
        <4>5. /\ Paid(p, "add")' = Paid(p, "add") + (IF Kind(r) = "add" THEN Amount(r) ELSE 0)
              /\ Paid(p, "deduct")' = Paid(p, "deduct")
                                        + (IF Kind(r) = "deduct" THEN Amount(r) ELSE 0)
          BY <3>3, <3>5
        <4>6. row.available + row.reserved = OpenedWith(p) + Paid(p, "add") - Paid(p, "deduct")
          BY <1>0, <4>3, <4>4 DEF Conserved
        <4>7. /\ row.available \in Nat /\ row.reserved \in Nat
              /\ Paid(p, "add") \in Int /\ Paid(p, "deduct") \in Int /\ OpenedWith(p) \in Int
          BY <4>1, PaymentTypes DEF Balances
        <4> HIDE DEF row, new
        <4>8. new.available + new.reserved
                = OpenedWith(p) + Paid(p, "add")' - Paid(p, "deduct")'
          BY <2>0, <4>2, <4>5, <4>6, <4>7
        <4> QED BY <1>0, <4>3, <4>4, <4>8 DEF Conserved
      <3> QED BY <3>4, <3>5
    <2>3. CASE ~CreateBalance(r) /\ ~ (Update(r) /\ Applies(r))
      <3>1. balance' = balance /\ applied' = applied
        BY <1>4, <2>3 DEF Step, InsertProduct, Find, SelectVault, InsertVault, EndVaults, Check,
           Update, Log, ReplaceBankAccounts, UpdateSupported, Fail, rowVars, historyVars
      <3> QED BY <1>1, <2>0, <3>1
    <2> QED BY <2>1, <2>2, <2>3
  <1> QED BY <1>2, <1>3, <1>4 DEF Next

(* Money neither appears nor disappears, whatever overlaps or fails: what a  *)
(* product has is what it opened with, plus the additions, less the          *)
(* deductions that changed its row.                                          *)
THEOREM FundsAreConserved == Spec => []FundsConserved
  <1> DEFINE Inv == TypeInv /\ MetInv /\ OwnProduct /\ LogInv /\ FundsConserved
  <1>1. Init => Inv
    <2> SUFFICES ASSUME Init PROVE Inv
      OBVIOUS
    <2>1. TypeInv /\ applied = {}
      BY TypeInit DEF Init
    <2>2. ASSUME NEW p \in Products PROVE Conserved(p)
      <3>1. \A kind : Payers(p, kind) = {}
        BY <2>1 DEF Payers
      <3>2. Paid(p, "add") = 0 /\ Paid(p, "deduct") = 0
        BY <3>1, SumOfNothing DEF Paid
      <3>3. HasBalance(p) => p \in Existing /\ balance[p] = Opening[p]
        BY DEF Init, HasBalance
      <3>4. HasBalance(p) => balance[p].available + balance[p].reserved = OpenedWith(p)
        BY <3>3 DEF OpenedWith
      <3>5. OpenedWith(p) \in Int
        BY <2>1, PaymentTypes
      <3> QED BY <2>1, <3>2, <3>4, <3>5 DEF Conserved
    <2> QED BY <2>1, <2>2, TypeInit, InvInit, FundsByProduct
  <1>2. Inv /\ [Next]_vars => Inv'
    BY TypeStep, MetStep, OwnStep, LogStep, FundsStep
  <1>3. Inv => FundsConserved
    OBVIOUS
  <1> QED BY <1>1, <1>2, <1>3, PTL DEF Spec

=========================================================================
