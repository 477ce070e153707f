--------------------------- MODULE Settlement ---------------------------
(***************************************************************************)
(* The batch endpoints of the operations dashboard.  A batch completes a   *)
(* list of deposits, or of withdrawals, one after the other, then books    *)
(* them in the idle balances of their products, then moves the tokens of   *)
(* all of them in one transaction of the chain, and last writes its hash   *)
(* into the deposits.  No database transaction spans these steps, nothing  *)
(* is undone when one of them fails, and several batches may be served at  *)
(* once; so may the endpoints that complete or fail one order alone.       *)
(*                                                                         *)
(* An order's row and what completeDeposit does to positions and vaults    *)
(* are those of DepositFlow and WithdrawalFlow: here a completion is its   *)
(* check of the status and the write of it.  A batch lists its orders in   *)
(* some sequence, any sequence may be asked for, and an order met twice is *)
(* skipped the second time, so a set visited in any order stands for it.   *)
(*                                                                         *)
(* Books and tokens are in cents, but a withdrawal may ask for parts of a  *)
(* cent: the router rounds it for the books, one order at a time, and      *)
(* rounds what is moved once, after adding up what was asked for.  The     *)
(* amount of a deposit it rounds before it does anything with it.          *)
(***************************************************************************)
EXTENDS Integers, FiniteSets, Sums

CONSTANTS Deposits,      \* ids of deposit_transactions
          Withdrawals,   \* ids of withdrawal_transactions
          Products,      \* client_organizations
          Batches,       \* HTTP requests served, each of them once
          Wallets,       \* addresses that hold tokens
          ProductOf,     \* the product an order belongs to
          Environment,   \* "sandbox" or "production", of orders
          PerCent,       \* parts of a cent an order may ask for
          Amount,        \* of an order, in these parts
          Rounded,       \* what toFixed(2) makes of it, in cents
          VaultWallet,   \* custodial wallet of a product's token vault
          KeyWallet,     \* wallet the configured private key signs for
          OpeningIdle,   \* idle balances and wallets, as the batches served
          OpeningCustody,\* before these left them
          Requests,      \* what callers ask
          Faults,        \* TRUE: statements fail, servers die
          NoOrder, NoWallet, NoBatch

Orders == Deposits \cup Withdrawals

Environments == {"sandbox", "production"}

(* "batch": the batch endpoints; "single": complete of a withdrawal, and the *)
(* mock confirmation and the webhook of a deposit.  scope: the caller's      *)
(* products; first: the one its token vault is taken from.                   *)
RequestType ==
    [kind : {"batch", "single"}, orders : SUBSET Orders,
     scope : SUBSET Products, first : Products]

Apart(m, n) == IF m < n THEN n - m ELSE m - n

(* toFixed(2) takes the nearest cent; halfway between two, which of them     *)
(* depends on the double that stands for the amount.                         *)
IsNearest(cents, parts) == 2 * Apart(cents * PerCent, parts) <= PerCent

ASSUME ConstantsAssumption ==
    /\ IsFiniteSet(Orders) /\ IsFiniteSet(Batches) /\ IsFiniteSet(Wallets)
    /\ Deposits \cap Withdrawals = {}
    /\ ProductOf \in [Orders -> Products]
    /\ Environment \in [Orders -> Environments]
    /\ PerCent \in Nat \ {0}
    /\ Amount \in [Orders -> Nat] /\ Rounded \in [Orders -> Nat]
    /\ \A o \in Orders : IsNearest(Rounded[o], Amount[o])
    /\ \A o \in Deposits : Amount[o] = Rounded[o] * PerCent
    /\ VaultWallet \in [Products \X Environments -> Wallets \cup {NoWallet}]
    /\ KeyWallet \in [Environments -> Wallets \cup {NoWallet}]
    /\ OpeningIdle \in [Products -> Nat] /\ OpeningCustody \in [Wallets -> Nat]
    /\ Requests \subseteq RequestType
    /\ \A r \in Requests : r.orders \subseteq Deposits \/ r.orders \subseteq Withdrawals
    /\ Faults \in BOOLEAN
    /\ NoOrder \notin Orders /\ NoWallet \notin Wallets /\ NoBatch \notin Batches

VARIABLES
    status,     \* of an order: "pending", "completed" or "failed"
    idle,       \* client_organizations.idle_balance, CHECK >= 0
    custody,    \* tokens in a wallet, on the chain
    txHash,     \* deposit_transactions.transaction_hash, as the batch it is of
    pc,         \* the statement a batch is about to run
    req,        \* the request it serves
    local,      \* its local variables
    completed,  \* history, of an order: the batches that completed it
    booked,     \* history, of an order: the batches that booked it
    moved,      \* history, of an order: the batches whose tokens moved for it
    met         \* history: the pairs of requests that were served at once

dbVars == <<status, idle, custody, txHash>>
historyVars == <<completed, booked, moved, met>>
vars == <<status, idle, custody, txHash, pc, req, local,
          completed, booked, moved, met>>

-----------------------------------------------------------------------------
(* Batches.                                                                *)

NoRequest == [kind |-> "none", orders |-> {}, scope |-> {}, first |-> NoOrder]

(* todo: what the current loop has still to visit; order: where it is;      *)
(* total: in parts of a cent; sums, due: the map from product to cents the  *)
(* batch books from, and its keys.                                          *)
Start(orders) ==
    [todo |-> orders, order |-> NoOrder, done |-> {}, env |-> "sandbox",
     total |-> 0, sums |-> [p \in Products |-> 0], due |-> {}]

Running == {"lookup", "recheck", "mark", "book", "move", "receipts"}
Ended   == {"done", "failed"}

InFlight(b) == pc[b] \in Running

IsBatch(b) == req[b].kind = "batch"
Current(b) == local[b].order

Goto(b, label) == pc' = [pc EXCEPT ![b] = label]

Return(b, outcome) ==
    /\ pc' = [pc EXCEPT ![b] = outcome]
    /\ local' = [local EXCEPT ![b] = Start({})]

(* MockUSDC is on Sepolia; both routers name Base for production. *)
Chain(env) == IF env = "production" THEN "8453" ELSE "11155111"

SupportedChains == {"1", "11155111", "84532"}

-----------------------------------------------------------------------------

Init ==
    /\ status = [o \in Orders |-> "pending"]
    /\ idle = OpeningIdle
    /\ custody = OpeningCustody
    /\ txHash = [o \in Deposits |-> NoBatch]
    /\ pc = [b \in Batches |-> "idle"]
    /\ req = [b \in Batches |-> NoRequest]
    /\ local = [b \in Batches |-> Start({})]
    /\ completed = [o \in Orders |-> {}]
    /\ booked = [o \in Orders |-> {}]
    /\ moved = [o \in Orders |-> {}]
    /\ met = {}

(* A caller sends a batch of orders of one kind; the two batch endpoints     *)
(* are the same but for what the comments below say.                         *)
BeginBatch(b, r) ==
    /\ pc[b] = "idle"
    /\ r.kind = "batch"
    /\ req' = [req EXCEPT ![b] = r]
    /\ local' = [local EXCEPT ![b] = Start(r.orders)]
    /\ met' = met \cup UNION {{<<b, c>>, <<c, b>>} : c \in {d \in Batches : InFlight(d)}}
    /\ Goto(b, "lookup")
    /\ UNCHANGED <<dbVars, completed, booked, moved>>

(* One order alone.  Completing a withdrawal never looks at its status. *)
BeginSingle(b, r, o) ==
    /\ pc[b] = "idle"
    /\ r.kind = "single" /\ r.orders = {o}
    /\ req' = [req EXCEPT ![b] = r]
    /\ local' = [local EXCEPT ![b] = [Start({}) EXCEPT !.order = o]]
    /\ met' = met \cup UNION {{<<b, c>>, <<c, b>>} : c \in {d \in Batches : InFlight(d)}}
    /\ Goto(b, IF o \in Deposits THEN "recheck" ELSE "mark")
    /\ UNCHANGED <<dbVars, completed, booked, moved>>

(* (Slip: an order that is completed already is taken again.) *)
Wanted_Repaired(b, o) ==
    /\ ProductOf[o] \in req[b].scope
    /\ status[o] # "failed"
    /\ local[b].done # {} => Environment[o] = local[b].env

(* (Slip: a batch takes orders of both environments.) *)
Wanted_Mixed(b, o) ==
    /\ ProductOf[o] \in req[b].scope
    /\ status[o] = "pending"

(* The row of an order is read.  It is left out when it is not one of the    *)
(* caller's products, is not pending, or is of another environment than the  *)
(* first order the batch completed.                                          *)
Wanted(b, o) ==
    /\ ProductOf[o] \in req[b].scope
    /\ status[o] = "pending"
    /\ local[b].done # {} => Environment[o] = local[b].env

Lookup(b, o) ==
    /\ pc[b] = "lookup" /\ o \in local[b].todo
    /\ IF Wanted(b, o)
       THEN /\ local' = [local EXCEPT ![b] =
                   [local[b] EXCEPT !.todo = @ \ {o}, !.order = o,
                             !.env = IF local[b].done = {} THEN Environment[o] ELSE @]]
            /\ Goto(b, IF o \in Deposits THEN "recheck" ELSE "mark")
       ELSE /\ local' = [local EXCEPT ![b] = [local[b] EXCEPT !.todo = @ \ {o}]]
            /\ UNCHANGED pc
    /\ UNCHANGED <<dbVars, req, historyVars>>

(* completeDeposit reads the row once more; a status that changed is an      *)
(* exception, and ends the whole batch.                                      *)
Recheck(b) ==
    /\ pc[b] = "recheck"
    /\ IF status[Current(b)] = "pending"
       THEN Goto(b, "mark") /\ UNCHANGED local
       ELSE Return(b, "failed")
    /\ UNCHANGED <<dbVars, req, historyVars>>

(* The order is completed, whatever its status is by now, and a batch counts *)
(* it, as it is in the total and rounded for its product; the endpoint of    *)
(* one order is done with it.                                                *)
Counted(b) ==
    LET o == Current(b)  p == ProductOf[o]
    IN  [local[b] EXCEPT !.order = NoOrder,
                         !.done = @ \cup {o},
                         !.total = @ + Amount[o],
                         !.sums = [local[b].sums EXCEPT ![p] = @ + Rounded[o]],
                         !.due = @ \cup {p}]

Mark(b) ==
    /\ pc[b] = "mark"
    /\ status' = [status EXCEPT ![Current(b)] = "completed"]
    /\ completed' = [completed EXCEPT ![Current(b)] = @ \cup {b}]
    /\ IF IsBatch(b)
       THEN Goto(b, "lookup") /\ local' = [local EXCEPT ![b] = Counted(b)]
       ELSE Return(b, "done")
    /\ UNCHANGED <<idle, custody, txHash, req, booked, moved, met>>

(* The loop is over: nothing completed is an answer of its own; otherwise    *)
(* the token vault of the caller's first product must have a wallet.         *)
TokenWallet(b) == VaultWallet[<<req[b].first, local[b].env>>]

EndLoop(b) ==
    /\ pc[b] = "lookup" /\ local[b].todo = {}
    /\ IF local[b].done = {} THEN Return(b, "done")
       ELSE IF TokenWallet(b) = NoWallet THEN Return(b, "failed")
       ELSE Goto(b, "book") /\ UNCHANGED local
    /\ UNCHANGED <<dbVars, req, historyVars>>

(* (Slip: withdrawals are added too.) *)
Booking_Up(b) == 1

(* One UPDATE for each product: up for deposits, down for withdrawals, where *)
(* the constraint on the column may refuse it.                               *)
Booking(b) == IF local[b].done \subseteq Deposits THEN 1 ELSE -1

BookProduct(b, p) ==
    /\ pc[b] = "book" /\ p \in local[b].due
    /\ LET balance == idle[p] + Booking(b) * local[b].sums[p]
       IN  IF balance < 0
           THEN Return(b, "failed") /\ UNCHANGED <<idle, booked>>
           ELSE /\ idle' = [idle EXCEPT ![p] = balance]
                /\ booked' = [o \in Orders |->
                                IF o \in local[b].done /\ ProductOf[o] = p
                                THEN booked[o] \cup {b} ELSE booked[o]]
                /\ local' = [local EXCEPT ![b] = [local[b] EXCEPT !.due = @ \ {p}]]
                /\ UNCHANGED pc
    /\ UNCHANGED <<status, custody, txHash, req, completed, moved, met>>

(* (Slip: the tokens move first.) *)
AllBooked_Anyway(b) == TRUE

AllBooked(b) == local[b].due = {}

EndBooking(b) ==
    /\ pc[b] = "book" /\ AllBooked(b)
    /\ Goto(b, "move")
    /\ UNCHANGED <<dbVars, req, local, historyVars>>

(* What of the total is moved. *)
ToCents(parts) ==
    {n \in {parts \div PerCent, parts \div PerCent + 1} : IsNearest(n, parts)}

(* The tokens of all the orders move at once: minted to the vault's wallet,  *)
(* or paid out of the wallet whose key is configured, which may be another.  *)
(* The transfer service knows neither the production chain nor more tokens   *)
(* than there are.                                                           *)
Wallet(b) ==
    IF local[b].done \subseteq Deposits THEN TokenWallet(b)
                                        ELSE KeyWallet[local[b].env]

(* (Slip: nothing looks at what the wallet holds.) *)
Refused_Unfunded(b, n) == Chain(local[b].env) \notin SupportedChains

Refused(b, n) ==
    \/ Chain(local[b].env) \notin SupportedChains
    \/ ~(local[b].done \subseteq Deposits)
       /\ (Wallet(b) = NoWallet \/ custody[Wallet(b)] < n)

(* (Slip: a refused transfer is tried again, for ever.) *)
Refuse_Retry(b) ==
    /\ pc[b] = "move"
    /\ \E n \in ToCents(local[b].total) : Refused(b, n)
    /\ UNCHANGED vars

Refuse(b) ==
    /\ pc[b] = "move"
    /\ \E n \in ToCents(local[b].total) : Refused(b, n)
    /\ Return(b, "failed")
    /\ UNCHANGED <<dbVars, req, historyVars>>

(* An exception after the transaction was sent reports a failure although    *)
(* the tokens move.                                                          *)
Transfer(b) ==
    /\ pc[b] = "move"
    /\ \E n \in ToCents(local[b].total) :
          /\ ~Refused(b, n)
          /\ custody' = [custody EXCEPT ![Wallet(b)] = @ + Booking(b) * n]
    /\ moved' = [o \in Orders |-> IF o \in local[b].done THEN moved[o] \cup {b}
                                                         ELSE moved[o]]
    /\ \/ Faults /\ Return(b, "failed")
       \/ /\ local[b].done \subseteq Deposits
          /\ Goto(b, "receipts")
          /\ local' = [local EXCEPT ![b] = [local[b] EXCEPT !.todo = local[b].done]]
       \/ /\ ~(local[b].done \subseteq Deposits)
          /\ Return(b, "done")
    /\ UNCHANGED <<status, idle, txHash, req, completed, booked, met>>

(* The hash goes into each deposit, where a failure is only logged. *)
WriteReceipt(b, o) ==
    /\ pc[b] = "receipts" /\ o \in local[b].todo
    /\ \/ txHash' = [txHash EXCEPT ![o] = b]
       \/ Faults /\ UNCHANGED txHash
    /\ local' = [local EXCEPT ![b] = [local[b] EXCEPT !.todo = @ \ {o}]]
    /\ UNCHANGED <<status, idle, custody, pc, req, historyVars>>

EndReceipts(b) ==
    /\ pc[b] = "receipts" /\ local[b].todo = {}
    /\ Return(b, "done")
    /\ UNCHANGED <<dbVars, req, historyVars>>

(* A statement fails or the server dies: what is written stays. *)
Fail(b) ==
    /\ Faults /\ InFlight(b)
    /\ Return(b, "failed")
    /\ UNCHANGED <<dbVars, req, historyVars>>

(* Failing a withdrawal never looks at its status. *)
FailWithdrawal(o) ==
    /\ status' = [status EXCEPT ![o] = "failed"]
    /\ UNCHANGED <<idle, custody, txHash, pc, req, local, historyVars>>

Step(b) ==
    \/ \E o \in Orders : Lookup(b, o)
    \/ Recheck(b)
    \/ Mark(b)
    \/ EndLoop(b)
    \/ \E p \in Products : BookProduct(b, p)
    \/ EndBooking(b)
    \/ Refuse(b)
    \/ Transfer(b)
    \/ \E o \in Deposits : WriteReceipt(b, o)
    \/ EndReceipts(b)

Next ==
    \/ \E b \in Batches :
          \/ \E r \in Requests : BeginBatch(b, r) \/ \E o \in Orders : BeginSingle(b, r, o)
          \/ Step(b)
          \/ Fail(b)
    \/ \E o \in Withdrawals : FailWithdrawal(o)

Spec == Init /\ [][Next]_vars

(* The server runs the steps of a request it has begun, one after another. *)
Fairness == \A b \in Batches : WF_vars(Step(b))

FairSpec == Spec /\ Fairness

-----------------------------------------------------------------------------
(* Properties.                                                             *)

(* Every variable has its type: in particular no idle balance and no wallet  *)
(* is ever below zero, whatever batches overlap or fail.                     *)
LocalType ==
    [todo : SUBSET Orders, order : Orders \cup {NoOrder}, done : SUBSET Orders,
     env : Environments, total : Nat, sums : [Products -> Nat],
     due : SUBSET Products]

TypeOK ==
    /\ status \in [Orders -> {"pending", "completed", "failed"}]
    /\ idle \in [Products -> Nat]
    /\ custody \in [Wallets -> Nat]
    /\ txHash \in [Deposits -> Batches \cup {NoBatch}]
    /\ pc \in [Batches -> {"idle"} \cup Running \cup Ended]
    /\ req \in [Batches -> Requests \cup {NoRequest}]
    /\ local \in [Batches -> LocalType]
    /\ completed \in [Orders -> SUBSET Batches]
    /\ booked \in [Orders -> SUBSET Batches]
    /\ moved \in [Orders -> SUBSET Batches]
    /\ met \subseteq Batches \X Batches

(* Tokens never get ahead of the books: a batch has moved tokens only for    *)
(* orders that it completed and booked in the idle balances, all of them     *)
(* ("BEFORE blockchain mint"), and a deposit carries the hash of a           *)
(* transaction that did move its tokens.                                     *)
TokensFollowBooks ==
    /\ \A o \in Orders : moved[o] \subseteq booked[o] /\ booked[o] \subseteq completed[o]
    /\ \A o \in Orders : \A b \in moved[o] :
          \A other \in Orders : b \in completed[other] => b \in moved[other]
    /\ \A o \in Deposits : txHash[o] # NoBatch => txHash[o] \in moved[o]

(* An order is booked, and so settled, by two batches only if they were      *)
(* served at the same time: repeating a batch later, after whatever failure, *)
(* never settles an order twice.  Nothing guards against the overlap itself. *)
TwiceOnlyTogether ==
    \A o \in Orders : \A b, c \in booked[o] : b # c => <<b, c>> \in met

(* The idle balances and the wallets are explained by the orders: an idle    *)
(* balance has changed by exactly what batches booked for the product, each  *)
(* order rounded; and the wallets together by what the orders moved ask for, *)
(* give or take half a cent for every batch of withdrawals whose tokens      *)
(* moved.                                                                    *)
Net(history, orders, worth) ==
    SumOver([o \in orders |-> Cardinality(history[o])
                                * (IF o \in Deposits THEN worth[o] ELSE -worth[o])],
            orders)

Gained == SumOver([w \in Wallets |-> custody[w] - OpeningCustody[w]], Wallets)

Payers == {b \in Batches : \E o \in Withdrawals : b \in moved[o]}

LedgersExplained ==
    /\ \A p \in Products :
          idle[p] = OpeningIdle[p]
                      + Net(booked, {o \in Orders : ProductOf[o] = p}, Rounded)
    /\ 2 * Apart(Gained * PerCent, Net(moved, Orders, Amount))
          <= PerCent * Cardinality(Payers)

(* An order that no batch holds and that is no longer pending is done for:   *)
(* if its tokens had not moved when its batch failed, no later batch moves   *)
(* them, however often it is repeated.                                       *)
Holds(b, o) == InFlight(b) /\ IsBatch(b) /\ (o = Current(b) \/ o \in local[b].done)

Abandoned(o) == status[o] # "pending" /\ \A b \in Batches : ~Holds(b, o)

AbandonedForGood ==
    [][\A o \in Orders : Abandoned(o) => Abandoned(o)' /\ moved'[o] = moved[o]]_vars

(* Batches are those of the contract: complete, then book by product, then   *)
(* move all at once; concurrency, single completions and failures at any     *)
(* step show no other behaviour.                                             *)
Contract == INSTANCE SettlementContract
ImplementsContract == Contract!Spec

(* A batch that completed an order goes on to move its tokens, unless a step *)
(* of it fails: no loop of it runs for ever and nothing it waits for is held *)
(* by another batch.                                                         *)
CompletedIsAnswered ==
    \A b \in Batches : \A o \in Orders :
        (b \in completed[o] /\ IsBatch(b)) ~> (b \in moved[o] \/ pc[b] = "failed")
=========================================================================
