--------------------------- MODULE DepositFlow ---------------------------
(***************************************************************************)
(* The deposit use case of one client organisation, at the granularity at  *)
(* which the database sees it.  Nothing in the code opens a transaction:   *)
(* every repository call is one statement that commits by itself, so each  *)
(* action below is one statement and any number of request handlers        *)
(* interleave between two of them.  A handler that crashes, or whose next  *)
(* statement fails, leaves behind what it had already written.             *)
(***************************************************************************)
EXTENDS VaultMath

CONSTANTS Orders,        \* order ids of deposit_transactions
          Accounts,      \* end users: one row per client, user and environment
          Vaults,        \* the client's rows of client_vaults
          Handlers,      \* HTTP requests served, each of them once
          Amounts,       \* crypto amounts a completion may carry, in micro-units
          AccountOf,     \* the account an order was created for
          Environment,   \* "sandbox" or "production", of accounts and vaults
          RequestKinds,  \* what callers ask: subset of AllKinds
          MaxIndex,      \* bound on the vault indexes
          Serialised,    \* TRUE: callers wait for one request to end
          Crashes,       \* TRUE: handlers may die between two statements
          NoOrder, NoVault

AllKinds == {"plain", "verified", "fail"}

Environments == {"sandbox", "production"}

ASSUME ConstantsAssumption ==
    /\ IsFiniteSet(Orders) /\ IsFiniteSet(Vaults) /\ IsFiniteSet(Handlers)
    /\ Amounts \subseteq Nat \ {0}
    /\ AccountOf \in [Orders -> Accounts]
    /\ Environment \in [Accounts \cup Vaults -> Environments]
    /\ RequestKinds \subseteq AllKinds
    /\ MaxIndex \in Nat /\ Scale <= MaxIndex
    /\ Serialised \in BOOLEAN /\ Crashes \in BOOLEAN
    /\ NoOrder \notin Orders /\ NoVault \notin Vaults

VARIABLES
    status,        \* deposit_transactions.status; "none": no row yet
    cryptoAmount,  \* deposit_transactions.crypto_amount
    position,      \* the account's end_user_vaults row
    firstDeposit,  \* end_users.first_deposit_at, as the order that stamped it
    pending,       \* client_vaults.pending_deposit_balance, all the AUM here
    index,         \* client_vaults.current_index
    pc,            \* the statement a handler is about to run
    req,           \* the request a handler serves
    seen,          \* what a handler has read: its local variables
    credited,      \* history: amount an order has put into a position
    booked         \* history: amount an order has put into a client vault

dbVars == <<status, cryptoAmount, position, firstDeposit, pending, index>>
historyVars == <<credited, booked>>
vars == <<status, cryptoAmount, position, firstDeposit, pending, index,
          pc, req, seen, credited, booked>>

-----------------------------------------------------------------------------
(* Handlers.                                                               *)

NoPosition == [exists |-> FALSE, deposited |-> 0, entry |-> 0]
NoRequest  == [order |-> NoOrder, vault |-> NoVault, amount |-> 0]
Unread     == [growth |-> 0, stamped |-> FALSE, position |-> NoPosition]

Running == {"verify", "markFailed", "markCompleted", "readGrowth", "readUser",
            "readPosition", "credit", "book", "stamp"}
Ended   == {"done", "rejected", "failed", "crashed"}

InFlight(h) == pc[h] \in Running

Order(h)   == req[h].order
Account(h) == AccountOf[Order(h)]

Goto(h, label) == pc' = [pc EXCEPT ![h] = label]

Quiescent == \A h \in Handlers : ~InFlight(h)

MayServe == Serialised => Quiescent

(* The handler returns: its local variables are gone. *)
Return(h, outcome) ==
    /\ pc' = [pc EXCEPT ![h] = outcome]
    /\ req' = [req EXCEPT ![h] = NoRequest]
    /\ seen' = [seen EXCEPT ![h] = Unread]

-----------------------------------------------------------------------------
(* The rest of the platform, as far as deposits see it.                    *)

Init ==
    /\ status = [o \in Orders |-> "none"]
    /\ cryptoAmount = [o \in Orders |-> 0]
    /\ position = [a \in Accounts |-> NoPosition]
    /\ firstDeposit = [a \in Accounts |-> NoOrder]
    /\ pending = [v \in Vaults |-> 0]
    /\ index = [v \in Vaults |-> Scale]
    /\ pc = [h \in Handlers |-> "idle"]
    /\ req = [h \in Handlers |-> NoRequest]
    /\ seen = [h \in Handlers |-> Unread]
    /\ credited = [o \in Orders |-> 0]
    /\ booked = [o \in Orders |-> 0]

CreateDeposit(o) ==
    /\ status[o] = "none"
    /\ status' = [status EXCEPT ![o] = "pending"]
    /\ UNCHANGED <<cryptoAmount, position, firstDeposit, pending, index,
                   pc, req, seen, credited, booked>>

(* Activation, a request like the others, gives the user an empty position  *)
(* in the sandbox.                                                          *)
ActivateUser(a) ==
    /\ MayServe
    /\ Environment[a] = "sandbox"
    /\ ~position[a].exists
    /\ position' = [position EXCEPT
                      ![a] = [exists |-> TRUE, deposited |-> 0, entry |-> Scale]]
    /\ UNCHANGED <<status, cryptoAmount, firstDeposit, pending, index,
                   pc, req, seen, credited, booked>>

(* The daily job: the index of any active vault grows, whatever it holds. *)
AccrueIndex(v) ==
    /\ index[v] < MaxIndex
    /\ index' = [index EXCEPT ![v] = @ + 1]
    /\ UNCHANGED <<status, cryptoAmount, position, firstDeposit, pending,
                   pc, req, seen, credited, booked>>

-----------------------------------------------------------------------------
(* completeDeposit and failDeposit, statement by statement.                *)

MayBegin(h) == MayServe /\ pc[h] = "idle"

(* (Slip: any deposit that exists may complete.) *)
BeginComplete_Unchecked(h, o, v, amount, kind) ==
    /\ MayBegin(h)
    /\ status[o] # "none"
    /\ Environment[v] = Environment[AccountOf[o]]
    /\ req' = [req EXCEPT ![h] = [order |-> o, vault |-> v, amount |-> amount]]
    /\ Goto(h, IF kind = "verified" THEN "verify" ELSE "markCompleted")
    /\ UNCHANGED <<dbVars, seen, historyVars>>

(* Both reads of the precondition: the deposit row and the client vault. *)
BeginComplete(h, o, v, amount, kind) ==
    /\ MayBegin(h)
    /\ status[o] = "pending"
    /\ Environment[v] = Environment[AccountOf[o]]
    /\ req' = [req EXCEPT ![h] = [order |-> o, vault |-> v, amount |-> amount]]
    /\ Goto(h, IF kind = "verified" THEN "verify" ELSE "markCompleted")
    /\ UNCHANGED <<dbVars, seen, historyVars>>

(* "Deposit not found", "Deposit is already ..." or "Client vault not found". *)
Reject(h, o, v) ==
    /\ MayBegin(h)
    /\ status[o] # "pending" \/ v = NoVault
    /\ Return(h, "rejected")
    /\ UNCHANGED <<dbVars, historyVars>>

(* failDeposit reads the row for its id only, whatever the status. *)
BeginFail(h, o) ==
    /\ MayBegin(h)
    /\ status[o] # "none"
    /\ req' = [req EXCEPT ![h] = [order |-> o, vault |-> NoVault, amount |-> 0]]
    /\ Goto(h, "markFailed")
    /\ UNCHANGED <<dbVars, seen, historyVars>>

VerifyTransfer(h, verified) ==
    /\ pc[h] = "verify"
    /\ Goto(h, IF verified THEN "markCompleted" ELSE "markFailed")
    /\ UNCHANGED <<dbVars, req, seen, historyVars>>

(* (Slip: runs the neighbouring ExpireDeposit statement.) *)
MarkFailed_Expired(h) ==
    /\ pc[h] = "markFailed"
    /\ status' = [status EXCEPT ![Order(h)] = "expired"]
    /\ Return(h, "failed")
    /\ UNCHANGED <<cryptoAmount, position, firstDeposit, pending, index, historyVars>>

MarkFailed(h) ==
    /\ pc[h] = "markFailed"
    /\ status' = [status EXCEPT ![Order(h)] = "failed"]
    /\ Return(h, "failed")
    /\ UNCHANGED <<cryptoAmount, position, firstDeposit, pending, index, historyVars>>

(* (Slip: the amount received is not passed to the statement.) *)
MarkCompleted_NoAmount(h) ==
    /\ pc[h] = "markCompleted"
    /\ status' = [status EXCEPT ![Order(h)] = "completed"]
    /\ Goto(h, "readGrowth")
    /\ UNCHANGED <<cryptoAmount, position, firstDeposit, pending, index, req, seen,
                   historyVars>>

MarkCompleted(h) ==
    /\ pc[h] = "markCompleted"
    /\ status' = [status EXCEPT ![Order(h)] = "completed"]
    /\ cryptoAmount' = [cryptoAmount EXCEPT ![Order(h)] = req[h].amount]
    /\ Goto(h, "readGrowth")
    /\ UNCHANGED <<position, firstDeposit, pending, index, req, seen, historyVars>>

ReadGrowth(h) ==
    /\ pc[h] = "readGrowth"
    /\ \E g \in 0 .. MaxIndex :
         /\ IsGrowthIndex(g, pending, index)
         /\ seen' = [seen EXCEPT ![h].growth = g]
    /\ Goto(h, "readUser")
    /\ UNCHANGED <<dbVars, req, historyVars>>

ReadUser(h) ==
    /\ pc[h] = "readUser"
    /\ seen' = [seen EXCEPT ![h].stamped = (firstDeposit[Account(h)] # NoOrder)]
    /\ Goto(h, "readPosition")
    /\ UNCHANGED <<dbVars, req, historyVars>>

ReadPosition(h) ==
    /\ pc[h] = "readPosition"
    /\ seen' = [seen EXCEPT ![h].position = position[Account(h)]]
    /\ Goto(h, "credit")
    /\ UNCHANGED <<dbVars, req, historyVars>>

(* (Slip: the position restarts at the index of today.) *)
NewEntryIndex_Latest(h) == seen[h].growth

(* The entry index to write, from what the handler read earlier. *)
NewEntryIndex(h) ==
    CalculateWeightedIndex(seen[h].position.deposited, seen[h].position.entry,
                           req[h].amount, seen[h].growth)

(* (Slip: total_deposited = <the sum computed by the handler>.) *)
CreditPosition_Absolute(h) ==
    /\ pc[h] = "credit"
    /\ seen[h].position.exists \/ ~position[Account(h)].exists
    /\ position' = [position EXCEPT
                      ![Account(h)] =
                          [exists    |-> TRUE,
                           deposited |-> seen[h].position.deposited + req[h].amount,
                           entry     |-> NewEntryIndex(h)]]
    /\ credited' = [credited EXCEPT ![Order(h)] = @ + req[h].amount]
    /\ Goto(h, "book")
    /\ UNCHANGED <<status, cryptoAmount, firstDeposit, pending, index, req, seen, booked>>

(* INSERT for a position that was not there, UPDATE ... SET total_deposited  *)
(* = total_deposited + amount, weighted_entry_index = <value> for one that  *)
(* was: the amount is added to the row, the index overwrites it.            *)
CreditPosition(h) ==
    /\ pc[h] = "credit"
    /\ seen[h].position.exists \/ ~position[Account(h)].exists
    /\ position' = [position EXCEPT
                      ![Account(h)] = [exists    |-> TRUE,
                                       deposited |-> @.deposited + req[h].amount,
                                       entry     |-> NewEntryIndex(h)]]
    /\ credited' = [credited EXCEPT ![Order(h)] = @ + req[h].amount]
    /\ Goto(h, "book")
    /\ UNCHANGED <<status, cryptoAmount, firstDeposit, pending, index, req, seen, booked>>

(* (Slip: the exception of the INSERT is swallowed.) *)
InsertCollides_Swallowed(h) ==
    /\ pc[h] = "credit"
    /\ ~seen[h].position.exists
    /\ position[Account(h)].exists
    /\ Goto(h, "book")
    /\ UNCHANGED <<dbVars, req, seen, historyVars>>

(* The INSERT meets a row another request has inserted since: the unique    *)
(* constraint on (end user, client, environment) makes the handler throw.   *)
InsertCollides(h) ==
    /\ pc[h] = "credit"
    /\ ~seen[h].position.exists
    /\ position[Account(h)].exists
    /\ Return(h, "failed")
    /\ UNCHANGED <<dbVars, historyVars>>

(* (Slips: books what the order row says, which another request may have     *)
(* written; books a user's first deposit only.)                              *)
AddPendingDeposit_FromRow(h) ==
    /\ pc[h] = "book"
    /\ pending' = [pending EXCEPT ![req[h].vault] = @ + cryptoAmount[Order(h)]]
    /\ booked' = [booked EXCEPT ![Order(h)] = @ + cryptoAmount[Order(h)]]
    /\ Goto(h, "stamp")
    /\ UNCHANGED <<status, cryptoAmount, position, firstDeposit, index, req, seen, credited>>

AddPendingDeposit_FirstOnly(h) ==
    /\ pc[h] = "book"
    /\ IF seen[h].stamped
       THEN UNCHANGED <<pending, booked>>
       ELSE /\ pending' = [pending EXCEPT ![req[h].vault] = @ + req[h].amount]
            /\ booked' = [booked EXCEPT ![Order(h)] = @ + req[h].amount]
    /\ Goto(h, "stamp")
    /\ UNCHANGED <<status, cryptoAmount, position, firstDeposit, index, req, seen, credited>>

AddPendingDeposit(h) ==
    /\ pc[h] = "book"
    /\ pending' = [pending EXCEPT ![req[h].vault] = @ + req[h].amount]
    /\ booked' = [booked EXCEPT ![Order(h)] = @ + req[h].amount]
    /\ Goto(h, "stamp")
    /\ UNCHANGED <<status, cryptoAmount, position, firstDeposit, index, req, seen, credited>>

(* SET first_deposit_at = COALESCE(first_deposit_at, now()), only when the  *)
(* user row read earlier had none; then the handler returns.                *)
MarkFirstDeposit(h) ==
    /\ pc[h] = "stamp"
    /\ firstDeposit' =
         IF ~seen[h].stamped /\ firstDeposit[Account(h)] = NoOrder
         THEN [firstDeposit EXCEPT ![Account(h)] = Order(h)]
         ELSE firstDeposit
    /\ Return(h, "done")
    /\ UNCHANGED <<status, cryptoAmount, position, pending, index, historyVars>>

Crash(h) ==
    /\ Crashes
    /\ InFlight(h)
    /\ Return(h, "crashed")
    /\ UNCHANGED <<dbVars, historyVars>>

-----------------------------------------------------------------------------
(* Specification.                                                          *)

Requests(h) ==
    \E o \in Orders :
        \/ \E v \in Vaults, amount \in Amounts, kind \in RequestKinds \ {"fail"} :
             BeginComplete(h, o, v, amount, kind)
        \/ \E v \in Vaults \cup {NoVault} : Reject(h, o, v)
        \/ "fail" \in RequestKinds /\ BeginFail(h, o)

Statement(h) ==
    \/ \E verified \in BOOLEAN : VerifyTransfer(h, verified)
    \/ MarkFailed(h)
    \/ MarkCompleted(h)
    \/ ReadGrowth(h)
    \/ ReadUser(h)
    \/ ReadPosition(h)
    \/ CreditPosition(h)
    \/ InsertCollides(h)
    \/ AddPendingDeposit(h)
    \/ MarkFirstDeposit(h)

Next ==
    \/ \E o \in Orders : CreateDeposit(o)
    \/ \E a \in Accounts : ActivateUser(a)
    \/ \E v \in Vaults : AccrueIndex(v)
    \/ \E h \in Handlers : Requests(h) \/ Statement(h) \/ Crash(h)

Spec == Init /\ [][Next]_vars

(* Node's event loop runs every continuation whose statement has returned. *)
Fairness == \A h \in Handlers : WF_vars(Statement(h))

FairSpec == Spec /\ Fairness

-----------------------------------------------------------------------------
(* Properties.                                                             *)

RequestType == [order  : Orders \cup {NoOrder},
                vault  : Vaults \cup {NoVault},
                amount : Nat]
PositionType == [exists : BOOLEAN, deposited : Nat, entry : Nat]
SeenType == [growth : Nat, stamped : BOOLEAN, position : PositionType]

TypeOK ==
    /\ status \in [Orders -> {"none", "pending", "completed", "failed"}]
    /\ cryptoAmount \in [Orders -> Nat]
    /\ position \in [Accounts -> PositionType]
    /\ firstDeposit \in [Accounts -> Orders \cup {NoOrder}]
    /\ pending \in [Vaults -> Nat]
    /\ index \in [Vaults -> Nat]
    /\ pc \in [Handlers -> {"idle"} \cup Running \cup Ended]
    /\ req \in [Handlers -> RequestType]
    /\ seen \in [Handlers -> SeenType]
    /\ credited \in [Orders -> Nat]
    /\ booked \in [Orders -> Nat]

OrdersOf(a) == {o \in Orders : AccountOf[o] = a}

(* Whatever interleaves or dies, no credit is lost: a position holds exactly *)
(* what the orders of its account have put into it, and the client vaults    *)
(* hold exactly what orders have put into them.                              *)
LedgersAdditive ==
    /\ \A a \in Accounts :
         position[a].deposited = SumOver(credited, OrdersOf(a))
    /\ TotalAUM(pending) = SumOver(booked, Orders)

(* The vaults never hold money of an order that its owner's position does    *)
(* not show: the position is written first, also when the handler then dies. *)
BookingFollowsCredit == \A o \in Orders : booked[o] <= credited[o]

(* No handler has died.                                                    *)
Undisturbed == \A h \in Handlers : pc[h] # "crashed"

(* Unless it dies, no request stops between the position and the vault: when *)
(* no handler is in flight the two ledgers agree order by order.             *)
LedgersAgreeAtRest == Quiescent /\ Undisturbed => \A o \in Orders : booked[o] = credited[o]

(* The CHECK weighted_entry_index >= 1e18 never fires on a completion, and   *)
(* nobody enters at more than the best vault of the client has ever grown:   *)
(* stale reads move an entry index only inside this range.                   *)
EntryIndexInRange ==
    \A a \in Accounts :
        position[a].exists =>
            /\ Scale <= position[a].entry
            /\ \E v \in Vaults : position[a].entry <= index[v]

(* An order reaches its owner's position at most once, with the amount in    *)
(* its row, and only if it is marked completed.                              *)
CreditedOnce ==
    \A o \in Orders :
        credited[o] # 0 => /\ status[o] = "completed"
                           /\ credited[o] = cryptoAmount[o]

(* first_deposit_at is written once, although the check that it is empty is  *)
(* made on a row read several statements earlier.                            *)
FirstDepositKept ==
    [][\A a \in Accounts :
         firstDeposit[a] # NoOrder => firstDeposit'[a] = firstDeposit[a]]_firstDeposit

(* Every credit writes the documented weighted mean of the row it updates.   *)
CreditFollowsFormula ==
    [][\A h \in Handlers :
         CreditPosition(h) =>
            LET a == Account(h)
            IN  position'[a].entry =
                  CalculateWeightedIndex(position[a].deposited, position[a].entry,
                                         req[h].amount, seen[h].growth)]_vars

(* "Get or create": a first deposit never fails because another one, or the  *)
(* activation of the user, has created the position in the meantime.         *)
GetOrCreateNeverCollides == [][\A h \in Handlers : ~InsertCollides(h)]_vars

(* An order that is completed reaches the position and a vault for good, unless *)
(* a handler dies.                                                           *)
CompletedIsCredited ==
    \A o \in Orders :
        status[o] = "completed" ~>
            \/ [](credited[o] = cryptoAmount[o] /\ booked[o] = cryptoAmount[o])
            \/ ~Undisturbed

(* What completions rest on when callers wait for each other: one handler in *)
(* flight, which knows the row of its order and, when it writes it, the      *)
(* position of its account.                                                  *)
OneInFlight ==
    \A h, other \in Handlers : InFlight(h) /\ InFlight(other) => h = other

BookedOnce == \A o \in Orders : booked[o] # 0 => booked[o] = credited[o]

RowKnown ==
    \A h \in Handlers :
        LET o == Order(h)
        IN  /\ pc[h] \in {"verify", "markFailed", "markCompleted"} => status[o] = "pending"
            /\ pc[h] \in {"verify", "markCompleted", "readGrowth", "readUser",
                          "readPosition", "credit", "book"} => req[h].amount \in Amounts
            /\ pc[h] \in {"readGrowth", "readUser", "readPosition", "credit", "book"} =>
                   status[o] = "completed" /\ cryptoAmount[o] = req[h].amount
            /\ pc[h] \in {"readGrowth", "readUser", "readPosition", "credit"} =>
                   credited[o] = 0
            /\ pc[h] = "book" => credited[o] = req[h].amount /\ booked[o] = 0
            /\ pc[h] = "credit" => seen[h].position = position[Account(h)]

AbsentIsEmpty == \A a \in Accounts : ~position[a].exists => position[a].deposited = 0

SerialInv == OneInFlight /\ BookedOnce /\ RowKnown /\ CreditedOnce /\ AbsentIsEmpty

Contract ==
    INSTANCE DepositContract
        WITH deposited <- [a \in Accounts |-> position[a].deposited]

(* Served one at a time, the statements implement the atomic contract, also  *)
(* when handlers crash between them.                                         *)
ImplementsContract == Contract!Spec
==========================================================================
