------------------------- MODULE DepositFlowProofs -------------------------
(***************************************************************************)
(* What TLAPS proves of the deposit use case for every set of orders,      *)
(* accounts, vaults and handlers.                                          *)
(***************************************************************************)
EXTENDS DepositFlow, SumTheorems, TLAPS

(* The entry index an update writes is a natural number.                   *)
LEMMA WeightedIndexIsNat ==
    ASSUME NEW old \in Nat, NEW entry \in Nat, NEW amount \in Nat, NEW growth \in Nat
    PROVE  CalculateWeightedIndex(old, entry, amount, growth) \in Nat
<1> DEFINE n == old * entry + amount * growth
           d == old + amount
<1>1. n \in Nat /\ d \in Nat
  OBVIOUS
<1>2. CASE d = 0
  BY <1>2 DEF CalculateWeightedIndex
<1>3. CASE d # 0
  <2>1. n \div d \in Nat
    <3> HIDE DEF n, d
    <3> QED BY <1>1, <1>3
  <2> QED BY <2>1, <1>3 DEF CalculateWeightedIndex
<1> QED BY <1>2, <1>3

(* The values a handler holds when it serves no request are of their types. *)
LEMMA BlankTyped ==
    /\ NoPosition \in PositionType
    /\ NoRequest \in RequestType
    /\ Unread \in SeenType
<1>1. NoPosition \in PositionType
  BY DEF NoPosition, PositionType
<1>2. NoRequest \in RequestType
  BY DEF NoRequest, RequestType
<1>3. Unread \in SeenType
  BY <1>1 DEF Unread, SeenType
<1> QED BY <1>1, <1>2, <1>3

(* A handler in flight serves an order and, unless it is about to mark it    *)
(* failed, has found one of the client's vaults.                             *)
Engaged ==
    \A h \in Handlers :
        InFlight(h) => /\ Order(h) \in Orders
                       /\ pc[h] # "markFailed" => req[h].vault \in Vaults

TypeInv == TypeOK /\ Engaged

(* Type correctness, with the fact it rests on: handlers in flight serve an *)
(* order, so that the rows they write exist.                                *)
THEOREM TypeInvariance == Spec => []TypeInv
<1> USE ConstantsAssumption, ScaleAssumption
<1>1. Init => TypeInv
  BY BlankTyped DEF Init, TypeInv, TypeOK, Engaged, InFlight, Running, Order, Ended
<1>2. TypeInv /\ [Next]_vars => TypeInv'
  <2> SUFFICES ASSUME TypeInv, [Next]_vars
               PROVE  TypeInv'
    OBVIOUS
  <2> USE DEF TypeInv, TypeOK, Engaged, InFlight, Running, Ended, Order
  <2>1. ASSUME NEW o \in Orders, CreateDeposit(o)
        PROVE  TypeInv'
    BY <2>1 DEF CreateDeposit
  <2>2. ASSUME NEW a \in Accounts, ActivateUser(a)
        PROVE  TypeInv'
    BY <2>2 DEF ActivateUser, PositionType
  <2>3. ASSUME NEW v \in Vaults, AccrueIndex(v)
        PROVE  TypeInv'
    BY <2>3 DEF AccrueIndex
  <2>4. ASSUME NEW h \in Handlers, NEW o \in Orders, NEW v \in Vaults,
               NEW amount \in Amounts, NEW kind \in RequestKinds,
               BeginComplete(h, o, v, amount, kind)
        PROVE  TypeInv'
    BY <2>4 DEF BeginComplete, Goto, RequestType, dbVars, historyVars
  <2>5. ASSUME NEW h \in Handlers, NEW o \in Orders, NEW v, Reject(h, o, v)
        PROVE  TypeInv'
    BY <2>5, BlankTyped DEF Reject, Return, dbVars, historyVars
  <2>6. ASSUME NEW h \in Handlers, NEW o \in Orders, BeginFail(h, o)
        PROVE  TypeInv'
    BY <2>6 DEF BeginFail, Goto, RequestType, dbVars, historyVars
  <2>7. ASSUME NEW h \in Handlers, NEW verified \in BOOLEAN, VerifyTransfer(h, verified)
        PROVE  TypeInv'
    BY <2>7 DEF VerifyTransfer, Goto, dbVars, historyVars
  <2>8. ASSUME NEW h \in Handlers, MarkFailed(h)
        PROVE  TypeInv'
    BY <2>8, BlankTyped DEF MarkFailed, Return, historyVars
  <2>9. ASSUME NEW h \in Handlers, MarkCompleted(h)
        PROVE  TypeInv'
    BY <2>9 DEF MarkCompleted, Goto, RequestType, historyVars
  <2>10. ASSUME NEW h \in Handlers, ReadGrowth(h)
         PROVE  TypeInv'
    <3>1. seen' \in [Handlers -> SeenType]
      BY <2>10 DEF ReadGrowth, SeenType
    <3>2. TypeOK'
      BY <2>10, <3>1 DEF ReadGrowth, Goto, dbVars, historyVars
    <3>3. Engaged'
      BY <2>10 DEF ReadGrowth, Goto
    <3> QED BY <3>2, <3>3
  <2>11. ASSUME NEW h \in Handlers, ReadUser(h)
         PROVE  TypeInv'
    <3>1. seen' \in [Handlers -> SeenType]
      <4> DEFINE stamped == firstDeposit[Account(h)] # NoOrder
      <4>1. stamped \in BOOLEAN /\ seen' = [seen EXCEPT ![h].stamped = stamped]
        BY <2>11, Zenon DEF ReadUser
      <4> HIDE DEF stamped
      <4> QED BY <4>1 DEF SeenType
    <3>2. TypeOK'
      BY <2>11, <3>1 DEF ReadUser, Goto, dbVars, historyVars
    <3>3. Engaged'
      BY <2>11 DEF ReadUser, Goto
    <3> QED BY <3>2, <3>3
  <2>12. ASSUME NEW h \in Handlers, ReadPosition(h)
         PROVE  TypeInv'
    <3>1. seen' \in [Handlers -> SeenType]
      BY <2>12 DEF ReadPosition, SeenType, Account
    <3>2. TypeOK'
      BY <2>12, <3>1 DEF ReadPosition, Goto, dbVars, historyVars
    <3>3. Engaged'
      BY <2>12 DEF ReadPosition, Goto
    <3> QED BY <3>2, <3>3
  <2>13. ASSUME NEW h \in Handlers, CreditPosition(h)
         PROVE  TypeInv'
    <3>1. NewEntryIndex(h) \in Nat
      BY WeightedIndexIsNat DEF NewEntryIndex, SeenType, PositionType, RequestType
    <3> QED BY <2>13, <3>1
            DEF CreditPosition, Goto, PositionType, RequestType, Account
  <2>14. ASSUME NEW h \in Handlers, InsertCollides(h)
         PROVE  TypeInv'
    BY <2>14, BlankTyped DEF InsertCollides, Return, dbVars, historyVars
  <2>15. ASSUME NEW h \in Handlers, AddPendingDeposit(h)
         PROVE  TypeInv'
    <3> DEFINE vault == req[h].vault
               amount == req[h].amount
    <3>1. amount \in Nat /\ vault \in Vaults /\ req[h].order \in Orders
      BY <2>15 DEF AddPendingDeposit, RequestType
    <3>2. /\ pending' = [pending EXCEPT ![vault] = @ + amount]
          /\ booked' = [booked EXCEPT ![req[h].order] = @ + amount]
      BY <2>15 DEF AddPendingDeposit
    <3> HIDE DEF vault, amount
    <3>3. pending' \in [Vaults -> Nat]
      BY <3>1, <3>2
    <3>4. booked' \in [Orders -> Nat]
      BY <3>1, <3>2
    <3> QED BY <2>15, <3>3, <3>4 DEF AddPendingDeposit, Goto
  <2>16. ASSUME NEW h \in Handlers, MarkFirstDeposit(h)
         PROVE  TypeInv'
    BY <2>16, BlankTyped DEF MarkFirstDeposit, Return, Account, historyVars
  <2>17. ASSUME NEW h \in Handlers, Crash(h)
         PROVE  TypeInv'
    BY <2>17, BlankTyped DEF Crash, Return, dbVars, historyVars
  <2>18. CASE UNCHANGED vars
    BY <2>18 DEF vars
  <2> QED
    BY <2>1, <2>2, <2>3, <2>4, <2>5, <2>6, <2>7, <2>8, <2>9, <2>10, <2>11,
       <2>12, <2>13, <2>14, <2>15, <2>16, <2>17, <2>18
       DEF Next, Requests, Statement
<1> QED BY <1>1, <1>2, PTL DEF Spec

(* The values of the variables are always of their types.                  *)
THEOREM TypeCorrect == Spec => []TypeOK
BY TypeInvariance, PTL DEF TypeInv

-----------------------------------------------------------------------------
(* Callers that wait for each other and never ask to fail a deposit: what a *)
(* handler wrote and read stays true until it is the only one to change it. *)
Cautious == Serialised /\ "fail" \notin RequestKinds

(* A request begins only when no other is in flight.                        *)
LEMMA BeginsAlone ==
    ASSUME Cautious, TypeInv, NEW h \in Handlers, MayBegin(h)
    PROVE  \A other \in Handlers : ~InFlight(other)
BY DEF Cautious, MayBegin, MayServe, Quiescent

(* A step of a served handler leaves every other handler out of flight.     *)
LEMMA OthersAtRest ==
    ASSUME SerialInv, NEW h \in Handlers, InFlight(h)
    PROVE  \A other \in Handlers \ {h} : ~InFlight(other)
BY DEF SerialInv, OneInFlight

(* The strengthening that single credit rests on: while requests are served *)
(* one at a time, the one in flight still finds its order as it found it    *)
(* when it began, and the position as it read it.                           *)
THEOREM SerialInvariance == ASSUME Cautious PROVE Spec => []SerialInv
<1> USE ConstantsAssumption, ScaleAssumption
<1>1. Init => SerialInv
  BY DEF Init, SerialInv, OneInFlight, BookedOnce, RowKnown, CreditedOnce, AbsentIsEmpty,
         InFlight, Running, NoPosition
<1>2. TypeInv /\ SerialInv /\ [Next]_vars => SerialInv'
  <2> SUFFICES ASSUME TypeInv, SerialInv, [Next]_vars
               PROVE  SerialInv'
    OBVIOUS
  <2> USE DEF SerialInv, OneInFlight, BookedOnce, RowKnown, CreditedOnce, AbsentIsEmpty,
              TypeInv, TypeOK, Engaged, InFlight, Running, Ended, Order
  <2>1. ASSUME NEW o \in Orders, CreateDeposit(o)
        PROVE  SerialInv'
    <3>1. status[o] = "none" /\ status' = [status EXCEPT ![o] = "pending"]
      BY <2>1 DEF CreateDeposit
    <3>2. UNCHANGED <<cryptoAmount, position, pc, req, seen, credited, booked>>
      BY <2>1 DEF CreateDeposit
    <3>3. CreditedOnce' /\ BookedOnce' /\ OneInFlight' /\ AbsentIsEmpty'
      BY <3>1, <3>2
    <3>4. RowKnown'
      BY <3>1, <3>2 DEF Account
    <3> QED BY <3>3, <3>4
  <2>2. ASSUME NEW a \in Accounts, ActivateUser(a)
        PROVE  SerialInv'
    BY <2>2 DEF ActivateUser, MayServe, Quiescent, Cautious
  <2>3. ASSUME NEW v \in Vaults, AccrueIndex(v)
        PROVE  SerialInv'
    BY <2>3 DEF AccrueIndex, Account
  <2>4. ASSUME NEW h \in Handlers, NEW o \in Orders, NEW v \in Vaults,
               NEW amount \in Amounts, NEW kind \in RequestKinds,
               BeginComplete(h, o, v, amount, kind)
        PROVE  SerialInv'
    BY <2>4, BeginsAlone DEF BeginComplete, Goto, RequestType, dbVars, historyVars
  <2>5. ASSUME NEW h \in Handlers, NEW o \in Orders, NEW v, Reject(h, o, v)
        PROVE  SerialInv'
    BY <2>5, BeginsAlone DEF Reject, Return, dbVars, historyVars
  <2>7. ASSUME NEW h \in Handlers, NEW verified \in BOOLEAN, VerifyTransfer(h, verified)
        PROVE  SerialInv'
    BY <2>7, OthersAtRest DEF VerifyTransfer, Goto, dbVars, historyVars
  <2>8. ASSUME NEW h \in Handlers, MarkFailed(h)
        PROVE  SerialInv'
    BY <2>8, OthersAtRest DEF MarkFailed, Return, historyVars
  <2>9. ASSUME NEW h \in Handlers, MarkCompleted(h)
        PROVE  SerialInv'
    BY <2>9, OthersAtRest DEF MarkCompleted, Goto, RequestType, historyVars
  <2>10. ASSUME NEW h \in Handlers, ReadGrowth(h)
         PROVE  SerialInv'
    BY <2>10, OthersAtRest DEF ReadGrowth, Goto, dbVars, historyVars
  <2>11. ASSUME NEW h \in Handlers, ReadUser(h)
         PROVE  SerialInv'
    BY <2>11, OthersAtRest DEF ReadUser, Goto, dbVars, historyVars
  <2>12. ASSUME NEW h \in Handlers, ReadPosition(h)
         PROVE  SerialInv'
    BY <2>12, OthersAtRest DEF ReadPosition, Goto, dbVars, historyVars, SeenType, Account
  <2>13. ASSUME NEW h \in Handlers, CreditPosition(h)
         PROVE  SerialInv'
    BY <2>13, OthersAtRest DEF CreditPosition, Goto, RequestType
  <2>14. ASSUME NEW h \in Handlers, InsertCollides(h)
         PROVE  SerialInv'
    BY <2>14, OthersAtRest DEF InsertCollides, Return, dbVars, historyVars
  <2>15. ASSUME NEW h \in Handlers, AddPendingDeposit(h)
         PROVE  SerialInv'
    BY <2>15, OthersAtRest DEF AddPendingDeposit, Goto, RequestType
  <2>16. ASSUME NEW h \in Handlers, MarkFirstDeposit(h)
         PROVE  SerialInv'
    BY <2>16, OthersAtRest DEF MarkFirstDeposit, Return, historyVars
  <2>17. ASSUME NEW h \in Handlers, Crash(h)
         PROVE  SerialInv'
    BY <2>17, OthersAtRest DEF Crash, Return, dbVars, historyVars
  <2>18. CASE UNCHANGED vars
    BY <2>18 DEF vars, Account
  <2> HIDE DEF SerialInv, TypeInv
  <2> QED
    BY <2>1, <2>2, <2>3, <2>4, <2>5, <2>7, <2>8, <2>9, <2>10, <2>11,
       <2>12, <2>13, <2>14, <2>15, <2>16, <2>17, <2>18
       DEF Next, Requests, Statement, Cautious
<1> QED BY <1>1, <1>2, TypeInvariance, PTL DEF Spec

(* Served one at a time, every order reaches its position at most once.     *)
THEOREM CreditsOnce == ASSUME Cautious PROVE Spec => []CreditedOnce
BY SerialInvariance, PTL DEF SerialInv

(* Served one at a time, a first deposit always finds the position as it     *)
(* read it, so that its INSERT never meets a row.                            *)
THEOREM NoCollision == ASSUME Cautious PROVE Spec => GetOrCreateNeverCollides
<1>1. SerialInv => [\A h \in Handlers : ~InsertCollides(h)]_vars
  <2> SUFFICES ASSUME SerialInv, NEW h \in Handlers, InsertCollides(h)
               PROVE  FALSE
    OBVIOUS
  <2>1. pc[h] = "credit" /\ ~seen[h].position.exists /\ position[Account(h)].exists
    BY DEF InsertCollides
  <2>2. seen[h].position = position[Account(h)]
    BY <2>1 DEF SerialInv, RowKnown
  <2> QED BY <2>1, <2>2
<1> QED BY <1>1, SerialInvariance, PTL DEF GetOrCreateNeverCollides

(* Served one at a time, every credit writes the weighted mean of the row    *)
(* it updates, not of a row it read before another credit.                   *)
THEOREM FormulaFollowed == ASSUME Cautious PROVE Spec => CreditFollowsFormula
<1> DEFINE Follows(h) ==
      position'[Account(h)].entry =
        CalculateWeightedIndex(position[Account(h)].deposited, position[Account(h)].entry,
                               req[h].amount, seen[h].growth)
<1>1. TypeInv /\ SerialInv => [\A h \in Handlers : CreditPosition(h) => Follows(h)]_vars
  <2> SUFFICES ASSUME TypeInv, SerialInv, NEW h \in Handlers, CreditPosition(h)
               PROVE  Follows(h)
    OBVIOUS
  <2>1. pc[h] = "credit"
    BY DEF CreditPosition
  <2>2. seen[h].position = position[Account(h)]
    BY <2>1 DEF SerialInv, RowKnown
  <2>3. Account(h) \in Accounts
    BY <2>1, ConstantsAssumption DEF TypeInv, Engaged, InFlight, Running, Account
  <2>4. position'[Account(h)].entry = NewEntryIndex(h)
    BY <2>3 DEF CreditPosition, TypeInv, TypeOK
  <2> QED BY <2>2, <2>4 DEF NewEntryIndex
<1> QED BY <1>1, TypeInvariance, SerialInvariance, PTL DEF CreditFollowsFormula

(* Whatever interleaves, a first-deposit stamp is never overwritten: the     *)
(* COALESCE in the statement protects it from the check made on a stale row. *)
THEOREM StampKept == Spec => FirstDepositKept
<1> DEFINE Kept == \A a \in Accounts :
                     firstDeposit[a] # NoOrder => firstDeposit'[a] = firstDeposit[a]
<1>1. TypeInv /\ [Next]_vars => [Kept]_firstDeposit
  <2> SUFFICES ASSUME TypeInv, Next, firstDeposit' # firstDeposit
               PROVE  Kept
    BY DEF vars
  <2>1. PICK h \in Handlers : MarkFirstDeposit(h)
    BY DEF Next, Requests, Statement, CreateDeposit, ActivateUser, AccrueIndex,
           BeginComplete, Reject, BeginFail, VerifyTransfer, MarkFailed, MarkCompleted,
           ReadGrowth, ReadUser, ReadPosition, CreditPosition, InsertCollides,
           AddPendingDeposit, Crash, dbVars
  <2>2. /\ firstDeposit[Account(h)] = NoOrder
        /\ firstDeposit' = [firstDeposit EXCEPT ![Account(h)] = Order(h)]
    BY <2>1 DEF MarkFirstDeposit
  <2> QED BY <2>2 DEF TypeInv, TypeOK
<1> QED BY <1>1, TypeInvariance, PTL DEF Spec, FirstDepositKept

-----------------------------------------------------------------------------
(* Refinement of DepositContract.                                          *)

(* What the contract sees of the positions.                                *)
Deposited == [a \in Accounts |-> position[a].deposited]

(* Served one at a time, every statement is a step of the atomic contract or *)
(* changes nothing the contract sees, also when handlers crash.              *)
THEOREM Refinement == ASSUME Cautious PROVE Spec => ImplementsContract
<1> USE ConstantsAssumption, ScaleAssumption
<1>1. Init => Contract!Init
  BY DEF Init, Contract!Init, NoPosition
<1>2. TypeInv /\ SerialInv /\ [Next]_vars => [Contract!Next]_(Contract!vars)
  <2> SUFFICES ASSUME TypeInv, SerialInv, [Next]_vars
               PROVE  Contract!Next \/ UNCHANGED Contract!vars
    OBVIOUS
  <2> USE DEF TypeInv, TypeOK, Engaged, InFlight, Running, Ended, Order
  <2>1. ASSUME NEW o \in Orders, CreateDeposit(o)
        PROVE  Contract!Request(o)
    BY <2>1 DEF CreateDeposit, Contract!Request
  <2>2. ASSUME NEW a \in Accounts, ActivateUser(a)
        PROVE  UNCHANGED Contract!vars
    <3>1. position[a].deposited = 0
      BY <2>2, Zenon DEF ActivateUser, SerialInv, AbsentIsEmpty
    <3>2. Deposited' = Deposited
      BY <3>1, <2>2 DEF ActivateUser, Deposited
    <3> QED BY <3>2, <2>2 DEF ActivateUser, Contract!vars, Deposited
  <2>3. ASSUME NEW h \in Handlers, MarkFailed(h)
        PROVE  Contract!Fail(Order(h))
    <3>1. status[Order(h)] = "pending"
      BY <2>3 DEF MarkFailed, SerialInv, RowKnown
    <3> QED BY <2>3, <3>1 DEF MarkFailed, historyVars, Contract!Fail
  <2>4. ASSUME NEW h \in Handlers, MarkCompleted(h)
        PROVE  Contract!Complete(Order(h), req[h].amount)
    <3>1. status[Order(h)] = "pending"
      BY <2>4 DEF MarkCompleted, SerialInv, RowKnown
    <3> QED BY <2>4, <3>1 DEF MarkCompleted, historyVars, Contract!Complete
  <2>5. ASSUME NEW h \in Handlers, CreditPosition(h)
        PROVE  Contract!Credit(Order(h))
    <3> DEFINE o == Order(h)
               a == AccountOf[o]
               amount == req[h].amount
               entry == NewEntryIndex(h)
    <3>1. /\ status[o] = "completed" /\ credited[o] = 0
          /\ cryptoAmount[o] = amount /\ amount \in Amounts
      <4>1. pc[h] = "credit"
        BY <2>5 DEF CreditPosition
      <4> QED BY <4>1 DEF SerialInv, RowKnown
    <3>2. o \in Orders /\ a \in Accounts
      BY <2>5 DEF CreditPosition
    <3>3. /\ position' = [position EXCEPT ![a] = [exists    |-> TRUE,
                                                  deposited |-> @.deposited + amount,
                                                  entry     |-> entry]]
          /\ credited' = [credited EXCEPT ![o] = @ + amount]
          /\ UNCHANGED <<status, cryptoAmount, booked>>
      BY <2>5 DEF CreditPosition, Account
    <3> HIDE DEF o, a, amount, entry
    <3>4. credited' = [credited EXCEPT ![o] = cryptoAmount[o]]
      BY <3>1, <3>2, <3>3
    <3>5. Deposited' = [Deposited EXCEPT ![a] = @ + cryptoAmount[o]]
      BY <3>1, <3>2, <3>3 DEF Deposited
    <3>6. status[o] = "completed" /\ credited[o] = 0 /\ UNCHANGED <<status, cryptoAmount, booked>>
      BY <3>1, <3>3
    <3> QED BY <3>4, <3>5, <3>6, Zenon DEF Contract!Credit, Deposited, a, o
  <2>6. ASSUME NEW h \in Handlers, AddPendingDeposit(h)
        PROVE  Contract!Book(Order(h))
    <3> DEFINE o == Order(h)
               amount == req[h].amount
    <3>1. /\ credited[o] = amount /\ booked[o] = 0
          /\ amount \in Nat \ {0} /\ o \in Orders
      BY <2>6, ConstantsAssumption DEF AddPendingDeposit, SerialInv, RowKnown
    <3>2. /\ booked' = [booked EXCEPT ![o] = @ + amount]
          /\ UNCHANGED <<status, cryptoAmount, position, credited>>
      BY <2>6 DEF AddPendingDeposit
    <3> HIDE DEF o, amount
    <3>3. booked[o] + amount = credited[o]
      BY <3>1
    <3>4. booked' = [booked EXCEPT ![o] = credited[o]]
      BY <3>1, <3>2, <3>3
    <3>5. credited[o] # 0
      BY <3>1
    <3> QED BY <3>1, <3>2, <3>4, <3>5, Zenon DEF Contract!Book, o
  <2>7. CASE UNCHANGED <<status, cryptoAmount, position, credited, booked>>
    BY <2>7 DEF Contract!vars
  <2>8. CASE UNCHANGED vars
    BY <2>8, <2>7 DEF vars
  <2>9. CASE \E o \in Orders : CreateDeposit(o)
    BY <2>9, <2>1 DEF Contract!Next
  <2>10. CASE \E a \in Accounts : ActivateUser(a)
    BY <2>10, <2>2
  <2>11. CASE \E v \in Vaults : AccrueIndex(v)
    BY <2>11, <2>7 DEF AccrueIndex
  <2>12. ASSUME NEW h \in Handlers, Requests(h)
         PROVE  UNCHANGED <<status, cryptoAmount, position, credited, booked>>
    BY <2>12 DEF Requests, BeginComplete, Reject, BeginFail, dbVars, historyVars
  <2>13. ASSUME NEW h \in Handlers, Crash(h)
         PROVE  UNCHANGED <<status, cryptoAmount, position, credited, booked>>
    BY <2>13 DEF Crash, dbVars, historyVars
  <2>14. ASSUME NEW h \in Handlers, Statement(h)
         PROVE  Contract!Next \/ UNCHANGED Contract!vars
    <3>0. Order(h) \in Orders
      BY <2>14 DEF Statement, VerifyTransfer, MarkFailed, MarkCompleted, ReadGrowth, ReadUser,
                   ReadPosition, CreditPosition, InsertCollides, AddPendingDeposit,
                   MarkFirstDeposit
    <3>1. CASE MarkFailed(h)
      BY <3>0, <3>1, <2>3, Zenon DEF Contract!Next
    <3>2. CASE MarkCompleted(h)
      BY <3>0, <3>2, <2>4 DEF MarkCompleted, SerialInv, RowKnown, Contract!Next
    <3>3. CASE CreditPosition(h)
      <4>1. Contract!Credit(Order(h))
        BY <3>3, <2>5
      <4> HIDE DEF Order
      <4>2. \E o \in Orders : Contract!Credit(o)
        BY <3>0, <4>1, Zenon DEF Contract!Credit
      <4> QED BY <4>2 DEF Contract!Next
    <3>4. CASE AddPendingDeposit(h)
      BY <3>0, <3>4, <2>6, Zenon DEF Contract!Next
    <3>5. ASSUME \/ \E verified \in BOOLEAN : VerifyTransfer(h, verified)
                 \/ ReadGrowth(h) \/ ReadUser(h) \/ ReadPosition(h)
                 \/ InsertCollides(h) \/ MarkFirstDeposit(h)
          PROVE  UNCHANGED <<status, cryptoAmount, position, credited, booked>>
      BY <3>5 DEF VerifyTransfer, ReadGrowth, ReadUser, ReadPosition, InsertCollides,
                  MarkFirstDeposit, dbVars, historyVars
    <3> QED BY <2>14, <3>1, <3>2, <3>3, <3>4, <3>5, <2>7, Zenon DEF Statement
  <2> QED
    BY <2>8, <2>9, <2>10, <2>11, <2>12, <2>13, <2>14, <2>7 DEF Next
<1> QED BY <1>1, <1>2, TypeInvariance, SerialInvariance, PTL
        DEF Spec, ImplementsContract, Contract!Spec

-----------------------------------------------------------------------------
(* The ledgers, under any interleaving and any crash.                      *)

(* The orders of an account are finitely many, and so are those of all.     *)
LEMMA OrdersFinite ==
    /\ IsFiniteSet(Orders)
    /\ \A a \in Accounts : IsFiniteSet(OrdersOf(a)) /\ OrdersOf(a) \in SUBSET Orders
<1>1. \A a \in Accounts : OrdersOf(a) \in SUBSET Orders
  BY DEF OrdersOf
<1> QED BY <1>1, FS_Subset, ConstantsAssumption

(* What the sums are made from: only the position write and the vault write *)
(* change a ledger; the activation of a user writes an empty position.      *)
LedgerInv == LedgersAdditive /\ AbsentIsEmpty

(* The two ledgers are exactly what the orders have put into them.          *)
LEMMA LedgerStep == TypeInv /\ LedgerInv /\ [Next]_vars => LedgerInv'
<1> USE ConstantsAssumption, ScaleAssumption
<1> SUFFICES ASSUME TypeInv, LedgerInv, [Next]_vars
             PROVE  LedgerInv'
  OBVIOUS
<1> USE DEF TypeInv, TypeOK
<1>1. ASSUME UNCHANGED <<position, pending, credited, booked>>
      PROVE  LedgerInv'
  BY <1>1 DEF LedgerInv, LedgersAdditive, AbsentIsEmpty, OrdersOf, TotalAUM
<1>2. ASSUME NEW a \in Accounts, ActivateUser(a)
      PROVE  LedgerInv'
  <2>1. /\ UNCHANGED <<pending, credited, booked>>
        /\ position' = [position EXCEPT
                          ![a] = [exists |-> TRUE, deposited |-> 0, entry |-> Scale]]
        /\ ~position[a].exists
    BY <1>2, Zenon DEF ActivateUser
  <2>2. position[a].deposited = 0
    BY <2>1, Zenon DEF LedgerInv, AbsentIsEmpty
  <2>3. \A b \in Accounts : position'[b].deposited = position[b].deposited
    BY <2>1, <2>2
  <2>4. LedgersAdditive'
    BY <2>1, <2>3 DEF LedgerInv, LedgersAdditive, OrdersOf, TotalAUM
  <2>5. AbsentIsEmpty'
    BY <2>1 DEF LedgerInv, AbsentIsEmpty
  <2> QED BY <2>4, <2>5 DEF LedgerInv
<1>3. ASSUME NEW h \in Handlers, CreditPosition(h)
      PROVE  LedgerInv'
  <2> DEFINE o == Order(h)
             a == AccountOf[o]
             amount == req[h].amount
             entry == NewEntryIndex(h)
  <2>1. /\ o \in Orders /\ a \in Accounts /\ amount \in Nat
        /\ position' = [position EXCEPT ![a] = [exists    |-> TRUE,
                                                deposited |-> @.deposited + amount,
                                                entry     |-> entry]]
        /\ credited' = [credited EXCEPT ![o] = @ + amount]
        /\ UNCHANGED <<pending, booked>>
    BY <1>3 DEF CreditPosition, Account, Engaged, InFlight, Running, RequestType
  <2> HIDE DEF o, a, amount, entry
  <2>2. ASSUME NEW b \in Accounts
        PROVE  position'[b].deposited = SumOver(credited', OrdersOf(b))
    <3>1. position[b].deposited = SumOver(credited, OrdersOf(b))
      BY DEF LedgerInv, LedgersAdditive
    <3>2. /\ IsFiniteSet(OrdersOf(b))
          /\ \A x \in OrdersOf(b) : credited[x] \in Int
      BY OrdersFinite
    <3>3. SumOver(credited', OrdersOf(b))
            = SumOver(credited, OrdersOf(b)) + (IF o \in OrdersOf(b) THEN amount ELSE 0)
      <4>1. \A x \in OrdersOf(b) :
               credited'[x] = IF x = o THEN credited[x] + amount ELSE credited[x]
        BY <2>1 DEF OrdersOf
      <4>2. amount \in Int
        BY <2>1
      <4> QED BY ONLY <3>2, <4>1, <4>2, SumGrows
    <3>4. o \in OrdersOf(b) <=> b = a
      BY <2>1 DEF OrdersOf, a
    <3>5. position[b].deposited \in Nat
      BY DEF PositionType
    <3>6. position'[b].deposited = position[b].deposited + (IF b = a THEN amount ELSE 0)
      BY <2>1, <3>5
    <3> QED BY <3>1, <3>3, <3>4, <3>6
  <2>3. LedgersAdditive'
    BY <2>1, <2>2 DEF LedgerInv, LedgersAdditive, OrdersOf, TotalAUM
  <2>4. AbsentIsEmpty'
    BY <2>1 DEF LedgerInv, AbsentIsEmpty
  <2> QED BY <2>3, <2>4 DEF LedgerInv
<1>4. ASSUME NEW h \in Handlers, AddPendingDeposit(h)
      PROVE  LedgerInv'
  <2> DEFINE o == Order(h)
             v == req[h].vault
             amount == req[h].amount
  <2>1. /\ o \in Orders /\ v \in Vaults /\ amount \in Nat
        /\ pending' = [pending EXCEPT ![v] = @ + amount]
        /\ booked' = [booked EXCEPT ![o] = @ + amount]
        /\ UNCHANGED <<position, credited>>
    BY <1>4 DEF AddPendingDeposit, Engaged, InFlight, Running, RequestType, Order
  <2> HIDE DEF o, v, amount
  <2>2. SumOver(pending', Vaults) = SumOver(pending, Vaults) + amount
    <3>1. IsFiniteSet(Vaults) /\ \A x \in Vaults : pending[x] \in Int
      OBVIOUS
    <3>2. \A x \in Vaults : pending'[x] = IF x = v THEN pending[x] + amount ELSE pending[x]
      BY <2>1
    <3>3. amount \in Int
      BY <2>1
    <3>4. SumOver(pending', Vaults)
            = SumOver(pending, Vaults) + (IF v \in Vaults THEN amount ELSE 0)
      BY ONLY <3>1, <3>2, <3>3, SumGrows
    <3> QED BY <3>4, <2>1
  <2>3. SumOver(booked', Orders) = SumOver(booked, Orders) + amount
    <3>1. IsFiniteSet(Orders) /\ \A x \in Orders : booked[x] \in Int
      OBVIOUS
    <3>2. \A x \in Orders : booked'[x] = IF x = o THEN booked[x] + amount ELSE booked[x]
      BY <2>1
    <3>3. amount \in Int
      BY <2>1
    <3>4. SumOver(booked', Orders)
            = SumOver(booked, Orders) + (IF o \in Orders THEN amount ELSE 0)
      BY ONLY <3>1, <3>2, <3>3, SumGrows
    <3> QED BY <3>4, <2>1
  <2>4. SumOver(pending, Vaults) = SumOver(booked, Orders)
    BY DEF LedgerInv, LedgersAdditive, TotalAUM
  <2>7. SumOver(pending', Vaults) = SumOver(booked', Orders)
    BY <2>2, <2>3, <2>4
  <2>8. DOMAIN pending' = Vaults
    BY <2>1
  <2>9. LedgersAdditive'
    BY <2>1, <2>7, <2>8 DEF LedgerInv, LedgersAdditive, OrdersOf, TotalAUM
  <2> QED BY <2>1, <2>9 DEF LedgerInv, AbsentIsEmpty
<1>5. CASE UNCHANGED vars
  BY <1>5, <1>1 DEF vars
<1> HIDE DEF TypeInv, LedgerInv
<1>6. CASE Next
  <2>1. \/ UNCHANGED <<position, pending, credited, booked>>
        \/ \E a \in Accounts : ActivateUser(a)
        \/ \E h \in Handlers : CreditPosition(h) \/ AddPendingDeposit(h)
    BY <1>6 DEF Next, Requests, Statement, CreateDeposit, AccrueIndex, BeginComplete, Reject,
           BeginFail, VerifyTransfer, MarkFailed, MarkCompleted, ReadGrowth, ReadUser,
           ReadPosition, InsertCollides, MarkFirstDeposit, Crash, dbVars, historyVars
  <2> QED BY <2>1, <1>1, <1>2, <1>3, <1>4
<1> QED BY <1>5, <1>6

(* Whatever interleaves or dies, no credit is lost and none appears: each    *)
(* position is the sum of what its account's orders have put into it, and    *)
(* the client vaults that of what all orders have put into them.             *)
THEOREM LedgersAdd == Spec => []LedgersAdditive
<1>1. Init => LedgerInv
  <2> SUFFICES ASSUME Init PROVE LedgerInv
    OBVIOUS
  <2>1. /\ \A o \in Orders : credited[o] = 0 /\ booked[o] = 0
        /\ \A v \in Vaults : pending[v] = 0
        /\ \A a \in Accounts : position[a].deposited = 0
        /\ DOMAIN pending = Vaults
    BY DEF Init, NoPosition
  <2>2. \A a \in Accounts : SumOver(credited, OrdersOf(a)) = 0
    BY <2>1, OrdersFinite, SumOfZeros DEF OrdersOf
  <2>3. SumOver(pending, Vaults) = 0 /\ SumOver(booked, Orders) = 0
    BY <2>1, ConstantsAssumption, SumOfZeros
  <2> QED BY <2>1, <2>2, <2>3 DEF LedgerInv, LedgersAdditive, AbsentIsEmpty, TotalAUM
<1> QED BY <1>1, LedgerStep, TypeInvariance, PTL DEF Spec, LedgerInv

-----------------------------------------------------------------------------
(* The vaults follow the positions.                                        *)

(* What a handler has put into a position and not yet into a vault.         *)
Owes(h, o) == IF pc[h] = "book" /\ Order(h) = o THEN req[h].amount ELSE 0

Owed(o) == SumOver([h \in Handlers |-> Owes(h, o)], Handlers)

(* The strengthening: what the vaults lack of an order is on its way, in    *)
(* the handlers between their two writes, unless one of them has died.      *)
BookingInv ==
    \A o \in Orders :
        /\ booked[o] + Owed(o) <= credited[o]
        /\ Undisturbed => booked[o] + Owed(o) = credited[o]

LEMMA OwesTyped ==
    ASSUME TypeInv
    PROVE  \A h \in Handlers, o \in Orders : Owes(h, o) \in Nat
BY DEF TypeInv, TypeOK, RequestType, Owes

LEMMA OwedTyped ==
    ASSUME TypeInv, NEW o \in Orders
    PROVE  Owed(o) \in Nat
<1> DEFINE owes == [h \in Handlers |-> Owes(h, o)]
<1>1. IsFiniteSet(Handlers)
  BY ConstantsAssumption
<1>2. \A h \in Handlers : owes[h] \in Nat
  BY OwesTyped
<1>3. SumOver(owes, Handlers) \in Nat
  BY ONLY <1>1, <1>2, SumIsNat
<1> QED BY <1>3 DEF Owed

(* A step that changes what one handler owes, and no other.                 *)
LEMMA OwedChanges ==
    ASSUME TypeInv, NEW o \in Orders, NEW h \in Handlers, NEW n \in Int,
           Owes(h, o)' = Owes(h, o) + n,
           \A g \in Handlers \ {h} : Owes(g, o)' = Owes(g, o)
    PROVE  Owed(o)' = Owed(o) + n
<1> DEFINE owes == [g \in Handlers |-> Owes(g, o)]
           next == [g \in Handlers |-> Owes(g, o)']
<1>1. IsFiniteSet(Handlers)
  BY ConstantsAssumption
<1>2. \A g \in Handlers : owes[g] \in Int
  BY OwesTyped
<1>3. \A g \in Handlers : next[g] = IF g = h THEN owes[g] + n ELSE owes[g]
  OBVIOUS
<1>4. SumOver(next, Handlers) = SumOver(owes, Handlers) + (IF h \in Handlers THEN n ELSE 0)
  <2> HIDE DEF owes, next
  <2> QED BY ONLY <1>1, <1>2, <1>3, n \in Int, SumGrows
<1>5. Owed(o)' = SumOver(next, Handlers) /\ Owed(o) = SumOver(owes, Handlers)
  BY DEF Owed
<1> HIDE DEF owes, next
<1> QED BY <1>4, <1>5

(* A step that changes what no handler owes.                                *)
LEMMA OwedKeeps ==
    ASSUME NEW o \in Orders, \A g \in Handlers : Owes(g, o)' = Owes(g, o)
    PROVE  Owed(o)' = Owed(o)
<1> DEFINE owes == [g \in Handlers |-> Owes(g, o)]
           next == [g \in Handlers |-> Owes(g, o)']
<1>1. IsFiniteSet(Handlers) /\ \A g \in Handlers : next[g] = owes[g]
  BY ConstantsAssumption
<1>2. SumOver(next, Handlers) = SumOver(owes, Handlers)
  <2> HIDE DEF owes, next
  <2> QED BY ONLY <1>1, SumOfSame
<1> QED BY <1>2 DEF Owed

(* The steps that neither write a position or a vault nor kill a handler.   *)
Elsewhere ==
    /\ UNCHANGED <<credited, booked>>
    /\ \A g \in Handlers :
          /\ pc'[g] = "book" <=> pc[g] = "book"
          /\ pc[g] = "book" => req'[g] = req[g]
          /\ pc[g] = "crashed" => pc'[g] = "crashed"

LEMMA StepKinds ==
    ASSUME TypeInv, [Next]_vars
    PROVE  \/ Elsewhere
           \/ \E h \in Handlers : CreditPosition(h) \/ AddPendingDeposit(h) \/ Crash(h)
<1> USE DEF TypeInv, TypeOK, Elsewhere
<1>1. CASE UNCHANGED vars
  BY <1>1 DEF vars
<1>2. ASSUME \/ \E o \in Orders : CreateDeposit(o)
             \/ \E a \in Accounts : ActivateUser(a)
             \/ \E v \in Vaults : AccrueIndex(v)
      PROVE  Elsewhere
  BY <1>2 DEF CreateDeposit, ActivateUser, AccrueIndex
<1>3. ASSUME NEW h \in Handlers, Requests(h)
      PROVE  Elsewhere
  <2>1. ASSUME NEW o \in Orders, NEW v \in Vaults, NEW amount \in Amounts,
               NEW kind \in RequestKinds, BeginComplete(h, o, v, amount, kind)
        PROVE  Elsewhere
    BY <2>1 DEF BeginComplete, MayBegin, Goto, dbVars, historyVars
  <2>2. ASSUME NEW o \in Orders, NEW v, Reject(h, o, v)
        PROVE  Elsewhere
    BY <2>2 DEF Reject, MayBegin, Return, dbVars, historyVars
  <2>3. ASSUME NEW o \in Orders, BeginFail(h, o)
        PROVE  Elsewhere
    BY <2>3 DEF BeginFail, MayBegin, Goto, dbVars, historyVars
  <2> HIDE DEF Elsewhere
  <2> QED BY <1>3, <2>1, <2>2, <2>3 DEF Requests
<1>4. ASSUME NEW h \in Handlers, Statement(h)
      PROVE  Elsewhere \/ CreditPosition(h) \/ AddPendingDeposit(h)
  <2>1. ASSUME NEW verified \in BOOLEAN, VerifyTransfer(h, verified)
        PROVE  Elsewhere
    BY <2>1 DEF VerifyTransfer, Goto, dbVars, historyVars
  <2>2. CASE MarkFailed(h)
    BY <2>2 DEF MarkFailed, Return, historyVars
  <2>3. CASE MarkCompleted(h)
    BY <2>3 DEF MarkCompleted, Goto, historyVars
  <2>4. CASE ReadGrowth(h)
    BY <2>4 DEF ReadGrowth, Goto, dbVars, historyVars
  <2>5. CASE ReadUser(h)
    BY <2>5 DEF ReadUser, Goto, dbVars, historyVars
  <2>6. CASE ReadPosition(h)
    BY <2>6 DEF ReadPosition, Goto, dbVars, historyVars
  <2>7. CASE InsertCollides(h)
    BY <2>7 DEF InsertCollides, Return, dbVars, historyVars
  <2>8. CASE MarkFirstDeposit(h)
    BY <2>8 DEF MarkFirstDeposit, Return, historyVars
  <2> HIDE DEF Elsewhere
  <2> QED BY <1>4, <2>1, <2>2, <2>3, <2>4, <2>5, <2>6, <2>7, <2>8 DEF Statement
<1> HIDE DEF TypeInv, Elsewhere
<1> QED BY <1>1, <1>2, <1>3, <1>4 DEF Next

LEMMA BookingStep == TypeInv /\ BookingInv /\ [Next]_vars => BookingInv'
<1> SUFFICES ASSUME TypeInv, BookingInv, [Next]_vars, NEW o \in Orders
             PROVE  /\ booked'[o] + Owed(o)' <= credited'[o]
                    /\ Undisturbed' => booked'[o] + Owed(o)' = credited'[o]
  BY DEF BookingInv
<1>1. /\ booked[o] + Owed(o) <= credited[o]
      /\ Undisturbed => booked[o] + Owed(o) = credited[o]
  BY DEF BookingInv
<1>2. booked[o] \in Nat /\ credited[o] \in Nat /\ Owed(o) \in Nat
  BY OwedTyped DEF TypeInv, TypeOK
<1>3. CASE Elsewhere
  <2>1. \A g \in Handlers : Owes(g, o)' = Owes(g, o)
    BY <1>3 DEF Elsewhere, Owes, Order
  <2>2. Owed(o)' = Owed(o)
    BY <2>1, OwedKeeps
  <2>3. Undisturbed' => Undisturbed
    BY <1>3 DEF Elsewhere, Undisturbed
  <2>4. booked'[o] = booked[o] /\ credited'[o] = credited[o]
    BY <1>3 DEF Elsewhere
  <2> QED BY <1>1, <2>2, <2>3, <2>4
<1>4. ASSUME NEW h \in Handlers, CreditPosition(h)
      PROVE  /\ booked'[o] + Owed(o)' <= credited'[o]
             /\ Undisturbed' => booked'[o] + Owed(o)' = credited'[o]
  <2> DEFINE n == IF Order(h) = o THEN req[h].amount ELSE 0
  <2>1. /\ n \in Nat /\ pc[h] = "credit"
        /\ pc' = [pc EXCEPT ![h] = "book"]
        /\ credited' = [credited EXCEPT ![Order(h)] = @ + req[h].amount]
        /\ UNCHANGED <<req, booked>>
    BY <1>4 DEF CreditPosition, Goto, TypeInv, TypeOK, RequestType
  <2>2. Owes(h, o)' = Owes(h, o) + n
    BY <2>1 DEF Owes, Order, TypeInv, TypeOK
  <2>3. \A g \in Handlers \ {h} : Owes(g, o)' = Owes(g, o)
    BY <2>1 DEF Owes, Order
  <2>4. credited'[o] = credited[o] + n
    BY <2>1, <1>2 DEF TypeInv, TypeOK
  <2>5. Undisturbed' => Undisturbed
    BY <2>1 DEF Undisturbed
  <2> HIDE DEF n
  <2>6. Owed(o)' = Owed(o) + n
    BY <2>1, <2>2, <2>3, OwedChanges
  <2> QED BY <1>1, <1>2, <2>1, <2>4, <2>5, <2>6
<1>5. ASSUME NEW h \in Handlers, AddPendingDeposit(h)
      PROVE  /\ booked'[o] + Owed(o)' <= credited'[o]
             /\ Undisturbed' => booked'[o] + Owed(o)' = credited'[o]
  <2> DEFINE n == IF Order(h) = o THEN req[h].amount ELSE 0
  <2>1. /\ n \in Nat /\ pc[h] = "book"
        /\ pc' = [pc EXCEPT ![h] = "stamp"]
        /\ booked' = [booked EXCEPT ![Order(h)] = @ + req[h].amount]
        /\ UNCHANGED <<req, credited>>
    BY <1>5 DEF AddPendingDeposit, Goto, TypeInv, TypeOK, RequestType
  <2>2. Owes(h, o)' = Owes(h, o) + (-n)
    BY <2>1 DEF Owes, Order, TypeInv, TypeOK
  <2>3. \A g \in Handlers \ {h} : Owes(g, o)' = Owes(g, o)
    BY <2>1 DEF Owes, Order
  <2>4. booked'[o] = booked[o] + n
    BY <2>1, <1>2 DEF TypeInv, TypeOK
  <2>5. Undisturbed' => Undisturbed
    BY <2>1 DEF Undisturbed
  <2> HIDE DEF n
  <2>6. -n \in Int
    BY <2>1
  <2>7. Owed(o)' = Owed(o) + (-n)
    BY <2>2, <2>3, <2>6, OwedChanges
  <2> QED BY <1>1, <1>2, <2>1, <2>4, <2>5, <2>7
<1>6. ASSUME NEW h \in Handlers, Crash(h)
      PROVE  /\ booked'[o] + Owed(o)' <= credited'[o]
             /\ Undisturbed' => booked'[o] + Owed(o)' = credited'[o]
  <2> DEFINE n == Owes(h, o)
  <2>1. /\ pc' = [pc EXCEPT ![h] = "crashed"]
        /\ req' = [req EXCEPT ![h] = NoRequest]
        /\ UNCHANGED <<booked, credited>>
    BY <1>6 DEF Crash, Return, dbVars, historyVars
  <2>2. n \in Nat
    BY OwesTyped
  <2>3. Owes(h, o)' = 0
    BY <2>1 DEF Owes, TypeInv, TypeOK
  <2>4. \A g \in Handlers \ {h} : Owes(g, o)' = Owes(g, o)
    BY <2>1 DEF Owes, Order
  <2>5. ~Undisturbed'
    BY <2>1 DEF Undisturbed, TypeInv, TypeOK
  <2>6. Owes(h, o)' = Owes(h, o) + (-n) /\ -n \in Int
    BY <2>2, <2>3
  <2> HIDE DEF n
  <2>7. Owed(o)' = Owed(o) + (-n)
    BY <2>4, <2>6, OwedChanges
  <2> QED BY <1>1, <1>2, <2>1, <2>2, <2>5, <2>7
<1> QED BY <1>3, <1>4, <1>5, <1>6, StepKinds

LEMMA BookingStart == Init => BookingInv
<1> SUFFICES ASSUME Init, NEW o \in Orders
             PROVE  booked[o] + Owed(o) = credited[o] /\ booked[o] + Owed(o) <= credited[o]
  BY DEF BookingInv
<1> DEFINE owes == [h \in Handlers |-> Owes(h, o)]
<1>1. IsFiniteSet(Handlers) /\ \A h \in Handlers : owes[h] = 0
  BY ConstantsAssumption DEF Init, Owes
<1>2. SumOver(owes, Handlers) = 0
  <2> HIDE DEF owes
  <2> QED BY ONLY <1>1, SumOfZeros
<1>3. booked[o] = 0 /\ credited[o] = 0
  BY DEF Init
<1> QED BY <1>2, <1>3 DEF Owed

(* What the vaults lack of an order is always on its way, or lost with a     *)
(* handler that died.                                                        *)
THEOREM BookingInvariance == Spec => []BookingInv
BY BookingStart, BookingStep, TypeInvariance, PTL DEF Spec

(* The vaults never hold money of an order that its owner's position does    *)
(* not show, whatever interleaves or dies: the position is written first.    *)
THEOREM BookingFollows == Spec => []BookingFollowsCredit
<1>1. TypeInv /\ BookingInv => BookingFollowsCredit
  <2> SUFFICES ASSUME TypeInv, BookingInv, NEW o \in Orders
               PROVE  booked[o] <= credited[o]
    BY DEF BookingFollowsCredit
  <2>1. booked[o] \in Nat /\ credited[o] \in Nat /\ Owed(o) \in Nat
    BY OwedTyped DEF TypeInv, TypeOK
  <2> QED BY <2>1 DEF BookingInv
<1> QED BY <1>1, TypeInvariance, BookingInvariance, PTL

(* When no handler is in flight and none has died, the two ledgers agree     *)
(* order by order: no request stops between the position and the vault.      *)
THEOREM LedgersAgree == Spec => []LedgersAgreeAtRest
<1>1. TypeInv /\ BookingInv => LedgersAgreeAtRest
  <2> SUFFICES ASSUME TypeInv, BookingInv, Quiescent, Undisturbed, NEW o \in Orders
               PROVE  booked[o] = credited[o]
    BY DEF LedgersAgreeAtRest
  <2> DEFINE owes == [h \in Handlers |-> Owes(h, o)]
  <2>1. IsFiniteSet(Handlers) /\ \A h \in Handlers : owes[h] = 0
    BY ConstantsAssumption DEF Quiescent, InFlight, Running, Owes
  <2>2. SumOver(owes, Handlers) = 0
    <3> HIDE DEF owes
    <3> QED BY ONLY <2>1, SumOfZeros
  <2>3. Owed(o) = 0
    BY <2>2 DEF Owed
  <2>4. booked[o] \in Nat /\ booked[o] + Owed(o) = credited[o]
    BY DEF BookingInv, TypeInv, TypeOK
  <2> QED BY <2>3, <2>4
<1> QED BY <1>1, TypeInvariance, BookingInvariance, PTL

-----------------------------------------------------------------------------
(* Entry indexes.                                                          *)

(* Of two factors of the same positive number the larger gives the more.    *)
LEMMA ProductIsNat ==
    ASSUME NEW x \in Nat, NEW y \in Nat
    PROVE  x * y \in Nat
  OBVIOUS

LEMMA ProductMonotone ==
    ASSUME NEW x \in Nat, NEW y \in Nat, NEW d \in Nat, x <= y
    PROVE  d * x <= d * y
  OBVIOUS

LEMMA Cancel ==
    ASSUME NEW x \in Nat, NEW y \in Nat, NEW d \in Nat \ {0}, d * x <= d * y
    PROVE  x <= y
  OBVIOUS

LEMMA CancelStrictly ==
    ASSUME NEW x \in Nat, NEW y \in Nat, NEW d \in Nat, d * x < d * y
    PROVE  x < y
<1>1. CASE y <= x
  <2>1. d * y <= d * x
    BY <1>1, ProductMonotone
  <2>2. d * x \in Nat /\ d * y \in Nat
    BY ProductIsNat
  <2> QED BY <2>1, <2>2
<1> QED BY <1>1

(* A truncated quotient keeps the bounds of what it divides.                *)
LEMMA QuotientBetween ==
    ASSUME NEW n \in Nat, NEW d \in Nat \ {0}, NEW lo \in Nat, NEW hi \in Nat,
           d * lo <= n, n <= d * hi
    PROVE  n \div d \in Nat /\ lo <= n \div d /\ n \div d <= hi
<1> DEFINE q == n \div d
<1>1. q \in Nat /\ d * q <= n /\ n < d * (q + 1)
  OBVIOUS
<1> HIDE DEF q
<1>2. /\ d * q \in Nat /\ d * (q + 1) \in Nat
      /\ d * lo \in Nat /\ d * hi \in Nat
  BY <1>1, ProductIsNat
<1>3. d * lo < d * (q + 1) /\ d * q <= d * hi
  BY <1>1, <1>2
<1>4. lo < q + 1
  BY <1>1, <1>3, CancelStrictly
<1>5. q <= hi
  BY <1>1, <1>3, Cancel
<1> QED BY <1>1, <1>4, <1>5 DEF q

(* The weighted mean of two indexes lies between them; of an empty position *)
(* only the new index counts.                                               *)
LEMMA WeightedIndexBetween ==
    ASSUME NEW old \in Nat, NEW entry \in Nat, NEW amount \in Nat \ {0}, NEW growth \in Nat,
           NEW lo \in Nat, NEW hi \in Nat, lo <= growth, growth <= hi,
           old = 0 \/ (lo <= entry /\ entry <= hi)
    PROVE  LET e == CalculateWeightedIndex(old, entry, amount, growth)
           IN  lo <= e /\ e <= hi
<1> DEFINE n == old * entry + amount * growth
           d == old + amount
<1>1. /\ old * entry \in Nat /\ amount * growth \in Nat
      /\ old * lo \in Nat /\ amount * lo \in Nat
      /\ old * hi \in Nat /\ amount * hi \in Nat
  BY ProductIsNat
<1>2. amount * lo <= amount * growth /\ amount * growth <= amount * hi
  BY ProductMonotone
<1>3. old * lo <= old * entry /\ old * entry <= old * hi
  <2>1. CASE old = 0
    BY <2>1
  <2>2. CASE lo <= entry /\ entry <= hi
    BY <2>2, ProductMonotone
  <2> QED BY <2>1, <2>2
<1>4. d * lo = old * lo + amount * lo /\ d * hi = old * hi + amount * hi
  OBVIOUS
<1>5. d * lo <= n /\ n <= d * hi /\ n \in Nat /\ d \in Nat \ {0}
  <2> HIDE DEF d
  <2>1. d * lo <= n /\ n <= d * hi /\ n \in Nat
    BY <1>1, <1>2, <1>3, <1>4
  <2> QED BY <2>1 DEF d
<1>6. CalculateWeightedIndex(old, entry, amount, growth) = n \div d
  BY <1>5 DEF CalculateWeightedIndex
<1> HIDE DEF n, d
<1> QED BY <1>5, <1>6, QuotientBetween

(* The growth index is at least 1.0 and at most the best of the indexes it  *)
(* is the mean of.                                                          *)
LEMMA GrowthBetween ==
    ASSUME NEW V, IsFiniteSet(V), V # {}, NEW aum \in [V -> Nat], NEW idx \in [V -> Nat],
           \A v \in V : Scale <= idx[v], NEW g \in Nat, IsGrowthIndex(g, aum, idx)
    PROVE  Scale <= g /\ \E v \in V : g <= idx[v]
<1> DEFINE weighted == [v \in V |-> aum[v] * idx[v]]
           floor == [v \in V |-> aum[v] * Scale]
           total == SumOver(aum, V)
           sum == SumOver(weighted, V)
<1>1. Scale \in Nat \ {0}
  BY ScaleAssumption
<1>2. TotalAUM(aum) = total /\ WeightedIndexSum(aum, idx) = sum
  BY DEF TotalAUM, WeightedIndexSum
<1>3. \A v \in V : /\ aum[v] \in Int /\ aum[v] \in Nat
                   /\ weighted[v] \in Nat /\ weighted[v] \in Int
                   /\ floor[v] \in Int /\ floor[v] = aum[v] * Scale
  BY <1>1, ProductIsNat
<1>4. total \in Nat
  <2>1. \A v \in V : aum[v] \in Nat
    OBVIOUS
  <2> QED BY ONLY <2>1, IsFiniteSet(V), SumIsNat
<1>5. sum \in Nat
  <2>1. \A v \in V : weighted[v] \in Nat
    BY <1>3
  <2> HIDE DEF weighted
  <2> QED BY ONLY <2>1, IsFiniteSet(V), SumIsNat
<1>6. CASE total = 0
  <2>1. g = Scale
    BY <1>2, <1>6 DEF IsGrowthIndex
  <2> QED BY <1>1, <2>1
<1>7. CASE total # 0
  <2>1. g * total <= sum /\ sum < (g + 1) * total
    BY <1>2, <1>7 DEF IsGrowthIndex
  <2>2. total * Scale <= sum
    <3>1. SumOver(floor, V) = total * Scale
      <4>1. (\A v \in V : aum[v] \in Int) /\ (\A v \in V : floor[v] = aum[v] * Scale)
            /\ Scale \in Int
        BY <1>1, <1>3
      <4> HIDE DEF floor
      <4> QED BY ONLY <4>1, IsFiniteSet(V), SumOfMultiples
    <3>2. \A v \in V : floor[v] \in Int /\ weighted[v] \in Int /\ floor[v] <= weighted[v]
      <4> SUFFICES ASSUME NEW v \in V PROVE floor[v] <= weighted[v]
        BY <1>3
      <4> QED BY <1>1, ProductMonotone
    <3>3. SumOver(floor, V) <= sum
      <4> HIDE DEF floor, weighted
      <4> QED BY ONLY <3>2, IsFiniteSet(V), SumIsOrdered
    <3> QED BY <3>1, <3>3
  <2>3. Scale <= g
    <3> HIDE DEF total, sum
    <3>1. total * Scale \in Nat /\ total * (g + 1) \in Nat
      BY <1>1, <1>4, ProductIsNat
    <3>2. total * Scale < total * (g + 1)
      BY <1>4, <1>5, <2>1, <2>2, <3>1
    <3>3. Scale < g + 1
      BY <1>1, <1>4, <3>2, CancelStrictly
    <3> QED BY <1>1, <3>3
  <2>4. ASSUME \A v \in V : ~ (g <= idx[v])
        PROVE  FALSE
    <3> DEFINE k == g - 1
               ceiling == [v \in V |-> aum[v] * k]
    <3>1. \A v \in V : idx[v] <= k
      BY <2>4
    <3>2. k \in Nat
      BY <1>1, <2>3
    <3>3. SumOver(ceiling, V) = total * k
      <4>1. (\A v \in V : aum[v] \in Int) /\ (\A v \in V : ceiling[v] = aum[v] * k) /\ k \in Int
        BY <1>3, <3>2
      <4> HIDE DEF ceiling, k
      <4> QED BY ONLY <4>1, IsFiniteSet(V), SumOfMultiples
    <3>4. \A v \in V : weighted[v] \in Int /\ ceiling[v] \in Int /\ weighted[v] <= ceiling[v]
      <4> SUFFICES ASSUME NEW v \in V
                   PROVE  aum[v] * k \in Int /\ aum[v] * idx[v] <= aum[v] * k
        BY <1>3
      <4> HIDE DEF k
      <4> QED BY <3>1, <3>2, ProductIsNat, ProductMonotone
    <3>5. sum <= SumOver(ceiling, V)
      <4> HIDE DEF ceiling, weighted
      <4> QED BY ONLY <3>4, IsFiniteSet(V), SumIsOrdered
    <3>6. sum <= total * k /\ total * g <= sum
      <4>1. total * g = g * total
        <5> HIDE DEF total
        <5> QED BY <1>4
      <4> QED BY <2>1, <3>3, <3>5, <4>1
    <3> HIDE DEF total, sum
    <3>7. total * g <= total * k
      <4> HIDE DEF k
      <4>1. total * g \in Nat /\ total * k \in Nat
        BY <1>4, <3>2, ProductIsNat
      <4> QED BY <1>5, <3>6, <4>1
    <3>8. g <= k
      <4> HIDE DEF k
      <4> QED BY <1>4, <1>7, <3>2, <3>7, Cancel DEF total
    <3> QED BY <3>8
  <2> QED BY <2>3, <2>4
<1> QED BY <1>6, <1>7

(* An index some vault of the client has had by now.                       *)
Grown(e) == Scale <= e /\ \E v \in Vaults : e <= index[v]

RowInRange(row) == IF row.exists THEN Grown(row.entry) ELSE row.deposited = 0

Paying(h) == pc[h] \in {"verify", "markCompleted", "readGrowth", "readUser",
                        "readPosition", "credit"}

(* The strengthening: what handlers have read is in range too, whatever has *)
(* changed since, and they credit more than nothing.                        *)
EntryInv ==
    /\ \A v \in Vaults : Scale <= index[v]
    /\ \A a \in Accounts : RowInRange(position[a])
    /\ \A h \in Handlers :
          /\ Paying(h) => req[h].amount \in Amounts
          /\ pc[h] \in {"readUser", "readPosition", "credit"} => Grown(seen[h].growth)
          /\ pc[h] = "credit" => RowInRange(seen[h].position)


(* Vaults only grow, so what has been in range stays in range.             *)
LEMMA GrownStays ==
    ASSUME TypeInv, \A v \in Vaults : index'[v] \in Nat /\ index[v] <= index'[v],
           NEW e \in Nat, Grown(e)
    PROVE  Grown(e)'
<1>1. PICK v \in Vaults : e <= index[v]
  BY DEF Grown
<1>2. index[v] \in Nat /\ index'[v] \in Nat /\ index[v] <= index'[v]
  BY DEF TypeInv, TypeOK
<1>3. e <= index'[v]
  BY <1>1, <1>2
<1> QED BY <1>3 DEF Grown

LEMMA RowStays ==
    ASSUME TypeInv, \A v \in Vaults : index'[v] \in Nat /\ index[v] <= index'[v],
           NEW row \in PositionType, RowInRange(row)
    PROVE  RowInRange(row)'
BY GrownStays DEF RowInRange, PositionType

(* No statement of a handler changes an index.                              *)
LEMMA IndexStays ==
    ASSUME TypeInv, index' = index
    PROVE  /\ \A e : Grown(e)' = Grown(e)
           /\ \A row : RowInRange(row)' = RowInRange(row)
BY DEF Grown, RowInRange

(* The index a credit writes is between what the handler has read of the    *)
(* position and of the vaults.                                              *)
LEMMA EntryInRange ==
    ASSUME TypeInv, EntryInv, NEW h \in Handlers, pc[h] = "credit"
    PROVE  Grown(NewEntryIndex(h))
<1> DEFINE row == seen[h].position
           g == seen[h].growth
           amount == req[h].amount
<1>1. /\ row.deposited \in Nat /\ row.entry \in Nat /\ g \in Nat
      /\ amount \in Nat \ {0}
      /\ row.exists \in BOOLEAN
  BY ConstantsAssumption DEF TypeInv, TypeOK, SeenType, PositionType, EntryInv, Paying
<1>2. Grown(g) /\ RowInRange(row)
  BY DEF EntryInv
<1>3. PICK v \in Vaults : g <= index[v]
  BY <1>2 DEF Grown
<1>4. \A w \in Vaults : index[w] \in Nat
  BY DEF TypeInv, TypeOK
<1>5. Scale \in Nat /\ Scale <= g
  BY <1>2, ScaleAssumption DEF Grown
<1>6. NewEntryIndex(h) = CalculateWeightedIndex(row.deposited, row.entry, amount, g)
  BY DEF NewEntryIndex
<1> HIDE DEF row, g, amount
<1>7. CASE ~row.exists
  <2>1. row.deposited = 0
    BY <1>2, <1>7, Zenon DEF RowInRange
  <2>2. Scale <= NewEntryIndex(h) /\ NewEntryIndex(h) <= index[v]
    BY <1>1, <1>3, <1>4, <1>5, <1>6, <2>1, WeightedIndexBetween
  <2> QED BY <2>2 DEF Grown
<1>8. CASE row.exists
  <2>1. Grown(row.entry)
    BY <1>2, <1>8, Zenon DEF RowInRange
  <2>2. PICK w \in Vaults : row.entry <= index[w]
    BY <2>1 DEF Grown
  <2>3. Scale <= row.entry
    BY <2>1 DEF Grown
  <2>4. PICK top \in {v, w} : index[v] <= index[top] /\ index[w] <= index[top]
    BY <1>4
  <2>5. g <= index[top] /\ row.entry <= index[top] /\ index[top] \in Nat /\ top \in Vaults
    BY <1>1, <1>3, <1>4, <2>2, <2>4
  <2>6. Scale <= NewEntryIndex(h) /\ NewEntryIndex(h) <= index[top]
    BY <1>1, <1>5, <1>6, <2>3, <2>5, WeightedIndexBetween
  <2> QED BY <2>5, <2>6 DEF Grown
<1> QED BY <1>7, <1>8

LEMMA EntryStep == ASSUME Vaults # {} PROVE TypeInv /\ EntryInv /\ [Next]_vars => EntryInv'
<1> SUFFICES ASSUME TypeInv, EntryInv, [Next]_vars PROVE EntryInv'
  OBVIOUS
<1> DEFINE Rest(h) == /\ Paying(h) => req[h].amount \in Amounts
                      /\ pc[h] \in {"readUser", "readPosition", "credit"} => Grown(seen[h].growth)
                      /\ pc[h] = "credit" => RowInRange(seen[h].position)
<1>1. CASE UNCHANGED vars
  BY <1>1 DEF vars, EntryInv, Paying, Grown, RowInRange
<1>2. ASSUME NEW a \in Accounts, ActivateUser(a)
      PROVE  EntryInv'
  <2> DEFINE empty == [exists |-> TRUE, deposited |-> 0, entry |-> Scale]
  <2>1. /\ position' = [position EXCEPT ![a] = empty]
        /\ UNCHANGED <<index, pc, req, seen>>
    BY <1>2 DEF ActivateUser
  <2>2. RowInRange(empty)
    <3>1. PICK v \in Vaults : Scale <= index[v]
      BY DEF EntryInv
    <3> QED BY <3>1, ScaleAssumption DEF RowInRange, Grown
  <2>3. \A b \in Accounts : RowInRange(position'[b])
    <3> HIDE DEF empty
    <3> QED BY <2>1, <2>2 DEF EntryInv, TypeInv, TypeOK
  <2>4. \A b \in Accounts : RowInRange(position[b])'
    BY <2>1, <2>3, IndexStays
  <2> QED BY <2>1, <2>4, IndexStays DEF EntryInv, Paying
<1>3. ASSUME NEW v \in Vaults, AccrueIndex(v)
      PROVE  EntryInv'
  <2>1. /\ index' = [index EXCEPT ![v] = @ + 1]
        /\ UNCHANGED <<position, pc, req, seen>>
    BY <1>3 DEF AccrueIndex
  <2>2. \A w \in Vaults : index'[w] \in Nat /\ index[w] <= index'[w]
    BY <2>1 DEF TypeInv, TypeOK
  <2>3. \A w \in Vaults : Scale <= index'[w]
    <3>1. \A w \in Vaults : Scale <= index[w] /\ index[w] \in Nat
      BY DEF EntryInv, TypeInv, TypeOK
    <3> QED BY <3>1, <2>2, ScaleAssumption
  <2>4. \A a \in Accounts : RowInRange(position[a])'
    <3>1. \A a \in Accounts : RowInRange(position[a]) /\ position[a] \in PositionType
      BY DEF EntryInv, TypeInv, TypeOK
    <3>2. \A a \in Accounts : RowInRange(position[a])'
      BY <2>1, <2>2, <3>1, RowStays DEF RowInRange, Grown
    <3> QED BY <3>2
  <2>5. ASSUME NEW h \in Handlers
        PROVE  Rest(h)'
    <3>1. seen[h].growth \in Nat /\ seen[h].position \in PositionType /\ Rest(h)
      BY DEF EntryInv, TypeInv, TypeOK, SeenType
    <3>2. UNCHANGED <<pc, req, seen>>
      BY <2>1
    <3>3. Grown(seen[h].growth) => Grown(seen[h].growth)'
      BY <2>2, <3>1, <3>2, GrownStays DEF Grown
    <3>4. RowInRange(seen[h].position) => RowInRange(seen[h].position)'
      BY <2>2, <3>1, <3>2, RowStays DEF RowInRange, Grown
    <3> QED BY <3>1, <3>2, <3>3, <3>4 DEF Paying
  <2> QED BY <2>3, <2>4, <2>5 DEF EntryInv
<1>4. ASSUME NEW o \in Orders, CreateDeposit(o)
      PROVE  EntryInv'
  BY <1>4, IndexStays DEF CreateDeposit, EntryInv, Paying
<1>5. ASSUME NEW h \in Handlers, Requests(h) \/ Statement(h) \/ Crash(h)
      PROVE  EntryInv'
  <2>1. index' = index
    BY <1>5 DEF Requests, BeginComplete, Reject, BeginFail, Statement, VerifyTransfer, MarkFailed,
           MarkCompleted, ReadGrowth, ReadUser, ReadPosition, CreditPosition, InsertCollides,
           AddPendingDeposit, MarkFirstDeposit, Crash, dbVars
  <2>2. \A g \in Handlers \ {h} : pc'[g] = pc[g] /\ req'[g] = req[g] /\ seen'[g] = seen[g]
    BY <1>5 DEF Requests, BeginComplete, Reject, BeginFail, Statement, VerifyTransfer, MarkFailed,
           MarkCompleted, ReadGrowth, ReadUser, ReadPosition, CreditPosition, InsertCollides,
           AddPendingDeposit, MarkFirstDeposit, Crash, Goto, Return,
           TypeInv, TypeOK
  <2>3. \A g \in Handlers \ {h} : Rest(g)'
    BY <2>1, <2>2, IndexStays DEF EntryInv, Paying
  <2>4. \A v \in Vaults : Scale <= index'[v]
    BY <2>1 DEF EntryInv
  <2>5. SUFFICES (\A a \in Accounts : RowInRange(position[a])') /\ Rest(h)'
    BY <2>3, <2>4 DEF EntryInv
  <2>6. position' = position => \A a \in Accounts : RowInRange(position[a])'
    BY <2>1, IndexStays DEF EntryInv
  <2>7. pc'[h] \notin {"verify", "markCompleted", "readGrowth", "readUser",
                       "readPosition", "credit"} => Rest(h)'
    BY DEF Paying
  <2>8. pc'[h] \notin {"readUser", "readPosition", "credit"} /\ req'[h].amount \in Amounts
           => Rest(h)'
    BY DEF Paying
  <2> HIDE DEF Rest
  <2>9. CASE Requests(h)
    <3>1. position' = position
      BY <2>9 DEF Requests, BeginComplete, Reject, BeginFail, dbVars
    <3>2. ASSUME NEW o \in Orders, NEW v \in Vaults, NEW amount \in Amounts,
                 NEW kind \in RequestKinds, BeginComplete(h, o, v, amount, kind)
          PROVE  Rest(h)'
      BY <3>2, <2>8 DEF BeginComplete, Goto, TypeInv, TypeOK
    <3>3. ASSUME NEW o \in Orders, NEW v, Reject(h, o, v) PROVE Rest(h)'
      BY <3>3, <2>7 DEF Reject, Return, TypeInv, TypeOK
    <3>4. ASSUME NEW o \in Orders, BeginFail(h, o) PROVE Rest(h)'
      BY <3>4, <2>7 DEF BeginFail, Goto, TypeInv, TypeOK
    <3> QED BY <2>6, <2>9, <3>1, <3>2, <3>3, <3>4 DEF Requests
  <2>10. ASSUME NEW verified \in BOOLEAN, VerifyTransfer(h, verified)
         PROVE  position' = position /\ Rest(h)'
    BY <2>10, <2>7, <2>8 DEF VerifyTransfer, Goto, dbVars, TypeInv, TypeOK, EntryInv, Paying
  <2>11. CASE MarkFailed(h)
    BY <2>11, <2>6, <2>7 DEF MarkFailed, Return, TypeInv, TypeOK
  <2>12. CASE MarkCompleted(h)
    BY <2>12, <2>6, <2>8 DEF MarkCompleted, Goto, TypeInv, TypeOK, EntryInv, Paying
  <2>13. CASE ReadGrowth(h)
    <3>1. PICK g \in 0 .. MaxIndex : IsGrowthIndex(g, pending, index)
                                     /\ seen' = [seen EXCEPT ![h].growth = g]
      BY <2>13 DEF ReadGrowth
    <3>2. g \in Nat /\ Grown(g)
      <4>1. /\ IsFiniteSet(Vaults) /\ g \in Nat
            /\ pending \in [Vaults -> Nat] /\ index \in [Vaults -> Nat]
            /\ \A v \in Vaults : Scale <= index[v]
        BY ConstantsAssumption DEF TypeInv, TypeOK, EntryInv
      <4> QED BY <3>1, <4>1, GrowthBetween DEF Grown
    <3>3. /\ pc[h] = "readGrowth" /\ pc' = [pc EXCEPT ![h] = "readUser"]
          /\ UNCHANGED <<position, req>>
      BY <2>13 DEF ReadGrowth, Goto, dbVars
    <3>4. seen'[h].growth = g /\ pc'[h] = "readUser"
      BY <3>1, <3>3 DEF TypeInv, TypeOK, SeenType
    <3>5. Grown(seen[h].growth)'
      BY <2>1, <3>2, <3>4, IndexStays DEF Grown
    <3>6. Rest(h)'
      BY <3>3, <3>4, <3>5 DEF Rest, EntryInv, Paying
    <3> QED BY <2>6, <3>3, <3>6
  <2>14. ASSUME ReadUser(h) \/ ReadPosition(h)
         PROVE  Rest(h)' /\ position' = position
    <3>1. /\ pc[h] \in {"readUser", "readPosition"} /\ UNCHANGED <<position, req>>
          /\ seen'[h].growth = seen[h].growth
      BY <2>14 DEF ReadUser, ReadPosition, dbVars, TypeInv, TypeOK, SeenType
    <3>2. Grown(seen[h].growth)'
      BY <2>1, <3>1, IndexStays DEF EntryInv, Grown
    <3>3. req'[h].amount \in Amounts
      BY <3>1 DEF EntryInv, Paying
    <3>4. CASE ReadUser(h)
      <4>1. pc'[h] = "readPosition"
        BY <3>4 DEF ReadUser, Goto, TypeInv, TypeOK
      <4> QED BY <3>1, <3>2, <3>3, <4>1 DEF Rest, Paying
    <3>5. CASE ReadPosition(h)
      <4>1. seen'[h].position = position[Account(h)] /\ Account(h) \in Accounts
        BY <3>5, ConstantsAssumption
           DEF ReadPosition, TypeInv, TypeOK, SeenType, Account, Engaged, InFlight, Running
      <4>2. RowInRange(seen[h].position)'
        BY <2>1, <4>1, IndexStays DEF EntryInv, RowInRange, Grown
      <4> QED BY <3>1, <3>2, <3>3, <4>2 DEF Rest, Paying
    <3> QED BY <2>14, <3>1, <3>4, <3>5
  <2>15. CASE CreditPosition(h)
    <3> DEFINE a == Account(h)
               row == [exists |-> TRUE, deposited |-> position[a].deposited + req[h].amount,
                       entry |-> NewEntryIndex(h)]
    <3>1. /\ pc[h] = "credit" /\ pc'[h] = "book"
          /\ position' = [position EXCEPT ![a] = row]
      BY <2>15 DEF CreditPosition, Goto, TypeInv, TypeOK
    <3>2. RowInRange(row)
      BY <3>1, EntryInRange DEF RowInRange
    <3>3. \A b \in Accounts : RowInRange(position'[b])
      <4> HIDE DEF row, a
      <4> QED BY <3>1, <3>2 DEF EntryInv, TypeInv, TypeOK
    <3>4. \A b \in Accounts : RowInRange(position[b])'
      BY <2>1, <3>3, IndexStays DEF RowInRange, Grown
    <3> QED BY <2>7, <3>1, <3>4
  <2>16. ASSUME InsertCollides(h) \/ AddPendingDeposit(h) \/ MarkFirstDeposit(h) \/ Crash(h)
         PROVE  position' = position /\ Rest(h)'
    BY <2>16, <2>7 DEF InsertCollides, AddPendingDeposit, MarkFirstDeposit, Crash, Return, Goto,
                      dbVars, TypeInv, TypeOK
  <2> QED BY <1>5, <2>6, <2>9, <2>10, <2>11, <2>12, <2>13, <2>14, <2>15, <2>16 DEF Statement
<1> QED BY <1>1, <1>2, <1>3, <1>4, <1>5 DEF Next

(* Rows, and what handlers have read of them, stay in range.                 *)
THEOREM EntryInvariance == ASSUME Vaults # {} PROVE Spec => []EntryInv
<1>1. Init => EntryInv
  BY ScaleAssumption DEF Init, EntryInv, RowInRange, NoPosition, Paying
<1> QED BY <1>1, EntryStep, TypeInvariance, PTL DEF Spec

(* An entry index is at least 1.0, so that its CHECK never fires, and at     *)
(* most what a vault of the client has grown to, whatever was stale when it *)
(* was computed.                                                             *)
THEOREM EntriesInRange == ASSUME Vaults # {} PROVE Spec => []EntryIndexInRange
<1>1. EntryInv => EntryIndexInRange
  BY Zenon DEF EntryInv, EntryIndexInRange, RowInRange, Grown
<1> QED BY <1>1, EntryInvariance, PTL

=============================================================================
