------------------------ MODULE SettlementProofs ------------------------
(***************************************************************************)
(* Theorems about Settlement, for every set of orders, products, wallets,  *)
(* batches and requests.  Everything about a batch follows from what its   *)
(* local variables say of the history while it runs (BatchInv), everything *)
(* about two batches from who was in flight with whom (MetInv), everything *)
(* about amounts from what a batch has added up so far (Tally).            *)
(***************************************************************************)
EXTENDS Settlement, SumTheorems, TLAPS

USE ConstantsAssumption DEF ConstantsAssumption, Orders

Holding(b) == pc[b] \in {"recheck", "mark"}

(* A batch that is about to complete an order has one. *)
HoldsOrders == \A b \in Batches : Holding(b) => Current(b) \in Orders

TypeInv == TypeOK /\ HoldsOrders

LEMMA StartType ==
    ASSUME NEW orders \in SUBSET Orders
    PROVE  Start(orders) \in LocalType
  BY DEF Start, LocalType, Environments

(* What Return leaves behind. *)
LEMMA ReturnType ==
    ASSUME TypeOK, NEW b \in Batches, NEW outcome \in Ended, Return(b, outcome)
    PROVE  /\ pc' \in [Batches -> {"idle"} \cup Running \cup Ended]
           /\ local' \in [Batches -> LocalType]
  BY StartType DEF Return, TypeOK

LEMMA GotoType ==
    ASSUME TypeOK, NEW b \in Batches, NEW label \in Running, Goto(b, label)
    PROVE  pc' \in [Batches -> {"idle"} \cup Running \cup Ended]
  BY DEF Goto, TypeOK

LEMMA RunningLabels ==
    /\ \A l \in {"lookup", "recheck", "mark", "book", "move", "receipts"} : l \in Running
    /\ \A l \in {"done", "failed"} : l \in Ended
  BY DEF Running, Ended

LEMMA CountedType ==
    ASSUME TypeOK, NEW b \in Batches, Current(b) \in Orders
    PROVE  Counted(b) \in LocalType
  <1>1. local[b] \in LocalType /\ Amount[Current(b)] \in Nat /\ Rounded[Current(b)] \in Nat
        /\ ProductOf[Current(b)] \in Products
    BY DEF TypeOK
  <1>2. local[b].total + Amount[Current(b)] \in Nat
    BY <1>1 DEF LocalType
  <1>3. [local[b].sums EXCEPT ![ProductOf[Current(b)]] = @ + Rounded[Current(b)]]
          \in [Products -> Nat]
    BY <1>1 DEF LocalType
  <1>4. local[b].done \cup {Current(b)} \in SUBSET Orders
        /\ local[b].due \cup {ProductOf[Current(b)]} \in SUBSET Products
    BY <1>1 DEF LocalType
  <1> QED BY <1>1, <1>2, <1>3, <1>4 DEF Counted, LocalType

(* Parts come to a number of cents, the nearest one.                         *)
LEMMA ToCentsTyped ==
    ASSUME NEW parts \in Nat, NEW n \in ToCents(parts)
    PROVE  n \in Nat /\ IsNearest(n, parts)
  <1>1. parts \div PerCent \in Nat
    <2>1. PerCent \in Nat \ {0}
      OBVIOUS
    <2> QED BY ONLY <2>1, parts \in Nat
  <1> DEFINE q == parts \div PerCent
  <1>2. n \in {q, q + 1} /\ IsNearest(n, parts)
    BY DEF ToCents
  <1> HIDE DEF q
  <1> QED BY <1>1, <1>2 DEF q

LEMMA HoldsFrame ==
    ASSUME HoldsOrders, NEW b \in Batches, ~Holding(b)',
           \A c \in Batches \ {b} : pc'[c] = pc[c] /\ local'[c] = local[c]
    PROVE  HoldsOrders'
  BY DEF HoldsOrders, Holding, Current

LEMMA HoldsReturn ==
    ASSUME TypeInv, NEW b \in Batches, NEW outcome \in Ended, Return(b, outcome)
    PROVE  HoldsOrders'
  <1>1. /\ pc'[b] \in Ended
        /\ \A c \in Batches \ {b} : pc'[c] = pc[c] /\ local'[c] = local[c]
    BY DEF TypeInv, TypeOK, Return
  <1> QED BY <1>1, HoldsFrame DEF TypeInv, Holding, Ended

(* Every step keeps the types, and a batch never reaches "mark" without an   *)
(* order.                                                                    *)
LEMMA TypeStep == TypeInv /\ [Next]_vars => TypeInv'
  <1> SUFFICES ASSUME TypeInv, [Next]_vars PROVE TypeInv'
    OBVIOUS
  <1> USE RunningLabels
  <1>u. CASE UNCHANGED vars
    BY <1>u DEF TypeInv, TypeOK, HoldsOrders, Holding, Current, vars
  <1>1. ASSUME NEW b \in Batches, NEW r \in Requests, BeginBatch(b, r) PROVE TypeInv'
    <2>1. r.orders \in SUBSET Orders
      BY DEF RequestType
    <2>2. Start(r.orders) \in LocalType
      BY <2>1, StartType
    <2>3. pc' \in [Batches -> {"idle"} \cup Running \cup Ended]
      BY <1>1, GotoType DEF TypeInv, BeginBatch
    <2>4. local' \in [Batches -> LocalType] /\ req' \in [Batches -> Requests \cup {NoRequest}]
      BY <1>1, <2>2 DEF TypeInv, TypeOK, BeginBatch
    <2>5. met' \subseteq Batches \X Batches
      BY <1>1 DEF TypeInv, TypeOK, BeginBatch
    <2>6. TypeOK'
      BY <1>1, <2>3, <2>4, <2>5 DEF TypeInv, TypeOK, BeginBatch, dbVars
    <2>7. HoldsOrders'
      BY <1>1 DEF TypeInv, TypeOK, HoldsOrders, Holding, Current, BeginBatch, Goto
    <2> QED BY <2>6, <2>7 DEF TypeInv
  <1>2. ASSUME NEW b \in Batches, NEW r \in Requests, NEW o \in Orders, BeginSingle(b, r, o)
        PROVE  TypeInv'
    <2>1. [Start({}) EXCEPT !.order = o] \in LocalType
      BY DEF Start, LocalType, Environments
    <2>2. local' \in [Batches -> LocalType] /\ req' \in [Batches -> Requests \cup {NoRequest}]
          /\ pc' \in [Batches -> {"idle"} \cup Running \cup Ended]
      BY <1>2, <2>1, GotoType DEF TypeInv, TypeOK, BeginSingle
    <2>3. met' \subseteq Batches \X Batches
      BY <1>2 DEF TypeInv, TypeOK, BeginSingle
    <2>4. TypeOK'
      BY <1>2, <2>2, <2>3 DEF TypeInv, TypeOK, BeginSingle, dbVars
    <2>5. local'[b].order = o
      BY <1>2 DEF TypeInv, TypeOK, BeginSingle, Start
    <2>6. HoldsOrders'
      BY <1>2, <2>5 DEF TypeInv, TypeOK, HoldsOrders, Holding, Current, BeginSingle, Goto
    <2> QED BY <2>4, <2>6 DEF TypeInv
  <1>3. ASSUME NEW b \in Batches, NEW o \in Orders, Lookup(b, o) PROVE TypeInv'
    <2>1. local[b] \in LocalType /\ Environment[o] \in Environments
      BY DEF TypeInv, TypeOK
    <2>2. CASE Wanted(b, o)
      <3> DEFINE row == [local[b] EXCEPT !.todo = @ \ {o}, !.order = o,
                           !.env = IF local[b].done = {} THEN Environment[o] ELSE @]
      <3>1. row \in LocalType /\ row.order = o
        BY <2>1 DEF LocalType
      <3>2. local' = [local EXCEPT ![b] = row]
        BY <1>3, <2>2 DEF Lookup
      <3>3. local' \in [Batches -> LocalType] /\ local'[b].order = o
            /\ \A c \in Batches \ {b} : local'[c] = local[c]
        BY <3>1, <3>2 DEF TypeInv, TypeOK
      <3>4. TypeOK'
        BY <1>3, <2>2, <3>3, GotoType DEF TypeInv, TypeOK, Lookup, dbVars, historyVars
      <3>5. HoldsOrders'
        BY <1>3, <2>2, <3>3 DEF TypeInv, TypeOK, HoldsOrders, Holding, Current, Lookup, Goto
      <3> QED BY <3>4, <3>5 DEF TypeInv
    <2>3. CASE ~Wanted(b, o)
      <3> DEFINE row == [local[b] EXCEPT !.todo = @ \ {o}]
      <3>1. row \in LocalType
        BY <2>1 DEF LocalType
      <3>2. local' = [local EXCEPT ![b] = row] /\ pc' = pc
        BY <1>3, <2>3 DEF Lookup
      <3>3. local' \in [Batches -> LocalType] /\ \A c \in Batches \ {b} : local'[c] = local[c]
        BY <3>1, <3>2 DEF TypeInv, TypeOK
      <3>4. TypeOK'
        BY <1>3, <3>2, <3>3 DEF TypeInv, TypeOK, Lookup, dbVars, historyVars
      <3>5. HoldsOrders'
        BY <1>3, <3>2, <3>3 DEF TypeInv, HoldsOrders, Holding, Current, Lookup
      <3> QED BY <3>4, <3>5 DEF TypeInv
    <2> QED BY <2>2, <2>3
  <1>4. ASSUME NEW b \in Batches, Recheck(b) PROVE TypeInv'
    <2>1. TypeOK'
      <3>1. pc' \in [Batches -> {"idle"} \cup Running \cup Ended]
            /\ local' \in [Batches -> LocalType]
        BY <1>4, GotoType, ReturnType DEF TypeInv, TypeOK, Recheck
      <3> QED BY <1>4, <3>1 DEF TypeInv, TypeOK, Recheck, dbVars, historyVars
    <2>2. HoldsOrders'
      BY <1>4 DEF TypeInv, TypeOK, HoldsOrders, Holding, Current, Recheck, Goto, Return
    <2> QED BY <2>1, <2>2 DEF TypeInv
  <1>5. ASSUME NEW b \in Batches, Mark(b) PROVE TypeInv'
    <2>1. Current(b) \in Orders
      BY <1>5 DEF TypeInv, HoldsOrders, Holding, Mark
    <2>2. pc' \in [Batches -> {"idle"} \cup Running \cup Ended]
          /\ local' \in [Batches -> LocalType]
      <3>1. CASE IsBatch(b)
        <4>1. Goto(b, "lookup") /\ local' = [local EXCEPT ![b] = Counted(b)]
          BY <1>5, <3>1 DEF Mark
        <4>2. Counted(b) \in LocalType /\ TypeOK
          BY <2>1, CountedType DEF TypeInv
        <4>3. local' \in [Batches -> LocalType]
          BY <4>1, <4>2 DEF TypeOK
        <4> QED BY <4>1, <4>2, <4>3, GotoType
      <3>2. CASE ~IsBatch(b)
        BY <1>5, <3>2, ReturnType DEF TypeInv, Mark
      <3> QED BY <3>1, <3>2
    <2>3. TypeOK'
      BY <1>5, <2>1, <2>2 DEF TypeInv, TypeOK, Mark
    <2>4. HoldsOrders'
      <3>1. /\ pc'[b] \in {"lookup", "done"}
            /\ \A c \in Batches \ {b} : pc'[c] = pc[c] /\ local'[c] = local[c]
        BY <1>5 DEF TypeInv, TypeOK, Mark, Goto, Return
      <3> QED BY <3>1, HoldsFrame DEF TypeInv, Holding
    <2> QED BY <2>3, <2>4 DEF TypeInv
  <1>6. ASSUME NEW b \in Batches, EndLoop(b) PROVE TypeInv'
    <2>1. pc' \in [Batches -> {"idle"} \cup Running \cup Ended]
          /\ local' \in [Batches -> LocalType]
      BY <1>6, GotoType, ReturnType DEF TypeInv, TypeOK, EndLoop
    <2>2. TypeOK'
      BY <1>6, <2>1 DEF TypeInv, TypeOK, EndLoop, dbVars, historyVars
    <2>3. HoldsOrders'
      <3>1. /\ pc'[b] \in {"book", "done", "failed"}
            /\ \A c \in Batches \ {b} : pc'[c] = pc[c] /\ local'[c] = local[c]
        BY <1>6 DEF TypeInv, TypeOK, EndLoop, Goto, Return
      <3> QED BY <3>1, HoldsFrame DEF TypeInv, Holding
    <2> QED BY <2>2, <2>3 DEF TypeInv
  <1>7. ASSUME NEW b \in Batches, NEW p \in Products, BookProduct(b, p) PROVE TypeInv'
    <2> DEFINE balance == idle[p] + Booking(b) * local[b].sums[p]
    <2>0. local[b] \in LocalType
      BY DEF TypeInv, TypeOK
    <2>1. balance \in Int
      BY <2>0 DEF TypeInv, TypeOK, LocalType, Booking
    <2>2. CASE balance < 0
      <3>1. Return(b, "failed") /\ UNCHANGED <<idle, booked>>
        BY <1>7, <2>2 DEF BookProduct
      <3>2. TypeOK'
        BY <1>7, <3>1, ReturnType DEF TypeInv, TypeOK, BookProduct
      <3>3. HoldsOrders'
        BY <3>1, HoldsReturn
      <3> QED BY <3>2, <3>3 DEF TypeInv
    <2>3. CASE ~(balance < 0)
      <3> DEFINE row == [local[b] EXCEPT !.due = @ \ {p}]
      <3>1. row \in LocalType
        BY <2>0 DEF LocalType
      <3>2. idle' = [idle EXCEPT ![p] = balance] /\ pc' = pc
            /\ local' = [local EXCEPT ![b] = row]
            /\ booked' = [o \in Orders |-> IF o \in local[b].done /\ ProductOf[o] = p
                                           THEN booked[o] \cup {b} ELSE booked[o]]
        BY <1>7, <2>3 DEF BookProduct
      <3>3. balance \in Nat
        BY <2>1, <2>3
      <3>4. idle' \in [Products -> Nat] /\ local' \in [Batches -> LocalType]
            /\ \A c \in Batches \ {b} : local'[c] = local[c]
        BY <3>1, <3>2, <3>3 DEF TypeInv, TypeOK
      <3>b. booked' \in [Orders -> SUBSET Batches]
        BY <3>2 DEF TypeInv, TypeOK
      <3>5. TypeOK'
        BY <1>7, <3>2, <3>4, <3>b DEF TypeInv, TypeOK, BookProduct
      <3>6. HoldsOrders'
        BY <1>7, <3>2, <3>4 DEF TypeInv, HoldsOrders, Holding, Current, BookProduct
      <3> QED BY <3>5, <3>6 DEF TypeInv
    <2> QED BY <2>2, <2>3
  <1>8. ASSUME NEW b \in Batches, EndBooking(b) PROVE TypeInv'
    <2>1. TypeOK'
      BY <1>8, GotoType DEF TypeInv, TypeOK, EndBooking, dbVars, historyVars
    <2>2. HoldsOrders'
      BY <1>8 DEF TypeInv, TypeOK, HoldsOrders, Holding, Current, EndBooking, Goto
    <2> QED BY <2>1, <2>2 DEF TypeInv
  <1>9. ASSUME NEW b \in Batches, Refuse(b) \/ EndReceipts(b) \/ Fail(b) PROVE TypeInv'
    <2>1. PICK outcome \in Ended : Return(b, outcome)
      BY <1>9 DEF Refuse, EndReceipts, Fail
    <2>2. TypeOK'
      BY <1>9, <2>1, ReturnType DEF TypeInv, TypeOK, Refuse, EndReceipts, Fail, dbVars, historyVars
    <2>3. HoldsOrders'
      BY <2>1, HoldsReturn
    <2> QED BY <2>2, <2>3 DEF TypeInv
  <1>10. ASSUME NEW b \in Batches, Transfer(b) PROVE TypeInv'
    <2>n. PICK n \in ToCents(local[b].total) :
             /\ ~Refused(b, n)
             /\ custody' = [custody EXCEPT ![Wallet(b)] = @ + Booking(b) * n]
      BY <1>10 DEF Transfer
    <2> DEFINE amount == Booking(b) * n
    <2>0. local[b] \in LocalType /\ custody \in [Wallets -> Nat]
      BY DEF TypeInv, TypeOK
    <2>1. custody' \in [Wallets -> Nat]
      <3>1. custody' = [custody EXCEPT ![Wallet(b)] = @ + amount]
        BY <2>n
      <3>2. ASSUME Wallet(b) \in Wallets PROVE custody[Wallet(b)] + amount \in Nat
        <4>1. custody[Wallet(b)] \in Nat /\ n \in Nat
          BY <2>0, <2>n, <3>2, ToCentsTyped DEF LocalType
        <4>2. CASE local[b].done \subseteq Deposits
          BY <4>1, <4>2 DEF Booking
        <4>3. CASE ~(local[b].done \subseteq Deposits)
          <5>1. ~(custody[Wallet(b)] < n)
            BY <2>n, <4>3 DEF Refused
          <5> QED BY <4>1, <4>3, <5>1 DEF Booking
        <4> QED BY <4>2, <4>3
      <3> QED BY <2>0, <3>1, <3>2
    <2>2. moved' \in [Orders -> SUBSET Batches]
      BY <1>10 DEF Transfer, TypeInv, TypeOK
    <2> DEFINE row == [local[b] EXCEPT !.todo = local[b].done]
    <2>3. row \in LocalType
      BY <2>0 DEF LocalType
    <2>4. pc' \in [Batches -> {"idle"} \cup Running \cup Ended]
          /\ local' \in [Batches -> LocalType] /\ HoldsOrders'
      <3>1. CASE \E outcome \in Ended : Return(b, outcome)
        <4>1. PICK outcome \in Ended : Return(b, outcome)
          BY <3>1
        <4>2. HoldsOrders'
          BY <4>1, HoldsReturn
        <4> QED BY <4>1, <4>2, ReturnType DEF TypeInv
      <3>2. CASE Goto(b, "receipts") /\ local' = [local EXCEPT ![b] = row]
        <4>1. local' \in [Batches -> LocalType] /\ \A c \in Batches \ {b} : local'[c] = local[c]
          BY <2>3, <3>2 DEF TypeInv, TypeOK
        <4>2. HoldsOrders'
          BY <3>2, <4>1 DEF TypeInv, TypeOK, HoldsOrders, Holding, Current, Goto
        <4> QED BY <3>2, <4>1, <4>2, GotoType DEF TypeInv
      <3> QED BY <1>10, <3>1, <3>2 DEF Transfer
    <2> QED BY <1>10, <2>1, <2>2, <2>4 DEF TypeInv, TypeOK, Transfer
  <1>11. ASSUME NEW b \in Batches, NEW o \in Deposits, WriteReceipt(b, o) PROVE TypeInv'
    <2> DEFINE row == [local[b] EXCEPT !.todo = @ \ {o}]
    <2>0. local[b] \in LocalType
      BY DEF TypeInv, TypeOK
    <2>1. row \in LocalType
      BY <2>0 DEF LocalType
    <2>2. local' = [local EXCEPT ![b] = row] /\ pc' = pc
      BY <1>11 DEF WriteReceipt
    <2>3. local' \in [Batches -> LocalType] /\ \A c \in Batches \ {b} : local'[c] = local[c]
      BY <2>1, <2>2 DEF TypeInv, TypeOK
    <2>4. txHash' \in [Deposits -> Batches \cup {NoBatch}]
      BY <1>11 DEF TypeInv, TypeOK, WriteReceipt
    <2>5. TypeOK'
      BY <1>11, <2>2, <2>3, <2>4 DEF TypeInv, TypeOK, WriteReceipt, historyVars
    <2>6. HoldsOrders'
      BY <1>11, <2>2, <2>3 DEF TypeInv, HoldsOrders, Holding, Current, WriteReceipt
    <2> QED BY <2>5, <2>6 DEF TypeInv
  <1>12. ASSUME NEW o \in Withdrawals, FailWithdrawal(o) PROVE TypeInv'
    BY <1>12 DEF TypeInv, TypeOK, HoldsOrders, Holding, Current, FailWithdrawal, historyVars
  <1> QED BY <1>u, <1>1, <1>2, <1>3, <1>4, <1>5, <1>6, <1>7, <1>8, <1>9, <1>10, <1>11, <1>12
       DEF Next, Step

LEMMA TypeInit == Init => TypeInv
  <1> SUFFICES ASSUME Init PROVE TypeInv
    OBVIOUS
  <1>1. Start({}) \in LocalType
    BY StartType
  <1>2. TypeOK
    BY <1>1 DEF Init, TypeOK
  <1>3. HoldsOrders
    BY DEF Init, HoldsOrders, Holding
  <1> QED BY <1>2, <1>3 DEF TypeInv

LEMMA TypeInvariance == Spec => []TypeInv
  BY TypeInit, TypeStep, PTL DEF Spec

(* Every variable keeps its type; the point of it is that no idle balance    *)
(* and no wallet goes below zero, however many batches overlap or fail.      *)
THEOREM TypeCorrect == Spec => []TypeOK
  <1>1. TypeInv => TypeOK
    BY DEF TypeInv
  <1> QED BY <1>1, TypeInvariance, PTL

-----------------------------------------------------------------------------
(* What the local variables of a batch say of the history.                 *)

Own(b, history) == {o \in Orders : b \in history[o]}

Untouched(b) == Own(b, completed) = {} /\ Own(b, booked) = {} /\ Own(b, moved) = {}

Collecting(b) ==
    /\ Own(b, completed) = local[b].done
    /\ Own(b, booked) = {} /\ Own(b, moved) = {}
    /\ local[b].due = {ProductOf[o] : o \in local[b].done}
    /\ \A o \in local[b].done : Environment[o] = local[b].env

Listing(b) == pc[b] = "lookup" \/ (Holding(b) /\ IsBatch(b))

BatchInv(b) ==
    /\ pc[b] = "idle" => Untouched(b)
    /\ pc[b] \in {"lookup", "book", "move", "receipts"} => IsBatch(b)
    /\ Holding(b) /\ ~IsBatch(b) => Untouched(b)
    /\ Listing(b) => Collecting(b)
    /\ Holding(b) /\ IsBatch(b) => /\ Current(b) \notin local[b].done
                                   /\ Environment[Current(b)] = local[b].env
    /\ pc[b] = "book" =>
          /\ Own(b, completed) = local[b].done /\ local[b].done # {}
          /\ Own(b, booked) = {o \in local[b].done : ProductOf[o] \notin local[b].due}
          /\ Own(b, moved) = {}
          /\ local[b].due \subseteq {ProductOf[o] : o \in local[b].done}
    /\ pc[b] = "move" =>
          /\ Own(b, completed) = local[b].done /\ local[b].done # {}
          /\ Own(b, booked) = local[b].done /\ Own(b, moved) = {}
    /\ pc[b] = "receipts" =>
          local[b].todo \subseteq local[b].done /\ local[b].done \subseteq Own(b, moved)

HistoryInv ==
    /\ TokensFollowBooks
    /\ \A o \in Orders : \A b \in booked[o] : IsBatch(b)
    /\ \A o \in Orders : completed[o] # {} => status[o] # "pending"

MetInv ==
    /\ \A b, c \in Batches : b # c /\ InFlight(b) /\ InFlight(c) => <<b, c>> \in met
    /\ \A b, c \in Batches :
          b # c /\ Holding(b) /\ IsBatch(b) /\ c \in completed[Current(b)]
             => <<b, c>> \in met /\ <<c, b>> \in met
    /\ \A o \in Orders : \A b, c \in completed[o] :
          b # c /\ IsBatch(b) /\ IsBatch(c) => <<b, c>> \in met

IInv == TypeInv /\ (\A b \in Batches : BatchInv(b)) /\ HistoryInv /\ MetInv

(* A batch that a step leaves alone keeps its invariant. *)
LEMMA Frame ==
    ASSUME NEW c \in Batches, BatchInv(c),
           pc'[c] = pc[c], local'[c] = local[c], req'[c] = req[c],
           \A o \in Orders : /\ c \in completed'[o] <=> c \in completed[o]
                             /\ c \in booked'[o] <=> c \in booked[o]
                             /\ c \in moved'[o] <=> c \in moved[o]
    PROVE  BatchInv(c)'
  <1>1. Own(c, completed)' = Own(c, completed) /\ Own(c, booked)' = Own(c, booked)
        /\ Own(c, moved)' = Own(c, moved)
    BY DEF Own
  <1> QED BY <1>1 DEF BatchInv, Untouched, Collecting, Listing, Holding, IsBatch, Current

(* A request that has ended, however it ended, has nothing left to keep. *)
LEMMA EndedFrame ==
    ASSUME NEW b \in Batches, pc'[b] \in Ended
    PROVE  BatchInv(b)'
  BY DEF BatchInv, Listing, Holding, Ended

(* Neither MetInv nor HistoryInv minds requests ending or going on, as long  *)
(* as the history stays what it is.                                          *)
LEMMA QuietHistory ==
    ASSUME HistoryInv, UNCHANGED <<req, completed, booked, moved, txHash>>,
           \A o \in Orders : status[o] # "pending" => status'[o] # "pending"
    PROVE  HistoryInv'
  BY DEF HistoryInv, TokensFollowBooks, IsBatch

LEMMA QuietMet ==
    ASSUME MetInv, UNCHANGED <<req, completed, met>>,
           \A b \in Batches : InFlight(b)' => InFlight(b),
           \A b \in Batches : Holding(b)' => Holding(b) /\ Current(b)' = Current(b)
    PROVE  MetInv'
  BY DEF MetInv, IsBatch

LEMMA HistoryInit == Init => IInv
  <1> SUFFICES ASSUME Init PROVE IInv
    OBVIOUS
  <1>1. \A b \in Batches : BatchInv(b)
    BY DEF Init, BatchInv, Untouched, Own, Listing, Holding
  <1>2. HistoryInv
    BY DEF Init, HistoryInv, TokensFollowBooks
  <1>3. MetInv
    BY DEF Init, MetInv, InFlight, Running, Holding
  <1> QED BY <1>1, <1>2, <1>3, TypeInit DEF IInv



LEMMA BeginBatchStep ==
    ASSUME IInv, NEW b \in Batches, NEW r \in Requests, BeginBatch(b, r)
    PROVE  (\A c \in Batches : BatchInv(c)') /\ HistoryInv' /\ MetInv'
  <1>0. TypeOK /\ BatchInv(b) /\ HistoryInv /\ MetInv
    BY DEF IInv, TypeInv
  <1>1. /\ pc[b] = "idle" /\ pc'[b] = "lookup" /\ local'[b] = Start(r.orders)
        /\ req'[b] = r /\ IsBatch(b)'
        /\ \A c \in Batches \ {b} : pc'[c] = pc[c] /\ local'[c] = local[c] /\ req'[c] = req[c]
        /\ UNCHANGED <<status, txHash, completed, booked, moved>>
    BY <1>0 DEF BeginBatch, Goto, TypeOK, IsBatch, dbVars
  <1>2. Untouched(b)
    BY <1>0, <1>1 DEF BatchInv
  <1>3. \A c \in Batches \ {b} : BatchInv(c)'
    BY <1>1, Frame DEF IInv
  <1>4. BatchInv(b)'
    <2>1. Collecting(b)'
      BY <1>1, <1>2 DEF Collecting, Untouched, Own, Start
    <2> QED BY <1>1, <2>1 DEF BatchInv, Listing, Holding
  <1>5. HistoryInv'
    <2>1. \A o \in Orders : b \notin booked[o]
      BY <1>2 DEF Untouched, Own
    <2>2. \A o \in Orders : booked[o] \subseteq Batches
      BY <1>0 DEF TypeOK
    <2> QED BY <1>0, <1>1, <2>1, <2>2 DEF HistoryInv, TokensFollowBooks, IsBatch
  <1>6. MetInv'
    <2>1. \A c \in Batches \ {b} : InFlight(c) => <<b, c>> \in met' /\ <<c, b>> \in met'
      BY DEF BeginBatch
    <2>2. met \subseteq met'
      BY DEF BeginBatch
    <2>3. \A o \in Orders : b \notin completed[o] /\ completed[o] \subseteq Batches
      BY <1>0, <1>2 DEF Untouched, Own, TypeOK
    <2>4. \A c \in Batches \ {b} : /\ InFlight(c)' <=> InFlight(c)
                                   /\ Holding(c)' <=> Holding(c)
                                   /\ IsBatch(c)' <=> IsBatch(c)
                                   /\ Current(c)' = Current(c)
      BY <1>1 DEF InFlight, Holding, IsBatch, Current
    <2>5. ~Holding(b)'
      BY <1>1 DEF Holding
    <2>6. \A c, d \in Batches : c # d /\ InFlight(c)' /\ InFlight(d)' => <<c, d>> \in met'
      BY <1>0, <2>1, <2>2, <2>4 DEF MetInv
    <2>7. \A c, d \in Batches :
            c # d /\ Holding(c)' /\ IsBatch(c)' /\ d \in (completed[Current(c)])'
               => <<c, d>> \in met' /\ <<d, c>> \in met'
      BY <1>0, <1>1, <2>2, <2>4, <2>5 DEF MetInv
    <2>8. \A o \in Orders : \A c, d \in completed'[o] :
            c # d /\ IsBatch(c)' /\ IsBatch(d)' => <<c, d>> \in met'
      BY <1>0, <1>1, <2>2, <2>3, <2>4 DEF MetInv
    <2> QED BY <2>6, <2>7, <2>8 DEF MetInv
  <1> QED BY <1>3, <1>4, <1>5, <1>6

LEMMA BeginSingleStep ==
    ASSUME IInv, NEW b \in Batches, NEW r \in Requests, NEW o \in Orders,
           BeginSingle(b, r, o)
    PROVE  (\A c \in Batches : BatchInv(c)') /\ HistoryInv' /\ MetInv'
  <1>0. TypeOK /\ BatchInv(b) /\ HistoryInv /\ MetInv
    BY DEF IInv, TypeInv
  <1>1. /\ pc[b] = "idle" /\ pc'[b] \in {"recheck", "mark"}
        /\ req'[b] = r /\ ~IsBatch(b)'
        /\ \A c \in Batches \ {b} : pc'[c] = pc[c] /\ local'[c] = local[c] /\ req'[c] = req[c]
        /\ UNCHANGED <<status, txHash, completed, booked, moved>>
    BY <1>0 DEF BeginSingle, Goto, TypeOK, IsBatch, dbVars
  <1>2. Untouched(b)
    BY <1>0, <1>1 DEF BatchInv
  <1>3. \A c \in Batches \ {b} : BatchInv(c)'
    BY <1>1, Frame DEF IInv
  <1>4. BatchInv(b)'
    <2>1. Untouched(b)'
      BY <1>1, <1>2 DEF Untouched, Own
    <2> QED BY <1>1, <2>1 DEF BatchInv, Listing, Holding
  <1>5. HistoryInv'
    <2>1. \A x \in Orders : b \notin booked[x]
      BY <1>2 DEF Untouched, Own
    <2>2. \A x \in Orders : booked[x] \subseteq Batches
      BY <1>0 DEF TypeOK
    <2> QED BY <1>0, <1>1, <2>1, <2>2 DEF HistoryInv, TokensFollowBooks, IsBatch
  <1>6. MetInv'
    <2>1. \A c \in Batches \ {b} : InFlight(c) => <<b, c>> \in met' /\ <<c, b>> \in met'
      BY DEF BeginSingle
    <2>2. met \subseteq met'
      BY DEF BeginSingle
    <2>3. \A x \in Orders : b \notin completed[x] /\ completed[x] \subseteq Batches
      BY <1>0, <1>2 DEF Untouched, Own, TypeOK
    <2>4. \A c \in Batches \ {b} : /\ InFlight(c)' <=> InFlight(c)
                                   /\ Holding(c)' <=> Holding(c)
                                   /\ IsBatch(c)' <=> IsBatch(c)
                                   /\ Current(c)' = Current(c)
      BY <1>1 DEF InFlight, Holding, IsBatch, Current
    <2>6. \A c, d \in Batches : c # d /\ InFlight(c)' /\ InFlight(d)' => <<c, d>> \in met'
      BY <1>0, <2>1, <2>2, <2>4 DEF MetInv
    <2>7. \A c, d \in Batches :
            c # d /\ Holding(c)' /\ IsBatch(c)' /\ d \in (completed[Current(c)])'
               => <<c, d>> \in met' /\ <<d, c>> \in met'
      BY <1>0, <1>1, <2>2, <2>4 DEF MetInv
    <2>8. \A x \in Orders : \A c, d \in completed'[x] :
            c # d /\ IsBatch(c)' /\ IsBatch(d)' => <<c, d>> \in met'
      BY <1>0, <1>1, <2>2, <2>3, <2>4 DEF MetInv
    <2> QED BY <2>6, <2>7, <2>8 DEF MetInv
  <1> QED BY <1>3, <1>4, <1>5, <1>6

(* A batch that passes the check on an order is the first to complete it, as *)
(* far as the history goes.                                                  *)
LEMMA LookupStep ==
    ASSUME IInv, NEW b \in Batches, NEW o \in Orders, Lookup(b, o)
    PROVE  (\A c \in Batches : BatchInv(c)') /\ HistoryInv' /\ MetInv'
  <1>0. TypeOK /\ BatchInv(b) /\ HistoryInv /\ MetInv
    BY DEF IInv, TypeInv
  <1>1. /\ pc[b] = "lookup" /\ o \in local[b].todo /\ InFlight(b)
        /\ UNCHANGED <<status, txHash, req, completed, booked, moved, met>>
        /\ \A c \in Batches \ {b} : pc'[c] = pc[c] /\ local'[c] = local[c]
    BY <1>0 DEF Lookup, Goto, TypeOK, dbVars, historyVars, InFlight, Running
  <1>2. IsBatch(b) /\ Collecting(b) /\ local[b] \in LocalType
    BY <1>0, <1>1 DEF BatchInv, Listing, TypeOK
  <1>3. \A c \in Batches \ {b} : BatchInv(c)'
    BY <1>1, Frame DEF IInv
  <1>4. HistoryInv'
    BY <1>0, <1>1, QuietHistory
  <1>5. CASE Wanted(b, o)
    <2>1. /\ pc'[b] \in {"recheck", "mark"}
          /\ local'[b].order = o /\ local'[b].done = local[b].done
          /\ local'[b].due = local[b].due
          /\ local'[b].env = IF local[b].done = {} THEN Environment[o] ELSE local[b].env
      <3> DEFINE row == [local[b] EXCEPT !.todo = @ \ {o}, !.order = o,
                           !.env = IF local[b].done = {} THEN Environment[o] ELSE @]
      <3>1. local'[b] = row /\ pc'[b] \in {"recheck", "mark"}
        BY <1>0, <1>5 DEF Lookup, Goto, TypeOK
      <3>2. /\ row.order = o /\ row.done = local[b].done /\ row.due = local[b].due
            /\ row.env = IF local[b].done = {} THEN Environment[o] ELSE local[b].env
        BY <1>2 DEF LocalType
      <3> QED BY <3>1, <3>2
    <2>2. completed[o] = {} /\ (local[b].done # {} => Environment[o] = local[b].env)
      BY <1>0, <1>5 DEF Wanted, HistoryInv
    <2>3. BatchInv(b)'
      <3>1. IsBatch(b)'
        BY <1>1, <1>2 DEF IsBatch
      <3>2. Collecting(b)'
        BY <1>1, <1>2, <2>1 DEF Collecting, Own
      <3>3. Current(b)' \notin local'[b].done /\ Environment[Current(b)'] = local'[b].env
        BY <1>2, <2>1, <2>2 DEF Collecting, Own, Current
      <3> QED BY <2>1, <3>1, <3>2, <3>3 DEF BatchInv, Listing, Holding
    <2>4. MetInv'
      <3>1. \A c \in Batches \ {b} : /\ InFlight(c)' <=> InFlight(c)
                                     /\ Holding(c)' <=> Holding(c)
                                     /\ Current(c)' = Current(c)
        BY <1>1 DEF InFlight, Holding, Current
      <3>2. completed'[Current(b)'] = {}
        BY <1>1, <2>1, <2>2 DEF Current
      <3>3. \A c \in Batches : IsBatch(c)' <=> IsBatch(c)
        BY <1>1 DEF IsBatch
      <3>4. \A c, d \in Batches : c # d /\ InFlight(c)' /\ InFlight(d)' => <<c, d>> \in met'
        BY <1>0, <1>1, <3>1 DEF MetInv
      <3>5. \A c, d \in Batches :
              c # d /\ Holding(c)' /\ IsBatch(c)' /\ d \in (completed[Current(c)])'
                 => <<c, d>> \in met' /\ <<d, c>> \in met'
        BY <1>0, <1>1, <3>1, <3>2, <3>3 DEF MetInv
      <3>6. \A x \in Orders : \A c, d \in completed'[x] :
              c # d /\ IsBatch(c)' /\ IsBatch(d)' => <<c, d>> \in met'
        BY <1>0, <1>1, <3>3 DEF MetInv, IsBatch
      <3> QED BY <3>4, <3>5, <3>6 DEF MetInv
    <2> QED BY <1>3, <1>4, <2>3, <2>4
  <1>6. CASE ~Wanted(b, o)
    <2>1. /\ pc' = pc /\ local'[b].done = local[b].done
          /\ local'[b].due = local[b].due /\ local'[b].env = local[b].env
      BY <1>0, <1>2, <1>6 DEF Lookup, TypeOK, LocalType
    <2>2. BatchInv(b)'
      <3>1. IsBatch(b)' /\ pc'[b] = "lookup"
        BY <1>1, <1>2, <2>1 DEF IsBatch
      <3>2. Collecting(b)'
        BY <1>1, <1>2, <2>1 DEF Collecting, Own
      <3> QED BY <3>1, <3>2 DEF BatchInv, Listing, Holding
    <2>3. MetInv'
      <3>1. \A c \in Batches : Holding(c)' => Holding(c) /\ Current(c)' = Current(c)
        BY <1>1, <2>1 DEF Holding, Current
      <3>2. \A c \in Batches : InFlight(c)' => InFlight(c)
        BY <2>1 DEF InFlight
      <3> QED BY <1>0, <1>1, <3>1, <3>2, QuietMet
    <2> QED BY <1>3, <1>4, <2>2, <2>3
  <1> QED BY <1>5, <1>6

LEMMA RecheckStep ==
    ASSUME IInv, NEW b \in Batches, Recheck(b)
    PROVE  (\A c \in Batches : BatchInv(c)') /\ HistoryInv' /\ MetInv'
  <1>0. TypeOK /\ BatchInv(b) /\ HistoryInv /\ MetInv
    BY DEF IInv, TypeInv
  <1>1. /\ pc[b] = "recheck" /\ pc'[b] \in {"mark", "failed"}
        /\ pc'[b] = "mark" => local' = local
        /\ UNCHANGED <<status, txHash, req, completed, booked, moved, met>>
        /\ \A c \in Batches \ {b} : pc'[c] = pc[c] /\ local'[c] = local[c]
    BY <1>0 DEF Recheck, Goto, Return, TypeOK, dbVars, historyVars
  <1>2. \A c \in Batches \ {b} : BatchInv(c)'
    BY <1>1, Frame DEF IInv
  <1>3. BatchInv(b)'
    <2>1. CASE pc'[b] = "mark"
      BY <1>0, <1>1, <2>1 DEF BatchInv, Untouched, Own, Listing, Holding, Collecting,
                              IsBatch, Current
    <2>2. CASE pc'[b] = "failed"
      BY <2>2, EndedFrame DEF Ended
    <2> QED BY <1>1, <2>1, <2>2
  <1>4. HistoryInv'
    BY <1>0, <1>1, QuietHistory
  <1>5. MetInv'
    <2>1. \A c \in Batches : Holding(c)' => Holding(c) /\ Current(c)' = Current(c)
      BY <1>1 DEF Holding, Current
    <2>2. \A c \in Batches : InFlight(c)' => InFlight(c)
      BY <1>1 DEF InFlight, Running
    <2> QED BY <1>0, <1>1, <2>1, <2>2, QuietMet
  <1> QED BY <1>2, <1>3, <1>4, <1>5

(* The step that can put two batches on one order: both held it at once. *)
LEMMA MarkStep ==
    ASSUME IInv, NEW b \in Batches, Mark(b)
    PROVE  (\A c \in Batches : BatchInv(c)') /\ HistoryInv' /\ MetInv'
  <1> DEFINE o == Current(b)
  <1>0. TypeOK /\ BatchInv(b) /\ HistoryInv /\ MetInv /\ o \in Orders
    BY DEF IInv, TypeInv, Mark, HoldsOrders, Holding
  <1>1. /\ pc[b] = "mark" /\ Holding(b) /\ InFlight(b)
        /\ UNCHANGED <<txHash, req, booked, moved, met>>
        /\ \A c \in Batches \ {b} : pc'[c] = pc[c] /\ local'[c] = local[c]
        /\ \A x \in Orders : status'[x] = IF x = o THEN "completed" ELSE status[x]
        /\ \A x \in Orders : completed'[x] = completed[x] \cup (IF x = o THEN {b} ELSE {})
    BY <1>0 DEF Mark, Goto, Return, TypeOK, Holding, InFlight, Running
  <1>2. \A c \in Batches \ {b} : BatchInv(c)'
    BY <1>1, Frame DEF IInv
  <1>3. /\ \A c \in Batches : IsBatch(c)' <=> IsBatch(c)
        /\ ~Holding(b)'
        /\ \A c \in Batches \ {b} : /\ InFlight(c)' <=> InFlight(c)
                                    /\ Holding(c)' <=> Holding(c)
                                    /\ Current(c)' = Current(c)
    <2>1. ~Holding(b)'
      BY <1>0 DEF Mark, Goto, Return, TypeOK, Holding
    <2> QED BY <1>1, <2>1 DEF IsBatch, InFlight, Holding, Current
  <1>4. BatchInv(b)'
    <2>1. CASE IsBatch(b)
      <3>1. pc'[b] = "lookup" /\ local'[b] = Counted(b)
        BY <1>0, <2>1 DEF Mark, Goto, TypeOK
      <3>2. /\ local'[b].done = local[b].done \cup {o} /\ local'[b].env = local[b].env
            /\ local'[b].due = local[b].due \cup {ProductOf[o]}
        <4>1. local[b] \in LocalType
          BY <1>0 DEF TypeOK
        <4> QED BY <3>1, <4>1 DEF Counted, LocalType
      <3>3. Collecting(b) /\ Environment[o] = local[b].env
        BY <1>0, <1>1, <2>1 DEF BatchInv, Listing
      <3>4. Collecting(b)'
        <4>1. Own(b, completed)' = local'[b].done
          BY <1>0, <1>1, <3>2, <3>3 DEF Collecting, Own
        <4>2. Own(b, booked)' = {} /\ Own(b, moved)' = {}
          BY <1>1, <3>3 DEF Collecting, Own
        <4>3. local'[b].due = {ProductOf[x] : x \in local'[b].done}
          BY <3>2, <3>3 DEF Collecting
        <4>4. \A x \in local'[b].done : Environment[x] = local'[b].env
          BY <3>2, <3>3 DEF Collecting
        <4> QED BY <4>1, <4>2, <4>3, <4>4 DEF Collecting
      <3> QED BY <1>3, <2>1, <3>1, <3>4 DEF BatchInv, Listing, Holding
    <2>2. CASE ~IsBatch(b)
      <3>1. pc'[b] = "done"
        BY <1>0, <2>2 DEF Mark, Return, TypeOK
      <3> QED BY <3>1, EndedFrame DEF Ended
    <2> QED BY <2>1, <2>2
  <1>5. HistoryInv'
    <2>1. b \notin moved[o] /\ \A x \in Orders : b \notin moved[x]
      BY <1>0, <1>1 DEF BatchInv, Listing, Collecting, Untouched, Own
    <2>2. \A x \in Orders : moved'[x] \subseteq booked'[x] /\ booked'[x] \subseteq completed'[x]
      BY <1>0, <1>1 DEF HistoryInv, TokensFollowBooks
    <2>3. \A x \in Orders : \A c \in moved'[x] :
             \A y \in Orders : c \in completed'[y] => c \in moved'[y]
      BY <1>0, <1>1, <2>1 DEF HistoryInv, TokensFollowBooks
    <2>4. TokensFollowBooks'
      BY <1>0, <1>1, <2>2, <2>3 DEF HistoryInv, TokensFollowBooks
    <2> QED BY <1>0, <1>1, <1>3, <2>4 DEF HistoryInv, IsBatch
  <1>6. MetInv'
    <2>0. \A x \in Orders : completed[x] \subseteq Batches
      BY <1>0 DEF TypeOK
    <2>1. \A c, d \in Batches : c # d /\ InFlight(c)' /\ InFlight(d)' => <<c, d>> \in met'
      BY <1>0, <1>1, <1>3 DEF MetInv
    <2>2. \A c, d \in Batches :
            c # d /\ Holding(c)' /\ IsBatch(c)' /\ d \in (completed[Current(c)])'
               => <<c, d>> \in met' /\ <<d, c>> \in met'
      <3> SUFFICES ASSUME NEW c \in Batches, NEW d \in Batches, c # d, Holding(c)',
                          IsBatch(c)', d \in (completed[Current(c)])'
                   PROVE  <<c, d>> \in met' /\ <<d, c>> \in met'
        OBVIOUS
      <3>1. c # b /\ Holding(c) /\ IsBatch(c) /\ Current(c)' = Current(c)
            /\ Current(c) \in Orders
        BY <1>3 DEF IInv, TypeInv, HoldsOrders
      <3>2. CASE d \in completed[Current(c)]
        BY <1>0, <1>1, <3>1, <3>2 DEF MetInv
      <3>3. CASE d = b
        <4>1. InFlight(c)
          BY <3>1 DEF Holding, InFlight, Running
        <4> QED BY <1>0, <1>1, <3>1, <3>3, <4>1 DEF MetInv
      <3> QED BY <1>1, <3>1, <3>2, <3>3
    <2>3. \A x \in Orders : \A c, d \in completed'[x] :
            c # d /\ IsBatch(c)' /\ IsBatch(d)' => <<c, d>> \in met'
      <3> SUFFICES ASSUME NEW x \in Orders, NEW c \in completed'[x], NEW d \in completed'[x],
                          c # d, IsBatch(c)', IsBatch(d)'
                   PROVE  <<c, d>> \in met'
        OBVIOUS
      <3>1. c \in Batches /\ d \in Batches /\ IsBatch(c) /\ IsBatch(d)
        BY <1>1, <1>3, <2>0
      <3>2. CASE c \in completed[x] /\ d \in completed[x]
        BY <1>0, <1>1, <3>1, <3>2 DEF MetInv
      <3>3. CASE c = b /\ x = o /\ d \in completed[o]
        BY <1>0, <1>1, <3>1, <3>3 DEF MetInv
      <3>4. CASE d = b /\ x = o /\ c \in completed[o]
        BY <1>0, <1>1, <3>1, <3>4 DEF MetInv
      <3> QED BY <1>1, <3>2, <3>3, <3>4
    <2> QED BY <2>1, <2>2, <2>3 DEF MetInv
  <1> QED BY <1>2, <1>4, <1>5, <1>6

LEMMA EndLoopStep ==
    ASSUME IInv, NEW b \in Batches, EndLoop(b)
    PROVE  (\A c \in Batches : BatchInv(c)') /\ HistoryInv' /\ MetInv'
  <1>0. TypeOK /\ BatchInv(b) /\ HistoryInv /\ MetInv
    BY DEF IInv, TypeInv
  <1>1. /\ pc[b] = "lookup" /\ pc'[b] \in {"book", "done", "failed"}
        /\ pc'[b] = "book" => local' = local /\ local[b].done # {}
        /\ UNCHANGED <<status, txHash, req, completed, booked, moved, met>>
        /\ \A c \in Batches \ {b} : pc'[c] = pc[c] /\ local'[c] = local[c]
    BY <1>0 DEF EndLoop, Goto, Return, TypeOK, dbVars, historyVars
  <1>2. \A c \in Batches \ {b} : BatchInv(c)'
    BY <1>1, Frame DEF IInv
  <1>3. BatchInv(b)'
    <2>1. CASE pc'[b] = "book"
      <3>1. Collecting(b) /\ IsBatch(b)
        BY <1>0, <1>1 DEF BatchInv, Listing
      <3>2. /\ Own(b, completed)' = local[b].done /\ Own(b, booked)' = {}
            /\ Own(b, moved)' = {} /\ IsBatch(b)'
        BY <1>1, <3>1 DEF Collecting, Own, IsBatch
      <3>3. {x \in local[b].done : ProductOf[x] \notin local[b].due} = {}
        BY <3>1 DEF Collecting
      <3>4. local[b].due \subseteq {ProductOf[x] : x \in local[b].done}
        BY <3>1 DEF Collecting
      <3> QED BY <1>1, <2>1, <3>2, <3>3, <3>4 DEF BatchInv, Listing, Holding
    <2>2. CASE pc'[b] # "book"
      BY <1>1, <2>2, EndedFrame DEF Ended
    <2> QED BY <2>1, <2>2
  <1>4. HistoryInv'
    BY <1>0, <1>1, QuietHistory
  <1>5. MetInv'
    <2>1. \A c \in Batches : Holding(c)' => Holding(c) /\ Current(c)' = Current(c)
      BY <1>1 DEF Holding, Current
    <2>2. \A c \in Batches : InFlight(c)' => InFlight(c)
      BY <1>1 DEF InFlight, Running
    <2> QED BY <1>0, <1>1, <2>1, <2>2, QuietMet
  <1> QED BY <1>2, <1>3, <1>4, <1>5

LEMMA BookProductStep ==
    ASSUME IInv, NEW b \in Batches, NEW p \in Products, BookProduct(b, p)
    PROVE  (\A c \in Batches : BatchInv(c)') /\ HistoryInv' /\ MetInv'
  <1> DEFINE balance == idle[p] + Booking(b) * local[b].sums[p]
             own == {o \in local[b].done : ProductOf[o] = p}
  <1>0. TypeOK /\ BatchInv(b) /\ HistoryInv /\ MetInv
    BY DEF IInv, TypeInv
  <1>1. /\ pc[b] = "book" /\ p \in local[b].due /\ IsBatch(b)
        /\ UNCHANGED <<status, txHash, req, completed, moved, met>>
        /\ pc'[b] \in {"book", "failed"}
        /\ \A c \in Batches \ {b} : pc'[c] = pc[c] /\ local'[c] = local[c]
    BY <1>0 DEF BookProduct, Return, TypeOK, BatchInv
  <1>2. /\ Own(b, completed) = local[b].done /\ local[b].done # {}
        /\ Own(b, booked) = {o \in local[b].done : ProductOf[o] \notin local[b].due}
        /\ Own(b, moved) = {}
        /\ local[b].due \subseteq {ProductOf[o] : o \in local[b].done}
    BY <1>0, <1>1 DEF BatchInv
  <1>3. MetInv'
    <2>1. \A c \in Batches : Holding(c)' => Holding(c) /\ Current(c)' = Current(c)
      BY <1>1 DEF Holding, Current
    <2>2. \A c \in Batches : InFlight(c)' => InFlight(c)
      BY <1>1 DEF InFlight, Running
    <2> QED BY <1>0, <1>1, <2>1, <2>2, QuietMet
  <1>4. CASE balance < 0
    <2>1. pc'[b] = "failed" /\ booked' = booked
      BY <1>0, <1>4 DEF BookProduct, Return, TypeOK
    <2>2. HistoryInv'
      BY <1>0, <1>1, <2>1, QuietHistory
    <2>3. \A c \in Batches \ {b} : BatchInv(c)'
      BY <1>1, <2>1, Frame DEF IInv
    <2>4. BatchInv(b)'
      BY <2>1, EndedFrame DEF Ended
    <2> QED BY <1>3, <2>2, <2>3, <2>4
  <1>5. CASE ~(balance < 0)
    <2>1. /\ pc'[b] = "book"
          /\ \A o \in Orders : booked'[o] = booked[o] \cup (IF o \in own THEN {b} ELSE {})
          /\ local' = [local EXCEPT ![b] = [local[b] EXCEPT !.due = @ \ {p}]]
      BY <1>1, <1>5 DEF BookProduct
    <2>2. local'[b].due = local[b].due \ {p} /\ local'[b].done = local[b].done
      <3>1. local[b] \in LocalType /\ local \in [Batches -> LocalType]
        BY <1>0 DEF TypeOK
      <3>2. local'[b] = [local[b] EXCEPT !.due = @ \ {p}]
        BY <2>1, <3>1
      <3> QED BY <3>1, <3>2 DEF LocalType
    <2>3. \A c \in Batches \ {b} : BatchInv(c)'
      BY <1>1, <2>1, Frame DEF IInv
    <2>4. BatchInv(b)'
      <3>1. Own(b, completed)' = local'[b].done /\ local'[b].done # {}
            /\ Own(b, moved)' = {} /\ IsBatch(b)'
        BY <1>1, <1>2, <2>2 DEF Own, IsBatch
      <3>2. Own(b, booked)' = {o \in local'[b].done : ProductOf[o] \notin local'[b].due}
        <4>1. Own(b, booked)' = Own(b, booked) \cup own
          <5>1. own \subseteq Orders
            BY <1>2 DEF Own
          <5> QED BY <2>1, <5>1 DEF Own
        <4> QED BY <1>2, <2>2, <4>1
      <3>3. local'[b].due \subseteq {ProductOf[o] : o \in local'[b].done}
        BY <1>2, <2>2
      <3> QED BY <2>1, <3>1, <3>2, <3>3 DEF BatchInv, Listing, Holding
    <2>5. HistoryInv'
      <3>1. own \subseteq Own(b, completed)
        BY <1>2
      <3>2. \A o \in Orders : moved'[o] \subseteq booked'[o] /\ booked'[o] \subseteq completed'[o]
        BY <1>0, <1>1, <2>1, <3>1 DEF HistoryInv, TokensFollowBooks, Own
      <3>3. TokensFollowBooks'
        BY <1>0, <1>1, <3>2 DEF HistoryInv, TokensFollowBooks
      <3> QED BY <1>0, <1>1, <2>1, <3>3 DEF HistoryInv, IsBatch
    <2> QED BY <1>3, <2>3, <2>4, <2>5
  <1> QED BY <1>4, <1>5

LEMMA EndBookingStep ==
    ASSUME IInv, NEW b \in Batches, EndBooking(b)
    PROVE  (\A c \in Batches : BatchInv(c)') /\ HistoryInv' /\ MetInv'
  <1>0. TypeOK /\ BatchInv(b) /\ HistoryInv /\ MetInv
    BY DEF IInv, TypeInv
  <1>1. /\ pc[b] = "book" /\ pc'[b] = "move" /\ local[b].due = {}
        /\ UNCHANGED <<status, txHash, req, local, completed, booked, moved, met>>
        /\ \A c \in Batches \ {b} : pc'[c] = pc[c]
    BY <1>0 DEF EndBooking, AllBooked, Goto, TypeOK, dbVars, historyVars
  <1>2. \A c \in Batches \ {b} : BatchInv(c)'
    BY <1>1, Frame DEF IInv
  <1>3. BatchInv(b)'
    <2>1. /\ Own(b, completed)' = local[b].done /\ local[b].done # {}
          /\ Own(b, booked)' = local[b].done /\ Own(b, moved)' = {} /\ IsBatch(b)'
      BY <1>0, <1>1 DEF BatchInv, Own, IsBatch
    <2> QED BY <1>1, <2>1 DEF BatchInv, Listing, Holding
  <1>4. HistoryInv'
    BY <1>0, <1>1, QuietHistory
  <1>5. MetInv'
    <2>1. \A c \in Batches : Holding(c)' => Holding(c) /\ Current(c)' = Current(c)
      BY <1>1 DEF Holding, Current
    <2>2. \A c \in Batches : InFlight(c)' => InFlight(c)
      BY <1>1 DEF InFlight, Running
    <2> QED BY <1>0, <1>1, <2>1, <2>2, QuietMet
  <1> QED BY <1>2, <1>3, <1>4, <1>5

(* Ending, well or badly. *)
LEMMA ReturnStep ==
    ASSUME IInv, NEW b \in Batches, NEW outcome \in Ended, Return(b, outcome),
           UNCHANGED <<dbVars, req, historyVars>>
    PROVE  (\A c \in Batches : BatchInv(c)') /\ HistoryInv' /\ MetInv'
  <1>0. TypeOK /\ BatchInv(b) /\ HistoryInv /\ MetInv
    BY DEF IInv, TypeInv
  <1>1. /\ pc'[b] \in Ended
        /\ UNCHANGED <<status, txHash, req, completed, booked, moved, met>>
        /\ \A c \in Batches \ {b} : pc'[c] = pc[c] /\ local'[c] = local[c]
    BY <1>0 DEF Return, TypeOK, dbVars, historyVars
  <1>2. \A c \in Batches \ {b} : BatchInv(c)'
    BY <1>1, Frame DEF IInv
  <1>3. BatchInv(b)'
    BY <1>1, EndedFrame
  <1>4. HistoryInv'
    BY <1>0, <1>1, QuietHistory
  <1>5. MetInv'
    <2>1. \A c \in Batches : Holding(c)' => Holding(c) /\ Current(c)' = Current(c)
      BY <1>1 DEF Holding, Current, Ended
    <2>2. \A c \in Batches : InFlight(c)' => InFlight(c)
      BY <1>1 DEF InFlight, Running, Ended
    <2> QED BY <1>0, <1>1, <2>1, <2>2, QuietMet
  <1> QED BY <1>2, <1>3, <1>4, <1>5

LEMMA TransferStep ==
    ASSUME IInv, NEW b \in Batches, Transfer(b)
    PROVE  (\A c \in Batches : BatchInv(c)') /\ HistoryInv' /\ MetInv'
  <1>0. TypeOK /\ BatchInv(b) /\ HistoryInv /\ MetInv
    BY DEF IInv, TypeInv
  <1>1. /\ pc[b] = "move" /\ pc'[b] \in {"receipts", "done", "failed"}
        /\ UNCHANGED <<status, txHash, req, completed, booked, met>>
        /\ \A o \in Orders : moved'[o] = moved[o] \cup (IF o \in local[b].done THEN {b} ELSE {})
        /\ \A c \in Batches \ {b} : pc'[c] = pc[c] /\ local'[c] = local[c]
    BY <1>0 DEF Transfer, Goto, Return, TypeOK
  <1>2. /\ Own(b, completed) = local[b].done /\ Own(b, booked) = local[b].done
        /\ Own(b, moved) = {} /\ IsBatch(b)
    BY <1>0, <1>1 DEF BatchInv
  <1>3. \A c \in Batches \ {b} : BatchInv(c)'
    BY <1>1, Frame DEF IInv
  <1>4. BatchInv(b)'
    <2>1. CASE pc'[b] = "receipts"
      <3>1. local' = [local EXCEPT ![b] = [local[b] EXCEPT !.todo = local[b].done]]
        BY <1>0, <2>1 DEF Transfer, Return, TypeOK
      <3>2. local'[b].todo = local'[b].done /\ local'[b].done = local[b].done
        <4>1. local[b] \in LocalType /\ local \in [Batches -> LocalType]
          BY <1>0 DEF TypeOK
        <4>2. local'[b] = [local[b] EXCEPT !.todo = local[b].done]
          BY <3>1, <4>1
        <4> QED BY <4>1, <4>2 DEF LocalType
      <3>3. local'[b].done \subseteq Own(b, moved)'
        <4>1. local[b].done \subseteq Orders
          BY <1>2 DEF Own
        <4> QED BY <1>1, <3>2, <4>1 DEF Own
      <3>4. IsBatch(b)'
        BY <1>1, <1>2 DEF IsBatch
      <3> QED BY <2>1, <3>2, <3>3, <3>4 DEF BatchInv, Listing, Holding
    <2>2. CASE pc'[b] # "receipts"
      BY <1>1, <2>2, EndedFrame DEF Ended
    <2> QED BY <2>1, <2>2
  <1>5. HistoryInv'
    <2>1. \A o \in Orders : moved'[o] \subseteq booked'[o] /\ booked'[o] \subseteq completed'[o]
      BY <1>0, <1>1, <1>2 DEF HistoryInv, TokensFollowBooks, Own
    <2>2. \A o \in Orders : \A c \in moved'[o] :
             \A other \in Orders : c \in completed'[other] => c \in moved'[other]
      <3> SUFFICES ASSUME NEW o \in Orders, NEW c \in moved'[o], NEW other \in Orders,
                          c \in completed'[other]
                   PROVE  c \in moved'[other]
        OBVIOUS
      <3>1. CASE c = b
        BY <1>1, <1>2, <3>1 DEF Own
      <3>2. CASE c # b
        BY <1>0, <1>1, <3>2 DEF HistoryInv, TokensFollowBooks
      <3> QED BY <3>1, <3>2
    <2>3. TokensFollowBooks'
      BY <1>0, <1>1, <2>1, <2>2 DEF HistoryInv, TokensFollowBooks
    <2> QED BY <1>0, <1>1, <2>3 DEF HistoryInv, IsBatch
  <1>6. MetInv'
    <2>1. \A c \in Batches : Holding(c)' => Holding(c) /\ Current(c)' = Current(c)
      BY <1>1 DEF Holding, Current
    <2>2. \A c \in Batches : InFlight(c)' => InFlight(c)
      BY <1>1 DEF InFlight, Running
    <2> QED BY <1>0, <1>1, <2>1, <2>2, QuietMet
  <1> QED BY <1>3, <1>4, <1>5, <1>6

LEMMA WriteReceiptStep ==
    ASSUME IInv, NEW b \in Batches, NEW o \in Deposits, WriteReceipt(b, o)
    PROVE  (\A c \in Batches : BatchInv(c)') /\ HistoryInv' /\ MetInv'
  <1>0. TypeOK /\ BatchInv(b) /\ HistoryInv /\ MetInv
    BY DEF IInv, TypeInv
  <1>1. /\ pc[b] = "receipts" /\ o \in local[b].todo /\ pc' = pc
        /\ UNCHANGED <<status, req, completed, booked, moved, met>>
        /\ local' = [local EXCEPT ![b] = [local[b] EXCEPT !.todo = @ \ {o}]]
        /\ \A x \in Deposits : txHash'[x] = txHash[x] \/ (x = o /\ txHash'[x] = b)
    BY <1>0 DEF WriteReceipt, TypeOK, historyVars
  <1>2. /\ local'[b].todo = local[b].todo \ {o} /\ local'[b].done = local[b].done
        /\ \A c \in Batches \ {b} : local'[c] = local[c]
    <2>1. local[b] \in LocalType /\ local \in [Batches -> LocalType]
      BY <1>0 DEF TypeOK
    <2>2. local'[b] = [local[b] EXCEPT !.todo = @ \ {o}]
          /\ \A c \in Batches \ {b} : local'[c] = local[c]
      BY <1>1, <2>1
    <2> QED BY <2>1, <2>2 DEF LocalType
  <1>3. local[b].todo \subseteq local[b].done /\ local[b].done \subseteq Own(b, moved) /\ IsBatch(b)
    BY <1>0, <1>1 DEF BatchInv
  <1>4. \A c \in Batches \ {b} : BatchInv(c)'
    BY <1>1, <1>2, Frame DEF IInv
  <1>5. BatchInv(b)'
    BY <1>1, <1>2, <1>3 DEF BatchInv, Listing, Holding, Own, IsBatch
  <1>6. HistoryInv'
    <2>1. b \in moved[o]
      BY <1>1, <1>3 DEF Own
    <2>2. \A x \in Deposits : txHash'[x] # NoBatch => txHash'[x] \in moved'[x]
      BY <1>0, <1>1, <2>1 DEF HistoryInv, TokensFollowBooks
    <2> QED BY <1>0, <1>1, <2>2 DEF HistoryInv, TokensFollowBooks, IsBatch
  <1>7. MetInv'
    <2>1. \A c \in Batches : Holding(c)' => Holding(c) /\ Current(c)' = Current(c)
      BY <1>1, <1>2 DEF Holding, Current
    <2>2. \A c \in Batches : InFlight(c)' => InFlight(c)
      BY <1>1 DEF InFlight
    <2> QED BY <1>0, <1>1, <2>1, <2>2, QuietMet
  <1> QED BY <1>4, <1>5, <1>6, <1>7

LEMMA FailWithdrawalStep ==
    ASSUME IInv, NEW o \in Withdrawals, FailWithdrawal(o)
    PROVE  (\A c \in Batches : BatchInv(c)') /\ HistoryInv' /\ MetInv'
  <1>0. TypeOK /\ HistoryInv /\ MetInv
    BY DEF IInv, TypeInv
  <1>1. /\ UNCHANGED <<txHash, pc, req, local, completed, booked, moved, met>>
        /\ \A x \in Orders : status[x] # "pending" => status'[x] # "pending"
    BY <1>0 DEF FailWithdrawal, historyVars, TypeOK
  <1>2. \A c \in Batches : BatchInv(c)'
    BY <1>1, Frame DEF IInv
  <1>3. HistoryInv'
    BY <1>0, <1>1, QuietHistory
  <1>4. MetInv'
    BY <1>0, <1>1, QuietMet DEF InFlight, Holding, Current
  <1> QED BY <1>2, <1>3, <1>4

LEMMA InductiveStep == IInv /\ [Next]_vars => IInv'
  <1> SUFFICES ASSUME IInv, [Next]_vars PROVE IInv'
    OBVIOUS
  <1>t. TypeInv'
    BY TypeStep DEF IInv
  <1>u. CASE UNCHANGED vars
    <2>1. \A c \in Batches : BatchInv(c)'
      BY <1>u, Frame DEF IInv, vars
    <2>2. HistoryInv'
      BY <1>u, QuietHistory DEF IInv, vars
    <2>3. MetInv'
      BY <1>u, QuietMet DEF IInv, vars, InFlight, Holding, Current
    <2> QED BY <1>t, <2>1, <2>2, <2>3 DEF IInv
  <1>1. ASSUME NEW b \in Batches, NEW r \in Requests, BeginBatch(b, r) PROVE IInv'
    BY <1>t, <1>1, BeginBatchStep DEF IInv
  <1>2. ASSUME NEW b \in Batches, NEW r \in Requests, NEW o \in Orders, BeginSingle(b, r, o)
        PROVE  IInv'
    BY <1>t, <1>2, BeginSingleStep DEF IInv
  <1>3. ASSUME NEW b \in Batches, Step(b) PROVE IInv'
    <2>1. CASE \E o \in Orders : Lookup(b, o)
      BY <1>t, <2>1, LookupStep DEF IInv
    <2>2. CASE Recheck(b)
      BY <1>t, <2>2, RecheckStep DEF IInv
    <2>3. CASE Mark(b)
      BY <1>t, <2>3, MarkStep DEF IInv
    <2>4. CASE EndLoop(b)
      BY <1>t, <2>4, EndLoopStep DEF IInv
    <2>5. CASE \E p \in Products : BookProduct(b, p)
      BY <1>t, <2>5, BookProductStep DEF IInv
    <2>6. CASE EndBooking(b)
      BY <1>t, <2>6, EndBookingStep DEF IInv
    <2>7. CASE Refuse(b) \/ EndReceipts(b)
      BY <1>t, <2>7, ReturnStep DEF IInv, Refuse, EndReceipts, Ended
    <2>8. CASE Transfer(b)
      BY <1>t, <2>8, TransferStep DEF IInv
    <2>9. CASE \E o \in Deposits : WriteReceipt(b, o)
      BY <1>t, <2>9, WriteReceiptStep DEF IInv
    <2> QED BY <1>3, <2>1, <2>2, <2>3, <2>4, <2>5, <2>6, <2>7, <2>8, <2>9 DEF Step
  <1>4. ASSUME NEW b \in Batches, Fail(b) PROVE IInv'
    BY <1>t, <1>4, ReturnStep DEF IInv, Fail, Ended
  <1>5. ASSUME NEW o \in Withdrawals, FailWithdrawal(o) PROVE IInv'
    BY <1>t, <1>5, FailWithdrawalStep DEF IInv
  <1> QED BY <1>u, <1>1, <1>2, <1>3, <1>4, <1>5 DEF Next

LEMMA Invariance == Spec => []IInv
  BY HistoryInit, InductiveStep, PTL DEF Spec

(* The tokens never get ahead of the books. *)
THEOREM TokensAreBooked == Spec => []TokensFollowBooks
  <1>1. IInv => TokensFollowBooks
    BY DEF IInv, HistoryInv
  <1> QED BY <1>1, Invariance, PTL

(* No order is settled twice by batches that were not served at once. *)
THEOREM OverlapIsNeeded == Spec => []TwiceOnlyTogether
  <1>1. IInv => TwiceOnlyTogether
    BY DEF IInv, HistoryInv, TokensFollowBooks, MetInv, TwiceOnlyTogether
  <1> QED BY <1>1, Invariance, PTL

-----------------------------------------------------------------------------
(* What is abandoned stays so: a step that only ends a request, or leaves    *)
(* what it holds, changes nothing about it.                                  *)
LEMMA KeepsAbandoned ==
    ASSUME NEW o \in Orders, Abandoned(o), status'[o] # "pending", moved'[o] = moved[o],
           \A c \in Batches : Holds(c, o)' => Holds(c, o)
    PROVE  Abandoned(o)' /\ moved'[o] = moved[o]
  BY DEF Abandoned

LEMMA HeldLess ==
    ASSUME NEW b \in Batches, NEW o \in Orders, TypeOK,
           \A c \in Batches \ {b} : pc'[c] = pc[c] /\ local'[c] = local[c] /\ req'[c] = req[c],
           Holds(b, o)' => Holds(b, o)
    PROVE  \A c \in Batches : Holds(c, o)' => Holds(c, o)
  BY DEF Holds, InFlight, IsBatch, Current

LEMMA AbandonedStep ==
    ASSUME IInv, [Next]_vars, NEW o \in Orders, Abandoned(o)
    PROVE  Abandoned(o)' /\ moved'[o] = moved[o]
  <1>0. TypeOK /\ status[o] # "pending" /\ \A b \in Batches : ~Holds(b, o) /\ BatchInv(b)
    BY DEF Abandoned, IInv, TypeInv
  <1>u. CASE UNCHANGED vars
    BY <1>0, <1>u, KeepsAbandoned DEF vars, Holds, InFlight, IsBatch, Current
  <1>1. ASSUME NEW b \in Batches, NEW r \in Requests, BeginBatch(b, r)
        PROVE  Abandoned(o)' /\ moved'[o] = moved[o]
    <2>1. /\ local'[b].order = NoOrder /\ local'[b].done = {}
          /\ UNCHANGED <<status, moved>>
          /\ \A c \in Batches \ {b} : pc'[c] = pc[c] /\ local'[c] = local[c] /\ req'[c] = req[c]
      BY <1>0, <1>1 DEF BeginBatch, Goto, TypeOK, Start, dbVars
    <2>2. ~Holds(b, o)'
      BY <2>1 DEF Holds, Current
    <2> QED BY <1>0, <2>1, <2>2, HeldLess, KeepsAbandoned
  <1>2. ASSUME NEW b \in Batches, NEW r \in Requests, NEW x \in Orders, BeginSingle(b, r, x)
        PROVE  Abandoned(o)' /\ moved'[o] = moved[o]
    <2>1. /\ ~IsBatch(b)' /\ UNCHANGED <<status, moved>>
          /\ \A c \in Batches \ {b} : pc'[c] = pc[c] /\ local'[c] = local[c] /\ req'[c] = req[c]
      BY <1>0, <1>2 DEF BeginSingle, Goto, TypeOK, IsBatch, dbVars
    <2> QED BY <1>0, <2>1, HeldLess, KeepsAbandoned DEF Holds
  <1>3. ASSUME NEW b \in Batches, NEW outcome \in Ended, Return(b, outcome), UNCHANGED req,
               status'[o] # "pending", moved'[o] = moved[o]
        PROVE  Abandoned(o)' /\ moved'[o] = moved[o]
    <2>1. /\ pc'[b] \in Ended
          /\ \A c \in Batches \ {b} : pc'[c] = pc[c] /\ local'[c] = local[c] /\ req'[c] = req[c]
      BY <1>0, <1>3 DEF Return, TypeOK
    <2>2. ~Holds(b, o)'
      BY <2>1 DEF Holds, InFlight, Running, Ended
    <2> QED BY <1>0, <1>3, <2>1, <2>2, HeldLess, KeepsAbandoned
  <1>4. ASSUME NEW b \in Batches, NEW x \in Orders, Lookup(b, x)
        PROVE  Abandoned(o)' /\ moved'[o] = moved[o]
    <2>1. /\ UNCHANGED <<status, moved, req>> /\ InFlight(b)
          /\ \A c \in Batches \ {b} : pc'[c] = pc[c] /\ local'[c] = local[c]
      BY <1>0, <1>4 DEF Lookup, Goto, TypeOK, dbVars, historyVars, InFlight, Running
    <2>2. local'[b].done = local[b].done /\ (local'[b].order = local[b].order \/ local'[b].order # o)
      <3>1. local[b] \in LocalType /\ local \in [Batches -> LocalType]
        BY <1>0 DEF TypeOK
      <3>2. CASE Wanted(b, x)
        <4> DEFINE row == [local[b] EXCEPT !.todo = @ \ {x}, !.order = x,
                             !.env = IF local[b].done = {} THEN Environment[x] ELSE @]
        <4>1. local'[b] = row
          BY <1>4, <3>1, <3>2 DEF Lookup
        <4>2. row.done = local[b].done /\ row.order = x
          BY <3>1 DEF LocalType
        <4>3. x # o
          BY <1>0, <3>2 DEF Wanted
        <4> QED BY <4>1, <4>2, <4>3
      <3>3. CASE ~Wanted(b, x)
        <4>1. local'[b] = [local[b] EXCEPT !.todo = @ \ {x}]
          BY <1>4, <3>1, <3>3 DEF Lookup
        <4> QED BY <3>1, <4>1 DEF LocalType
      <3> QED BY <3>2, <3>3
    <2>3. Holds(b, o)' => Holds(b, o)
      BY <2>1, <2>2 DEF Holds, IsBatch, Current
    <2> QED BY <1>0, <2>1, <2>3, HeldLess, KeepsAbandoned
  <1>5. ASSUME NEW b \in Batches, Recheck(b) PROVE Abandoned(o)' /\ moved'[o] = moved[o]
    <2>1. UNCHANGED <<status, moved, req>> /\ InFlight(b)
      BY <1>5 DEF Recheck, dbVars, historyVars, InFlight, Running
    <2>2. CASE Return(b, "failed")
      BY <1>0, <1>3, <2>1, <2>2 DEF Ended
    <2>3. CASE Goto(b, "mark") /\ UNCHANGED local
      <3>1. \A c \in Batches \ {b} : pc'[c] = pc[c]
        BY <1>0, <2>3 DEF Goto, TypeOK
      <3>2. Holds(b, o)' => Holds(b, o)
        BY <2>1, <2>3 DEF Holds, IsBatch, Current
      <3> QED BY <1>0, <2>1, <2>3, <3>1, <3>2, HeldLess, KeepsAbandoned
    <2> QED BY <1>5, <2>2, <2>3 DEF Recheck
  <1>6. ASSUME NEW b \in Batches, Mark(b) PROVE Abandoned(o)' /\ moved'[o] = moved[o]
    <2>1. /\ UNCHANGED <<moved, req>> /\ InFlight(b) /\ status'[o] # "pending"
      BY <1>0, <1>6 DEF Mark, TypeOK, InFlight, Running
    <2>2. CASE ~IsBatch(b)
      BY <1>0, <1>3, <1>6, <2>1, <2>2 DEF Mark, Ended
    <2>3. CASE IsBatch(b)
      <3>1. /\ local'[b] = Counted(b)
            /\ \A c \in Batches \ {b} : pc'[c] = pc[c] /\ local'[c] = local[c]
        BY <1>0, <1>6, <2>3 DEF Mark, Goto, TypeOK
      <3>2. local'[b].done = local[b].done \cup {Current(b)} /\ local'[b].order = NoOrder
        <4>1. local[b] \in LocalType
          BY <1>0 DEF TypeOK
        <4> QED BY <3>1, <4>1 DEF Counted, LocalType
      <3>3. Holds(b, o)' => Holds(b, o)
        BY <2>1, <3>2 DEF Holds, IsBatch, Current
      <3> QED BY <1>0, <2>1, <3>1, <3>3, HeldLess, KeepsAbandoned
    <2> QED BY <2>2, <2>3
  <1>7. ASSUME NEW b \in Batches, EndLoop(b) \/ EndBooking(b)
        PROVE  Abandoned(o)' /\ moved'[o] = moved[o]
    <2>1. UNCHANGED <<status, moved, req>> /\ InFlight(b)
      BY <1>7 DEF EndLoop, EndBooking, dbVars, historyVars, InFlight, Running
    <2>2. CASE \E outcome \in Ended : Return(b, outcome)
      BY <1>0, <1>3, <2>1, <2>2
    <2>3. CASE (\E label \in Running : Goto(b, label)) /\ UNCHANGED local
      <3>1. \A c \in Batches \ {b} : pc'[c] = pc[c]
        BY <1>0, <2>3 DEF Goto, TypeOK
      <3>2. Holds(b, o)' => Holds(b, o)
        BY <2>1, <2>3 DEF Holds, IsBatch, Current
      <3> QED BY <1>0, <2>1, <2>3, <3>1, <3>2, HeldLess, KeepsAbandoned
    <2> QED BY <1>7, <2>2, <2>3 DEF EndLoop, EndBooking, Ended, Running
  <1>8. ASSUME NEW b \in Batches, NEW p \in Products, BookProduct(b, p)
        PROVE  Abandoned(o)' /\ moved'[o] = moved[o]
    <2>1. UNCHANGED <<status, moved, req>> /\ InFlight(b)
      BY <1>8 DEF BookProduct, InFlight, Running
    <2>2. CASE Return(b, "failed")
      BY <1>0, <1>3, <2>1, <2>2 DEF Ended
    <2>3. CASE local' = [local EXCEPT ![b] = [local[b] EXCEPT !.due = @ \ {p}]] /\ pc' = pc
      <3>1. \A c \in Batches \ {b} : pc'[c] = pc[c] /\ local'[c] = local[c]
        BY <1>0, <2>3 DEF TypeOK
      <3>2. local'[b].done = local[b].done /\ local'[b].order = local[b].order
        <4>1. local[b] \in LocalType /\ local \in [Batches -> LocalType]
          BY <1>0 DEF TypeOK
        <4>2. local'[b] = [local[b] EXCEPT !.due = @ \ {p}]
          BY <2>3, <4>1
        <4> QED BY <4>1, <4>2 DEF LocalType
      <3>3. Holds(b, o)' => Holds(b, o)
        BY <2>1, <3>2 DEF Holds, IsBatch, Current
      <3> QED BY <1>0, <2>1, <3>1, <3>3, HeldLess, KeepsAbandoned
    <2> QED BY <1>8, <2>2, <2>3 DEF BookProduct
  <1>9. ASSUME NEW b \in Batches, Refuse(b) \/ EndReceipts(b) \/ Fail(b)
        PROVE  Abandoned(o)' /\ moved'[o] = moved[o]
    BY <1>0, <1>3, <1>9 DEF Refuse, EndReceipts, Fail, Ended, dbVars, historyVars
  <1>10. ASSUME NEW b \in Batches, Transfer(b) PROVE Abandoned(o)' /\ moved'[o] = moved[o]
    <2>1. UNCHANGED <<status, req>> /\ InFlight(b) /\ IsBatch(b)
      BY <1>0, <1>10 DEF Transfer, InFlight, Running, BatchInv
    <2>2. o \notin local[b].done
      BY <1>0, <2>1 DEF Holds
    <2>3. moved'[o] = moved[o]
      BY <1>10, <2>2 DEF Transfer
    <2>4. CASE \E outcome \in Ended : Return(b, outcome)
      BY <1>0, <1>3, <2>1, <2>3, <2>4
    <2>5. CASE Goto(b, "receipts")
               /\ local' = [local EXCEPT ![b] = [local[b] EXCEPT !.todo = local[b].done]]
      <3>1. \A c \in Batches \ {b} : pc'[c] = pc[c] /\ local'[c] = local[c]
        BY <1>0, <2>5 DEF Goto, TypeOK
      <3>2. local'[b].done = local[b].done /\ local'[b].order = local[b].order
        <4>1. local[b] \in LocalType /\ local \in [Batches -> LocalType]
          BY <1>0 DEF TypeOK
        <4>2. local'[b] = [local[b] EXCEPT !.todo = local[b].done]
          BY <2>5, <4>1
        <4> QED BY <4>1, <4>2 DEF LocalType
      <3>3. Holds(b, o)' => Holds(b, o)
        BY <2>1, <3>2 DEF Holds, IsBatch, Current
      <3> QED BY <1>0, <2>1, <2>3, <3>1, <3>3, HeldLess, KeepsAbandoned
    <2> QED BY <1>10, <2>4, <2>5 DEF Transfer, Ended
  <1>11. ASSUME NEW b \in Batches, NEW x \in Deposits, WriteReceipt(b, x)
         PROVE  Abandoned(o)' /\ moved'[o] = moved[o]
    <2>1. /\ UNCHANGED <<status, moved, req, pc>> /\ InFlight(b)
          /\ local' = [local EXCEPT ![b] = [local[b] EXCEPT !.todo = @ \ {x}]]
      BY <1>11 DEF WriteReceipt, historyVars, InFlight, Running
    <2>2. \A c \in Batches \ {b} : local'[c] = local[c]
      BY <1>0, <2>1 DEF TypeOK
    <2>3. local'[b].done = local[b].done /\ local'[b].order = local[b].order
      <3>1. local[b] \in LocalType /\ local \in [Batches -> LocalType]
        BY <1>0 DEF TypeOK
      <3>2. local'[b] = [local[b] EXCEPT !.todo = @ \ {x}]
        BY <2>1, <3>1
      <3> QED BY <3>1, <3>2 DEF LocalType
    <2>4. Holds(b, o)' => Holds(b, o)
      BY <2>1, <2>3 DEF Holds, InFlight, IsBatch, Current
    <2> QED BY <1>0, <2>1, <2>2, <2>4, HeldLess, KeepsAbandoned
  <1>12. ASSUME NEW x \in Withdrawals, FailWithdrawal(x) PROVE Abandoned(o)' /\ moved'[o] = moved[o]
    <2>1. status'[o] # "pending" /\ UNCHANGED <<pc, req, local, moved>>
      BY <1>0, <1>12 DEF FailWithdrawal, TypeOK, historyVars
    <2> QED BY <1>0, <2>1, KeepsAbandoned DEF Holds, InFlight, IsBatch, Current
  <1> QED BY <1>u, <1>1, <1>2, <1>4, <1>5, <1>6, <1>7, <1>8, <1>9, <1>10, <1>11, <1>12
       DEF Next, Step

(* An order whose batch failed before the tokens moved is never settled.     *)
THEOREM NoLateSettlement == Spec => AbandonedForGood
  <1>1. IInv /\ [Next]_vars
          => [\A o \in Orders : Abandoned(o) => Abandoned(o)' /\ moved'[o] = moved[o]]_vars
    BY AbandonedStep
  <1> QED BY <1>1, Invariance, PTL DEF Spec, AbandonedForGood

-----------------------------------------------------------------------------
(* Refinement of SettlementContract.                                       *)

LEMMA MarkCompletes ==
    ASSUME IInv, NEW b \in Batches, Mark(b)
    PROVE  Contract!Complete(b, Current(b))
  <1> DEFINE o == Current(b)
  <1>1. TypeOK /\ BatchInv(b) /\ o \in Orders /\ Holding(b)
    BY DEF IInv, TypeInv, HoldsOrders, Holding, Mark
  <1>2. Own(b, booked) = {} /\ Own(b, moved) = {}
    BY <1>1 DEF BatchInv, Untouched, Listing, Collecting
  <1>3. b \notin completed[o] /\ \A x \in Own(b, completed) : Environment[x] = Environment[o]
    BY <1>1 DEF BatchInv, Untouched, Listing, Collecting, Own
  <1>4. completed' = [completed EXCEPT ![o] = @ \cup {b}] /\ UNCHANGED <<booked, moved>>
    BY DEF Mark
  <1> QED BY <1>2, <1>3, <1>4, Zenon DEF Contract!Complete, Contract!Of, Own, Orders

LEMMA BookingBooks ==
    ASSUME IInv, NEW b \in Batches, NEW p \in Products, BookProduct(b, p), booked' # booked
    PROVE  Contract!Book(b, p)
  <1> DEFINE own == {o \in Own(b, completed) : ProductOf[o] = p}
  <1>1. pc[b] = "book" /\ p \in local[b].due /\ BatchInv(b)
    BY DEF IInv, BookProduct
  <1>2. /\ Own(b, completed) = local[b].done
        /\ Own(b, booked) = {o \in local[b].done : ProductOf[o] \notin local[b].due}
        /\ Own(b, moved) = {}
        /\ local[b].due \subseteq {ProductOf[o] : o \in local[b].done}
    BY <1>1 DEF BatchInv
  <1>3. own # {} /\ own \cap Own(b, booked) = {}
    BY <1>1, <1>2
  <1>4. /\ booked' = [o \in Orders |-> IF o \in local[b].done /\ ProductOf[o] = p
                                       THEN booked[o] \cup {b} ELSE booked[o]]
        /\ UNCHANGED <<completed, moved>>
    BY DEF BookProduct
  <1>5. booked' = [o \in Orders |-> IF o \in own THEN booked[o] \cup {b} ELSE booked[o]]
    BY <1>2, <1>4
  <1> QED BY <1>2, <1>3, <1>4, <1>5, Zenon DEF Contract!Book, Contract!Of, Own, Orders

LEMMA TransferMoves ==
    ASSUME IInv, NEW b \in Batches, Transfer(b)
    PROVE  Contract!Move(b)
  <1>1. pc[b] = "move" /\ BatchInv(b)
    BY DEF IInv, Transfer
  <1>2. /\ Own(b, completed) # {} /\ Own(b, booked) = Own(b, completed)
        /\ Own(b, moved) = {} /\ Own(b, completed) = local[b].done
    BY <1>1 DEF BatchInv
  <1>3. /\ moved' = [o \in Orders |-> IF o \in local[b].done THEN moved[o] \cup {b}
                                                             ELSE moved[o]]
        /\ UNCHANGED <<completed, booked>>
    BY DEF Transfer
  <1>4. moved' = [o \in Orders |-> IF o \in Own(b, completed) THEN moved[o] \cup {b}
                                                              ELSE moved[o]]
    BY <1>2, <1>3
  <1> QED BY <1>2, <1>3, <1>4, Zenon DEF Contract!Move, Contract!Of, Own, Orders

(* Whatever overlaps, fails or is refused, a batch completes, then books     *)
(* each product once, then moves the tokens of all its orders or of none.    *)
THEOREM Refinement == Spec => ImplementsContract
  <1>1. Init => Contract!Init
    BY DEF Init, Contract!Init
  <1>2. IInv /\ [Next]_vars => [Contract!Next]_(Contract!vars)
    <2> SUFFICES ASSUME IInv, [Next]_vars
                 PROVE  Contract!Next \/ UNCHANGED <<completed, booked, moved>>
      BY DEF Contract!vars
    <2>1. ASSUME NEW b \in Batches, Mark(b) PROVE Contract!Next
      <3>1. Current(b) \in Orders
        BY <2>1 DEF IInv, TypeInv, HoldsOrders, Holding, Mark
      <3> QED BY <2>1, <3>1, MarkCompletes, Zenon DEF Contract!Next
    <2>2. ASSUME NEW b \in Batches, NEW p \in Products, BookProduct(b, p)
          PROVE  Contract!Next \/ UNCHANGED <<completed, booked, moved>>
      <3>1. CASE booked' = booked
        BY <2>2, <3>1 DEF BookProduct
      <3>2. CASE booked' # booked
        BY <2>2, <3>2, BookingBooks, Zenon DEF Contract!Next
      <3> QED BY <3>1, <3>2
    <2>3. ASSUME NEW b \in Batches, Transfer(b) PROVE Contract!Next
      BY <2>3, TransferMoves, Zenon DEF Contract!Next
    <2>4. ASSUME NEW b \in Batches, Step(b)
          PROVE  Contract!Next \/ UNCHANGED <<completed, booked, moved>>
      BY <2>1, <2>2, <2>3, <2>4
         DEF Step, Lookup, Recheck, EndLoop, EndBooking, Refuse, WriteReceipt, EndReceipts,
             historyVars
    <2> QED BY <2>4 DEF Next, BeginBatch, BeginSingle, Fail, FailWithdrawal, historyVars, vars
  <1> QED BY <1>1, <1>2, Invariance, PTL DEF Spec, ImplementsContract, Contract!Spec

-----------------------------------------------------------------------------
(* The books.                                                              *)

OfProduct(orders, p) == {o \in orders : ProductOf[o] = p}

Tallying(b) == pc[b] \in {"lookup", "book", "move"} \/ (Holding(b) /\ IsBatch(b))

(* What a batch will book is the sum of the orders it completed, rounded,    *)
(* and what it will move their sum before rounding; they are of one kind,    *)
(* and there is a wallet for them.                                           *)
Tally(b) ==
    Tallying(b) =>
       /\ req[b] \in Requests
       /\ local[b].done \subseteq req[b].orders
       /\ local[b].total = SumOver(Amount, local[b].done)
       /\ \A p \in Products : local[b].sums[p] = SumOver(Rounded, OfProduct(local[b].done, p))
       /\ pc[b] \notin {"book", "move"} => local[b].todo \subseteq req[b].orders
       /\ Holding(b) => Current(b) \in req[b].orders
       /\ pc[b] \in {"book", "move"} => TokenWallet(b) # NoWallet

(* A step that leaves what a batch has counted alone keeps its tally.      *)
LEMMA TallyKept ==
    ASSUME NEW b \in Batches, Tally(b), Tallying(b), req'[b] = req[b],
           local'[b].done = local[b].done, local'[b].total = local[b].total,
           local'[b].sums = local[b].sums,
           pc'[b] \notin {"book", "move"} => local'[b].todo \subseteq req[b].orders,
           Holding(b)' => Current(b)' \in req[b].orders,
           pc'[b] \in {"book", "move"} => TokenWallet(b)' # NoWallet
    PROVE  Tally(b)'
  BY DEF Tally

LEMMA TallyFrame ==
    ASSUME NEW c \in Batches, Tally(c), pc'[c] = pc[c], local'[c] = local[c], req'[c] = req[c]
    PROVE  Tally(c)'
  BY DEF Tally, Tallying, Holding, IsBatch, Current, TokenWallet

LEMMA TallyEnded ==
    ASSUME NEW b \in Batches, pc'[b] \in Ended \cup {"receipts"}
    PROVE  Tally(b)'
  BY DEF Tally, Tallying, Holding, Ended

LEMMA TallyInit == Init => \A b \in Batches : Tally(b)
  BY DEF Init, Tally, Tallying, Holding

LEMMA TallyBegins ==
    ASSUME TypeInv, NEW b \in Batches, NEW r \in Requests, BeginBatch(b, r)
    PROVE  Tally(b)'
  <1>1. pc'[b] = "lookup" /\ local'[b] = Start(r.orders) /\ req'[b] = r
    BY DEF BeginBatch, Goto, TypeInv, TypeOK
  <1>2. /\ local'[b].done = {} /\ local'[b].total = 0 /\ local'[b].todo = r.orders
        /\ \A p \in Products : local'[b].sums[p] = 0
    BY <1>1 DEF Start
  <1>3. \A p \in Products : OfProduct({}, p) = {}
    BY DEF OfProduct
  <1>4. SumOver(Amount, {}) = 0 /\ SumOver(Rounded, {}) = 0
    BY SumOfNothing
  <1> QED BY <1>1, <1>2, <1>3, <1>4 DEF Tally, Holding

(* An order is counted where it belongs, and in the total.                 *)
LEMMA TallyCounts ==
    ASSUME IInv, NEW b \in Batches, Tally(b), Mark(b), IsBatch(b)
    PROVE  Tally(b)'
  <1> DEFINE o == Current(b)
             done == local[b].done
  <1>0. /\ TypeOK /\ BatchInv(b) /\ Holding(b) /\ Tallying(b)
        /\ o \in Orders /\ o \notin done /\ local[b] \in LocalType
    BY DEF IInv, TypeInv, TypeOK, Mark, HoldsOrders, Holding, Tallying, BatchInv
  <1>1. /\ pc'[b] = "lookup" /\ local'[b] = Counted(b) /\ req' = req
    BY <1>0 DEF Mark, Goto, TypeOK
  <1>2. /\ local'[b].done = done \cup {o} /\ local'[b].total = local[b].total + Amount[o]
        /\ local'[b].sums = [local[b].sums EXCEPT ![ProductOf[o]] = @ + Rounded[o]]
        /\ local'[b].todo = local[b].todo
    BY <1>0, <1>1 DEF Counted, LocalType
  <1>3. /\ req[b] \in Requests /\ done \subseteq req[b].orders /\ o \in req[b].orders
        /\ local[b].total = SumOver(Amount, done)
        /\ \A p \in Products : local[b].sums[p] = SumOver(Rounded, OfProduct(done, p))
        /\ local[b].todo \subseteq req[b].orders
    BY <1>0 DEF Tally, Mark
  <1>4. done \subseteq Orders
    BY <1>0 DEF LocalType
  <1>5. ASSUME NEW f \in [Orders -> Nat], NEW S \in SUBSET Orders, o \notin S
        PROVE  SumOver(f, S \cup {o}) = SumOver(f, S) + f[o]
    <2>1. IsFiniteSet(S)
      BY FS_Subset
    <2>2. (\A x \in S : f[x] \in Int) /\ f[o] \in Int
      BY <1>0
    <2>3. o \notin S
      BY <1>5
    <2> QED BY ONLY <2>1, <2>2, <2>3, SumPutsIn
  <1>6. local'[b].total = SumOver(Amount, local'[b].done)
    <2>1. Amount \in [Orders -> Nat] /\ done \in SUBSET Orders /\ o \notin done
      BY <1>0, <1>4
    <2>2. SumOver(Amount, done \cup {o}) = SumOver(Amount, done) + Amount[o]
      BY ONLY <1>5, <2>1
    <2> QED BY <1>2, <1>3, <2>2
  <1>7. ASSUME NEW p \in Products
        PROVE  local'[b].sums[p] = SumOver(Rounded, OfProduct(local'[b].done, p))
    <2> DEFINE S == OfProduct(done, p)
    <2>1. S \in SUBSET Orders /\ o \notin S
      BY <1>0, <1>4 DEF OfProduct
    <2>2. local[b].sums \in [Products -> Nat]
      BY <1>0 DEF LocalType
    <2>3. CASE ProductOf[o] = p
      <3>1. OfProduct(local'[b].done, p) = S \cup {o}
        BY <1>2, <2>3 DEF OfProduct
      <3>2. local'[b].sums[p] = local[b].sums[p] + Rounded[o]
        BY <1>2, <2>2, <2>3
      <3>3. SumOver(Rounded, S \cup {o}) = SumOver(Rounded, S) + Rounded[o]
        BY <1>5, <2>1
      <3> QED BY <1>3, <3>1, <3>2, <3>3
    <2>4. CASE ProductOf[o] # p
      <3>1. OfProduct(local'[b].done, p) = S
        BY <1>2, <2>4 DEF OfProduct
      <3>2. local'[b].sums[p] = local[b].sums[p]
        BY <1>0, <1>2, <2>2, <2>4
      <3> QED BY <1>3, <3>1, <3>2
    <2> QED BY <2>3, <2>4
  <1>8. local'[b].done \subseteq req[b].orders /\ local'[b].todo \subseteq req[b].orders
    BY <1>2, <1>3
  <1> QED BY <1>1, <1>3, <1>6, <1>7, <1>8 DEF Tally, Holding

LEMMA TallyLooksUp ==
    ASSUME IInv, NEW b \in Batches, NEW o \in Orders, Tally(b), Lookup(b, o)
    PROVE  Tally(b)'
  <1>0. /\ TypeOK /\ Tallying(b) /\ ~Holding(b) /\ local[b] \in LocalType
        /\ pc[b] = "lookup" /\ o \in local[b].todo /\ req' = req
    BY DEF IInv, TypeInv, TypeOK, Lookup, Tallying, Holding
  <1>1. local[b].todo \subseteq req[b].orders
    BY <1>0 DEF Tally
  <1>2. CASE Wanted(b, o)
    <2> DEFINE row == [local[b] EXCEPT !.todo = @ \ {o}, !.order = o,
                         !.env = IF local[b].done = {} THEN Environment[o] ELSE @]
    <2>1. local'[b] = row /\ pc'[b] \in {"recheck", "mark"}
      BY <1>0, <1>2 DEF Lookup, Goto, TypeOK
    <2>2. /\ row.done = local[b].done /\ row.total = local[b].total
          /\ row.sums = local[b].sums /\ row.order = o /\ row.todo = local[b].todo \ {o}
      BY <1>0 DEF LocalType
    <2>3. Current(b)' = o
      BY <2>1, <2>2 DEF Current
    <2> QED BY <1>0, <1>1, <2>1, <2>2, <2>3, TallyKept
  <1>3. CASE ~Wanted(b, o)
    <2>1. local'[b] = [local[b] EXCEPT !.todo = @ \ {o}] /\ pc' = pc
      BY <1>0, <1>3 DEF Lookup, TypeOK
    <2>2. /\ local'[b].done = local[b].done /\ local'[b].total = local[b].total
          /\ local'[b].sums = local[b].sums /\ local'[b].todo = local[b].todo \ {o}
      BY <1>0, <2>1 DEF LocalType
    <2>3. ~Holding(b)'
      BY <1>0, <2>1 DEF Holding
    <2> QED BY <1>0, <1>1, <2>1, <2>2, <2>3, TallyKept
  <1> QED BY <1>2, <1>3

(* Rechecking, ending the loop and ending the booking only move on.        *)
LEMMA TallyMovesOn ==
    ASSUME IInv, NEW b \in Batches, Tally(b), Recheck(b) \/ EndLoop(b) \/ EndBooking(b)
    PROVE  Tally(b)'
  <1>0. TypeOK /\ pc[b] \in {"recheck", "lookup", "book"} /\ req' = req
    BY DEF IInv, TypeInv, Recheck, EndLoop, EndBooking
  <1>1. CASE pc'[b] \in Ended
    BY <1>1, TallyEnded
  <1>2. CASE Recheck(b) /\ pc'[b] \notin Ended
    <2>1. pc[b] = "recheck" /\ pc'[b] = "mark" /\ local' = local
      BY <1>0, <1>2 DEF Recheck, Goto, Return, TypeOK, Ended
    <2> QED BY <1>0, <2>1 DEF Tally, Tallying, Holding, IsBatch, Current
  <1>3. CASE EndLoop(b) /\ pc'[b] \notin Ended
    <2>1. /\ pc[b] = "lookup" /\ pc'[b] = "book" /\ local' = local
          /\ TokenWallet(b) # NoWallet
      BY <1>0, <1>3 DEF EndLoop, Goto, Return, TypeOK, Ended
    <2>2. TokenWallet(b)' = TokenWallet(b) /\ Tallying(b) /\ ~Holding(b)'
      BY <1>0, <2>1 DEF TokenWallet, Tallying, Holding
    <2> QED BY <1>0, <2>1, <2>2, TallyKept
  <1>4. CASE EndBooking(b)
    <2>1. pc[b] = "book" /\ pc'[b] = "move" /\ local' = local
      BY <1>0, <1>4 DEF EndBooking, Goto, TypeOK
    <2>2. TokenWallet(b)' = TokenWallet(b) /\ Tallying(b) /\ ~Holding(b)'
      BY <1>0, <2>1 DEF TokenWallet, Tallying, Holding
    <2>3. TokenWallet(b) # NoWallet
      BY <2>1, <2>2 DEF Tally
    <2> QED BY <1>0, <2>1, <2>2, <2>3, TallyKept
  <1> QED BY <1>1, <1>2, <1>3, <1>4

LEMMA TallyBooks ==
    ASSUME IInv, NEW b \in Batches, NEW p \in Products, Tally(b), BookProduct(b, p)
    PROVE  Tally(b)'
  <1>0. TypeOK /\ local[b] \in LocalType /\ pc[b] = "book" /\ req' = req
    BY DEF IInv, TypeInv, TypeOK, BookProduct
  <1>1. CASE pc'[b] \in Ended
    BY <1>1, TallyEnded
  <1>2. CASE pc'[b] \notin Ended
    <2>1. pc' = pc /\ local'[b] = [local[b] EXCEPT !.due = @ \ {p}]
      BY <1>0, <1>2 DEF BookProduct, Return, TypeOK, Ended
    <2>2. /\ local'[b].done = local[b].done /\ local'[b].total = local[b].total
          /\ local'[b].sums = local[b].sums /\ local'[b].env = local[b].env
      BY <1>0, <2>1 DEF LocalType
    <2>3. TokenWallet(b)' = TokenWallet(b) /\ Tallying(b) /\ ~Holding(b)'
      BY <1>0, <2>1, <2>2 DEF TokenWallet, Tallying, Holding
    <2>4. TokenWallet(b) # NoWallet
      BY <1>0, <2>3 DEF Tally
    <2> QED BY <1>0, <2>1, <2>2, <2>3, <2>4, TallyKept
  <1> QED BY <1>1, <1>2

LEMMA TallyStep ==
    ASSUME IInv, [Next]_vars, \A b \in Batches : Tally(b)
    PROVE  \A b \in Batches : Tally(b)'
  <1>0. TypeInv /\ TypeOK
    BY DEF IInv, TypeInv
  <1>u. CASE UNCHANGED vars
    BY <1>u, TallyFrame DEF vars
  <1>1. ASSUME NEW b \in Batches, NEW r \in Requests, BeginBatch(b, r)
        PROVE  \A c \in Batches : Tally(c)'
    <2>1. \A c \in Batches \ {b} : pc'[c] = pc[c] /\ local'[c] = local[c] /\ req'[c] = req[c]
      BY <1>0, <1>1 DEF BeginBatch, Goto, TypeOK
    <2> QED BY <1>0, <1>1, <2>1, TallyFrame, TallyBegins
  <1>2. ASSUME NEW b \in Batches, NEW r \in Requests, NEW o \in Orders, BeginSingle(b, r, o)
        PROVE  \A c \in Batches : Tally(c)'
    <2>1. \A c \in Batches \ {b} : pc'[c] = pc[c] /\ local'[c] = local[c] /\ req'[c] = req[c]
      BY <1>0, <1>2 DEF BeginSingle, Goto, TypeOK
    <2>2. pc'[b] \in {"recheck", "mark"} /\ ~IsBatch(b)'
      BY <1>0, <1>2 DEF BeginSingle, Goto, TypeOK, IsBatch
    <2>3. Tally(b)'
      BY <2>2 DEF Tally, Tallying
    <2> QED BY <2>1, <2>3, TallyFrame
  <1>3. ASSUME NEW b \in Batches, Step(b) \/ Fail(b) PROVE \A c \in Batches : Tally(c)'
    <2>1. \A c \in Batches \ {b} : pc'[c] = pc[c] /\ local'[c] = local[c] /\ req'[c] = req[c]
      <3>1. req' = req
        BY <1>3 DEF Step, Fail, Lookup, Recheck, Mark, EndLoop, BookProduct, EndBooking,
                    Refuse, Transfer, WriteReceipt, EndReceipts, historyVars
      <3>2. ASSUME NEW c \in Batches \ {b}
            PROVE  pc'[c] = pc[c] /\ local'[c] = local[c]
        <4>1. CASE (\E o \in Orders : Lookup(b, o)) \/ Recheck(b) \/ EndLoop(b)
          BY <1>0, <4>1 DEF Lookup, Recheck, EndLoop, Goto, Return, TypeOK
        <4>2. CASE Mark(b) \/ \E p \in Products : BookProduct(b, p)
          BY <1>0, <4>2 DEF Mark, BookProduct, Goto, Return, TypeOK
        <4>3. CASE EndBooking(b) \/ Refuse(b) \/ Fail(b) \/ EndReceipts(b)
          BY <1>0, <4>3 DEF EndBooking, Refuse, Fail, EndReceipts, Goto, Return, TypeOK
        <4>4. CASE Transfer(b) \/ \E o \in Deposits : WriteReceipt(b, o)
          BY <1>0, <4>4 DEF Transfer, WriteReceipt, Goto, Return, TypeOK
        <4> QED BY <1>3, <4>1, <4>2, <4>3, <4>4 DEF Step
      <3> QED BY <3>1, <3>2
    <2>2. Tally(b)'
      <3>1. CASE \E o \in Orders : Lookup(b, o)
        BY <3>1, TallyLooksUp
      <3>2. CASE Recheck(b) \/ EndLoop(b) \/ EndBooking(b)
        BY <3>2, TallyMovesOn
      <3>3. CASE Mark(b) /\ IsBatch(b)
        BY <3>3, TallyCounts
      <3>4. CASE \E p \in Products : BookProduct(b, p)
        BY <3>4, TallyBooks
      <3>5. CASE pc'[b] \in Ended \cup {"receipts"}
        BY <3>5, TallyEnded
      <3>6. ASSUME (Mark(b) /\ ~IsBatch(b)) \/ Refuse(b) \/ Transfer(b) \/ EndReceipts(b)
                     \/ Fail(b) \/ \E o \in Deposits : WriteReceipt(b, o)
            PROVE  pc'[b] \in Ended \cup {"receipts"}
        BY <1>0, <3>6 DEF Mark, Refuse, Transfer, EndReceipts, Fail, WriteReceipt, Goto,
                          Return, TypeOK, Ended
      <3> QED BY <1>3, <3>1, <3>2, <3>3, <3>4, <3>5, <3>6 DEF Step
    <2> QED BY <2>1, <2>2, TallyFrame
  <1>4. ASSUME NEW o \in Withdrawals, FailWithdrawal(o) PROVE \A c \in Batches : Tally(c)'
    BY <1>4, TallyFrame DEF FailWithdrawal
  <1> QED BY <1>u, <1>1, <1>2, <1>3, <1>4 DEF Next

(* What an order is worth to the books: in for a deposit, out for a        *)
(* withdrawal.                                                             *)
Signed(worth) == [o \in Orders |-> IF o \in Deposits THEN worth[o] ELSE -worth[o]]

(* What the wallets hold beyond what the batches found.                    *)
Gains == [w \in Wallets |-> custody[w] - OpeningCustody[w]]

IdleExplained(p) == idle[p] = OpeningIdle[p] + Net(booked, OfProduct(Orders, p), Rounded)
CustodyExplained ==
    2 * Apart(SumOver(Gains, Wallets) * PerCent, Net(moved, Orders, Amount))
      <= PerCent * Cardinality(Payers)

Worth(history, orders, worth) == [o \in orders |-> Cardinality(history[o]) * Signed(worth)[o]]

LEMMA NetIsWorth ==
    ASSUME NEW history \in [Orders -> SUBSET Batches], NEW S \in SUBSET Orders,
           NEW worth \in [Orders -> Nat]
    PROVE  /\ Net(history, S, worth) = SumOver(Worth(history, S, worth), S)
           /\ IsFiniteSet(S)
           /\ \A o \in S : /\ Cardinality(history[o]) \in Nat /\ Signed(worth)[o] \in Int
                           /\ Worth(history, S, worth)[o] = Cardinality(history[o]) * Signed(worth)[o]
                           /\ Worth(history, S, worth)[o] \in Int
  <1> DEFINE f == [o \in S |-> Cardinality(history[o])
                                 * (IF o \in Deposits THEN worth[o] ELSE -worth[o])]
  <1>1. IsFiniteSet(S)
    BY FS_Subset
  <1>2. \A o \in S : Cardinality(history[o]) \in Nat
    <2>1. \A o \in S : history[o] \in SUBSET Batches
      OBVIOUS
    <2>2. \A o \in S : IsFiniteSet(history[o])
      BY <2>1, FS_Subset
    <2> QED BY <2>2, FS_CardinalityType
  <1>3. \A o \in S : /\ Signed(worth)[o] \in Int
                     /\ Signed(worth)[o] = IF o \in Deposits THEN worth[o] ELSE -worth[o]
    BY DEF Signed
  <1>4. \A o \in S : /\ Worth(history, S, worth)[o] = Cardinality(history[o]) * Signed(worth)[o]
                     /\ Worth(history, S, worth)[o] \in Int
    BY <1>2, <1>3 DEF Worth
  <1>5. \A o \in S : f[o] = Worth(history, S, worth)[o]
    BY <1>3, <1>4
  <1>6. SumOver(f, S) = SumOver(Worth(history, S, worth), S)
    <2> HIDE DEF f
    <2> QED BY ONLY <1>1, <1>5, SumOfSame
  <1>7. Net(history, S, worth) = SumOver(f, S)
    BY DEF Net
  <1> QED BY <1>1, <1>2, <1>3, <1>4, <1>6, <1>7

(* Among the orders S, a batch enters the history of those of D.           *)
Enters(b, D, S, before, after) ==
    /\ before \in [Orders -> SUBSET Batches] /\ after \in [Orders -> SUBSET Batches]
    /\ S \in SUBSET Orders /\ D \in SUBSET S /\ b \in Batches
    /\ \A o \in D : b \notin before[o] /\ after[o] = before[o] \cup {b}
    /\ \A o \in S \ D : after[o] = before[o]

(* That adds what they are worth.                                          *)
LEMMA NetGrows ==
    ASSUME NEW b, NEW D, NEW S, NEW before, NEW after, Enters(b, D, S, before, after),
           NEW worth \in [Orders -> Nat]
    PROVE  Net(after, S, worth) = Net(before, S, worth) + SumOver(Signed(worth), D)
  <1> DEFINE f == Worth(before, S, worth)
             h == Worth(after, S, worth)
             g == [o \in S |-> IF o \in D THEN Signed(worth)[o] ELSE 0]
  <1> USE DEF Enters
  <1>1. \A c, s \in Int : (c + 1) * s = c * s + s
    OBVIOUS
  <1>2. \A o \in D : Cardinality(after[o]) = Cardinality(before[o]) + 1
    <2> SUFFICES ASSUME NEW o \in D
                 PROVE  Cardinality(after[o]) = Cardinality(before[o]) + 1
      OBVIOUS
    <2>1. o \in Orders /\ before[o] \in SUBSET Batches
      OBVIOUS
    <2>2. IsFiniteSet(before[o])
      BY <2>1, FS_Subset
    <2>3. Cardinality(before[o] \cup {b}) = Cardinality(before[o]) + 1
      BY <2>2, FS_AddElement
    <2> QED BY <2>3
  <1>3. /\ IsFiniteSet(S) /\ Net(before, S, worth) = SumOver(f, S) /\ Net(after, S, worth) = SumOver(h, S)
        /\ \A o \in S : /\ f[o] \in Int /\ h[o] \in Int /\ Signed(worth)[o] \in Int
                        /\ Cardinality(before[o]) \in Nat
                        /\ f[o] = Cardinality(before[o]) * Signed(worth)[o]
                        /\ h[o] = Cardinality(after[o]) * Signed(worth)[o]
    <2>1. /\ before \in [Orders -> SUBSET Batches] /\ after \in [Orders -> SUBSET Batches]
          /\ S \in SUBSET Orders /\ worth \in [Orders -> Nat]
      OBVIOUS
    <2>2. /\ IsFiniteSet(S) /\ Net(before, S, worth) = SumOver(f, S)
          /\ \A o \in S : /\ f[o] \in Int /\ Signed(worth)[o] \in Int
                          /\ Cardinality(before[o]) \in Nat
                          /\ f[o] = Cardinality(before[o]) * Signed(worth)[o]
      BY ONLY <2>1, NetIsWorth
    <2>3. /\ Net(after, S, worth) = SumOver(h, S)
          /\ \A o \in S : /\ h[o] \in Int
                          /\ h[o] = Cardinality(after[o]) * Signed(worth)[o]
      BY ONLY <2>1, NetIsWorth
    <2> QED BY ONLY <2>2, <2>3
  <1>4. \A o \in S : g[o] = IF o \in D THEN Signed(worth)[o] ELSE 0
    OBVIOUS
  <1> HIDE DEF f, g, h
  <1>5. \A o \in S : g[o] \in Int
    BY <1>3, <1>4
  <1>6. ASSUME NEW o \in S PROVE h[o] = f[o] + g[o]
    <2>1. CASE o \in D
      <3>1. h[o] = (Cardinality(before[o]) + 1) * Signed(worth)[o]
        BY <1>2, <1>3, <2>1
      <3>2. Cardinality(before[o]) \in Int /\ Signed(worth)[o] \in Int
        BY <1>3
      <3>3. (Cardinality(before[o]) + 1) * Signed(worth)[o]
               = Cardinality(before[o]) * Signed(worth)[o] + Signed(worth)[o]
        BY <1>1, <3>2
      <3> QED BY <1>3, <1>4, <2>1, <3>1, <3>3
    <2>2. CASE o \notin D
      <3>1. h[o] = f[o]
        BY <1>3, <2>2
      <3> QED BY <1>3, <1>4, <2>2, <3>1
    <2> QED BY <2>1, <2>2
  <1>7. \A o \in S : f[o] \in Int /\ g[o] \in Int /\ h[o] = f[o] + g[o]
    BY <1>3, <1>5, <1>6
  <1>8. SumOver(h, S) = SumOver(f, S) + SumOver(g, S)
    BY ONLY <1>3, <1>7, SumOfSums
  <1>9. SumOver(g, S) = SumOver(g, D)
    <2>1. \A o \in S \ D : g[o] = 0
      BY <1>4
    <2>2. D \in SUBSET S
      OBVIOUS
    <2> QED BY ONLY <1>3, <1>5, <2>1, <2>2, SumOfPart
  <1>10. SumOver(g, D) = SumOver(Signed(worth), D)
    <2>1. IsFiniteSet(D) /\ \A o \in D : g[o] = Signed(worth)[o]
      BY <1>3, <1>4, FS_Subset
    <2> QED BY ONLY <2>1, SumOfSame
  <1> QED BY <1>3, <1>8, <1>9, <1>10

LEMMA NetIsInt ==
    ASSUME NEW history \in [Orders -> SUBSET Batches], NEW S \in SUBSET Orders,
           NEW worth \in [Orders -> Nat]
    PROVE  Net(history, S, worth) \in Int
  <1> DEFINE f == Worth(history, S, worth)
  <1>1. IsFiniteSet(S) /\ Net(history, S, worth) = SumOver(f, S)
    BY NetIsWorth
  <1>2. \A o \in S : f[o] \in Int
    BY NetIsWorth
  <1> HIDE DEF f
  <1> QED BY ONLY <1>1, <1>2, SumIsInt

(* A batch is of one kind, so it books and moves all it does with one sign. *)
LEMMA OneKind ==
    ASSUME TypeOK, NEW b \in Batches, Tally(b), pc[b] \in {"book", "move"},
           NEW D \in SUBSET local[b].done, NEW worth \in [Orders -> Nat]
    PROVE  /\ SumOver(Signed(worth), D) = Booking(b) * SumOver(worth, D)
           /\ SumOver(worth, D) \in Nat /\ IsFiniteSet(D)
           /\ local[b].done \in SUBSET Orders
  <1>1. /\ local[b].done \in SUBSET Orders
        /\ req[b] \in Requests /\ local[b].done \subseteq req[b].orders
    BY DEF TypeOK, LocalType, Tally, Tallying
  <1>2. IsFiniteSet(D) /\ \A o \in D : worth[o] \in Nat /\ worth[o] \in Int
    BY <1>1, FS_Subset
  <1>3. Booking(b) \in Int
    BY DEF Booking
  <1>4. \A o \in D : Signed(worth)[o] = worth[o] * Booking(b)
    <2>1. CASE local[b].done \subseteq Deposits
      BY <1>1, <1>2, <2>1 DEF Signed, Booking
    <2>2. CASE ~(local[b].done \subseteq Deposits)
      <3>1. local[b].done \subseteq Withdrawals
        BY <1>1, <2>2
      <3> QED BY <1>1, <1>2, <2>2, <3>1 DEF Signed, Booking
    <2> QED BY <2>1, <2>2
  <1>5. SumOver(Signed(worth), D) = SumOver(worth, D) * Booking(b)
    <2>1. \A o \in D : worth[o] \in Int
      BY <1>2
    <2> QED BY ONLY <1>2, <2>1, <1>3, <1>4, SumOfMultiples
  <1>6. SumOver(worth, D) \in Nat
    BY <1>2, SumIsNat
  <1> QED BY <1>1, <1>2, <1>3, <1>5, <1>6

LEMMA LedgersByParts ==
    LedgersExplained <=> (\A p \in Products : IdleExplained(p)) /\ CustodyExplained
  BY DEF LedgersExplained, IdleExplained, CustodyExplained, OfProduct, Gains,
         Gained

LEMMA NetOfNothing ==
    ASSUME NEW history \in [Orders -> SUBSET Batches], NEW S \in SUBSET Orders,
           NEW worth \in [Orders -> Nat],
           \A o \in S : history[o] = {}
    PROVE  Net(history, S, worth) = 0
  <1> DEFINE f == Worth(history, S, worth)
  <1>0. \A o \in S : /\ f[o] = Cardinality(history[o]) * Signed(worth)[o]
                     /\ Signed(worth)[o] \in Int
    <2>1. history \in [Orders -> SUBSET Batches] /\ S \in SUBSET Orders
          /\ worth \in [Orders -> Nat]
      OBVIOUS
    <2> QED BY ONLY <2>1, NetIsWorth
  <1>1. \A o \in S : f[o] = Cardinality({}) * Signed(worth)[o] /\ Signed(worth)[o] \in Int
    <2> HIDE DEF f
    <2> QED BY <1>0
  <1>2. Cardinality({}) = 0
    BY FS_EmptySet
  <1>3. \A o \in S : f[o] = 0
    BY <1>1, <1>2
  <1>4. IsFiniteSet(S) /\ Net(history, S, worth) = SumOver(f, S)
    BY NetIsWorth
  <1> HIDE DEF f
  <1> QED BY ONLY <1>3, <1>4, SumOfZeros

LEMMA LedgersInit == Init => LedgersExplained
  <1> SUFFICES ASSUME Init PROVE LedgersExplained
    OBVIOUS
  <1>1. /\ booked \in [Orders -> SUBSET Batches] /\ moved \in [Orders -> SUBSET Batches]
        /\ \A o \in Orders : booked[o] = {} /\ moved[o] = {}
    BY DEF Init
  <1>2. \A p \in Products : OfProduct(Orders, p) \in SUBSET Orders
    BY DEF OfProduct
  <1>3. ASSUME NEW p \in Products PROVE IdleExplained(p)
    <2>1. Net(booked, OfProduct(Orders, p), Rounded) = 0
      BY <1>1, <1>2, NetOfNothing
    <2>2. idle[p] = OpeningIdle[p] /\ OpeningIdle[p] \in Int
      BY DEF Init
    <2> QED BY <2>1, <2>2 DEF IdleExplained
  <1>4. CustodyExplained
    <2>1. Net(moved, Orders, Amount) = 0
      BY <1>1, NetOfNothing
    <2>2. IsFiniteSet(Wallets) /\ \A w \in Wallets : Gains[w] = 0
      BY DEF Init, Gains
    <2>3. SumOver(Gains, Wallets) = 0
      BY ONLY <2>2, SumOfZeros
    <2>4. Payers = {}
      BY <1>1 DEF Payers
    <2>5. Cardinality(Payers) = 0
      BY <2>4, FS_EmptySet
    <2> QED BY <2>1, <2>3, <2>5 DEF CustodyExplained, Apart
  <1> QED BY <1>3, <1>4, LedgersByParts

(* The update of one idle balance and the entry of the batch in the history *)
(* of the orders of that product are one step.                             *)
LEMMA BookingExplained ==
    ASSUME IInv, NEW b \in Batches, NEW q \in Products, Tally(b), BookProduct(b, q),
           LedgersExplained
    PROVE  LedgersExplained'
  <1> DEFINE own == OfProduct(local[b].done, q)
             balance == idle[q] + Booking(b) * local[b].sums[q]
  <1>0. TypeOK /\ TypeOK' /\ BatchInv(b)
    <2>1. TypeInv'
      BY TypeStep DEF IInv, Next, Step
    <2> QED BY <2>1 DEF IInv, TypeInv
  <1>1. /\ pc[b] = "book" /\ q \in local[b].due /\ UNCHANGED <<custody, moved>>
        /\ booked \in [Orders -> SUBSET Batches] /\ booked' \in [Orders -> SUBSET Batches]
    BY <1>0 DEF BookProduct, TypeOK
  <1>2. CustodyExplained'
    BY <1>1, LedgersByParts DEF CustodyExplained, Gains, Payers
  <1>3. CASE balance < 0
    <2>1. UNCHANGED <<idle, booked>>
      BY <1>3 DEF BookProduct
    <2> QED BY <1>1, <2>1 DEF LedgersExplained, Gained, Payers
  <1>4. CASE ~(balance < 0)
    <2>1. /\ idle' = [idle EXCEPT ![q] = balance]
          /\ \A o \in Orders : booked'[o] = IF o \in own THEN booked[o] \cup {b} ELSE booked[o]
      BY <1>4 DEF BookProduct, OfProduct
    <2>2. \A o \in own : b \notin booked[o]
      BY <1>0, <1>1 DEF BatchInv, Own, OfProduct, TypeOK, LocalType
    <2>3. own \in SUBSET local[b].done /\ local[b].done \in SUBSET Orders
      BY <1>0 DEF OfProduct, TypeOK, LocalType
    <2>4. SumOver(Signed(Rounded), own) = Booking(b) * local[b].sums[q]
      <3>1. local[b].sums[q] = SumOver(Rounded, own)
        BY <1>1 DEF Tally, Tallying
      <3>2. SumOver(Signed(Rounded), own) = Booking(b) * SumOver(Rounded, own)
        BY <1>0, <1>1, <2>3, OneKind
      <3> QED BY <3>1, <3>2
    <2>5. ASSUME NEW p \in Products PROVE IdleExplained(p)'
      <3> DEFINE S == OfProduct(Orders, p)
      <3>0. S \in SUBSET Orders /\ IdleExplained(p) /\ idle[p] \in Int /\ OpeningIdle[p] \in Int
        BY <1>0, LedgersByParts DEF OfProduct, TypeOK
      <3>i. Net(booked, S, Rounded) \in Int
        BY <1>1, <3>0, NetIsInt
      <3>1. CASE p = q
        <4>1. own \in SUBSET S
          BY <2>3, <3>1 DEF OfProduct
        <4>2. /\ \A o \in own : b \notin booked[o] /\ booked'[o] = booked[o] \cup {b}
              /\ \A o \in S \ own : booked'[o] = booked[o]
          BY <2>1, <2>2, <3>0, <4>1
        <4>3. Net(booked', S, Rounded) = Net(booked, S, Rounded) + SumOver(Signed(Rounded), own)
          <5>1. Enters(b, own, S, booked, booked')
            BY <1>1, <3>0, <4>1, <4>2 DEF Enters
          <5> QED BY ONLY <5>1, NetGrows, Rounded \in [Orders -> Nat]
        <4>4. idle'[p] = idle[p] + Booking(b) * local[b].sums[q]
          BY <1>0, <2>1, <3>1 DEF TypeOK
        <4>5. SumOver(Signed(Rounded), own) \in Int
          BY <1>0, <2>4 DEF TypeOK, LocalType, Booking
        <4>6. idle'[p] = OpeningIdle[p] + Net(booked', S, Rounded)
          BY <2>4, <3>0, <3>i, <4>3, <4>4, <4>5 DEF IdleExplained
        <4> QED BY <4>6 DEF IdleExplained
      <3>2. CASE p # q
        <4>1. \A o \in S : booked'[o] = booked[o]
          BY <2>1, <3>0, <3>2 DEF OfProduct
        <4>2. /\ \A o \in {} : b \notin booked[o] /\ booked'[o] = booked[o] \cup {b}
              /\ \A o \in S \ {} : booked'[o] = booked[o]
          BY <4>1
        <4>3. Net(booked', S, Rounded) = Net(booked, S, Rounded) + SumOver(Signed(Rounded), {})
          <5>1. Enters(b, {}, S, booked, booked')
            BY <1>1, <3>0, <4>2 DEF Enters
          <5> QED BY ONLY <5>1, NetGrows, Rounded \in [Orders -> Nat]
        <4>4. idle'[p] = idle[p]
          BY <1>0, <2>1, <3>2 DEF TypeOK
        <4>5. idle'[p] = OpeningIdle[p] + Net(booked', S, Rounded)
          BY <3>0, <3>i, <4>3, <4>4, SumOfNothing DEF IdleExplained
        <4> QED BY <4>5 DEF IdleExplained
      <3> QED BY <3>1, <3>2
    <2>6. (\A p \in Products : IdleExplained(p))'
      BY <2>5
    <2> QED BY <1>2, <2>6, LedgersByParts DEF LedgersExplained, IdleExplained,
                                              CustodyExplained, OfProduct, Gains, Gained
  <1> QED BY <1>3, <1>4

(* The tokens of a batch go to one wallet, or leave one.                   *)
LEMMA ApartAdds ==
    ASSUME NEW g \in Int, NEW w \in Int, NEW a \in Int, NEW t \in Int,
           NEW k \in Nat, NEW d \in Nat, 2 * Apart(g, w) <= k, 2 * Apart(a, t) <= d
    PROVE  2 * Apart(g + a, w + t) <= k + d /\ 2 * Apart(g - a, w - t) <= k + d
  BY DEF Apart

(* A total of whole cents is moved as it is.                                 *)
LEMMA CentsAreExact ==
    ASSUME NEW k \in Nat, NEW n \in Nat, IsNearest(n, k * PerCent)
    PROVE  n = k
  <1>1. PerCent \in Nat \ {0}
    OBVIOUS
  <1>2. 2 * Apart(n * PerCent, k * PerCent) <= PerCent
    BY DEF IsNearest
  <1>3. CASE n < k
    <2>1. k - n \in Nat \ {0} /\ k * PerCent = n * PerCent + (k - n) * PerCent
      BY <1>1, <1>3
    <2>2. (k - n) * PerCent >= PerCent
      BY <1>1, <2>1
    <2> QED BY <1>1, <1>2, <2>1, <2>2 DEF Apart
  <1>4. CASE k < n
    <2>1. n - k \in Nat \ {0} /\ n * PerCent = k * PerCent + (n - k) * PerCent
      BY <1>1, <1>4
    <2>2. (n - k) * PerCent >= PerCent
      BY <1>1, <2>1
    <2> QED BY <1>1, <1>2, <2>1, <2>2 DEF Apart
  <1> QED BY <1>3, <1>4

LEMMA TransferExplained ==
    ASSUME IInv, NEW b \in Batches, Tally(b), Transfer(b), LedgersExplained
    PROVE  LedgersExplained'
  <1> DEFINE done == local[b].done
             total == local[b].total
             before == Gains
             after == [w \in Wallets |-> custody'[w] - OpeningCustody[w]]
  <1>0. TypeOK /\ TypeOK' /\ BatchInv(b)
    <2>1. TypeInv'
      BY TypeStep DEF IInv, Next, Step
    <2> QED BY <2>1 DEF IInv, TypeInv
  <1>c. PICK cents \in ToCents(local[b].total) :
           /\ ~Refused(b, cents)
           /\ custody' = [custody EXCEPT ![Wallet(b)] = @ + Booking(b) * cents]
    BY DEF Transfer
  <1> DEFINE n == Booking(b) * cents
  <1>1. /\ pc[b] = "move" /\ ~Refused(b, cents) /\ UNCHANGED <<idle, booked>>
        /\ custody' = [custody EXCEPT ![Wallet(b)] = @ + n]
        /\ \A o \in Orders : moved'[o] = IF o \in done THEN moved[o] \cup {b} ELSE moved[o]
        /\ moved \in [Orders -> SUBSET Batches] /\ moved' \in [Orders -> SUBSET Batches]
    BY <1>0, <1>c DEF Transfer, TypeOK
  <1>2. /\ local[b] \in LocalType /\ req[b] \in Requests /\ req[b].first \in Products
        /\ TokenWallet(b) # NoWallet /\ total = SumOver(Amount, done) /\ total \in Nat
    BY <1>0, <1>1 DEF TypeOK, Tally, Tallying, RequestType, LocalType
  <1>3. Wallet(b) \in Wallets
    <2>1. TokenWallet(b) \in Wallets /\ KeyWallet[local[b].env] \in Wallets \cup {NoWallet}
      BY <1>2 DEF TokenWallet, LocalType
    <2> QED BY <1>1, <2>1 DEF Wallet, Refused
  <1>n. cents \in Nat /\ IsNearest(cents, total) /\ n \in Int
    <2>1. cents \in Nat /\ IsNearest(cents, total)
      BY <1>c, <1>2, ToCentsTyped
    <2> QED BY <2>1 DEF Booking
  <1>4. SumOver(Signed(Amount), done) = Booking(b) * total /\ done \in SUBSET Orders
    <2>1. /\ SumOver(Signed(Amount), done) = Booking(b) * SumOver(Amount, done)
          /\ done \in SUBSET Orders
      BY <1>0, <1>1, OneKind
    <2> QED BY <1>2, <2>1
  <1>s. \A o \in done : b \notin moved[o]
    BY <1>0, <1>1, <1>4 DEF BatchInv, Own
  <1>5. Net(moved', Orders, Amount) = Net(moved, Orders, Amount) + Booking(b) * total
    <2>1. /\ \A o \in done : b \notin moved[o] /\ moved'[o] = moved[o] \cup {b}
          /\ \A o \in Orders \ done : moved'[o] = moved[o]
      BY <1>1, <1>4, <1>s
    <2>2. Orders \in SUBSET Orders /\ done \in SUBSET Orders
      BY <1>4
    <2>3. Net(moved', Orders, Amount)
            = Net(moved, Orders, Amount) + SumOver(Signed(Amount), done)
      <3>1. Enters(b, done, Orders, moved, moved')
        BY <1>1, <2>1, <2>2 DEF Enters
      <3> QED BY ONLY <3>1, NetGrows, Amount \in [Orders -> Nat]
    <2> QED BY <1>4, <2>3
  <1>6. SumOver(after, Wallets) = SumOver(before, Wallets) + n
    <2>1. IsFiniteSet(Wallets) /\ n \in Int /\ Wallet(b) \in Wallets
      BY <1>3, <1>n
    <2>2. \A w \in Wallets : custody[w] \in Int /\ OpeningCustody[w] \in Int
      BY <1>0 DEF TypeOK
    <2>3. \A w \in Wallets : before[w] = custody[w] - OpeningCustody[w] /\ before[w] \in Int
      BY <2>2 DEF Gains
    <2>4. \A w \in Wallets : custody'[w] = IF w = Wallet(b) THEN custody[w] + n ELSE custody[w]
      BY <1>0, <1>1 DEF TypeOK
    <2>5. \A w \in Wallets : after[w] = IF w = Wallet(b) THEN before[w] + n ELSE before[w]
      <3> HIDE DEF n, before
      <3> QED BY <2>1, <2>2, <2>3, <2>4
    <2>6. \A w \in Wallets : before[w] \in Int
      BY <2>3
    <2> HIDE DEF n, before, after
    <2>7. SumOver(after, Wallets)
            = SumOver(before, Wallets) + (IF Wallet(b) \in Wallets THEN n ELSE 0)
      BY ONLY <2>1, <2>5, <2>6, SumGrows
    <2> QED BY <2>1, <2>7
  <1>7. CustodyExplained'
    <2> DEFINE G == SumOver(before, Wallets)
               N == Net(moved, Orders, Amount)
    <2>1. 2 * Apart(G * PerCent, N) <= PerCent * Cardinality(Payers)
      BY LedgersByParts DEF CustodyExplained
    <2>2. Gains' = after
      BY DEF Gains
    <2>3. /\ N \in Int /\ G \in Int /\ PerCent \in Nat \ {0}
          /\ IsFiniteSet(Payers) /\ Cardinality(Payers) \in Nat
      <3>1. \A w \in Wallets : before[w] \in Int
        BY <1>0 DEF TypeOK, Gains
      <3>2. G \in Int
        <4> HIDE DEF before
        <4> QED BY <3>1, SumIsInt
      <3>3. IsFiniteSet(Payers)
        BY FS_Subset DEF Payers
      <3> QED BY <1>1, <3>2, <3>3, NetIsInt, FS_CardinalityType
    <2>4. 2 * Apart((G + n) * PerCent, N + Booking(b) * total)
            <= PerCent * Cardinality(Payers')
      <3>1. CASE done \subseteq Deposits
        <4>1. Payers' = Payers
          BY <1>1, <3>1 DEF Payers
        <4>2. total = SumOver(Rounded, done) * PerCent /\ SumOver(Rounded, done) \in Nat
          <5>1. /\ IsFiniteSet(done) /\ PerCent \in Int
                /\ \A o \in done : Rounded[o] \in Nat /\ Rounded[o] \in Int
            BY <1>4, FS_Subset
          <5>2. \A o \in done : Amount[o] = Rounded[o] * PerCent
            BY <3>1
          <5>3. \A o \in done : Rounded[o] \in Int
            BY <5>1
          <5>4. SumOver(Amount, done) = SumOver(Rounded, done) * PerCent
            BY ONLY <5>1, <5>2, <5>3, SumOfMultiples
          <5>5. SumOver(Rounded, done) \in Nat
            BY <5>1, SumIsNat
          <5> QED BY <1>2, <5>4, <5>5
        <4>3. cents = SumOver(Rounded, done)
          <5> DEFINE k == SumOver(Rounded, done)
          <5>1. k \in Nat /\ cents \in Nat /\ IsNearest(cents, k * PerCent)
            BY <1>n, <4>2
          <5> HIDE DEF k
          <5>2. cents = k
            BY <5>1, CentsAreExact
          <5> QED BY <5>2 DEF k
        <4>4. Booking(b) = 1
          BY <3>1 DEF Booking
        <4>5. n = cents /\ Booking(b) * total = cents * PerCent
          BY <1>n, <4>2, <4>3, <4>4
        <4>6. Apart(0 * PerCent, 0) = 0
          BY <2>3 DEF Apart
        <4> DEFINE g == G * PerCent
                   a == cents * PerCent
        <4>7. g \in Int /\ a \in Int /\ (G + n) * PerCent = g + a
          BY <1>n, <2>3, <4>5
        <4>8. 2 * Apart(g, N) <= PerCent * Cardinality(Payers)
          BY <2>1
        <4>9. Apart(g + a, N + a) = Apart(g, N)
          <5> HIDE DEF g, a, N
          <5> QED BY <2>3, <4>7 DEF Apart
        <4> QED BY <4>1, <4>5, <4>7, <4>8, <4>9
      <3>2. CASE ~(done \subseteq Deposits)
        <4>1. Payers' = Payers \cup {b} /\ b \notin Payers
          <5>1. done \subseteq Withdrawals /\ done # {}
            <6>1. done \subseteq req[b].orders
              BY <1>1 DEF Tally, Tallying
            <6> QED BY <1>2, <1>4, <3>2, <6>1
          <5>2. Own(b, moved) = {}
            BY <1>0, <1>1 DEF BatchInv
          <5>3. \A o \in Withdrawals : b \notin moved[o]
            BY <5>2 DEF Own
          <5>4. PICK x \in Withdrawals : x \in done
            BY <5>1
          <5>5. moved'[x] = moved[x] \cup {b} /\ b \in Batches
            BY <1>1, <5>4
          <5>6. \A c \in Batches \ {b}, o \in Withdrawals : c \in moved'[o] <=> c \in moved[o]
            BY <1>1
          <5> QED BY <5>3, <5>4, <5>5, <5>6 DEF Payers
        <4>2. Cardinality(Payers') = Cardinality(Payers) + 1
          BY <2>3, <4>1, FS_AddElement
        <4>3. Booking(b) = -1
          BY <3>2 DEF Booking
        <4> DEFINE g == G * PerCent
                   a == cents * PerCent
                   k == PerCent * Cardinality(Payers)
        <4>4. g \in Int /\ a \in Int /\ k \in Nat /\ (G + n) * PerCent = g - a
          BY <1>n, <2>3, <4>3
        <4>5. PerCent * Cardinality(Payers') = k + PerCent
          BY <2>3, <4>2
        <4>6. Booking(b) * total = -total
          BY <1>2, <4>3
        <4>7. 2 * Apart(g, N) <= k /\ 2 * Apart(a, total) <= PerCent
          BY <1>n, <2>1 DEF IsNearest
        <4>8. 2 * Apart(g - a, N - total) <= k + PerCent
          <5> HIDE DEF g, a, k, N, total
          <5> QED BY <1>2, <2>3, <4>4, <4>7, ApartAdds
        <4>9. N + Booking(b) * total = N - total
          BY <1>2, <2>3, <4>6
        <4> QED BY <4>4, <4>5, <4>8, <4>9
      <3> QED BY <3>1, <3>2
    <2> QED BY <1>5, <1>6, <2>2, <2>4 DEF CustodyExplained
  <1>8. \A p \in Products : IdleExplained(p)'
    BY <1>1, LedgersByParts DEF IdleExplained
  <1> QED BY <1>7, <1>8 DEF LedgersExplained, IdleExplained, CustodyExplained, OfProduct, Gains,
                                Gained, Payers

BooksInv == IInv /\ (\A b \in Batches : Tally(b)) /\ LedgersExplained

LEMMA BooksStep == BooksInv /\ [Next]_vars => BooksInv'
  <1> SUFFICES ASSUME BooksInv, [Next]_vars PROVE BooksInv'
    OBVIOUS
  <1>1. IInv'
    BY InductiveStep DEF BooksInv
  <1>2. \A b \in Batches : Tally(b)'
    BY TallyStep DEF BooksInv
  <1>3. LedgersExplained'
    <2>1. CASE UNCHANGED <<idle, custody, booked, moved>>
      BY <2>1 DEF BooksInv, LedgersExplained, Gained, Payers
    <2>2. ASSUME NEW b \in Batches, NEW p \in Products, BookProduct(b, p)
          PROVE  LedgersExplained'
      BY <2>2, BookingExplained DEF BooksInv
    <2>3. ASSUME NEW b \in Batches, Transfer(b) PROVE LedgersExplained'
      BY <2>3, TransferExplained DEF BooksInv
    <2>4. ASSUME NEW b \in Batches, Step(b) PROVE LedgersExplained'
      BY <2>1, <2>2, <2>3, <2>4
         DEF Step, Lookup, Recheck, Mark, EndLoop, EndBooking, Refuse, WriteReceipt,
             EndReceipts, dbVars, historyVars
    <2> QED BY <2>1, <2>4 DEF Next, BeginBatch, BeginSingle, Fail, FailWithdrawal, dbVars,
                              historyVars, vars
  <1> QED BY <1>1, <1>2, <1>3 DEF BooksInv

LEMMA BooksInvariance == Spec => []BooksInv
  <1>1. Init => BooksInv
    BY HistoryInit, TallyInit, LedgersInit DEF BooksInv
  <1> QED BY <1>1, BooksStep, PTL DEF Spec

(* However many batches overlap, fail half way or are refused, the idle      *)
(* balances differ from what the batches found by exactly what the booked    *)
(* orders are worth, each rounded, and the wallets by what the orders moved  *)
(* ask for, within half a cent for each batch of withdrawals.                *)
THEOREM BooksExplainLedgers == Spec => []LedgersExplained
  <1>1. BooksInv => LedgersExplained
    BY DEF BooksInv
  <1> QED BY <1>1, BooksInvariance, PTL

-----------------------------------------------------------------------------
(* How long a request takes.                                               *)

(* The statements a request can still run: five for each order it has yet   *)
(* to visit, of which two come after the loop.                             *)
Left(b) ==
    LET todo == Cardinality(local[b].todo)
        done == Cardinality(local[b].done)
        due  == Cardinality(local[b].due)
    IN  CASE pc[b] = "lookup"   -> 5 * todo + 2 * done + 4
          [] pc[b] = "recheck"  -> 5 * todo + 2 * done + 8
          [] pc[b] = "mark"     -> 5 * todo + 2 * done + 7
          [] pc[b] = "book"     -> due + done + 3
          [] pc[b] = "move"     -> done + 2
          [] pc[b] = "receipts" -> todo + 1
          [] OTHER              -> 0

(* A batch of n orders runs at most 5n + 4 statements: each of its own       *)
(* statements brings it closer to its end, and no other request sets it      *)
(* back.                                                                     *)
StatementsBounded ==
    [][\A b \in Batches :
          /\ \A r \in Requests : BeginBatch(b, r) => Left(b)' = 5 * Cardinality(r.orders) + 4
          /\ Step(b) => Left(b)' < Left(b)
          /\ InFlight(b) => Left(b)' <= Left(b)]_vars

(* The cases of Left, one by one.                                          *)
Todo(b) == Cardinality(local[b].todo)
Done(b) == Cardinality(local[b].done)
Due(b)  == Cardinality(local[b].due)

LEMMA LeftByCase ==
    ASSUME NEW b
    PROVE  /\ pc[b] = "lookup" => Left(b) = 5 * Todo(b) + 2 * Done(b) + 4
           /\ pc[b] = "recheck" => Left(b) = 5 * Todo(b) + 2 * Done(b) + 8
           /\ pc[b] = "mark" => Left(b) = 5 * Todo(b) + 2 * Done(b) + 7
           /\ pc[b] = "book" => Left(b) = Due(b) + Done(b) + 3
           /\ pc[b] = "move" => Left(b) = Done(b) + 2
           /\ pc[b] = "receipts" => Left(b) = Todo(b) + 1
           /\ pc[b] \notin Running => Left(b) = 0
  BY DEF Left, Todo, Done, Due, Running

LEMMA SizesAreNat ==
    ASSUME TypeOK, NEW b \in Batches
    PROVE  /\ Todo(b) \in Nat /\ Done(b) \in Nat
           /\ IsFiniteSet(local[b].todo) /\ IsFiniteSet(local[b].done)
  <1>1. local[b].todo \in SUBSET Orders /\ local[b].done \in SUBSET Orders
    BY DEF TypeOK, LocalType
  <1>2. IsFiniteSet(local[b].todo) /\ IsFiniteSet(local[b].done)
    BY <1>1, FS_Subset
  <1> QED BY <1>2, FS_CardinalityType DEF Todo, Done

(* There are no more products to book than orders.                         *)
LEMMA DueIsSmall ==
    ASSUME TypeOK, NEW b \in Batches,
           local[b].due \subseteq {ProductOf[o] : o \in local[b].done}
    PROVE  IsFiniteSet(local[b].due) /\ Due(b) \in Nat /\ Due(b) <= Done(b)
  <1> DEFINE done == local[b].done
             image == {ProductOf[o] : o \in done}
             f == [o \in done |-> ProductOf[o]]
  <1>1. IsFiniteSet(done) /\ Done(b) = Cardinality(done) /\ Done(b) \in Nat
    BY SizesAreNat DEF Done
  <1>2. f \in Surjection(done, image)
    BY DEF Surjection
  <1>3. IsFiniteSet(image) /\ Cardinality(image) <= Cardinality(done)
    <2> HIDE DEF f, image, done
    <2> QED BY ONLY <1>1, <1>2, FS_Surjection
  <1>4. local[b].due \in SUBSET image
    OBVIOUS
  <1>5. IsFiniteSet(local[b].due) /\ Cardinality(local[b].due) <= Cardinality(image)
    <2> HIDE DEF image
    <2> QED BY ONLY <1>3, <1>4, FS_Subset
  <1>6. Cardinality(local[b].due) \in Nat /\ Cardinality(image) \in Nat
    BY <1>3, <1>5, FS_CardinalityType
  <1> QED BY <1>1, <1>3, <1>5, <1>6 DEF Due

LEMMA DueWhenBooking ==
    ASSUME IInv, NEW b \in Batches, pc[b] \in {"lookup", "book"}
    PROVE  IsFiniteSet(local[b].due) /\ Due(b) \in Nat /\ Due(b) <= Done(b)
  <1>1. TypeOK /\ local[b].due \subseteq {ProductOf[o] : o \in local[b].done}
    BY DEF IInv, TypeInv, BatchInv, Listing, Collecting
  <1> QED BY <1>1, DueIsSmall

LEMMA LeftIsNat ==
    ASSUME IInv, NEW b \in Batches
    PROVE  /\ Left(b) \in Nat
           /\ InFlight(b) => Left(b) > 0
  <1>1. TypeOK /\ pc[b] \in {"idle"} \cup Running \cup Ended
    BY DEF IInv, TypeInv, TypeOK
  <1>2. Todo(b) \in Nat /\ Done(b) \in Nat /\ (pc[b] = "book" => Due(b) \in Nat)
    BY <1>1, SizesAreNat, DueWhenBooking
  <1> QED BY <1>1, <1>2, LeftByCase DEF Running, Ended, InFlight

LeftCounts == \A b \in Batches : Left(b) \in Nat

LEMMA LeftEnds ==
    ASSUME IInv, NEW b \in Batches, InFlight(b), pc'[b] \in Ended
    PROVE  Left(b)' = 0 /\ Left(b)' < Left(b)
  <1>1. Left(b)' = 0
    BY DEF Left, Ended
  <1> QED BY <1>1, LeftIsNat

(* Taking an order from the ones to visit, or adding one to those done.     *)
LEMMA OneLess ==
    ASSUME NEW S, IsFiniteSet(S), NEW x \in S
    PROVE  Cardinality(S \ {x}) = Cardinality(S) - 1 /\ Cardinality(S) \in Nat
  BY FS_RemoveElement, FS_CardinalityType

LEMMA AtMostOneMore ==
    ASSUME NEW S, IsFiniteSet(S), NEW x
    PROVE  /\ Cardinality(S \cup {x}) \in Nat
           /\ Cardinality(S \cup {x}) <= Cardinality(S) + 1
  <1>1. IsFiniteSet(S \cup {x}) /\ Cardinality(S) \in Nat
        /\ Cardinality(S \cup {x}) = IF x \in S THEN Cardinality(S) ELSE Cardinality(S) + 1
    BY FS_AddElement, FS_CardinalityType
  <1> QED BY <1>1

LEMMA LeftFalls ==
    ASSUME IInv, NEW b \in Batches, Step(b) \/ Fail(b)
    PROVE  Left(b)' < Left(b)
  <1>0. /\ TypeOK /\ InFlight(b) /\ local[b] \in LocalType
        /\ Todo(b) \in Nat /\ Done(b) \in Nat
        /\ IsFiniteSet(local[b].todo) /\ IsFiniteSet(local[b].done)
    <2>1. InFlight(b)
      BY DEF Step, Fail, Lookup, Recheck, Mark, EndLoop, BookProduct, EndBooking, Refuse,
             Transfer, WriteReceipt, EndReceipts, InFlight, Running
    <2>2. TypeOK
      BY DEF IInv, TypeInv
    <2> QED BY <2>1, <2>2, SizesAreNat DEF TypeOK
  <1>e. CASE pc'[b] \in Ended
    BY <1>0, <1>e, LeftEnds
  <1>1. ASSUME NEW o \in Orders, Lookup(b, o) PROVE Left(b)' < Left(b)
    <2>1. /\ pc[b] = "lookup" /\ o \in local[b].todo
          /\ pc'[b] \in {"lookup", "recheck", "mark"}
          /\ local'[b].todo = local[b].todo \ {o} /\ local'[b].done = local[b].done
      <3>1. CASE Wanted(b, o)
        <4> DEFINE row == [local[b] EXCEPT !.todo = @ \ {o}, !.order = o,
                             !.env = IF local[b].done = {} THEN Environment[o] ELSE @]
        <4>1. local'[b] = row /\ pc'[b] \in {"recheck", "mark"}
          BY <1>0, <1>1, <3>1 DEF Lookup, Goto, TypeOK
        <4>2. row.todo = local[b].todo \ {o} /\ row.done = local[b].done
          BY <1>0 DEF LocalType
        <4> QED BY <1>1, <4>1, <4>2 DEF Lookup
      <3>2. CASE ~Wanted(b, o)
        <4>1. local'[b] = [local[b] EXCEPT !.todo = @ \ {o}] /\ pc' = pc
          BY <1>0, <1>1, <3>2 DEF Lookup, TypeOK
        <4> QED BY <1>0, <1>1, <4>1 DEF Lookup, LocalType
      <3> QED BY <3>1, <3>2
    <2>2. Todo(b)' = Todo(b) - 1 /\ Done(b)' = Done(b)
      BY <1>0, <2>1, OneLess DEF Todo, Done
    <2>3. Left(b) = 5 * Todo(b) + 2 * Done(b) + 4
      BY <2>1, LeftByCase
    <2>4. \/ Left(b)' = 5 * Todo(b)' + 2 * Done(b)' + 4
          \/ Left(b)' = 5 * Todo(b)' + 2 * Done(b)' + 8
          \/ Left(b)' = 5 * Todo(b)' + 2 * Done(b)' + 7
      BY <2>1 DEF Left, Todo, Done
    <2> QED BY <1>0, <2>2, <2>3, <2>4
  <1>2. ASSUME Recheck(b), pc'[b] \notin Ended PROVE Left(b)' < Left(b)
    <2>1. pc[b] = "recheck" /\ pc'[b] = "mark" /\ local' = local
      BY <1>0, <1>2 DEF Recheck, Goto, Return, TypeOK, Ended
    <2>2. Left(b) = 5 * Todo(b) + 2 * Done(b) + 8
      BY <2>1, LeftByCase
    <2>3. Left(b)' = 5 * Todo(b) + 2 * Done(b) + 7
      BY <2>1 DEF Left, Todo, Done
    <2> QED BY <1>0, <2>2, <2>3
  <1>3. ASSUME Mark(b), pc'[b] \notin Ended PROVE Left(b)' < Left(b)
    <2>1. /\ pc[b] = "mark" /\ pc'[b] = "lookup" /\ local'[b] = Counted(b)
      BY <1>0, <1>3 DEF Mark, Goto, Return, TypeOK, Ended
    <2>2. /\ local'[b].todo = local[b].todo
          /\ local'[b].done = local[b].done \cup {Current(b)}
      BY <1>0, <2>1 DEF Counted, LocalType
    <2>3. Todo(b)' = Todo(b) /\ Done(b)' \in Nat /\ Done(b)' <= Done(b) + 1
      BY <1>0, <2>2, AtMostOneMore DEF Todo, Done
    <2>4. Left(b) = 5 * Todo(b) + 2 * Done(b) + 7
      BY <2>1, LeftByCase
    <2>5. Left(b)' = 5 * Todo(b)' + 2 * Done(b)' + 4
      BY <2>1 DEF Left, Todo, Done
    <2> QED BY <1>0, <2>3, <2>4, <2>5
  <1>4. ASSUME EndLoop(b), pc'[b] \notin Ended PROVE Left(b)' < Left(b)
    <2>1. pc[b] = "lookup" /\ pc'[b] = "book" /\ local' = local
      BY <1>0, <1>4 DEF EndLoop, Goto, Return, TypeOK, Ended
    <2>2. Left(b) = 5 * Todo(b) + 2 * Done(b) + 4
      BY <2>1, LeftByCase
    <2>3. Left(b)' = Due(b) + Done(b) + 3
      BY <2>1 DEF Left, Due, Done
    <2>4. Due(b) \in Nat /\ Due(b) <= Done(b)
      BY <2>1, DueWhenBooking
    <2> QED BY <1>0, <2>2, <2>3, <2>4
  <1>5. ASSUME NEW p \in Products, BookProduct(b, p), pc'[b] \notin Ended
        PROVE  Left(b)' < Left(b)
    <2>1. /\ pc[b] = "book" /\ pc' = pc /\ p \in local[b].due
          /\ local'[b] = [local[b] EXCEPT !.due = @ \ {p}]
      BY <1>0, <1>5 DEF BookProduct, Return, TypeOK, Ended
    <2>2. local'[b].due = local[b].due \ {p} /\ local'[b].done = local[b].done
      BY <1>0, <2>1 DEF LocalType
    <2>3. IsFiniteSet(local[b].due) /\ Due(b) \in Nat
      BY <2>1, DueWhenBooking
    <2>4. Due(b)' = Due(b) - 1 /\ Done(b)' = Done(b)
      BY <2>1, <2>2, <2>3, OneLess DEF Due, Done
    <2>5. Left(b) = Due(b) + Done(b) + 3
      BY <2>1, LeftByCase
    <2>6. Left(b)' = Due(b)' + Done(b)' + 3
      BY <2>1 DEF Left, Due, Done
    <2> QED BY <1>0, <2>3, <2>4, <2>5, <2>6
  <1>6. ASSUME EndBooking(b) PROVE Left(b)' < Left(b)
    <2>1. pc[b] = "book" /\ pc'[b] = "move" /\ local' = local
      BY <1>0, <1>6 DEF EndBooking, Goto, TypeOK
    <2>2. Left(b) = Due(b) + Done(b) + 3 /\ Due(b) \in Nat
      BY <2>1, LeftByCase, DueWhenBooking
    <2>3. Left(b)' = Done(b) + 2
      BY <2>1 DEF Left, Done
    <2> QED BY <1>0, <2>2, <2>3
  <1>7. ASSUME Transfer(b), pc'[b] \notin Ended PROVE Left(b)' < Left(b)
    <2>1. /\ pc[b] = "move" /\ pc'[b] = "receipts"
          /\ local'[b] = [local[b] EXCEPT !.todo = local[b].done]
      BY <1>0, <1>7 DEF Transfer, Goto, Return, TypeOK, Ended
    <2>2. local'[b].todo = local[b].done
      BY <1>0, <2>1 DEF LocalType
    <2>3. Left(b)' = Done(b) + 1
      BY <2>1, <2>2 DEF Left, Done
    <2>4. Left(b) = Done(b) + 2
      BY <2>1, LeftByCase
    <2> QED BY <1>0, <2>3, <2>4
  <1>8. ASSUME NEW o \in Deposits, WriteReceipt(b, o) PROVE Left(b)' < Left(b)
    <2>1. /\ pc[b] = "receipts" /\ pc' = pc /\ o \in local[b].todo
          /\ local'[b] = [local[b] EXCEPT !.todo = @ \ {o}]
      BY <1>0, <1>8 DEF WriteReceipt, TypeOK
    <2>2. local'[b].todo = local[b].todo \ {o}
      BY <1>0, <2>1 DEF LocalType
    <2>3. Todo(b)' = Todo(b) - 1
      BY <1>0, <2>1, <2>2, OneLess DEF Todo
    <2>4. Left(b) = Todo(b) + 1
      BY <2>1, LeftByCase
    <2>5. Left(b)' = Todo(b)' + 1
      BY <2>1 DEF Left, Todo
    <2> QED BY <1>0, <2>3, <2>4, <2>5
  <1>9. Refuse(b) \/ EndReceipts(b) \/ Fail(b) => pc'[b] \in Ended
    BY <1>0 DEF Refuse, EndReceipts, Fail, Return, TypeOK, Ended
  <1> QED BY <1>e, <1>1, <1>2, <1>3, <1>4, <1>5, <1>6, <1>7, <1>8, <1>9 DEF Step

(* A request of n orders runs at most 5n + 4 statements, however many other  *)
(* requests it is served with: every statement of its own counts down, and   *)
(* nothing another request does counts up.                                   *)
THEOREM RequestsEnd == Spec => StatementsBounded
  <1>0. IInv => LeftCounts
    BY LeftIsNat DEF LeftCounts
  <1>1. ASSUME IInv, LeftCounts', Next, NEW b \in Batches
        PROVE  /\ \A r \in Requests :
                     BeginBatch(b, r) => Left(b)' = 5 * Cardinality(r.orders) + 4
               /\ Step(b) => Left(b)' < Left(b)
               /\ InFlight(b) => Left(b)' <= Left(b)
    <2>1. ASSUME NEW r \in Requests, BeginBatch(b, r)
          PROVE  Left(b)' = 5 * Cardinality(r.orders) + 4
      <3>1. pc'[b] = "lookup" /\ local'[b] = Start(r.orders)
        BY <1>1, <2>1 DEF BeginBatch, Goto, IInv, TypeInv, TypeOK
      <3>2. local'[b].todo = r.orders /\ local'[b].done = {} /\ Cardinality({}) = 0
        BY <3>1, FS_EmptySet DEF Start
      <3>3. IsFiniteSet(r.orders) /\ Cardinality(r.orders) \in Nat
        BY FS_Subset, FS_CardinalityType DEF RequestType
      <3> QED BY <3>1, <3>2, <3>3 DEF Left
    <2>2. Step(b) => Left(b)' < Left(b)
      BY <1>1, LeftFalls
    <2>3. ASSUME InFlight(b) PROVE Left(b)' <= Left(b)
      <3>1. CASE Step(b) \/ Fail(b)
        <4>1. Left(b)' \in Nat
          BY <1>1 DEF LeftCounts
        <4> QED BY <1>1, <3>1, <4>1, LeftFalls, LeftIsNat
      <3>2. CASE pc'[b] = pc[b] /\ local'[b] = local[b]
        <4>1. Left(b)' = Left(b)
          BY <3>2 DEF Left
        <4> QED BY <1>1, <4>1, LeftIsNat
      <3>3. Step(b) \/ Fail(b) \/ (pc'[b] = pc[b] /\ local'[b] = local[b])
        <4>1. TypeOK /\ pc[b] # "idle"
          BY <1>1, <2>3 DEF IInv, TypeInv, InFlight, Running
        <4>2. ASSUME NEW c \in Batches, c # b, Step(c) \/ Fail(c)
              PROVE  pc'[b] = pc[b] /\ local'[b] = local[b]
          BY <4>1, <4>2 DEF Step, Fail, Lookup, Recheck, Mark, EndLoop, BookProduct,
             EndBooking, Refuse, Transfer, WriteReceipt, EndReceipts, Goto, Return, TypeOK
        <4>3. ASSUME NEW c \in Batches, NEW r \in Requests,
                     BeginBatch(c, r) \/ \E o \in Orders : BeginSingle(c, r, o)
              PROVE  pc'[b] = pc[b] /\ local'[b] = local[b]
          BY <4>1, <4>3 DEF BeginBatch, BeginSingle, Goto, TypeOK
        <4> QED BY <1>1, <4>2, <4>3 DEF Next, FailWithdrawal
      <3> QED BY <3>1, <3>2, <3>3
    <2> QED BY <2>1, <2>2, <2>3
  <1>2. IInv /\ LeftCounts' /\ [Next]_vars
          => [\A b \in Batches :
                 /\ \A r \in Requests :
                       BeginBatch(b, r) => Left(b)' = 5 * Cardinality(r.orders) + 4
                 /\ Step(b) => Left(b)' < Left(b)
                 /\ InFlight(b) => Left(b)' <= Left(b)]_vars
    BY <1>1
  <1> QED BY <1>0, <1>2, Invariance, PTL DEF Spec, StatementsBounded

=========================================================================
