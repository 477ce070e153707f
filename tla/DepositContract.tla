------------------------- MODULE DepositContract -------------------------
(***************************************************************************)
(* What completing deposits promises the client, with no handlers, stale   *)
(* reads or statements in sight: an order is requested once, is settled    *)
(* once, as completed or as failed, and a completed order reaches its      *)
(* owner's position at most once and then the client vault at most once,   *)
(* each time with the amount written in the order.                         *)
(***************************************************************************)
EXTENDS Integers

CONSTANTS Orders, Accounts, Amounts, AccountOf

VARIABLES status,        \* of an order: "none" before it is requested
          cryptoAmount,  \* of an order, written when it completes
          credited,      \* amount an order has put into its owner's position
          booked,        \* amount an order has put into a client vault
          deposited      \* what an account's position holds

vars == <<status, cryptoAmount, credited, booked, deposited>>

Init ==
    /\ status = [o \in Orders |-> "none"]
    /\ cryptoAmount = [o \in Orders |-> 0]
    /\ credited = [o \in Orders |-> 0]
    /\ booked = [o \in Orders |-> 0]
    /\ deposited = [a \in Accounts |-> 0]

Request(o) ==
    /\ status[o] = "none"
    /\ status' = [status EXCEPT ![o] = "pending"]
    /\ UNCHANGED <<cryptoAmount, credited, booked, deposited>>

Fail(o) ==
    /\ status[o] = "pending"
    /\ status' = [status EXCEPT ![o] = "failed"]
    /\ UNCHANGED <<cryptoAmount, credited, booked, deposited>>

Complete(o, amount) ==
    /\ status[o] = "pending"
    /\ status' = [status EXCEPT ![o] = "completed"]
    /\ cryptoAmount' = [cryptoAmount EXCEPT ![o] = amount]
    /\ UNCHANGED <<credited, booked, deposited>>

Credit(o) ==
    /\ status[o] = "completed"
    /\ credited[o] = 0
    /\ credited' = [credited EXCEPT ![o] = cryptoAmount[o]]
    /\ deposited' = [deposited EXCEPT ![AccountOf[o]] = @ + cryptoAmount[o]]
    /\ UNCHANGED <<status, cryptoAmount, booked>>

Book(o) ==
    /\ credited[o] # 0
    /\ booked[o] = 0
    /\ booked' = [booked EXCEPT ![o] = credited[o]]
    /\ UNCHANGED <<status, cryptoAmount, credited, deposited>>

Next ==
    \E o \in Orders :
        \/ Request(o)
        \/ Fail(o)
        \/ \E amount \in Amounts : Complete(o, amount)
        \/ Credit(o)
        \/ Book(o)

Spec == Init /\ [][Next]_vars
==========================================================================
