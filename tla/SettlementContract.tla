----------------------- MODULE SettlementContract -----------------------
(***************************************************************************)
(* What a batch promises, with no routers or statements in sight.  It      *)
(* first completes its orders, which are all of one environment; it then   *)
(* books them, product by product, in the product's idle balance; and only *)
(* when every order it completed is booked do the tokens move, once and    *)
(* for all of them together.  A batch may stop anywhere in between.        *)
(***************************************************************************)
CONSTANTS Orders, Batches, Products, ProductOf, Environment

VARIABLES completed,  \* of an order: the batches that completed it
          booked,     \* of an order: the batches that booked it
          moved       \* of an order: the batches whose tokens moved for it

vars == <<completed, booked, moved>>

(* The orders that batch b has among the given ones. *)
Of(b, history) == {o \in Orders : b \in history[o]}

Init ==
    /\ completed = [o \in Orders |-> {}]
    /\ booked = [o \in Orders |-> {}]
    /\ moved = [o \in Orders |-> {}]

Complete(b, o) ==
    /\ b \notin completed[o]
    /\ Of(b, booked) = {} /\ Of(b, moved) = {}
    /\ \A other \in Of(b, completed) : Environment[other] = Environment[o]
    /\ completed' = [completed EXCEPT ![o] = @ \cup {b}]
    /\ UNCHANGED <<booked, moved>>

Book(b, p) ==
    LET own == {o \in Of(b, completed) : ProductOf[o] = p}
    IN  /\ own # {} /\ own \cap Of(b, booked) = {}
        /\ Of(b, moved) = {}
        /\ booked' = [o \in Orders |-> IF o \in own THEN booked[o] \cup {b}
                                                    ELSE booked[o]]
        /\ UNCHANGED <<completed, moved>>

Move(b) ==
    /\ Of(b, completed) # {}
    /\ Of(b, booked) = Of(b, completed)
    /\ Of(b, moved) = {}
    /\ moved' = [o \in Orders |-> IF o \in Of(b, completed) THEN moved[o] \cup {b}
                                                            ELSE moved[o]]
    /\ UNCHANGED <<completed, booked>>

Next ==
    \E b \in Batches :
        \/ \E o \in Orders : Complete(b, o)
        \/ \E p \in Products : Book(b, p)
        \/ Move(b)

Spec == Init /\ [][Next]_vars
=========================================================================
