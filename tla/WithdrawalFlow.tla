-------------------------- MODULE WithdrawalFlow --------------------------
(***************************************************************************)
(* The withdrawal use case of one client organisation.  As in DepositFlow, *)
(* one action is one database statement, committed by itself.  A request   *)
(* makes its own order id, so an order is also the handler that serves it. *)
(* Amounts the code keeps with a fraction (values, revenues, payouts) are  *)
(* counted in parts: Fraction of them make one micro-unit.  The revenue     *)
(* split is floating-point arithmetic: each of its results is any number    *)
(* within Noise of the exact one.                                          *)
(***************************************************************************)
EXTENDS VaultMath

CONSTANTS Orders,        \* order ids of withdrawal_transactions
          Accounts,      \* end users: one row per client, user and environment
          Vaults,        \* the client's rows of client_vaults
          NewestVault,   \* the first of listClientVaults (created_at DESC)
          Environment,   \* "sandbox" or "production", of accounts and vaults
          AccountOf,     \* the account an order withdraws from
          Amounts,       \* amounts requests ask for, in micro-units
          DepositAmounts,
          Fraction,      \* parts of a micro-unit (18 decimals in the code)
          MicroUnits,    \* micro-units of a dollar: 1e6 in the code
          Whole, ClientShare, PlatformFee,  \* 100 percent, and the fees
          Noise,         \* parts a floating-point result may be off by
          Tolerance,     \* parts: 0.000001 micro-units in the code
          MaxIndex, MaxDeposited,           \* bounds
          Serialised,    \* TRUE: callers wait for one request to end
          Crashes        \* TRUE: handlers may die between two statements

ASSUME ConstantsAssumption ==
    /\ IsFiniteSet(Orders) /\ IsFiniteSet(Vaults)
    /\ NewestVault \in Vaults
    /\ AccountOf \in [Orders -> Accounts]
    /\ Environment \in [Accounts \cup Vaults -> {"sandbox", "production"}]
    /\ Amounts \subseteq Nat
    /\ DepositAmounts \subseteq Nat \ {0}
    /\ Fraction \in Nat \ {0} /\ MicroUnits \in Nat \ {0}
    /\ Whole \in Nat \ {0} /\ ClientShare \in Nat /\ PlatformFee \in Nat
    /\ ClientShare + PlatformFee <= Whole
    /\ Noise \in Nat /\ Tolerance \in Nat \ {0}
    /\ MaxIndex \in Nat /\ Scale <= MaxIndex /\ MaxDeposited \in Nat
    /\ Serialised \in BOOLEAN /\ Crashes \in BOOLEAN

VARIABLES
    status,           \* withdrawal_transactions.status; "none": no row yet
    queue,            \* the order's row of withdrawal_queue
    distribution,     \* the order's row of revenue_distributions
    position,         \* the account's end_user_vaults row; entry 0: no row
    aum,              \* pending + staked balance of client_vaults
    index,            \* client_vaults.current_index
    cumulativeYield,  \* client_vaults.cumulative_yield, in parts
    pc,               \* the statement the request of an order is about to run
    req,              \* what it was asked
    seen,             \* what it has read
    paid              \* history: what an order has debited, in parts

dbVars == <<status, queue, distribution, position, aum, index, cumulativeYield>>
vars == <<status, queue, distribution, position, aum, index, cumulativeYield,
          pc, req, seen, paid>>

-----------------------------------------------------------------------------
(* Requests.                                                               *)

NoPosition     == [deposited |-> 0, entry |-> 0, withdrawn |-> 0]
NoRequest      == [amount |-> 0, deductFees |-> FALSE]
NotQueued      == [amount |-> 0, shares |-> 0]
NoDistribution == [raw |-> 0, enduser |-> 0, client |-> 0, platform |-> 0]
Unread         == [growth |-> 0, position |-> NoPosition, split |-> NoDistribution]

Running == {"readGrowth", "readPosition", "recordYield", "distribute",
            "create", "enqueue", "debit"}
Ended   == {"done", "rejected", "failed", "crashed"}

InFlight(o) == pc[o] \in Running

MayServe == Serialised => \A o \in Orders : ~InFlight(o)

Goto(o, label) == pc' = [pc EXCEPT ![o] = label]

Return(o, outcome) ==
    /\ pc' = [pc EXCEPT ![o] = outcome]
    /\ req' = [req EXCEPT ![o] = NoRequest]
    /\ seen' = [seen EXCEPT ![o] = Unread]

(* What the position read is worth at the growth index read, and its yield. *)
ValueOf(p, growth) == CurrentValue(p.deposited * Fraction, p.entry, growth)

Value(o) == ValueOf(seen[o].position, seen[o].growth)

RawYield(o) == CalculateYield(Value(o), seen[o].position.deposited * Fraction)

(* What floating-point arithmetic may make of a number of parts.            *)
Doubles(x) == (x - Noise .. x + Noise) \cap Nat

(* distributeYield: each share is a percentage of the raw yield, rounded on   *)
(* its own, so the shares may add up to more than the yield, or to less.      *)
Splits(yield) ==
    UNION {[raw      : {raw},
            enduser  : Doubles((raw * (Whole - ClientShare - PlatformFee)) \div Whole),
            client   : Doubles((raw * ClientShare) \div Whole),
            platform : Doubles((raw * PlatformFee) \div Whole)] : raw \in Doubles(yield) \ {0}}

SplitTotal(d) == d.enduser + d.client + d.platform

(* distributeYield compares the shares, added up in floating point, with the  *)
(* yield; the CHECK of revenue_distributions compares them exactly.           *)
SplitPasses(d, total) == total - d.raw <= Tolerance /\ d.raw - total <= Tolerance

SplitStorable(d) ==
    SplitTotal(d) - d.raw < Tolerance /\ d.raw - SplitTotal(d) < Tolerance

(* (Slip: fees are added to the payout instead of left in the vault.) *)
Payout_Grossed(o) ==
    IF RawYield(o) > 0 /\ req[o].deductFees
    THEN Value(o) + seen[o].split.platform
    ELSE req[o].amount * Fraction

(* A request that deducts fees from a position with yield pays the whole    *)
(* position, fees off; any other pays what was asked.                       *)
Payout(o) ==
    IF RawYield(o) > 0 /\ req[o].deductFees
    THEN seen[o].position.deposited * Fraction + seen[o].split.enduser
    ELSE req[o].amount * Fraction

-----------------------------------------------------------------------------
(* The rest of the platform, as far as withdrawals see it.                 *)

Init ==
    /\ status = [o \in Orders |-> "none"]
    /\ queue = [o \in Orders |-> NotQueued]
    /\ distribution = [o \in Orders |-> NoDistribution]
    /\ position = [a \in Accounts |-> NoPosition]
    /\ aum = [v \in Vaults |-> 0]
    /\ index = [v \in Vaults |-> Scale]
    /\ cumulativeYield = [v \in Vaults |-> 0]
    /\ pc = [o \in Orders |-> "idle"]
    /\ req = [o \in Orders |-> NoRequest]
    /\ seen = [o \in Orders |-> Unread]
    /\ paid = [o \in Orders |-> 0]

(* A deposit completed while no other deposit is (see DepositFlow). *)
Deposit(a, v, amount) ==
    /\ MayServe
    /\ Environment[v] = Environment[a]
    /\ position[a].deposited + amount <= MaxDeposited
    /\ \E growth \in 0 .. MaxIndex :
         /\ IsGrowthIndex(growth, aum, index)
         /\ position' = [position EXCEPT
              ![a].deposited = @ + amount,
              ![a].entry = CalculateWeightedIndex(position[a].deposited, @, amount, growth)]
    /\ aum' = [aum EXCEPT ![v] = @ + amount]
    /\ UNCHANGED <<status, queue, distribution, index, cumulativeYield, pc, req, seen, paid>>

AccrueIndex(v) ==
    /\ index[v] < MaxIndex
    /\ index' = [index EXCEPT ![v] = @ + 1]
    /\ UNCHANGED <<status, queue, distribution, position, aum, cumulativeYield,
                   pc, req, seen, paid>>

-----------------------------------------------------------------------------
(* requestWithdrawal, statement by statement.                              *)

Begin(o, amount, deductFees) ==
    /\ MayServe
    /\ pc[o] = "idle"
    /\ req' = [req EXCEPT ![o] = [amount |-> amount, deductFees |-> deductFees]]
    /\ Goto(o, "readGrowth")
    /\ UNCHANGED <<dbVars, seen, paid>>

ReadGrowth(o) ==
    /\ pc[o] = "readGrowth"
    /\ Goto(o, "readPosition")
    /\ \E growth \in 0 .. MaxIndex :
         /\ IsGrowthIndex(growth, aum, index)
         /\ seen' = [seen EXCEPT ![o].growth = growth]
    /\ UNCHANGED <<dbVars, req, paid>>

Sufficient(o, p) ==
    p.entry # 0 /\ req[o].amount * Fraction <= ValueOf(p, seen[o].growth)

(* SELECT ... FOR UPDATE: the row lock ends with the statement. *)
ReadPosition(o) ==
    /\ pc[o] = "readPosition"
    /\ LET p == position[AccountOf[o]] IN
         /\ Sufficient(o, p)
         /\ seen' = [seen EXCEPT ![o].position = p]
         /\ Goto(o, IF ValueOf(p, seen[o].growth) > p.deposited * Fraction
                    THEN "recordYield" ELSE "create")
    /\ UNCHANGED <<dbVars, req, paid>>

(* "User has no vault" or "Insufficient balance". *)
Reject(o) ==
    /\ pc[o] = "readPosition"
    /\ ~Sufficient(o, position[AccountOf[o]])
    /\ Return(o, "rejected")
    /\ UNCHANGED <<dbVars, paid>>

(* (Slip: only what the end user keeps is recorded.) *)
RecordYield_EnduserOnly(o) ==
    /\ pc[o] = "recordYield"
    /\ Goto(o, "distribute")
    /\ \E d \in Splits(RawYield(o)) :
         /\ \E total \in Doubles(SplitTotal(d)) : SplitPasses(d, total)
         /\ seen' = [seen EXCEPT ![o].split = d]
         /\ \E recorded \in Doubles(d.enduser) :
              cumulativeYield' = [cumulativeYield EXCEPT ![NewestVault] = @ + recorded]
    /\ UNCHANGED <<status, queue, distribution, position, aum, index, req, paid>>

(* The vault that gets it is the client's newest, whatever it holds.  The    *)
(* shares are added up once for the check and once to be recorded.          *)
RecordYield(o) ==
    /\ pc[o] = "recordYield"
    /\ Goto(o, "distribute")
    /\ \E d \in Splits(RawYield(o)) :
         /\ \E total \in Doubles(SplitTotal(d)) : SplitPasses(d, total)
         /\ seen' = [seen EXCEPT ![o].split = d]
         /\ \E recorded \in Doubles(SplitTotal(d)) :
              cumulativeYield' = [cumulativeYield EXCEPT ![NewestVault] = @ + recorded]
    /\ UNCHANGED <<status, queue, distribution, position, aum, index, req, paid>>

(* "Revenue split validation failed". *)
SplitRefused(o) ==
    /\ pc[o] = "recordYield"
    /\ Return(o, "failed")
    /\ \E d \in Splits(RawYield(o)) :
         \E total \in Doubles(SplitTotal(d)) : ~SplitPasses(d, total)
    /\ UNCHANGED <<dbVars, paid>>

CreateDistribution(o) ==
    /\ pc[o] = "distribute"
    /\ SplitStorable(seen[o].split)
    /\ distribution' = [distribution EXCEPT ![o] = seen[o].split]
    /\ Goto(o, "create")
    /\ UNCHANGED <<status, queue, position, aum, index, cumulativeYield, req, seen, paid>>

(* revenue_split_sum_check: the INSERT throws, after the yield is recorded. *)
DistributionRefused(o) ==
    /\ pc[o] = "distribute"
    /\ ~SplitStorable(seen[o].split)
    /\ Return(o, "failed")
    /\ UNCHANGED <<dbVars, paid>>

CreateWithdrawal(o) ==
    /\ pc[o] = "create"
    /\ req[o].amount > 0
    /\ status' = [status EXCEPT ![o] = "pending"]
    /\ Goto(o, "enqueue")
    /\ UNCHANGED <<queue, distribution, position, aum, index, cumulativeYield,
                   req, seen, paid>>

(* CHECK (requested_amount > 0): the INSERT throws, after the distribution. *)
CreateRefused(o) ==
    /\ pc[o] = "create"
    /\ req[o].amount = 0
    /\ Return(o, "failed")
    /\ UNCHANGED <<dbVars, paid>>

(* (Slip: queues what was asked, not what will be paid.) *)
CreateWithdrawalQueue_Requested(o) ==
    /\ pc[o] = "enqueue"
    /\ queue' = [queue EXCEPT ![o] =
                   [amount |-> req[o].amount * Fraction,
                    shares |-> CalculateShares(Payout(o) * MicroUnits, seen[o].growth)]]
    /\ Goto(o, "debit")
    /\ UNCHANGED <<status, distribution, position, aum, index, cumulativeYield,
                   req, seen, paid>>

(* The payout, already in micro-units, is multiplied by MicroUnits again.   *)
CreateWithdrawalQueue(o) ==
    /\ pc[o] = "enqueue"
    /\ queue' = [queue EXCEPT ![o] =
                   [amount |-> Payout(o),
                    shares |-> CalculateShares(Payout(o) * MicroUnits, seen[o].growth)]]
    /\ Goto(o, "debit")
    /\ UNCHANGED <<status, distribution, position, aum, index, cumulativeYield,
                   req, seen, paid>>

(* (Slips: total_withdrawn = <the sum computed by the handler>; a debit that *)
(* requires the order to be pending still.)                                  *)
UpdateVaultWithdrawal_Absolute(o) ==
    /\ pc[o] = "debit"
    /\ position' = [position EXCEPT ![AccountOf[o]].withdrawn =
                                        seen[o].position.withdrawn + Payout(o)]
    /\ paid' = [paid EXCEPT ![o] = Payout(o)]
    /\ Return(o, "done")
    /\ UNCHANGED <<status, queue, distribution, aum, index, cumulativeYield>>

UpdateVaultWithdrawal_IfPending(o) ==
    /\ pc[o] = "debit"
    /\ IF status[o] = "pending"
       THEN /\ position' = [position EXCEPT ![AccountOf[o]].withdrawn = @ + Payout(o)]
            /\ paid' = [paid EXCEPT ![o] = Payout(o)]
       ELSE UNCHANGED <<position, paid>>
    /\ Return(o, "done")
    /\ UNCHANGED <<status, queue, distribution, aum, index, cumulativeYield>>

(* SET total_withdrawn = total_withdrawn + payout. *)
UpdateVaultWithdrawal(o) ==
    /\ pc[o] = "debit"
    /\ position' = [position EXCEPT ![AccountOf[o]].withdrawn = @ + Payout(o)]
    /\ paid' = [paid EXCEPT ![o] = Payout(o)]
    /\ Return(o, "done")
    /\ UNCHANGED <<status, queue, distribution, aum, index, cumulativeYield>>

Crash(o) ==
    /\ Crashes
    /\ InFlight(o)
    /\ Return(o, "crashed")
    /\ UNCHANGED <<dbVars, paid>>

-----------------------------------------------------------------------------
(* completeWithdrawal and failWithdrawal: no guard on the status.          *)

Settle(o, outcome) ==
    /\ status[o] # "none"
    /\ status' = [status EXCEPT ![o] = outcome]
    /\ UNCHANGED <<queue, distribution, position, aum, index, cumulativeYield,
                   pc, req, seen, paid>>

CompleteWithdrawal(o) == Settle(o, "completed")

(* (Slips: deletes the row of a withdrawal that failed; writes a status of   *)
(* deposits.)                                                                *)
FailWithdrawal_Deletes(o) == Settle(o, "none")

FailWithdrawal_Expires(o) == Settle(o, "expired")

FailWithdrawal(o) == Settle(o, "failed")

-----------------------------------------------------------------------------
(* Specification.                                                          *)

Statement(o) ==
    \/ ReadGrowth(o)
    \/ ReadPosition(o)
    \/ Reject(o)
    \/ RecordYield(o)
    \/ SplitRefused(o)
    \/ CreateDistribution(o)
    \/ DistributionRefused(o)
    \/ CreateWithdrawal(o)
    \/ CreateRefused(o)
    \/ CreateWithdrawalQueue(o)
    \/ UpdateVaultWithdrawal(o)

Next ==
    \/ \E a \in Accounts, v \in Vaults, amount \in DepositAmounts : Deposit(a, v, amount)
    \/ \E v \in Vaults : AccrueIndex(v)
    \/ \E o \in Orders :
         \/ \E amount \in Amounts, deductFees \in BOOLEAN : Begin(o, amount, deductFees)
         \/ Statement(o)
         \/ Crash(o)
         \/ CompleteWithdrawal(o)
         \/ FailWithdrawal(o)

Spec == Init /\ [][Next]_vars

(* Node's event loop runs every continuation whose statement has returned. *)
FairSpec == Spec /\ \A o \in Orders : WF_vars(Statement(o))

-----------------------------------------------------------------------------
(* Properties.                                                             *)

DistributionType == [raw : Nat, enduser : Nat, client : Nat, platform : Nat]
PositionType == [deposited : Nat, entry : Nat, withdrawn : Nat]
ReadType == [growth : Nat, position : PositionType, split : DistributionType]

TypeOK ==
    /\ status \in [Orders -> {"none", "pending", "completed", "failed"}]
    /\ queue \in [Orders -> [amount : Nat, shares : Nat]]
    /\ distribution \in [Orders -> DistributionType]
    /\ position \in [Accounts -> PositionType]
    /\ aum \in [Vaults -> Nat]
    /\ index \in [Vaults -> Nat]
    /\ cumulativeYield \in [Vaults -> Nat]
    /\ pc \in [Orders -> {"idle"} \cup Running \cup Ended]
    /\ req \in [Orders -> [amount : Nat, deductFees : BOOLEAN]]
    /\ seen \in [Orders -> ReadType]
    /\ paid \in [Orders -> Nat]

OrdersOf(a) == {o \in Orders : AccountOf[o] = a}

(* However requests interleave, no debit is lost: total_withdrawn is exactly *)
(* what the requests of the account have debited.                            *)
WithdrawnAdditive ==
    \A a \in Accounts :
        position[a].withdrawn = SumOver(paid, OrdersOf(a))

(* An account is debited only for an order that has its row, and by the       *)
(* amount the unstaking queue holds for it.                                   *)
DebitIsQueued ==
    \A o \in Orders : paid[o] # 0 => status[o] # "none" /\ paid[o] = queue[o].amount

(* The part of a distribution that has to be recorded: all of it but what one *)
(* rounding error may take off its sum.                                      *)
Backed(d) == IF SplitTotal(d) > Noise THEN SplitTotal(d) - Noise ELSE 0

(* Wherever requests stop, yield shared out in revenue_distributions has been *)
(* recorded in the cumulative yield of a vault, up to the rounding of each sum. *)
DistributionsBacked ==
    SumOver([o \in Orders |-> Backed(distribution[o])], Orders)
        <= SumOver(cumulativeYield, Vaults)

(* What is queued never exceeds what the position was worth when it was read; *)
(* when fees are deducted, payout and fees together exceed it by less than the *)
(* rounding of the yield and the tolerance of the split.                     *)
PayoutLeavesFees ==
    [][\A o \in Orders :
         queue'[o] # queue[o] =>
            IF req[o].deductFees
            THEN queue'[o].amount + distribution[o].client + distribution[o].platform
                   < Value(o) + Noise + Tolerance
            ELSE queue'[o].amount <= Value(o)]_vars

(* The use case implements WithdrawalContract under any interleaving and any  *)
(* crash.                                                                     *)
Contract == INSTANCE WithdrawalContract WITH
    payout    <- [o \in Orders |-> queue[o].amount],
    withdrawn <- [a \in Accounts |-> position[a].withdrawn]

ImplementsContract == Contract!Spec

(* A withdrawal that has become visible as pending is debited in the end, even  *)
(* if an operator settles it first, unless its handler dies: there comes a time *)
(* when none that was opened is left without its debit.                       *)
PendingIsDebited ==
    []<>(\A o \in Orders : status[o] = "none" \/ paid[o] # 0 \/ pc[o] = "crashed")

(* "Validate withdrawal amount against current value": no account takes out    *)
(* more than its position is worth.                                           *)
NoOverdraft ==
    \A a \in Accounts, growth \in 0 .. MaxIndex :
        IsGrowthIndex(growth, aum, index)
            => position[a].withdrawn <= ValueOf(position[a], growth)
===========================================================================
