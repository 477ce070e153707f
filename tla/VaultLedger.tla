---------------------------- MODULE VaultLedger ----------------------------
(***************************************************************************)
(* One row of client_vaults and everything that writes its money and its   *)
(* index: the daily index job, the yield endpoint, staking, and the DeFi   *)
(* endpoints, which move tokens on chain and copy on-chain balances back.  *)
(* A job reads the row, awaits APYs, transactions or balances, and writes  *)
(* absolute values computed from what it read.                             *)
(***************************************************************************)
EXTENDS VaultMath

CONSTANTS Jobs,            \* requests and job runs, one operation each
          Aave, Compound, Morpho,   \* the DeFi protocols
          Markets,         \* those that may hold the vault's tokens
          Kinds,           \* the operations jobs run
          Part,            \* tokens moved to or from one market
          Amounts,         \* amounts booked, staked, or reported as yield
          Rates, Whole,    \* daily yields, and the rate that means 100 percent
          Precision,       \* a double is off by one part in Precision: 2^50 or so
          MaxIndex, MaxBooked, MaxEarned,   \* bounds
          Serialised       \* TRUE: nothing begins before the last job ended

AllKinds == {"daily", "accrual", "deploy", "recall", "sync"}

ASSUME VaultAssumption ==
    /\ Kinds \subseteq AllKinds
    /\ Part \in Nat \ {0}
    /\ Amounts \subseteq Nat \ {0}
    /\ Rates \subseteq Nat /\ Whole \in Nat \ {0}
    /\ Precision \in Nat \ {0, 1}
    /\ MaxIndex \in Nat /\ Scale <= MaxIndex
    /\ MaxBooked \in Nat /\ MaxEarned \in Nat
    /\ Serialised \in BOOLEAN
    /\ Markets \subseteq {Aave, Compound, Morpho}
    /\ Aave # Compound /\ Compound # Morpho /\ Aave # Morpho

VARIABLES
    pending,     \* pending_deposit_balance
    staked,      \* total_staked_balance
    index,       \* current_index
    cumulative,  \* cumulative_yield
    chain,       \* tokens in each market, on chain
    sent,        \* markets a job has broadcast a transaction to that is not mined
    pc,          \* what a job is about to do
    kind,        \* the operation of a job
    todo,        \* markets a job has yet to send to
    amount,      \* the yield a caller reports
    seen,        \* what a job has read
    booked,      \* history: booked by deposits
    marked,      \* history: moved from pending to staked
    earned,      \* history: paid by the markets
    shares,      \* history: shares bought by what was marked
    exact,       \* history: nothing but reported yields has moved index and staked
    up, down     \* history: how far, up / down, rounding may have taken them apart

row     == <<pending, staked, index, cumulative>>
history == <<booked, marked, earned, shares, exact, up, down>>
vars    == <<row, chain, sent, pc, kind, todo, amount, seen, history>>

-----------------------------------------------------------------------------
(* Jobs.                                                                   *)

Unread  == [staked |-> 0, index |-> 0, cumulative |-> 0, balance |-> 0]
Running == {"daily", "accrual", "send", "fetch", "write"}

InFlight(j) == pc[j] \in Running

MayServe == Serialised => \A j \in Jobs : ~InFlight(j)

Goto(j, label) == pc' = [pc EXCEPT ![j] = label]

Return(j) ==
    /\ pc' = [pc EXCEPT ![j] = "done"]
    /\ todo' = [todo EXCEPT ![j] = {}]
    /\ seen' = [seen EXCEPT ![j] = Unread]

(* History: index or staked balance move by more than staking and reports.   *)
MovedOtherwise == exact' = FALSE /\ up' = 1 /\ down' = 1

Held(m, answering) == IF m \in answering THEN chain[m] ELSE 0

Balance(answering) ==
    Held(Aave, answering) + Held(Compound, answering) + Held(Morpho, answering)

Init ==
    /\ pending = 0 /\ staked = 0 /\ cumulative = 0
    /\ index = Scale
    /\ chain = [m \in Markets |-> 0]
    /\ sent = [j \in Jobs |-> {}]
    /\ pc = [j \in Jobs |-> "idle"]
    /\ kind = [j \in Jobs |-> "none"]
    /\ todo = [j \in Jobs |-> {}]
    /\ amount = [j \in Jobs |-> 0]
    /\ seen = [j \in Jobs |-> Unread]
    /\ booked = 0 /\ marked = 0 /\ earned = 0 /\ shares = 0
    /\ exact = TRUE
    /\ up = 1 /\ down = 1

-----------------------------------------------------------------------------
(* One-statement writers, and the chain.                                   *)

(* A completed deposit is booked (AddPendingDepositToVault).               *)
AddPendingDeposit(a) ==
    /\ booked + a <= MaxBooked
    /\ pending' = pending + a
    /\ booked' = booked + a
    /\ UNCHANGED <<staked, index, cumulative, chain, sent, pc, kind, todo, amount, seen,
                   marked, earned, shares, exact, up, down>>

(* (Slips: without the CHECK on the balance; staked without leaving pending.) *)
MarkFundsAsStaked_Unchecked(a) ==
    /\ MayServe
    /\ marked + a <= MaxBooked
    /\ pending' = pending - a
    /\ staked' = staked + a
    /\ marked' = marked + a
    /\ shares' = shares + CalculateShares(a, index)
    /\ UNCHANGED <<index, cumulative, chain, sent, pc, kind, todo, amount, seen,
                   booked, earned, exact, up, down>>

MarkFundsAsStaked_Copied(a) ==
    /\ MayServe
    /\ a <= pending
    /\ marked + a <= MaxBooked
    /\ staked' = staked + a
    /\ marked' = marked + a
    /\ shares' = shares + CalculateShares(a, index)
    /\ UNCHANGED <<pending, index, cumulative, chain, sent, pc, kind, todo, amount, seen,
                   booked, earned, exact, up, down>>

(* MovePendingToStaked; CHECK (pending_deposit_balance >= 0) refuses more.  *)
MarkFundsAsStaked(a) ==
    /\ MayServe
    /\ a <= pending
    /\ pending' = pending - a
    /\ staked' = staked + a
    /\ marked' = marked + a
    /\ shares' = shares + CalculateShares(a, index)
    /\ UNCHANGED <<index, cumulative, chain, sent, pc, kind, todo, amount, seen,
                   booked, earned, exact, up, down>>

Earn(m) ==
    /\ chain[m] > 0 /\ earned < MaxEarned
    /\ chain' = [chain EXCEPT ![m] = @ + 1]
    /\ earned' = earned + 1
    /\ UNCHANGED <<row, sent, pc, kind, todo, amount, seen, booked, marked, shares, exact, up,
                   down>>

(* A broadcast transaction is mined, or reverts for want of balance.        *)
Mine(j, m) ==
    /\ m \in sent[j]
    /\ sent' = [sent EXCEPT ![j] = @ \ {m}]
    /\ chain' = CASE kind[j] = "deploy" -> [chain EXCEPT ![m] = @ + Part]
                  [] kind[j] = "recall" /\ chain[m] >= Part -> [chain EXCEPT ![m] = @ - Part]
                  [] OTHER -> chain
    /\ UNCHANGED <<row, pc, kind, todo, amount, seen, history>>

-----------------------------------------------------------------------------
(* A job begins by reading the row.                                        *)

Begin(j, what, label) ==
    /\ MayServe
    /\ pc[j] = "idle"
    /\ what \in Kinds
    /\ kind' = [kind EXCEPT ![j] = what]
    /\ seen' = [seen EXCEPT ![j] = [staked     |-> staked, index |-> index,
                                    cumulative |-> cumulative, balance |-> 0]]
    /\ Goto(j, label)
    /\ UNCHANGED <<row, chain, sent, history>>

BeginDaily(j) == Begin(j, "daily", "daily") /\ UNCHANGED <<todo, amount>>

(* "Cannot update index: no staked balance" otherwise.                      *)
BeginAccrual(j, a) ==
    /\ staked # 0
    /\ Begin(j, "accrual", "accrual")
    /\ amount' = [amount EXCEPT ![j] = a]
    /\ UNCHANGED todo

BeginDeploy(j, into) ==
    /\ Begin(j, "deploy", "send")
    /\ todo' = [todo EXCEPT ![j] = into]
    /\ UNCHANGED amount

BeginRecall(j, from) ==
    /\ Begin(j, "recall", "send")
    /\ todo' = [todo EXCEPT ![j] = from]
    /\ UNCHANGED amount

BeginSync(j) == Begin(j, "sync", "fetch") /\ UNCHANGED <<todo, amount>>

(* A query, an APY source, a broadcast or the sync fails, or the process dies: *)
(* caught, the rest is skipped. What was sent stays sent and is not synced.   *)
Fails(j) ==
    /\ InFlight(j)
    /\ Return(j)
    /\ UNCHANGED <<row, chain, sent, kind, amount, history>>

-----------------------------------------------------------------------------
(* The daily job.                                                          *)

(* (Slip: the day's yield replaces the index instead of compounding it.)    *)
DailyIndex_NotCompounded(old, rate) == (Scale * (Whole + rate)) \div Whole

DailyIndex(old, rate) == (old * (Whole + rate)) \div Whole

(* UpdateClientVaultIndex: index and staked absolute, yield added.          *)
WriteIndex(j, newIndex, newYield, newStaked) ==
    /\ newIndex <= MaxIndex
    /\ index' = newIndex
    /\ cumulative' = cumulative + newYield
    /\ staked' = newStaked
    /\ Return(j)
    /\ UNCHANGED <<pending, chain, sent, kind, amount, booked, marked, earned, shares>>

WriteDaily(j, rate) ==
    /\ pc[j] = "daily"
    /\ WriteIndex(j, DailyIndex(seen[j].index, rate),
                     (seen[j].staked * rate) \div Whole, seen[j].staked)
    /\ MovedOtherwise

-----------------------------------------------------------------------------
(* updateIndexWithYield computes in doubles: staked, yield, growth rate and   *)
(* the sums are each off by up to one part in Precision, either way.        *)

(* What doubles make of a sum of two amounts.                               *)
Sums(n) == {y \in 0 .. 2 * n : /\ y * Precision <= n * (Precision + 1)
                               /\ n * (Precision - 1) <= y * Precision}

(* Math.floor((1 + yield / staked) * 1e18): no less than 1.0, but possibly    *)
(* more than the exact growth.                                              *)
GrowthFactors(j) ==
    LET n == (seen[j].staked + amount[j]) * Scale
        d == seen[j].staked
    IN  {g \in Scale .. (2 * n) \div d : /\ g * d * Precision <= n * (Precision + 1)
                                       /\ n * (Precision - 1) < (g + 1) * d * Precision}

MayDrift ==
    /\ up' = IF exact THEN up * (Precision + 1) ELSE 1
    /\ down' = IF exact THEN down * (Precision - 1) ELSE 1
    /\ UNCHANGED exact

(* (Slip: as in the daily job, the yield does not enter the staked balance.) *)
WriteAccrual_StakedUnchanged(j) ==
    /\ pc[j] = "accrual"
    /\ \E g \in GrowthFactors(j), newYield \in Sums(seen[j].cumulative + amount[j]) :
         WriteIndex(j, (seen[j].index * g) \div Scale, newYield, seen[j].staked)
    /\ MayDrift

(* The statement adds what it is given; it is given the new total.          *)
WriteAccrual(j) ==
    /\ pc[j] = "accrual"
    /\ \E g \in GrowthFactors(j), newYield \in Sums(seen[j].cumulative + amount[j]),
         newStaked \in Sums(seen[j].staked + amount[j]) :
         WriteIndex(j, (seen[j].index * g) \div Scale, newYield, newStaked)
    /\ MayDrift

-----------------------------------------------------------------------------
(* executeDeposit, executeWithdrawal, syncBalances.                        *)

(* Transactions are broadcast one after the other, not awaited on chain.    *)
Send(j, m) ==
    /\ pc[j] = "send"
    /\ m \in todo[j]
    /\ sent' = [sent EXCEPT ![j] = @ \cup {m}]
    /\ todo' = [todo EXCEPT ![j] = @ \ {m}]
    /\ IF todo[j] = {m} THEN Goto(j, "fetch") ELSE UNCHANGED pc
    /\ UNCHANGED <<row, chain, kind, amount, seen, history>>

(* fetchAllProtocolBalances: a market that does not answer counts as 0.      *)
Fetch(j, answering) ==
    /\ pc[j] = "fetch"
    /\ seen' = [seen EXCEPT ![j].balance = Balance(answering)]
    /\ Goto(j, "write")
    /\ UNCHANGED <<row, chain, sent, kind, todo, amount, history>>

(* UpdateVaultOnChainBalances: staked absolute, yield added.                *)
WriteBalances(j) ==
    /\ pc[j] = "write"
    /\ staked' = seen[j].balance
    /\ cumulative' = cumulative + CalculateYield(seen[j].balance, seen[j].staked)
    /\ MovedOtherwise
    /\ Return(j)
    /\ UNCHANGED <<pending, index, chain, sent, kind, amount, booked, marked, earned, shares>>

-----------------------------------------------------------------------------
(* Specification.                                                          *)

Starts(j) ==
    \/ BeginDaily(j)
    \/ \E a \in Amounts : BeginAccrual(j, a)
    \/ \E markets \in SUBSET Markets \ {{}} : BeginDeploy(j, markets) \/ BeginRecall(j, markets)
    \/ BeginSync(j)

Statement(j) ==
    \/ \E rate \in Rates : WriteDaily(j, rate)
    \/ WriteAccrual(j)
    \/ \E m \in Markets : Send(j, m)
    \/ Fails(j)
    \/ \E answering \in SUBSET Markets : Fetch(j, answering)
    \/ WriteBalances(j)

Next ==
    \/ \E a \in Amounts : AddPendingDeposit(a) \/ MarkFundsAsStaked(a)
    \/ \E m \in Markets : Earn(m)
    \/ \E j \in Jobs, m \in Markets : Mine(j, m)
    \/ \E j \in Jobs : Starts(j) \/ Statement(j)

Spec == Init /\ [][Next]_vars

-----------------------------------------------------------------------------
(* Properties.                                                             *)

TypeOK ==
    /\ pending \in Nat /\ staked \in Nat /\ index \in Nat /\ cumulative \in Nat
    /\ chain \in [Markets -> Nat]
    /\ sent \in [Jobs -> SUBSET Markets]
    /\ pc \in [Jobs -> {"idle", "done"} \cup Running]
    /\ kind \in [Jobs -> AllKinds \cup {"none"}]
    /\ todo \in [Jobs -> SUBSET Markets]
    /\ amount \in [Jobs -> Nat]
    /\ seen \in [Jobs -> [staked : Nat, index : Nat, cumulative : Nat, balance : Nat]]
    /\ booked \in Nat /\ marked \in Nat /\ earned \in Nat /\ shares \in Nat
    /\ exact \in BOOLEAN
    /\ up \in Nat /\ down \in Nat

(* Whatever jobs overlap, the pending balance is what deposits have booked   *)
(* and nobody has staked yet: absolute writers never touch it.               *)
PendingIsUnstaked == pending + marked = booked

(* The cumulative yield never falls, also when a transaction is mined late,  *)
(* a market does not answer or tokens are recalled between two syncs.        *)
CumulativeNeverFalls == [][cumulative' >= cumulative]_vars

(* While jobs wait for each other the index of a vault never falls, whatever *)
(* the rounding; jobs that overlap write indexes computed from old ones.     *)
IndexNeverFalls == [][index' >= index]_vars

(* "new_index = old_index * (1 + yield_earned / total_staked)": as long as   *)
(* only reported yields and staking have moved the vault, what it owes at    *)
(* its index (the worth of the shares bought so far) is staked, but for one  *)
(* rounding error of the growth and one of the sum per reported yield.      *)
IndexIsBacked == exact => shares * index * down <= staked * Scale * up

(* "Yield accrued since last sync": when only on-chain syncs record yield,    *)
(* no more is recorded than the markets have paid.                           *)
YieldIsEarned == cumulative <= earned

(* "total staked (unchanged for now)": the daily job does not change the      *)
(* staked balance.                                                           *)
DailyKeepsStaked ==
    [][\A j \in Jobs : (\E rate \in Rates : WriteDaily(j, rate)) => staked' = staked]_vars
============================================================================
