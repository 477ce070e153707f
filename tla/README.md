# Quirk: a verification development

Quirk is a B2B yield platform. A *client* organisation integrates it, the
client's *end users* deposit fiat, the platform turns deposits into stablecoins,
holds them in *client vaults* on several chains, earns yield in DeFi protocols,
and pays withdrawals back, splitting the yield between end user, client and
platform. This directory holds TLA+ models of the code that keeps those
balances, the TLC configurations that check them, and proofs for TLAPS.

Three facts of the code shape every model here.

* **No transactions.** Nothing in `packages/core` opens a database transaction.
  Each repository call is one SQL statement that commits by itself, and a
  `SELECT ... FOR UPDATE` gives up its lock as soon as it returns. A use case is
  therefore a *sequence of atomic statements*, and every `await` between two of
  them is a point where other requests run, or where the process dies. One
  statement is one action.
* **Nothing is undone.** A handler that fails or dies leaves what it has written;
  a caller that repeats the request starts it from its first statement.
* **Index accounting.** A vault has an index that starts at 1e18 and grows with
  yield; an end user's position stores what was deposited and a weighted entry
  index, and is worth `deposited * growthIndex / entryIndex`, where the growth
  index is the mean of the client's vault indexes weighted by assets under
  management. All divisions of indexes truncate. Models use a small `Scale` for 1e18.

Three computations are done in JavaScript numbers instead, and rounded: the revenue
split, the growth of an index by a reported yield, and the amounts of a batch. The
models let each such number be off, either way, by a constant (`Noise`,
one part in `Precision`) or round it to the cent (`PerCent`, `Rounded`), and the
properties say what is left of exactness then.

## Inventory

| Component | State | Operations | What makes it correct | Model |
|---|---|---|---|---|
| Deposit use case (`usecase/b2b/deposit.usecase.ts`) | `deposit_transactions`, `end_user_vaults`, pending balance of `client_vaults`, `end_users.first_deposit_at` | createDeposit, completeDeposit, failDeposit, updateTransactionHash | an order is credited once; position and vault ledgers agree; the entry index is the weighted mean; a completed order ends up credited | `DepositFlow` |
| Withdrawal use case (`withdrawal.usecase.ts`, `revenue.service.ts`) | `withdrawal_transactions`, `withdrawal_queue`, `revenue_distributions`, `end_user_vaults.total_withdrawn`, cumulative yield | requestWithdrawal, completeWithdrawal, failWithdrawal | debits are additive and follow the queue; fees stay in the vault; no more is withdrawn than a position is worth | `WithdrawalFlow` |
| Batch settlement (`deposit.router.ts`, `withdrawal.router.ts`, `token-transfer.service.ts`) | order statuses, idle balances, wallets, transaction hashes | both batch endpoints, completion of one order, failing a withdrawal | books before tokens; an order is settled once unless batches overlap; every balance is explained by orders | `Settlement` |
| Vault ledger and index (`vault.usecase.ts`, `cron/index-update.cron.ts`) | index, staked, pending, cumulative yield of `client_vaults` | daily job, updateIndexWithYield, markFundsAsStaked, updateOnChainBalances | money moves between pending and staked, none appears or vanishes; the index does not fall and is covered | `VaultLedger` |
| DeFi execution (`defi-execution.service.ts`, `defi-protocol.router.ts`) | chain balances, `defi_transactions` | executeDeposit, executeWithdrawal, syncBalances | sent once, synced to what is on chain | partly: `VaultLedger` |
| Index arithmetic (`vault-accounting.utils.ts`, `client-growth-index.service.ts`) | none | shares, value, weighted index, yield, growth index | bounds, truncation in the platform's favour | `VaultMath` |
| Client account (`client.usecase.ts`, `client.repository.ts`) | `client_organizations`, `client_balances`, `client_vaults` as rows, bank accounts and currencies, audit log | createClient, strategies, addFunds, reserve, release, deduct, bank accounts, currencies | money is conserved and never negative; the audit log says what happened; an answered registration is complete | partly: `ClientAccount` |
| User lifecycle (`user.usecase.ts`, `end_user.repository.ts`) | `end_users`, sandbox vaults, the end-user counter | getOrCreateUser, activateUser, the rows made by deposits | one row and one count per user; active users have a vault; nobody is reinstated | `UserLifecycle` |
| Yield engine, advice (`packages/yield-engine`) | four in-memory caches | optimizePosition, getAllPositions, fetchAllOpportunities | an advice is recent and, at rest, right | partly: `YieldAdvice` |
| Yield engine, execution | none | batch execution, multi-chain optimiser | | not modelled |
| API keys, revenue reports, index updater service (never started), generated SQL code, contracts and SDK, web front end, MCP server and agent, mock ERC-20, legacy use cases | | | | not modelled |

`PROJECT.json` lists each component with its reason, and the hazards with their lines.

How the parts interact: routers authenticate and call use cases; use cases share
rows of the database and nothing else (no in-memory state, no events); the daily
job and the DeFi endpoints write the same `client_vaults` rows; chain calls are
made by routers before (DeFi) or after (settlement) the books are written. Only
the yield engine keeps state in the process, in caches its calls share.

What is hard: any two requests interleave at statement granularity; handlers die
between statements with no compensation; rows are read, several `await`s pass,
and absolute values computed from them are written back; retries find orders
already marked; looked-for rows are inserted by somebody else meanwhile;
transactions are mined late and protocols do not answer; caches rest on caches.

## Modules

* `Sums` — the sum of a function over a finite set, which every ledger is; a fold of
  the community modules. `SumTheorems` — how such a sum changes.
* `VaultMath` — the arithmetic of the indexes, extended by the three flow and
  vault modules.
* `DepositContract`, `WithdrawalContract`, `SettlementContract` — what a deposit,
  a withdrawal and a batch promise: each order opened, credited or debited, queued
  and booked at most once and in that order; a batch completes, then books
  product by product, then moves all tokens at once.
* `DepositFlow`, `WithdrawalFlow` — the two use cases statement by statement.
* `Settlement` — the batch endpoints above them, with the wallets.
* `VaultLedger` — one row of `client_vaults`, its writers and the chain.
* `ClientAccount` — a client's registration, prepaid balance and configuration.
* `UserLifecycle` — the rows of end users and the counter of them.
* `YieldAdvice` — the optimizer and the caches below it.
* `...Proofs` — the theorems about the module of that name.
* `MC...` — its instances for TLC.

In the modules `pc` is the next statement of a handler, `req` its arguments, `seen`
or `local` its local variables (what it has read); the other variables are columns,
except the history variables (`credited`, `booked`, `moved`, `met`, ...), which
record what each order has put into a ledger, or which requests were served at
the same time.

A definition whose name has an underscore (`MarkFailed_Expired`) is a plausible
slip of the definition after it. No specification uses it; substitute it to see
the property it endangers fail.

Where the modules meet: `Settlement` runs `completeDeposit` as its check and its
write of the status; what happens to position and vault in between is in
`DepositFlow`. `UserLifecycle` runs deposits as far as they insert users and
positions. `DepositFlow` takes activation and accrual as atomic environment steps,
`WithdrawalFlow` deposits and accrual (there indexes only rise: that daily jobs which
overlap, or a negative yield, may lower one is in `VaultLedger` and under its assumptions); `VaultLedger` has the steps of those.

### Correspondence, DepositFlow

| Action | Code |
|---|---|
| `CreateDeposit` | `createDeposit`, INSERT with status pending |
| `BeginComplete`, `Reject` | the reads and early exits at the head of `completeDeposit`: order found, pending, vault of the order's environment found |
| `VerifyTransfer`, `MarkFailed` | the check of a transaction hash and its failure path; `BeginFail` + `MarkFailed` is `failDeposit` |
| `MarkCompleted` | `CompleteDeposit`, an UPDATE with no guard on the status |
| `ReadGrowth`, `ReadUser`, `ReadPosition` | the three reads, each remembered in `seen` |
| `CreditPosition`, `InsertCollides` | INSERT of a first position (which the unique constraint may refuse) or the additive UPDATE that overwrites the entry index |
| `AddPendingDeposit` | the vault's pending balance grows; `total_shares` is always 0, so it is left out |
| `MarkFirstDeposit` | the stamp with `COALESCE`; the handler ends. Audit log and `last_deposit_at` are left out |
| `ActivateUser`, `AccrueIndex` | the other writers of positions and indexes |

The INSERT and the two UPDATE branches are one action, because the weighted mean
of an empty position is the index itself. The staked balance is 0 here (moving
pending to staked does not change the sum the growth index uses). Activation is
one step although it is two statements, which `UserLifecycle` takes apart.
`RequestKinds` says what callers ask: the routers only send "plain"; "verified" and
"fail" are operations nothing calls today.

### Correspondence, WithdrawalFlow

| Action | Code |
|---|---|
| `Begin` | arguments checked, an order id made (`requestWithdrawal`) |
| `ReadGrowth`, `ReadPosition`, `Reject` | growth index and position read; the balance check and its early exits |
| `RecordYield` (`Splits`), `SplitRefused` | the three shares are computed, each a double off by up to `Noise`; their sum is checked, and added to the cumulative yield of the newest vault |
| `CreateDistribution`, `DistributionRefused` | the row of `revenue_distributions`, with no withdrawal id; its CHECK may refuse shares that do not add up, after the yield was recorded |
| `CreateWithdrawal`, `CreateRefused` | the INSERT with status pending, and the CHECK that refuses amount 0 |
| `CreateWithdrawalQueue` | the unstaking queue, shares computed as the code does |
| `UpdateVaultWithdrawal` | `total_withdrawn` grows by the payout |
| `CompleteWithdrawal`, `FailWithdrawal` | operators; neither statement has a guard |
| `Deposit`, `AccrueIndex` | deposits and index accrual beside the request, each atomic |
| `Crash` | a failed statement or a dead process |

Values the code keeps with a fraction are counted in parts, `Fraction` to the
micro-unit. The tolerance of the balance check and the CHECK on shares to burn
never decide anything here and are left out, as are audit log and timestamps.
Recording yield passes "0" for the staked balance of an additive statement, so
`aum` does not change.

`Noise` bounds what one double may be off by: the raw yield, each share, each of the
two sums of the shares. With fees of 12.5% and 7.5% a yield of 1 has shares that add up to
1.000000000000000041. `Tolerance` stands for the 1e-6 (of a micro-unit) of the check in
`revenue.service.ts:193` and of the CHECK `revenue_split_sum_check`. Neither is
reached by small yields; doubles around 1e10 micro-units are 1.9e-6 apart, so there
rounding alone may be more than the tolerance, and both refusals are in the model.

### Correspondence, Settlement

| Action | Code |
|---|---|
| `BeginBatch`, `BeginSingle` | a batch endpoint, or completion of one order: the webhook and mock confirmation of a deposit, the operator's completion of a withdrawal |
| `Lookup` (`Wanted`) | one turn of the loop: the order is read and skipped when it is another product's, not pending, or of another environment than the first one completed |
| `Recheck` | `completeDeposit` reads the row again and throws if it is not pending, which ends the whole batch |
| `Mark` (`Counted`) | the unguarded UPDATE of the status; the batch adds the amount to its total, and rounded to its product's sum |
| `EndLoop` | nothing completed is answered so; a missing token vault is an error after orders were completed |
| `BookProduct`, `EndBooking` | one UPDATE of an idle balance per product, which a CHECK may refuse |
| `Refuse`, `Transfer` (`ToCents`) | the transfer service, given the total rounded once: chain and wallet known, enough in the wallet; one transaction for the whole batch, reported as failed or not |
| `WriteReceipt`, `EndReceipts` | the hash written into each deposit, a failure only logged |
| `FailWithdrawal` | the operator's endpoint, unguarded |
| `Fail` | an exception or a dead process at any of these |

Amounts are in parts of a cent (`PerCent` of them), books and wallets in cents.
`Rounded` is what `toFixed(2)` makes of an order; half-way between two cents it may be
either, as it depends on the double, and the same holds for `ToCents`. A deposit
is rounded before it is used at all, so its amount is whole cents. Sums of amounts of
two decimals are taken as exact.

A set visited in any order stands for the list of the request. Conversion of
currencies, the on-ramp link, audit entries and the texts of answers are left out.

### Correspondence, VaultLedger

| Action | Code |
|---|---|
| `AddPendingDeposit`, `MarkFundsAsStaked` | the additive statements of the same names; the CHECK of the table refuses to stake more than is pending |
| `BeginDaily`, `WriteDaily` | the daily job: all vaults are listed once, then per vault APYs are awaited and index and staked balance written from the list |
| `BeginAccrual`, `WriteAccrual` (`GrowthFactors`, `Sums`) | `updateIndexWithYield`, its growth factor and its sums in doubles; the new cumulative *total* is passed to a statement that *adds* it, as in the code |
| `BeginDeploy`, `BeginRecall`, `Send` | `executeDeposit`, `executeWithdrawal`: the row is read, transactions are broadcast one after the other |
| `Fails` | any of them throws or dies; what was sent stays sent |
| `Mine`, `Earn` | the chain: a broadcast takes effect at any later time (or reverts), markets pay interest |
| `BeginSync`, `Fetch`, `WriteBalances` | balances of all protocols, one that does not answer counting as 0, then the absolute staked balance and the yield |

A growth factor is the floor of a double times 1e18: staked 10 and yield 1 give
1.100000000000000128, so 10 shares are worth a little more than the 11 staked. In the
model growth and sums are anything within one part in `Precision` of the exact value;
`up` and `down` are how far such errors may have taken index and staked balance apart
since the row was exact, one factor per report, and `IndexIsBacked` says that they are
no further apart. A yield reported is positive here; the endpoint also accepts a negative
one, which would lower the index.

### Correspondence, ClientAccount

| Action | Code |
|---|---|
| `InsertProduct`, `CreateBalance` | `createClient`: the row of the product, then its balance |
| `SelectVault`, `InsertVault`, `EndVaults` | `getOrCreateVault` for each vault; the wallet it is inserted with depends on the caller and on Privy; a unique constraint ends the rest of a registration |
| `Find` | the dashboard's lookup of a product by its id |
| `Check` | `addFunds`, `reserveFunds` read the row and compare |
| `Update` (`Applies`, `Updated`) | the guarded UPDATE, whose zero rows nobody notices |
| `Log` | the audit entry, after which the request is answered |
| `ReplaceBankAccounts`, `UpdateSupported` | the two columns `configureBankAccounts` writes one after the other; `updateSupportedCurrencies` writes the second alone |

A product's id is drawn by the router for each registration. API keys, fees and
the texts of a product are single columns that nothing else reads. Statements
without a caller (getOrCreateBalance, removeBankAccount, ...) are left out.

### Correspondence, UserLifecycle

| Action | Code |
|---|---|
| `Lookup` | `getOrCreateUser` of the use case looks a user up |
| `Select`, `InsertUser` | `getOrCreate` of the repository: looks again, then inserts; called by `createDeposit` too |
| `IncrementCount` | the counter, whose failure is caught |
| `Find`, `Activate` | `activateUser`: early exits by the status read, then an unconditional UPDATE |
| `SelectVault`, `InsertVault` | get-or-create of the sandbox vault, by activation or by a completed deposit |
| `Log` | the audit entry, after which the request is answered |

Deactivation, deletion and the decrement of the counter have no caller.

### Correspondence, YieldAdvice

| Action | Code |
|---|---|
| `Begin` | `optimizePosition`, `getAllPositions`, `fetchAllOpportunities`: own cache, then those below, whose reads are started together |
| `ReadBalance`, `AskRate` | `getUserPosition`: the balance first; if there is one, `getSupplyAPY` looks into the adapter's cache |
| `ReadRate`, `CacheRate` | on a miss the rate is read, and cached when all reads it needs are over (Compound asks for the utilization, then for the rate at it); meanwhile other calls run, miss too, and overwrite each other |
| `LosePosition` | an error in any of these counts as no position |
| `KeepPositions`, `KeepOffers` | the tail of `getAllPositions` and `fetchAllOpportunities`: when all have answered, the result is cached |
| `SeeOffer` | a protocol answers with its metrics, read from the chain, or fails and is left out |
| `Finish` (`Advise`) | strategy and recommendation, cached under wallet, token and chain alone |
| `Tick` | a unit of time: every entry ages, and calls end within `Patience` |
| `SetRate`, `Move` | the markets and the wallet |

Entries have an age and a time left instead of a timestamp. One wallet on one
chain; rates are integers; a strategy is a score of each rate at each protocol, the
rates its profile does not filter out and, per pair of protocols, the gain a move must promise:
highest-yield and risk-adjusted, whose score stops growing at 20% and whose conservative
profile drops rates above 15%, are such functions; the gas-aware strategy's
conditions are not covered. A strategy of the model stands for its name together
with a risk profile.

The answers of `getMetrics` may come from several reads, but nothing is written between
them, so they are one step at the time the rate was read. `Patience` is justified for Aave and
Compound by the timeouts and counted retries of their clients. Morpho's API is asked by a
bare `fetch` (`morpho.adapter.ts:645`, `:689`), which ends when the server or the runtime ends
it: there it is an assumption.

## Runs

| Run | Question | Result |
|---|---|---|
| `DepositConcurrent` | all kinds of requests interleave and crash | ledgers additive and equal at rest unless a handler died, booking follows credit, entry index in range |
| `DepositSerial` | requests one at a time, with crashes, two environments, under fairness | credited once, formula followed, implements `DepositContract`; completed orders become credited and booked |
| `DepositDoubleCredit` | two completions of one order overlap | violated: credited twice |
| `WithdrawalConcurrent` | two withdrawals interleave, crash and are settled at any moment, under fairness | debits additive and queued; but for the rounding of doubles, distributions were recorded and fees stay in the vault; implements `WithdrawalContract`; a pending withdrawal is debited unless its handler dies |
| `WithdrawalOverdraft` | the balance check, one request at a time | violated: the check never sees earlier withdrawals |
| `Settlement` | two requests (batches, overlapping or repeated, and single completions) fail anywhere, under fairness | tokens follow the books, an order is booked twice only by batches that met, idle balances are explained to the cent and wallets to half a cent per batch of withdrawals, what a failed batch left is never settled later, implements `SettlementContract`; a completed order's tokens move unless its batch fails |
| `VaultSerial` | index jobs, staking and DeFi operations one after the other; late mining, silent markets, failures | pending exact, the index never falls, shares covered but for rounding while only reported yields move the vault |
| `VaultPrincipalAsYield` | is recorded yield earned? | violated by a deposit and its automatic sync |
| `VaultStakedLost` | does the daily job keep the staked balance? | violated by staking meanwhile |
| `ClientAccount` | three requests out of ten interleave and fail | funds conserved, the audit log explained, answered registrations complete, currencies follow bank accounts but for listed reasons |
| `UserLifecycle` | three requests about two users interleave and fail | the counter, the vaults of active users and the refusals of constraints are explained; only pending users change status |
| `YieldAdvice` | two callers, caches, slow and failing reads, a market that moves | no advice rests on data older than the times to live and three slow reads add up to; at rest it is the right one |

In one sentence: *the additive statements keep the ledgers whole under any
interleaving; what is computed from a row read earlier is right only while callers
wait for each other, and nothing in the code makes them.* `findings` in
`PROJECT.json` quotes the lines each violated run contradicts.

Several invariants have the form "this disagreement has one of these reasons"
(`CountExplained`, `LogExplained`, `ActiveHasVault`, `CurrenciesFollowAccounts`,
`TwiceOnlyTogether`): the code allows the disagreement, and the property bounds how
it can come about. Each reason listed does occur (TLC finds the invariant violated
when it is dropped), and `met` records which requests overlapped. The `Horizon` of
`YieldAdvice` is tight: with one less both its properties are violated, `FreshAdvice` by an
advice of full age and `SettledAdvice` by one that outlived the rate it was made from.

### Observations

Seen while modelling, without a run of their own.

Deposits. Of two concurrent deposits the later entry index overwrites one that did
not count the other. Two first deposits of a user both find no position and the
second INSERT fails after its order is completed (`deposit.usecase.ts:251`); proved
impossible one at a time (`NoCollision`). The weighted entry index is an arithmetic
mean while a value divides by it, so a deposit at a higher index takes yield away
from the earlier one (`vault-accounting.utils.ts:114`), where
`revenue.service.test.ts:224-234` adds up each deposit grown by itself. The growth
index sums vaults of both environments (`client-growth-index.service.ts:41`), and
a deposit changes its weights and can lower it.

Withdrawals. With fees deducted and yield in the position, the whole principal and
the user's share are queued whatever was asked (`withdrawal.usecase.ts:153`). `FOR
UPDATE` outside a transaction holds nothing, so the position read may change before
the debit; shares to burn are computed from an amount already in micro-units times
1e6 (`:356`); yield is recorded in the newest vault of any environment.

Settlement. Both routers send production batches to chain 8453, which
`getChainConfig` (`token-transfer.service.ts:517`) does not list: every production
transfer is refused after the orders were completed and booked. Every deposit of a
batch is converted at the rate of the currency the caller names
(`deposit.router.ts:447`). Two withdrawals of 0.014 are booked as 0.02 and move 0.03.

Rounding. A yield of 1e10 micro-units or more may be refused by `revenue_split_sum_check`
for the rounding of its shares alone, and then its yield is recorded already.

Vaults. Yield reported earlier is counted again at each report
(`vault.usecase.ts:170`).

Clients and users. A registration that fails after its first INSERT leaves a product
no later request completes. `createClient` ignores the currencies and bank accounts
the router maps for it. Releasing or deducting more than is reserved changes no row
and is answered and logged as done. The check before a reservation compares with
`parseFloat` (`client.usecase.ts:440`), the UPDATE as NUMERIC: an amount with more digits than a
double holds can pass the one and not the other and is logged though nothing changed; amounts
of the model are integers, where both agree. Users inserted by a deposit order are never
counted in `total_end_users`. `end_user.repository.ts:101` calls get-or-create
idempotent; two first calls collide. An activation that stops after the status is
set never makes the vault. A comment of `deposit.usecase.ts:26` speaks of vaults
created with an order, which is not done.

Yield engine. The optimizer's key (`yield-optimizer.ts:111-117`) has neither strategy
nor risk profile, so an answer may be another strategy's; the key of positions
(`yield-aggregator.ts:244`) has no tokens, so an advice on one token after one on
another may miss the position; a position that cannot be read counts as none and is
cached; without a position "rebalance" is advised even if ranking leaves nothing.
`SettledAdvice` excepts the second and third and says the rest is right for
the strategy named in the result. A late miss may replace a fresher rate by an older one.

### Bounds

Deposits: two orders race for one position, three (serial) mix two accounts in two
environments; two handlers give every pairwise race; two amounts make a wrong
amount visible; two vaults make the growth index a true mean. Handlers serve one
request each: a run explores all sequences of that many requests. Withdrawals: two
orders on one account, amounts 0 (a full fee-deducting withdrawal asks nothing)
and 2; deposits of 1 up to 2; one vault. There every double is off by up to a micro-unit and
the tolerance is as much, so that all shares can round up, or down, and both checks refuse
some. Settlement: two requests out of six over
three deposits and two withdrawals of two products, one production order, one
product without a token vault, idle balances and wallets that hold enough for some
and not for all; withdrawals of 2.4 and 4.4 cents, which are 2 and 4 apart and 7
together. Vault: three jobs of any kind, two of the three protocols, `Part`
2, at most 2 booked and 1 earned, a daily rate of a third. Clients: a product that
registers beside one that has 3 available and 1 reserved, two vaults, two
currencies, three requests: two that race and one before, after or between. Users:
two, three requests out of eight. Yield: two protocols that offer the same, a wallet in one of
them whose rate may move, one strategy that prefers a protocol by a little, one upset (a
rate, a position or a failed read); two callers that ask, without end, for an advice on one token
or for the positions in the other; slow reads of one unit. The adapters keep rates for
2, the aggregator its results for 1 and the optimizer for 0 units: in the
code too an adapter keeps its rates (5 minutes) longer than the aggregator (2), without which the
third slow read could not matter, and an advice that lives no longer than its moment does not
keep the next call from the caches below. The opportunities alone are not asked for.

`Scale` is 2 to 4 and `MaxIndex` at most 12, so that means, shares and
indexes truncate. `MaxIndex`, `MaxDeposited`, `MaxBooked`, `MaxEarned` and
`MaxUpsets` only stop growth; each is a conjunct of the action it bounds. `quiet`
of `YieldAdvice` stops just above the `Horizon`, beyond which nothing tells it apart.

`CHECK_DEADLOCK FALSE`: when all handlers, jobs or requests are spent the system
rests. It is not needed for `Settlement`, where operators can always fail a withdrawal.

### Fairness

Weak fairness of each handler's statements (not of requests, chain or operators):
the event loop runs every continuation whose statement has returned. Crashes are
possible and unfair; every liveness property excepts handlers that died. No
liveness is claimed of `VaultLedger`: an RPC call has no bound. `ClientAccount` and
`UserLifecycle` claim none because a request of theirs is a straight line of
statements. In `YieldAdvice` time is explicit, and its properties are bounds.

## Proofs

For every set of orders, accounts, products, vaults, handlers, jobs, requests and
callers and all numbers that satisfy the named assumptions of the modules (the sets
that are summed over are finite, as rows of a table are). Every safety property
that a passing run checks is the statement of a theorem:

* **Sums.** What a fold computes is not provable by induction here, because the
  library's rules take an operator. `SumTheorems` argues by a smallest
  counterexample instead: the subsets of a finite set on which a statement fails, if
  there are any, have one with none of them inside it (`MinimalSubset`). `SumUnfolds`
  shows so that the function the fold chooses exists, `SumTakesOut` that the order
  does not matter, and from these follow the forms the ledgers need: one value
  changes (`SumGrows`), a member is added (`SumPutsIn`), all are multiplied
  (`SumOfMultiples`), two functions are added (`SumOfSums`), one is below another
  (`SumIsOrdered`).

* **Deposits.** `TypeCorrect` rests on `TypeInv`, which adds that a handler in
  flight serves an order, so the rows it writes exist. `StampKept` holds with any
  interleaving and crash. `SerialInvariance`, `CreditsOnce`, `NoCollision`,
  `FormulaFollowed` and `Refinement` hold under `Cautious`: requests one at a time,
  no caller fails a deposit. `CreditedOnce` alone is not inductive: one must know
  that a handler about to mark an order found it pending and that nobody else is
  in flight (`OneInFlight`), what is written at each statement (`RowKnown`), and
  that a position that does not exist holds nothing (`AbsentIsEmpty`).
  The other four need no serialisation. `LedgersAdd`: the updates are additive
  statements, and an INSERT starts from nothing. `BookingFollows` and `LedgersAgree`
  rest on `BookingInv`: what the vaults lack of an order is what handlers between
  their two writes still owe (`Owed`, a sum over handlers), and no less if none has
  died. `EntriesInRange` rests on `EntryInv`: what a handler has *read* is in range
  too, which stays true because indexes only grow, and a weighted mean of values in
  a range, truncated, is in it (`WeightedIndexBetween`, `GrowthBetween`). It assumes
  that the client has a vault: a user activated before there is one enters at 1.0
  with no index to compare with.
* **Withdrawals.** `WithdrawalInvariance` needs no serialisation: an order is its
  own handler, and no other request writes its rows. The strengthening
  `RequestKnown` says, at each statement, which of the order's rows exist and that
  distribution and queue hold what the request computed from what it has *seen*: for
  the shares, one of the splits rounding allows.
  From it follow `DebitsAreQueued`, `FeesStay` (a distribution that exists
  passed the CHECK, so its shares exceed the raw yield by less than the tolerance, and
  that exceeds the exact yield by no more than the noise) and
  `Refinement` of `WithdrawalContract`, all under any interleaving and crash.
  `DebitsAdd` follows from the additive UPDATE. `YieldIsRecorded` needs `YieldInv`: a
  request that has recorded a yield and not yet its distribution counts with what
  it is about to share out, less one rounding error of the sum (`Backed`), so the sum
  of both stays below what is recorded.
* **Settlement.** All under any overlap and failure. `BatchInv` says what the local
  variables of a batch know of the history at each statement: while it collects it
  has completed exactly `done` and booked nothing; while it books, what is not in
  `due` is booked; when tokens move all is. That gives `TokensAreBooked` and
  `Refinement` of `SettlementContract`. `OverlapIsNeeded` needs `MetInv`: requests in
  flight have met, and who holds an order another batch completed has met that
  batch. `NoLateSettlement` says that an order no batch holds and that is not
  pending stays so. `BooksExplainLedgers` needs `Tally`: what a batch has added up, in
  total and per product, is the sum over the orders in `done`, which are all
  deposits or all withdrawals, and whose tokens have a wallet; the sums are of rounded
  amounts, the total is not. When a batch enters
  the history of some orders the books change by what these are worth (`NetGrows`),
  and by `BatchInv` it was not in their history before; a batch of withdrawals that moves its
  tokens joins the `Payers` and adds at most the half cent its total was rounded by, a batch
  of deposits nothing. `RequestsEnd` is the part of
  `CompletedIsAnswered` that needs no fairness: `Left` counts the statements a batch
  can still run, five for each order it has yet to visit, and every step lowers it
  (`LeftFalls`), whatever the others do.
* **Vault.** `TypeCorrect` carries that indexes that divide are positive and that
  a job applying a yield has read a staked balance. `PendingUnstaked` and
  `CumulativeGrows` hold under any interleaving. With `Serialised`, `SerialInv`
  adds that the job in flight is alone and what it has read is still in the row;
  then `IndexGrows`, for a growth factor is at least 1.0 however its double was rounded, and
  `SharesAreCovered`: a yield takes index and staked balance apart by no more than the two
  errors that `up` and `down` are multiplied with, and staking by nothing, because the shares
  bought are truncated.
* **Client accounts.** `TypeCorrect` holds because the guards of the UPDATEs are in
  the statements. `FundsAreConserved`: each statement moves money between the two
  columns or is a payment, counted in the step that makes it (`Conserved`).
  `LogExplainedAlways`: a reservation that passed its check still
  fits, or another was made since by a request it has met (`LogInv`).
  `RegistrationIsComplete`: the vaults not in `todo` exist, and one without a wallet
  was inserted by a configuration in flight with the registration (`Built`,
  `Excused`). `CurrenciesExplained`: each column holds what its last writer asked
  (`Written`), and an account configuration that is between its two statements is
  the last writer of the first or has met it (`Configuring`).
* **User lifecycle.** The counter is the cardinality of the requests that counted,
  which needs finitely many requests. `CountIsExplained` and `OnlyOverlapsCollide`
  rest on `LateInv` and `RivalInv`: a request that finds a row where it had seen none
  has met the one that inserted it. `ActivationGivesVault` rests on what an
  activation has left at each statement, `StatusOnlyAdvances` on an activation
  never standing at its UPDATE beside a suspended user.
* **Advice.** `AdviceIsFresh`: along every cache the age of an entry and the time it
  has left add up to a bound that grows from one cache to the next by its time to
  live and by what a call may take (`Within`); it starts from what a call may take, which
  a rate may be old when its adapter caches it. `AdviceSettles`: an entry is *recent* if
  it was read since the market last moved (the age of a rate on its way counts from the
  start of its call), and recent entries say what the market
  says (`KnownInv`); a market at rest for longer than the `Horizon` leaves only recent
  ones, and an advice depends on nothing but the offers and the positions of its
  token.

Only model-checked: liveness (`CompletedIsCredited`, `PendingIsDebited`,
`CompletedIsAnswered`), because weak fairness is defined by ENABLED, which the provers
do not handle; and what the violated runs show, which is a behaviour each.

## Not modelled

* DeFi execution beyond what reaches a vault row: approvals, allocation percentages
  and the rows of `defi_transactions`, which are written once and only listed.
* The yield engine's execution of batches, one pass over external transactions;
  the gas-aware strategy; filtered and comparing queries, which keep nothing.
* Of clients: API keys, fees, texts and reports; of users: portfolios and lists.
* Everything that keeps no state (SDK, contracts, MCP server, front end), generated
  code, and code nothing starts (index updater service, legacy use cases).

What is left, in this order: the composition of `VaultLedger` with the two flows, so
that the growth index they read is the one its jobs write, at a size TLC can
exhaust; `Settlement` over the full `DepositFlow` instead of its contract; and the
gas-aware strategy with amounts.
