-------------------------- MODULE YieldAdvice --------------------------
(***************************************************************************)
(* The advice of the yield engine to one wallet on one chain, and the four *)
(* caches it passes through: the supply rates an adapter keeps, the        *)
(* aggregator's positions and opportunities, the optimizer's results.      *)
(* Calls run concurrently in one process; between two awaits nothing else  *)
(* runs.  A strategy stands for its name together with the risk profile it *)
(* is asked with.  Rates are integers, in half percents say.               *)
(***************************************************************************)
EXTENDS Integers, Sequences, FiniteSets

CONSTANTS Tokens, Strategies,
          Enabled,        \* the enabled protocols, in the order they are asked
          Style,          \* what tells a strategy from another
          Rates,          \* the rates a market may offer
          Calls,          \* concurrent calls of the engine's operations
          Menu,           \* what callers ask
          Markets,        \* the markets, and what the wallet holds, to start from
          OptimizerTTL, AggregatorTTL, AdapterTTL,
          Patience,       \* how long the reads of a call may take
          Unsettled,      \* the markets that move
          MaxUpsets,
          NoProtocol, NoStrategy

Protocols == {Enabled[i] : i \in DOMAIN Enabled}

Place(p) == CHOOSE i \in DOMAIN Enabled : Enabled[i] = p

StyleType ==
    [score   : [Protocols -> [Rates -> Nat]],     \* of a rate, a protocol's size and trust
     allowed : [Protocols -> SUBSET Rates],       \* what the profile does not filter out
     delta   : [Protocols -> [Protocols -> Nat]]] \* the gain a move must promise

AskType ==
    [kind : {"optimize", "positions", "opportunities"}, token : Tokens,
     tokens : SUBSET Tokens, strategy : Strategies \cup {NoStrategy}]

MarketType ==
    [rate : [Protocols -> [Tokens -> Rates]], holding : SUBSET (Protocols \X Tokens)]

ASSUME ConstantsAssumption ==
    /\ Enabled \in Seq(Protocols)
    /\ IsFiniteSet(Tokens)
    /\ Style \in [Strategies -> StyleType]
    /\ Rates \subseteq Nat
    /\ Menu \subseteq AskType
    /\ Markets \subseteq MarketType
    /\ \A q \in Menu : q.kind = "optimize" => q.tokens = {q.token} /\ q.strategy \in Strategies
    /\ Unsettled \subseteq Protocols \X Tokens
    /\ OptimizerTTL \in Nat /\ AggregatorTTL \in Nat /\ AdapterTTL \in Nat
    /\ Patience \in Nat /\ MaxUpsets \in Nat
    /\ NoProtocol \notin Protocols /\ NoStrategy \notin Strategies

VARIABLES
    rate,       \* external: the supply rate of each market
    holding,    \* external: the pairs of protocol and token the wallet holds
    quiet,      \* history: how long ago rates or holdings last changed
    upsets,     \* external: how many changes and failed reads, bounded by MaxUpsets
    rates,      \* the cache of each adapter: rates
    positions,  \* the aggregator's cache: what the wallet holds
    offers,     \* the aggregator's cache, per token: the opportunities
    advices,    \* the optimizer's cache, per token
    pc, ask,
    taken,      \* how long a call has taken so far
    seen, toSee,       \* positions a call has, those it still reads
    fetch,             \* how far the read of each position has come
    offered, toOffer,  \* opportunities a call has, protocols it still asks
    toKeep             \* which of the two it will put in the aggregator's cache

marketVars == <<rate, holding, quiet, upsets>>
cacheVars == <<rates, positions, offers, advices>>
callVars == <<pc, ask, taken, seen, toSee, fetch, offered, toOffer, toKeep>>
vars == <<rate, holding, quiet, upsets, rates, positions, offers, advices,
          pc, ask, taken, seen, toSee, fetch, offered, toOffer, toKeep>>

-----------------------------------------------------------------------------
(* Cached values.  left is the time until a value expires, none when it is   *)
(* negative.  age, of the oldest rate or balance the value was made from,    *)
(* and faulty, that a read of one failed, are not in the code.               *)

Position == [protocol : Protocols, token : Tokens, rate : Rates]
Offer    == [protocol : Protocols, rate : Rates]

(* get(): a value lives through the last moment of its time. *)
Live(entry) == entry.left >= 0

(* What a call takes from the aggregator's caches, and puts there. *)
Taken(entry)  == [entry EXCEPT !.left = -1]
Stored(value) == [value EXCEPT !.left = AggregatorTTL]

(* (Slip: get() and the cleanup forget to look at the time.) *)
Later_Forever(entry, empty) ==
    IF entry.left < 0 THEN empty ELSE [entry EXCEPT !.age = entry.age + 1]

(* A tick later.  (What is expired, the next get() or the periodic cleanup   *)
(* removes.)                                                                 *)
Later(entry, empty) ==
    IF entry.left <= 0 THEN empty
    ELSE [entry EXCEPT !.left = entry.left - 1, !.age = entry.age + 1]

NoRate      == [rate |-> 0, age |-> 0, left |-> -1]
NoPositions == [found |-> {}, covers |-> {}, faulty |-> FALSE, age |-> 0, left |-> -1]
NoOffers    == [found |-> {}, faulty |-> FALSE, age |-> 0, left |-> -1]
NoAdvice    ==
    [advice |-> [strategy |-> NoStrategy, action |-> "hold",
                 from |-> NoProtocol, to |-> NoProtocol],
     covers |-> {}, faulty |-> FALSE, age |-> 0, left |-> -1]

NoAsk == [kind |-> "none", token |-> CHOOSE t \in Tokens : TRUE, tokens |-> {},
          strategy |-> NoStrategy]

(* The read of a position: of its balance, which is held; of its rate, which *)
(* the adapter does not have; and that rate on its way.                      *)
Fetch   == [step : {"balance", "held", "missed", "rated"}, rate : Nat]
Unasked == [step |-> "balance", rate |-> 0]

(* How old what a result was made from may be, when it is returned: a rate   *)
(* that was slow to come and kept by the adapter, found there by a call that *)
(* was slow elsewhere, kept by the aggregator, found by a call that was slow *)
(* again, and kept by the optimizer.                                         *)
Horizon == Patience + AdapterTTL + Patience + AggregatorTTL + Patience + OptimizerTTL

Older(a, b) == IF a >= b THEN a ELSE b

-----------------------------------------------------------------------------
(* The strategies.                                                           *)

Score(s, o) == Style[s].score[o.protocol][o.rate]

(* Both sorts are stable: the aggregator's by rate, then the strategy's.     *)
Before(s, o, other) ==
    \/ Score(s, o) > Score(s, other)
    \/ /\ Score(s, o) = Score(s, other)
       /\ \/ o.rate > other.rate
          \/ o.rate = other.rate /\ Place(o.protocol) < Place(other.protocol)

(* The first that rankOpportunities() returns, of some.                      *)
Best(s, found) ==
    LET ranked == {o \in found : o.rate \in Style[s].allowed[o.protocol]}
    IN  CHOOSE o \in ranked : \A other \in ranked \ {o} : Before(s, o, other)

NothingRanked(s, found) == \A o \in found : o.rate \notin Style[s].allowed[o.protocol]

(* Without a position every offer is a reason to move, ranked or not.        *)
ShouldRebalance(s, held, found) ==
    IF held = {} THEN found # {}
    ELSE /\ ~ NothingRanked(s, found)
         /\ \A position \in held :
                LET best == Best(s, found)
                IN  /\ position.protocol # best.protocol
                    /\ best.rate - position.rate
                           >= Style[s].delta[position.protocol][best.protocol]

(* The position of a token an advice starts from: of the first protocol that *)
(* has one.                                                                  *)
Current(t, found) ==
    {position \in found :
        /\ position.token = t
        /\ \A other \in found :
               other.token = t => Place(position.protocol) <= Place(other.protocol)}

Advise(s, t, held, found) ==
    LET current == Current(t, held)
    IN  [strategy |-> s,
         action   |-> IF ShouldRebalance(s, current, found) THEN "rebalance" ELSE "hold",
         from     |-> IF current = {} THEN NoProtocol
                      ELSE (CHOOSE position \in current : TRUE).protocol,
         to       |-> IF NothingRanked(s, found) THEN NoProtocol
                      ELSE Best(s, found).protocol]

-----------------------------------------------------------------------------

Init ==
    /\ \E m \in Markets : rate = m.rate /\ holding = m.holding
    /\ quiet = Horizon + 1
    /\ upsets = 0
    /\ rates = [p \in Protocols |-> [t \in Tokens |-> NoRate]]
    /\ positions = NoPositions
    /\ offers = [t \in Tokens |-> NoOffers]
    /\ advices = [t \in Tokens |-> NoAdvice]
    /\ pc = [c \in Calls |-> "idle"]
    /\ ask = [c \in Calls |-> NoAsk]
    /\ taken = [c \in Calls |-> 0]
    /\ seen = [c \in Calls |-> NoPositions]
    /\ toSee = [c \in Calls |-> {}]
    /\ fetch = [c \in Calls |-> [pair \in Protocols \X Tokens |-> Unasked]]
    /\ offered = [c \in Calls |-> NoOffers]
    /\ toOffer = [c \in Calls |-> {}]
    /\ toKeep = [c \in Calls |-> {}]

(* No call takes longer than Patience.  The RPC clients time out and their   *)
(* retries are counted; Morpho's API is asked with neither, and that it      *)
(* answers in time is an assumption.                                         *)
Tick ==
    /\ \A c \in Calls : pc[c] = "reading" => taken[c] < Patience
    /\ quiet' = IF quiet > Horizon THEN quiet ELSE quiet + 1
    /\ rates' = [p \in Protocols |-> [t \in Tokens |-> Later(rates[p][t], NoRate)]]
    /\ positions' = Later(positions, NoPositions)
    /\ offers' = [t \in Tokens |-> Later(offers[t], NoOffers)]
    /\ advices' = [t \in Tokens |-> Later(advices[t], NoAdvice)]
    /\ taken' = [c \in Calls |-> IF pc[c] = "reading" THEN taken[c] + 1 ELSE 0]
    /\ seen' = [c \in Calls |-> IF pc[c] = "reading"
                               THEN [seen[c] EXCEPT !.age = @ + 1] ELSE seen[c]]
    /\ offered' = [c \in Calls |-> IF pc[c] = "reading"
                                  THEN [offered[c] EXCEPT !.age = @ + 1] ELSE offered[c]]
    /\ UNCHANGED <<rate, holding, upsets, pc, ask, toSee, fetch, toOffer, toKeep>>

Disturb ==
    /\ upsets < MaxUpsets
    /\ upsets' = upsets + 1
    /\ quiet' = 0
    /\ UNCHANGED <<cacheVars, callVars>>

SetRate(p, t, r) ==
    /\ Disturb
    /\ <<p, t>> \in Unsettled
    /\ rate[p][t] # r
    /\ rate' = [rate EXCEPT ![p][t] = r]
    /\ UNCHANGED holding

(* A deposit into a market, or the withdrawal of all of it. *)
Move(p, t) ==
    /\ Disturb
    /\ <<p, t>> \in Unsettled
    /\ holding' = IF <<p, t>> \in holding THEN holding \ {<<p, t>>}
                  ELSE holding \cup {<<p, t>>}
    /\ UNCHANGED rate

-----------------------------------------------------------------------------
(* A call.  It asks each cache in turn and starts the reads of those that    *)
(* miss, in one turn of the event loop.                                      *)

(* The head of getAllPositions(), whose key does not have the tokens. *)
LookForPositions(c, q) ==
    IF Live(positions)
    THEN /\ seen' = [seen EXCEPT ![c] = Taken(positions)]
         /\ UNCHANGED toSee
    ELSE /\ seen' = [seen EXCEPT ![c] = [NoPositions EXCEPT !.covers = q.tokens]]
         /\ toSee' = [toSee EXCEPT ![c] = Protocols \X q.tokens]

(* The head of fetchAllOpportunities(). *)
LookForOffers(c, q) ==
    IF Live(offers[q.token])
    THEN /\ offered' = [offered EXCEPT ![c] = Taken(offers[q.token])]
         /\ UNCHANGED toOffer
    ELSE /\ offered' = [offered EXCEPT ![c] = NoOffers]
         /\ toOffer' = [toOffer EXCEPT ![c] = Protocols]

(* An operation whose own cache has its result returns that and changes      *)
(* nothing.  The optimizer's key has neither the strategy nor the profile.   *)
Kept(q) ==
    \/ q.kind = "optimize" /\ Live(advices[q.token])
    \/ q.kind = "positions" /\ Live(positions)
    \/ q.kind = "opportunities" /\ Live(offers[q.token])

Begin(c, q) ==
    /\ pc[c] = "idle"
    /\ ~ Kept(q)
    /\ pc' = [pc EXCEPT ![c] = "reading"]
    /\ ask' = [ask EXCEPT ![c] = q]
    /\ taken' = [taken EXCEPT ![c] = 0]
    /\ IF q.kind = "opportunities" THEN UNCHANGED <<seen, toSee>>
       ELSE LookForPositions(c, q)
    /\ IF q.kind = "positions" THEN UNCHANGED <<offered, toOffer>>
       ELSE LookForOffers(c, q)
    /\ toKeep' = [toKeep EXCEPT ![c] =
                      {what \in {"positions", "offers"} :
                          \/ what = "positions" /\ q.kind # "opportunities" /\ ~ Live(positions)
                          \/ what = "offers" /\ q.kind # "positions" /\ ~ Live(offers[q.token])}]
    /\ UNCHANGED <<marketVars, cacheVars, fetch>>

-----------------------------------------------------------------------------
(* The reads of a call, and the answers as they come.                        *)

Lost ==
    /\ upsets < MaxUpsets
    /\ upsets' = upsets + 1

(* The read of a position goes on, or ends with what has been found then. *)
GoesOn(c, p, t, read) ==
    /\ fetch' = [fetch EXCEPT ![c][<<p, t>>] = read]
    /\ UNCHANGED <<seen, toSee>>

Ends(c, p, t, found) ==
    /\ fetch' = [fetch EXCEPT ![c][<<p, t>>] = Unasked]
    /\ toSee' = [toSee EXCEPT ![c] = @ \ {<<p, t>>}]
    /\ seen' = [seen EXCEPT ![c] = found]

At(c, p, t, step) == <<p, t>> \in toSee[c] /\ fetch[c][<<p, t>>].step = step

With(c, p, t, r, age) ==
    [seen[c] EXCEPT
        !.found = seen[c].found \cup {[protocol |-> p, token |-> t, rate |-> r]},
        !.age = Older(seen[c].age, age)]

readUnchanged == UNCHANGED <<rate, holding, quiet, positions, offers, advices, pc, ask, taken,
                             offered, toOffer, toKeep>>

(* The head of getUserPosition(); without a balance there is no position. *)
ReadBalance(c, p, t) ==
    /\ At(c, p, t, "balance")
    /\ IF <<p, t>> \in holding THEN GoesOn(c, p, t, [step |-> "held", rate |-> 0])
       ELSE Ends(c, p, t, seen[c])
    /\ UNCHANGED <<rates, upsets>> /\ readUnchanged

(* The head of getSupplyAPY(): the rate is in the adapter's cache, or must   *)
(* be read.                                                                  *)
AskRate(c, p, t) ==
    LET cached == rates[p][t]
    IN  /\ At(c, p, t, "held")
        /\ IF Live(cached) THEN Ends(c, p, t, With(c, p, t, cached.rate, cached.age))
           ELSE GoesOn(c, p, t, [step |-> "missed", rate |-> 0])
        /\ UNCHANGED <<rates, upsets>> /\ readUnchanged

(* The chain is asked for the rate, or for the utilization it follows from. *)
ReadRate(c, p, t) ==
    /\ At(c, p, t, "missed")
    /\ GoesOn(c, p, t, [step |-> "rated", rate |-> rate[p][t]])
    /\ UNCHANGED <<rates, upsets>> /\ readUnchanged

(* The rest of getSupplyAPY(), when that rate is there: it replaces whatever *)
(* others have cached since.  It may be as old as the call.                  *)
CacheRate(c, p, t) ==
    LET r == fetch[c][<<p, t>>].rate
    IN  /\ At(c, p, t, "rated")
        /\ rates' = [rates EXCEPT ![p][t] = [rate |-> r, age |-> taken[c],
                                            left |-> AdapterTTL]]
        /\ Ends(c, p, t, With(c, p, t, r, taken[c]))
        /\ UNCHANGED upsets /\ readUnchanged

(* An error in any of these counts as no position. *)
LosePosition(c, p, t) ==
    /\ <<p, t>> \in toSee[c]
    /\ Lost
    /\ Ends(c, p, t, [seen[c] EXCEPT !.faulty = TRUE])
    /\ UNCHANGED rates /\ readUnchanged

(* (Slip: whatever has been found so far is cached.) *)
KeepPositions_Early(c) ==
    /\ "positions" \in toKeep[c]
    /\ positions' = Stored(seen[c])
    /\ toKeep' = [toKeep EXCEPT ![c] = IF toSee[c] = {} THEN @ \ {"positions"} ELSE @]
    /\ UNCHANGED <<marketVars, rates, offers, advices, pc, ask, taken, seen, toSee, fetch,
                   offered, toOffer>>

(* The tail of getAllPositions(), when all have ended. *)
KeepPositions(c) ==
    /\ "positions" \in toKeep[c] /\ toSee[c] = {}
    /\ positions' = Stored(seen[c])
    /\ toKeep' = [toKeep EXCEPT ![c] = @ \ {"positions"}]
    /\ UNCHANGED <<marketVars, rates, offers, advices, pc, ask, taken, seen, toSee, fetch,
                   offered, toOffer>>

(* A protocol is asked in fetchAllOpportunities(), and gives its rate or an  *)
(* error, which leaves it out.                                               *)
SeeOffer(c, p, failed) ==
    LET offer == [protocol |-> p, rate |-> rate[p][ask[c].token]]
        found == IF failed THEN [offered[c] EXCEPT !.faulty = TRUE]
                 ELSE [offered[c] EXCEPT !.found = offered[c].found \cup {offer}]
    IN  /\ p \in toOffer[c]
        /\ IF failed THEN Lost ELSE UNCHANGED upsets
        /\ toOffer' = [toOffer EXCEPT ![c] = toOffer[c] \ {p}]
        /\ offered' = [offered EXCEPT ![c] = found]
        /\ UNCHANGED <<rate, holding, quiet, cacheVars, pc, ask, taken, seen, toSee, fetch,
                       toKeep>>

(* Its tail caches the answers, however many. *)
KeepOffers(c) ==
    /\ "offers" \in toKeep[c] /\ toOffer[c] = {}
    /\ offers' = [offers EXCEPT ![ask[c].token] = Stored(offered[c])]
    /\ toKeep' = [toKeep EXCEPT ![c] = @ \ {"offers"}]
    /\ UNCHANGED <<marketVars, rates, positions, advices, pc, ask, taken, seen, toSee, fetch,
                   offered, toOffer>>

(* (Slip: the opportunities alone are awaited.) *)
Finish_Early(c) ==
    LET t      == ask[c].token
        result == [advice |-> Advise(ask[c].strategy, t, seen[c].found, offered[c].found),
                   covers |-> seen[c].covers,
                   faulty |-> seen[c].faulty \/ offered[c].faulty,
                   age    |-> Older(seen[c].age, offered[c].age),
                   left   |-> OptimizerTTL]
    IN  /\ pc[c] = "reading"
        /\ "offers" \notin toKeep[c]
        /\ pc' = [pc EXCEPT ![c] = "idle"]
        /\ advices' = IF ask[c].kind = "optimize" THEN [advices EXCEPT ![t] = result]
                      ELSE advices
        /\ ask' = [ask EXCEPT ![c] = NoAsk]
        /\ taken' = [taken EXCEPT ![c] = 0]
        /\ seen' = [seen EXCEPT ![c] = NoPositions]
        /\ offered' = [offered EXCEPT ![c] = NoOffers]
        /\ UNCHANGED <<marketVars, rates, positions, offers, toSee, fetch, toOffer, toKeep>>

(* The end of a call: of optimizePosition(), which makes and caches its      *)
(* result, or of the aggregator's operations.                                *)
Finish(c) ==
    LET t      == ask[c].token
        result == [advice |-> Advise(ask[c].strategy, t, seen[c].found, offered[c].found),
                   covers |-> seen[c].covers,
                   faulty |-> seen[c].faulty \/ offered[c].faulty,
                   age    |-> Older(seen[c].age, offered[c].age),
                   left   |-> OptimizerTTL]
    IN  /\ pc[c] = "reading"
        /\ toKeep[c] = {}
        /\ pc' = [pc EXCEPT ![c] = "idle"]
        /\ advices' = IF ask[c].kind = "optimize" THEN [advices EXCEPT ![t] = result]
                      ELSE advices
        /\ ask' = [ask EXCEPT ![c] = NoAsk]
        /\ taken' = [taken EXCEPT ![c] = 0]
        /\ seen' = [seen EXCEPT ![c] = NoPositions]
        /\ offered' = [offered EXCEPT ![c] = NoOffers]
        /\ UNCHANGED <<marketVars, rates, positions, offers, toSee, fetch, toOffer, toKeep>>

Next ==
    \/ Tick
    \/ \E p \in Protocols, t \in Tokens :
          \/ \E r \in Rates : SetRate(p, t, r)
          \/ Move(p, t)
    \/ \E c \in Calls :
          \/ \E q \in Menu : Begin(c, q)
          \/ \E p \in Protocols, t \in Tokens :
                \/ ReadBalance(c, p, t)
                \/ AskRate(c, p, t)
                \/ ReadRate(c, p, t)
                \/ CacheRate(c, p, t)
                \/ LosePosition(c, p, t)
          \/ KeepPositions(c)
          \/ \E p \in Protocols, failed \in BOOLEAN : SeeOffer(c, p, failed)
          \/ KeepOffers(c)
          \/ Finish(c)

Spec == Init /\ [][Next]_vars

-----------------------------------------------------------------------------
(* Properties.                                                               *)

(* Every variable has its type, and a call that is idle reads nothing. *)
TypeOK ==
    /\ rate \in [Protocols -> [Tokens -> Rates]]
    /\ holding \in SUBSET (Protocols \X Tokens)
    /\ pc \in [Calls -> {"idle", "reading"}]
    /\ \A c \in Calls :
          /\ seen[c].found \in SUBSET Position
          /\ offered[c].found \in SUBSET Offer
          /\ \A pair \in Protocols \X Tokens :
                /\ fetch[c][pair] \in Fetch
                /\ fetch[c][pair] # Unasked => pair \in toSee[c]
          /\ pc[c] # "reading" => toSee[c] = {} /\ toOffer[c] = {}

(* The caches stack up, and nobody adds up their times to live: still every  *)
(* rate and balance behind an advice was read within the Horizon.            *)
FreshAdvice == \A t \in Tokens : Live(advices[t]) => advices[t].age <= Horizon

(* What the engine says of a market that has been at rest for longer than    *)
(* the Horizon is what an optimizer without any cache would say, but for two *)
(* things the code lets happen: a read that failed, and positions that were  *)
(* cached for a question about other tokens.                                 *)
SettledAdvice ==
    \A t \in Tokens :
        LET result == advices[t]
        IN  /\ Live(result)
            /\ quiet > Horizon
            /\ ~ result.faulty
            /\ t \in result.covers
            => result.advice =
                   Advise(result.advice.strategy, t,
                          {[protocol |-> h[1], token |-> h[2], rate |-> rate[h[1]][h[2]]]
                              : h \in holding},
                          {[protocol |-> p, rate |-> rate[p][t]] : p \in Protocols})
=========================================================================
