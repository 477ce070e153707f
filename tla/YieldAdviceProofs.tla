----------------------- MODULE YieldAdviceProofs -----------------------
(***************************************************************************)
(* Type correctness of YieldAdvice, and that no advice rests on anything   *)
(* older than the Horizon, for any times to live, protocols, tokens,       *)
(* strategies and number of concurrent calls.  Along every cache the sum   *)
(* of a value's age and of the time it has left is bounded, and the bound  *)
(* grows from one cache to the next by the time to live of the cache and   *)
(* by what a call may take between reading the one and filling the other.  *)
(***************************************************************************)
EXTENDS YieldAdvice, TLAPS

RateEntry     == [rate : Nat, age : Nat, left : Int]
PositionEntry == [found : SUBSET Position, covers : SUBSET Tokens, faulty : BOOLEAN,
                  age : Nat, left : Int]
OfferEntry    == [found : SUBSET Offer, faulty : BOOLEAN, age : Nat, left : Int]

Advised ==
    {Advise(s, t, held, found) : s \in Strategies \cup {NoStrategy}, t \in Tokens,
                                 held \in SUBSET Position, found \in SUBSET Offer}
    \cup {NoAdvice.advice}
AdviceEntry   == [advice : Advised, covers : SUBSET Tokens, faulty : BOOLEAN,
                  age : Nat, left : Int]

(* A value is used up to budget ticks after its oldest part was read. *)
Within(entry, budget) == entry.left >= 0 => entry.age + entry.left <= budget

RateBudget     == Patience + AdapterTTL
PositionBudget == RateBudget + Patience + AggregatorTTL
OfferBudget    == Patience + AggregatorTTL

MarketInv ==
    /\ rate \in [Protocols -> [Tokens -> Rates]]
    /\ holding \in SUBSET (Protocols \X Tokens)

RatesInv ==
    /\ rates \in [Protocols -> [Tokens -> RateEntry]]
    /\ \A p \in Protocols, t \in Tokens :
          /\ Live(rates[p][t]) => rates[p][t].rate \in Rates
          /\ Within(rates[p][t], RateBudget)

PositionsInv ==
    /\ positions \in PositionEntry
    /\ Within(positions, PositionBudget)

OffersInv ==
    /\ offers \in [Tokens -> OfferEntry]
    /\ \A t \in Tokens : Within(offers[t], OfferBudget)

AdvicesInv ==
    /\ advices \in [Tokens -> AdviceEntry]
    /\ \A t \in Tokens : Within(advices[t], Horizon)

CallsType ==
    /\ pc \in [Calls -> {"idle", "reading"}]
    /\ ask \in [Calls -> AskType \cup {NoAsk}]
    /\ taken \in [Calls -> Nat]
    /\ seen \in [Calls -> PositionEntry]
    /\ toSee \in [Calls -> SUBSET (Protocols \X Tokens)]
    /\ offered \in [Calls -> OfferEntry]
    /\ toOffer \in [Calls -> SUBSET Protocols]
    /\ toKeep \in [Calls -> SUBSET {"positions", "offers"}]

(* What a call read itself is as young as the call, but for the rates of the *)
(* adapters; what it took from a cache was as old as that allows.            *)
Reading(c) ==
    /\ ask[c] \in Menu
    /\ taken[c] <= Patience
    /\ seen[c].age <= PositionBudget + taken[c]
    /\ "positions" \in toKeep[c] =>
           seen[c].age <= RateBudget + taken[c] /\ taken[c] <= seen[c].age
    /\ offered[c].age <= OfferBudget + taken[c]
    /\ "offers" \in toKeep[c] => offered[c].age <= taken[c]
    /\ toSee[c] # {} => "positions" \in toKeep[c]
    /\ toOffer[c] # {} => "offers" \in toKeep[c]

Idle(c) ==
    /\ toSee[c] = {} /\ toOffer[c] = {} /\ toKeep[c] = {}
    /\ seen[c].age = 0 /\ offered[c].age = 0

CallInv(c) == IF pc[c] = "reading" THEN Reading(c) ELSE Idle(c)

CallsInv == CallsType /\ \A c \in Calls : CallInv(c)

(* Only the reads outstanding have come anywhere. *)
FetchesInv ==
    /\ fetch \in [Calls -> [Protocols \X Tokens -> Fetch]]
    /\ \A c \in Calls, pair \in Protocols \X Tokens :
          /\ fetch[c][pair] # Unasked => pair \in toSee[c]
          /\ fetch[c][pair].step = "rated" => fetch[c][pair].rate \in Rates

IInv ==
    /\ MarketInv /\ RatesInv /\ PositionsInv /\ OffersInv /\ AdvicesInv
    /\ CallsInv /\ FetchesInv

-----------------------------------------------------------------------------
(* Values.                                                                   *)

(* What replacing the time left, or that and the age, of a value gives. *)
AgedBy(e, l, a) == [e EXCEPT !.left = l, !.age = a]

LEMMA RateAged ==
  ASSUME NEW e \in RateEntry, NEW l \in Int, NEW a \in Nat
  PROVE  /\ AgedBy(e, l, a) \in RateEntry
         /\ AgedBy(e, l, a).left = l /\ AgedBy(e, l, a).age = a
         /\ AgedBy(e, l, a).rate = e.rate
  BY DEF RateEntry, AgedBy

LEMMA PositionsAged ==
  ASSUME NEW e \in PositionEntry, NEW l \in Int, NEW a \in Nat
  PROVE  /\ AgedBy(e, l, a) \in PositionEntry
         /\ AgedBy(e, l, a).left = l /\ AgedBy(e, l, a).age = a
  BY DEF PositionEntry, AgedBy

LEMMA OffersAged ==
  ASSUME NEW e \in OfferEntry, NEW l \in Int, NEW a \in Nat
  PROVE  /\ AgedBy(e, l, a) \in OfferEntry
         /\ AgedBy(e, l, a).left = l /\ AgedBy(e, l, a).age = a
  BY DEF OfferEntry, AgedBy

LEMMA AdviceAged ==
  ASSUME NEW e \in AdviceEntry, NEW l \in Int, NEW a \in Nat
  PROVE  /\ AgedBy(e, l, a) \in AdviceEntry
         /\ AgedBy(e, l, a).left = l /\ AgedBy(e, l, a).age = a
  BY DEF AdviceEntry, AgedBy

LEMMA SeenOlder ==
  ASSUME NEW e \in PositionEntry
  PROVE  [e EXCEPT !.age = @ + 1] \in PositionEntry /\ [e EXCEPT !.age = @ + 1].age = e.age + 1
  BY DEF PositionEntry

LEMMA OfferedOlder ==
  ASSUME NEW e \in OfferEntry
  PROVE  [e EXCEPT !.age = @ + 1] \in OfferEntry /\ [e EXCEPT !.age = @ + 1].age = e.age + 1
  BY DEF OfferEntry

(* A tick leaves the budget of every value as it is. *)
LEMMA LaterRate ==
  ASSUME NEW e \in RateEntry, NEW budget \in Nat, Within(e, budget), Live(e) => e.rate \in Rates
  PROVE  LET later == Later(e, NoRate)
         IN  /\ later \in RateEntry
             /\ Within(later, budget)
             /\ Live(later) => later.rate \in Rates
  <1>1. CASE e.left <= 0
    BY <1>1 DEF Later, RateEntry, NoRate, Within, Live
  <1>2. CASE ~ e.left <= 0
    <2>1. e.left - 1 \in Int /\ e.age + 1 \in Nat
      BY DEF RateEntry
    <2>2. Later(e, NoRate) = AgedBy(e, e.left - 1, e.age + 1)
      BY <1>2 DEF Later, AgedBy
    <2>3. /\ Later(e, NoRate) \in RateEntry
          /\ Later(e, NoRate).left = e.left - 1
          /\ Later(e, NoRate).age = e.age + 1
          /\ Later(e, NoRate).rate = e.rate
      BY <2>1, <2>2, RateAged
    <2> QED
      BY <1>2, <2>3 DEF RateEntry, Within, Live
  <1> QED
    BY <1>1, <1>2

LEMMA LaterPositions ==
  ASSUME NEW e \in PositionEntry, NEW budget \in Nat, Within(e, budget)
  PROVE  Later(e, NoPositions) \in PositionEntry /\ Within(Later(e, NoPositions), budget)
  <1>1. CASE e.left <= 0
    BY <1>1 DEF Later, PositionEntry, NoPositions, Within
  <1>2. CASE ~ e.left <= 0
    <2>1. e.left - 1 \in Int /\ e.age + 1 \in Nat
      BY DEF PositionEntry
    <2>2. Later(e, NoPositions) = AgedBy(e, e.left - 1, e.age + 1)
      BY <1>2 DEF Later, AgedBy
    <2>3. /\ Later(e, NoPositions) \in PositionEntry
          /\ Later(e, NoPositions).left = e.left - 1
          /\ Later(e, NoPositions).age = e.age + 1
      BY <2>1, <2>2, PositionsAged
    <2> QED
      BY <1>2, <2>3 DEF PositionEntry, Within
  <1> QED
    BY <1>1, <1>2

LEMMA LaterOffers ==
  ASSUME NEW e \in OfferEntry, NEW budget \in Nat, Within(e, budget)
  PROVE  Later(e, NoOffers) \in OfferEntry /\ Within(Later(e, NoOffers), budget)
  <1>1. CASE e.left <= 0
    BY <1>1 DEF Later, OfferEntry, NoOffers, Within
  <1>2. CASE ~ e.left <= 0
    <2>1. e.left - 1 \in Int /\ e.age + 1 \in Nat
      BY DEF OfferEntry
    <2>2. Later(e, NoOffers) = AgedBy(e, e.left - 1, e.age + 1)
      BY <1>2 DEF Later, AgedBy
    <2>3. /\ Later(e, NoOffers) \in OfferEntry
          /\ Later(e, NoOffers).left = e.left - 1
          /\ Later(e, NoOffers).age = e.age + 1
      BY <2>1, <2>2, OffersAged
    <2> QED
      BY <1>2, <2>3 DEF OfferEntry, Within
  <1> QED
    BY <1>1, <1>2

LEMMA LaterAdvice ==
  ASSUME NEW e \in AdviceEntry, NEW budget \in Nat, Within(e, budget)
  PROVE  Later(e, NoAdvice) \in AdviceEntry /\ Within(Later(e, NoAdvice), budget)
  <1>1. CASE e.left <= 0
    <2>1. NoAdvice.advice \in Advised
      BY DEF Advised
    <2> QED
      BY <1>1, <2>1 DEF Later, AdviceEntry, NoAdvice, Within
  <1>2. CASE ~ e.left <= 0
    <2>1. e.left - 1 \in Int /\ e.age + 1 \in Nat
      BY DEF AdviceEntry
    <2>2. Later(e, NoAdvice) = AgedBy(e, e.left - 1, e.age + 1)
      BY <1>2 DEF Later, AgedBy
    <2>3. /\ Later(e, NoAdvice) \in AdviceEntry
          /\ Later(e, NoAdvice).left = e.left - 1
          /\ Later(e, NoAdvice).age = e.age + 1
      BY <2>1, <2>2, AdviceAged
    <2> QED
      BY <1>2, <2>3 DEF AdviceEntry, Within
  <1> QED
    BY <1>1, <1>2

USE ConstantsAssumption DEF ConstantsAssumption

-----------------------------------------------------------------------------

USE DEF RateBudget, PositionBudget, OfferBudget

LEMMA HorizonType == Horizon \in Nat
  BY DEF Horizon

LEMMA MenuType ==
  ASSUME NEW q \in Menu
  PROVE  /\ q.token \in Tokens
         /\ q.tokens \in SUBSET Tokens
         /\ q.strategy \in Strategies \cup {NoStrategy}
  BY DEF AskType

Covering(e, tokens) == [e EXCEPT !.covers = tokens]

LEMMA CoveringType ==
  ASSUME NEW e \in PositionEntry, NEW tokens \in SUBSET Tokens
  PROVE  Covering(e, tokens) \in PositionEntry /\ Covering(e, tokens).age = e.age
  BY DEF PositionEntry, Covering

Widened(e, found, age) == [e EXCEPT !.found = found, !.age = age]

Faulted(e) == [e EXCEPT !.faulty = TRUE]

LEMMA WidenedType ==
  ASSUME NEW e \in PositionEntry, NEW found \in SUBSET Position, NEW age \in Nat
  PROVE  Widened(e, found, age) \in PositionEntry /\ Widened(e, found, age).age = age
  BY DEF PositionEntry, Widened

LEMMA FaultedType ==
  ASSUME NEW e \in PositionEntry
  PROVE  Faulted(e) \in PositionEntry /\ Faulted(e).age = e.age
  BY DEF PositionEntry, Faulted

Answered(e, found) == [e EXCEPT !.found = found]

LEMMA AnsweredType ==
  ASSUME NEW e \in OfferEntry, NEW found \in SUBSET Offer
  PROVE  /\ Answered(e, found) \in OfferEntry /\ Answered(e, found).age = e.age
         /\ Faulted(e) \in OfferEntry /\ Faulted(e).age = e.age
  BY DEF OfferEntry, Answered, Faulted

LEMMA TakenPositions ==
  ASSUME NEW e \in PositionEntry
  PROVE  /\ Taken(e) \in PositionEntry /\ Taken(e).age = e.age
         /\ Stored(e) \in PositionEntry /\ Stored(e).age = e.age
         /\ Stored(e).left = AggregatorTTL
  <1>1. Taken(e) \in PositionEntry
    <2>1. Taken(e) = [found |-> e.found, covers |-> e.covers, faulty |-> e.faulty,
                      age |-> e.age, left |-> -1]
      BY SMTT(30) DEF PositionEntry, Taken
    <2> QED
      BY <2>1, SMTT(30) DEF PositionEntry
  <1>2. Taken(e).age = e.age
    BY SMTT(30) DEF PositionEntry, Taken
  <1>3. Stored(e) \in PositionEntry
    <2>1. Stored(e) = [found |-> e.found, covers |-> e.covers, faulty |-> e.faulty,
                       age |-> e.age, left |-> AggregatorTTL]
      BY SMTT(30) DEF PositionEntry, Stored
    <2> QED
      BY <2>1, SMTT(30) DEF PositionEntry
  <1>4. Stored(e).age = e.age
    BY SMTT(30) DEF PositionEntry, Stored
  <1>5. Stored(e).left = AggregatorTTL
    BY SMTT(30) DEF PositionEntry, Stored
  <1> QED
    BY <1>1, <1>2, <1>3, <1>4, <1>5

LEMMA TakenOffers ==
  ASSUME NEW e \in OfferEntry
  PROVE  /\ Taken(e) \in OfferEntry /\ Taken(e).age = e.age
         /\ Stored(e) \in OfferEntry /\ Stored(e).age = e.age
         /\ Stored(e).left = AggregatorTTL
  BY DEF OfferEntry, Taken, Stored

(* The caches and the calls start empty. *)
LEMMA Initially == Init => IInv
  <1> SUFFICES ASSUME Init PROVE IInv
    OBVIOUS
  <1>1. MarketInv
    BY DEF Init, MarketInv, MarketType
  <1>2. RatesInv
    BY DEF Init, RatesInv, RateEntry, NoRate, Live, Within
  <1>3. PositionsInv
    BY DEF Init, PositionsInv, PositionEntry, NoPositions, Within
  <1>4. OffersInv
    BY DEF Init, OffersInv, OfferEntry, NoOffers, Within
  <1>5. AdvicesInv
    BY DEF Init, AdvicesInv, AdviceEntry, NoAdvice, Advised, Within
  <1>6. CallsInv
    <2>1. CallsType
      BY DEF Init, CallsType, PositionEntry, NoPositions, OfferEntry, NoOffers
    <2> QED
      BY <2>1 DEF Init, CallsInv, CallInv, Idle, NoPositions, NoOffers
  <1>7. FetchesInv
    BY DEF Init, FetchesInv, Fetch, Unasked
  <1> QED
    BY <1>1, <1>2, <1>3, <1>4, <1>5, <1>6, <1>7 DEF IInv

LEMMA TickStep == IInv /\ Tick => IInv'
  <1> SUFFICES ASSUME IInv, Tick PROVE IInv'
    OBVIOUS
  <1> USE DEF IInv
  <1>1. MarketInv'
    BY DEF Tick, MarketInv
  <1>2. RatesInv'
    <2>1. \A p \in Protocols, t \in Tokens :
             /\ Later(rates[p][t], NoRate) \in RateEntry
             /\ Within(Later(rates[p][t], NoRate), RateBudget)
             /\ Live(Later(rates[p][t], NoRate)) => Later(rates[p][t], NoRate).rate \in Rates
      BY LaterRate DEF RatesInv
    <2>2. rates' = [p \in Protocols |-> [t \in Tokens |-> Later(rates[p][t], NoRate)]]
      BY DEF Tick
    <2> HIDE DEF IInv
    <2>3. rates' \in [Protocols -> [Tokens -> RateEntry]]
      BY <2>1, <2>2
    <2>4. \A p \in Protocols, t \in Tokens : rates'[p][t] = Later(rates[p][t], NoRate)
      BY <2>2
    <2> QED
      BY <2>1, <2>3, <2>4 DEF RatesInv, Within, Live
  <1>3. PositionsInv'
    <2>1. positions' = Later(positions, NoPositions)
      BY DEF Tick
    <2>2. PositionBudget \in Nat
      OBVIOUS
    <2>3. /\ Later(positions, NoPositions) \in PositionEntry
          /\ Within(Later(positions, NoPositions), PositionBudget)
      BY <2>2, LaterPositions DEF PositionsInv
    <2> QED
      BY <2>1, <2>3 DEF PositionsInv, Within
  <1>4. OffersInv'
    <2>1. OfferBudget \in Nat
      OBVIOUS
    <2>2. \A t \in Tokens : /\ Later(offers[t], NoOffers) \in OfferEntry
                            /\ Within(Later(offers[t], NoOffers), OfferBudget)
      BY <2>1, LaterOffers DEF OffersInv
    <2>3. offers' = [t \in Tokens |-> Later(offers[t], NoOffers)]
      BY DEF Tick
    <2> QED
      BY <2>2, <2>3 DEF OffersInv, Within
  <1>5. AdvicesInv'
    <2>1. \A t \in Tokens : /\ Later(advices[t], NoAdvice) \in AdviceEntry
                            /\ Within(Later(advices[t], NoAdvice), Horizon)
      BY HorizonType, LaterAdvice DEF AdvicesInv
    <2>2. advices' = [t \in Tokens |-> Later(advices[t], NoAdvice)]
      BY DEF Tick
    <2>3. Horizon' = Horizon
      BY DEF Horizon
    <2> QED
      BY <2>1, <2>2, <2>3 DEF AdvicesInv, Within
  <1>6. CallsInv'
    <2>1. CallsType'
      <3> SUFFICES ASSUME NEW c \in Calls
                   PROVE  seen'[c] \in PositionEntry /\ offered'[c] \in OfferEntry
        <4>1. /\ pc' = pc /\ ask' = ask /\ toSee' = toSee /\ toOffer' = toOffer
              /\ toKeep' = toKeep
              /\ taken' \in [Calls -> Nat]
          BY DEF Tick, CallsInv, CallsType
        <4>2. DOMAIN seen' = Calls /\ seen' = [c \in Calls |-> seen'[c]]
          BY DEF Tick
        <4>3. DOMAIN offered' = Calls /\ offered' = [c \in Calls |-> offered'[c]]
          BY DEF Tick
        <4> QED
          BY <4>1, <4>2, <4>3 DEF CallsInv, CallsType
      <3>1. seen[c] \in PositionEntry /\ offered[c] \in OfferEntry
        BY DEF CallsInv, CallsType
      <3>2. /\ seen'[c] = IF pc[c] = "reading" THEN [seen[c] EXCEPT !.age = @ + 1] ELSE seen[c]
            /\ offered'[c] = IF pc[c] = "reading" THEN [offered[c] EXCEPT !.age = @ + 1]
                             ELSE offered[c]
        BY DEF Tick
      <3>3. /\ [seen[c] EXCEPT !.age = @ + 1] \in PositionEntry
            /\ [offered[c] EXCEPT !.age = @ + 1] \in OfferEntry
        BY <3>1, SeenOlder, OfferedOlder
      <3> QED
        BY <3>1, <3>2, <3>3
    <2>2. ASSUME NEW c \in Calls, pc[c] = "reading" PROVE Reading(c)'
      <3>1. seen[c] \in PositionEntry /\ offered[c] \in OfferEntry /\ taken[c] \in Nat
            /\ seen[c].age \in Nat /\ offered[c].age \in Nat /\ Reading(c)
        BY <2>2 DEF CallsInv, CallInv, CallsType, PositionEntry, OfferEntry
      <3>2. /\ taken'[c] = taken[c] + 1 /\ taken[c] < Patience
            /\ seen'[c].age = seen[c].age + 1
            /\ offered'[c].age = offered[c].age + 1
            /\ ask'[c] = ask[c] /\ toSee'[c] = toSee[c] /\ toOffer'[c] = toOffer[c]
            /\ toKeep'[c] = toKeep[c]
        BY <2>2, <3>1, SeenOlder, OfferedOlder DEF Tick, CallsInv, CallsType
      <3>3. /\ taken[c] + 1 <= Patience /\ ask[c] \in Menu
            /\ toSee[c] # {} => "positions" \in toKeep[c]
            /\ toOffer[c] # {} => "offers" \in toKeep[c]
        BY <3>1, <3>2 DEF Reading
      <3>4. seen[c].age + 1 <= PositionBudget + (taken[c] + 1)
        BY <3>1, SMTT(30) DEF Reading
      <3>5. "positions" \in toKeep[c] => /\ seen[c].age + 1 <= RateBudget + (taken[c] + 1)
                                        /\ taken[c] + 1 <= seen[c].age + 1
        BY <3>1, SMTT(30) DEF Reading
      <3>6. /\ offered[c].age + 1 <= OfferBudget + (taken[c] + 1)
            /\ "offers" \in toKeep[c] => offered[c].age + 1 <= taken[c] + 1
        BY <3>1, SMTT(30) DEF Reading
      <3> QED
        BY <3>2, <3>3, <3>4, <3>5, <3>6 DEF Reading
    <2> QED
      BY <2>1, <2>2 DEF Tick, CallsInv, CallInv, Idle
  <1>7. FetchesInv'
    BY DEF FetchesInv, Tick
  <1> QED
    BY <1>1, <1>2, <1>3, <1>4, <1>5, <1>6, <1>7

(* Nothing the engine keeps changes with the market. *)
LEMMA MarketStep ==
  ASSUME NEW p \in Protocols, NEW t \in Tokens, NEW r \in Rates, IInv,
         SetRate(p, t, r) \/ Move(p, t)
  PROVE  IInv'
  <1>1. UNCHANGED <<cacheVars, callVars>>
    BY DEF SetRate, Move, Disturb
  <1>2. MarketInv'
    <2>1. CASE SetRate(p, t, r)
      BY <2>1 DEF IInv, MarketInv, SetRate
    <2>2. CASE Move(p, t)
      BY <2>2 DEF IInv, MarketInv, Move
    <2> QED
      BY <2>1, <2>2
  <1>3. RatesInv' /\ PositionsInv' /\ OffersInv' /\ AdvicesInv'
    BY <1>1
    DEF IInv, cacheVars, RatesInv, PositionsInv, OffersInv, AdvicesInv, Live, Within, Horizon
  <1>4. CallsInv'
    BY <1>1 DEF IInv, callVars, CallsInv, CallsType, CallInv, Idle, Reading
  <1>5. FetchesInv'
    BY <1>1 DEF IInv, callVars, FetchesInv
  <1> QED
    BY <1>2, <1>3, <1>4, <1>5 DEF IInv

-----------------------------------------------------------------------------
(* The calls.                                                                *)

(* A step of one call leaves the others as they are. *)
LEMMA OthersKeep ==
  ASSUME NEW c \in Calls, CallsInv, CallsType', CallInv(c)',
         \A d \in Calls \ {c} :
            /\ pc'[d] = pc[d] /\ ask'[d] = ask[d] /\ taken'[d] = taken[d]
            /\ seen'[d] = seen[d] /\ toSee'[d] = toSee[d]
            /\ offered'[d] = offered[d] /\ toOffer'[d] = toOffer[d]
            /\ toKeep'[d] = toKeep[d]
  PROVE  CallsInv'
  <1>1. ASSUME NEW d \in Calls \ {c} PROVE CallInv(d)'
    BY <1>1 DEF CallsInv, CallInv, Reading, Idle
  <1> QED
    BY <1>1 DEF CallsInv

(* A call that begins has nothing, or what the caches have. *)
LEMMA BeginStep ==
  ASSUME NEW c \in Calls, NEW q \in Menu, IInv, Begin(c, q)
  PROVE  IInv'
  <1> DEFINE bare == Covering(NoPositions, q.tokens)
  <1> USE DEF IInv
  <1>1. MarketInv' /\ RatesInv' /\ PositionsInv' /\ OffersInv' /\ AdvicesInv'
    BY DEF Begin, marketVars, cacheVars, MarketInv, RatesInv, PositionsInv, OffersInv,
           AdvicesInv, Live, Within, Horizon
  <1>2. CallsType /\ Idle(c) /\ q \in AskType
    BY DEF Begin, CallsInv, CallInv, CallsType
  <1>3. /\ bare \in PositionEntry /\ bare.age = 0
        /\ NoOffers \in OfferEntry /\ NoOffers.age = 0
    <2>1. NoOffers \in OfferEntry /\ NoOffers.age = 0
      BY DEF OfferEntry, NoOffers
    <2>2. NoPositions \in PositionEntry /\ NoPositions.age = 0
      BY DEF PositionEntry, NoPositions
    <2>3. q.tokens \in SUBSET Tokens
      BY MenuType
    <2> QED
      BY <2>1, <2>2, <2>3, CoveringType
  <1>4. /\ Live(positions) => /\ Taken(positions) \in PositionEntry
                              /\ Taken(positions).age <= PositionBudget
        /\ Live(offers[q.token]) => /\ Taken(offers[q.token]) \in OfferEntry
                                    /\ Taken(offers[q.token]).age <= OfferBudget
    <2>1. /\ positions \in PositionEntry /\ positions.age \in Nat /\ positions.left \in Int
          /\ Within(positions, PositionBudget)
      BY DEF PositionsInv, PositionEntry
    <2>2. /\ offers[q.token] \in OfferEntry
          /\ offers[q.token].age \in Nat /\ offers[q.token].left \in Int
          /\ Within(offers[q.token], OfferBudget)
      BY MenuType DEF OffersInv, OfferEntry
    <2>3. /\ Taken(positions) \in PositionEntry
          /\ Taken(positions).age = positions.age
      BY <2>1, TakenPositions
    <2>4. /\ Taken(offers[q.token]) \in OfferEntry
          /\ Taken(offers[q.token]).age = offers[q.token].age
      BY <2>2, TakenOffers
    <2>5. Live(positions) => positions.age <= PositionBudget
      BY <2>1 DEF Live, Within
    <2>6. Live(offers[q.token]) => offers[q.token].age <= OfferBudget
      BY <2>2 DEF Live, Within
    <2> QED
      BY <2>3, <2>4, <2>5, <2>6
  <1> HIDE DEF bare
  <1>a. /\ toKeep' \in [Calls -> SUBSET {"positions", "offers"}]
        /\ "positions" \in toKeep'[c] <=> q.kind # "opportunities" /\ ~ Live(positions)
        /\ "offers" \in toKeep'[c] <=> q.kind # "positions" /\ ~ Live(offers[q.token])
        /\ \A d \in Calls \ {c} : toKeep'[d] = toKeep[d]
    BY <1>2 DEF Begin, CallsType
  <1>5. /\ seen' \in [Calls -> PositionEntry]
        /\ toSee' \in [Calls -> SUBSET (Protocols \X Tokens)]
        /\ seen'[c].age <= PositionBudget
        /\ toSee'[c] # {} => "positions" \in toKeep'[c]
        /\ "positions" \in toKeep'[c] => seen'[c].age = 0
        /\ \A d \in Calls \ {c} : seen'[d] = seen[d] /\ toSee'[d] = toSee[d]
    <2>1. CASE q.kind = "opportunities"
      <3>1. seen' = seen /\ toSee' = toSee
        BY <2>1 DEF Begin
      <3> QED
        BY <1>2, <1>a, <2>1, <3>1 DEF CallsType, Idle
    <2>2. CASE q.kind # "opportunities" /\ Live(positions)
      <3>1. seen' = [seen EXCEPT ![c] = Taken(positions)] /\ toSee' = toSee
        BY <2>2 DEF Begin, LookForPositions
      <3> QED
        BY <1>2, <1>4, <1>a, <2>2, <3>1 DEF CallsType, Idle
    <2>3. CASE q.kind # "opportunities" /\ ~ Live(positions)
      <3>1. /\ seen' = [seen EXCEPT ![c] = bare]
            /\ toSee' = [toSee EXCEPT ![c] = Protocols \X q.tokens]
        BY <2>3 DEF Begin, LookForPositions, bare, Covering
      <3>2. Protocols \X q.tokens \in SUBSET (Protocols \X Tokens)
        BY MenuType
      <3> QED
        BY <1>2, <1>3, <1>a, <2>3, <3>1, <3>2 DEF CallsType
    <2> QED
      BY <2>1, <2>2, <2>3
  <1>6. /\ offered' \in [Calls -> OfferEntry]
        /\ toOffer' \in [Calls -> SUBSET Protocols]
        /\ offered'[c].age <= OfferBudget
        /\ toOffer'[c] # {} => "offers" \in toKeep'[c]
        /\ "offers" \in toKeep'[c] => offered'[c].age = 0
        /\ \A d \in Calls \ {c} : offered'[d] = offered[d] /\ toOffer'[d] = toOffer[d]
    <2>1. CASE q.kind = "positions"
      <3>1. offered' = offered /\ toOffer' = toOffer
        BY <2>1 DEF Begin
      <3> QED
        BY <1>2, <1>a, <2>1, <3>1 DEF CallsType, Idle
    <2>2. CASE q.kind # "positions" /\ Live(offers[q.token])
      <3>1. offered' = [offered EXCEPT ![c] = Taken(offers[q.token])] /\ toOffer' = toOffer
        BY <2>2 DEF Begin, LookForOffers
      <3> QED
        BY <1>2, <1>4, <1>a, <2>2, <3>1 DEF CallsType, Idle
    <2>3. CASE q.kind # "positions" /\ ~ Live(offers[q.token])
      <3>1. /\ offered' = [offered EXCEPT ![c] = NoOffers]
            /\ toOffer' = [toOffer EXCEPT ![c] = Protocols]
        BY <2>3 DEF Begin, LookForOffers
      <3> QED
        BY <1>2, <1>3, <1>a, <2>3, <3>1 DEF CallsType
    <2> QED
      BY <2>1, <2>2, <2>3
  <1>7. /\ pc' = [pc EXCEPT ![c] = "reading"] /\ ask' = [ask EXCEPT ![c] = q]
        /\ taken' = [taken EXCEPT ![c] = 0]
    BY DEF Begin
  <1>8. CallsType'
    BY <1>2, <1>5, <1>6, <1>7, <1>a DEF CallsType
  <1>9. CallInv(c)'
    <2>1. pc'[c] = "reading" /\ ask'[c] = q /\ taken'[c] = 0
      BY <1>2, <1>7 DEF CallsType
    <2> QED
      BY <1>5, <1>6, <2>1 DEF CallInv, Reading
  <1>10. CallsInv'
    BY <1>2, <1>5, <1>6, <1>7, <1>8, <1>9, <1>a, OthersKeep DEF CallsType
  <1>11. FetchesInv'
    <2>1. fetch' = fetch
      BY DEF Begin
    <2>2. \A d \in Calls, pair \in Protocols \X Tokens : pair \in toSee[d] => pair \in toSee'[d]
      BY <1>2, <1>5 DEF Idle
    <2> QED
      BY <2>1, <2>2 DEF FetchesInv
  <1> QED
    BY <1>1, <1>10, <1>11

(* What a read that goes on, or ends, leaves of a call. *)
LEMMA ReadingOn ==
  ASSUME NEW c \in Calls, NEW p \in Protocols, NEW t \in Tokens, IInv, <<p, t>> \in toSee[c]
  PROVE  /\ CallsType /\ pc[c] = "reading" /\ Reading(c)
         /\ seen[c] \in PositionEntry /\ seen[c].age \in Nat /\ seen[c].found \in SUBSET Position
         /\ taken[c] \in Nat /\ taken[c] <= Patience
         /\ seen[c].age <= RateBudget + taken[c] /\ taken[c] <= seen[c].age
  <1>1. CallsType /\ CallInv(c) /\ seen[c] \in PositionEntry /\ taken[c] \in Nat
    BY DEF IInv, CallsInv, CallsType
  <1>2. pc[c] = "reading" /\ Reading(c)
    BY <1>1 DEF CallInv, Idle
  <1>3. taken[c] <= Patience /\ seen[c].age <= RateBudget + taken[c] /\ taken[c] <= seen[c].age
    BY <1>2 DEF Reading
  <1> QED
    BY <1>1, <1>2, <1>3 DEF PositionEntry

LEMMA GoesOnKeeps ==
  ASSUME NEW c \in Calls, NEW p \in Protocols, NEW t \in Tokens, NEW read \in Fetch, IInv,
         <<p, t>> \in toSee[c], GoesOn(c, p, t, read),
         read.step = "rated" => read.rate \in Rates,
         rates' = rates, readUnchanged
  PROVE  IInv'
  <1>1. MarketInv' /\ RatesInv' /\ PositionsInv' /\ OffersInv' /\ AdvicesInv'
    BY DEF readUnchanged, IInv, MarketInv, RatesInv, PositionsInv, OffersInv, AdvicesInv,
           Live, Within, Horizon
  <1>2. CallsInv'
    BY DEF readUnchanged, GoesOn, IInv, CallsInv, CallsType, CallInv, Idle, Reading
  <1>3. FetchesInv'
    <2>1. /\ fetch \in [Calls -> [Protocols \X Tokens -> Fetch]] /\ FetchesInv
          /\ fetch' = [fetch EXCEPT ![c][<<p, t>>] = read] /\ toSee' = toSee
      BY DEF IInv, FetchesInv, GoesOn
    <2>2. /\ fetch' \in [Calls -> [Protocols \X Tokens -> Fetch]]
          /\ \A d \in Calls, pair \in Protocols \X Tokens :
                fetch'[d][pair] = IF d = c /\ pair = <<p, t>> THEN read ELSE fetch[d][pair]
      BY <2>1
    <2> QED
      BY <2>1, <2>2 DEF FetchesInv
  <1> QED
    BY <1>1, <1>2, <1>3 DEF IInv

LEMMA EndsKeeps ==
  ASSUME NEW c \in Calls, NEW p \in Protocols, NEW t \in Tokens, NEW found \in PositionEntry, IInv,
         <<p, t>> \in toSee[c], Ends(c, p, t, found),
         found.age <= RateBudget + taken[c], taken[c] <= found.age,
         RatesInv', readUnchanged
  PROVE  IInv'
  <1>1. MarketInv' /\ PositionsInv' /\ OffersInv' /\ AdvicesInv'
    BY DEF readUnchanged, IInv, MarketInv, PositionsInv, OffersInv, AdvicesInv, Within, Horizon
  <1>2. /\ CallsType /\ pc[c] = "reading" /\ Reading(c)
        /\ taken[c] \in Nat /\ taken[c] <= Patience /\ found.age \in Nat
    BY ReadingOn DEF PositionEntry
  <1>3. /\ toSee' = [toSee EXCEPT ![c] = @ \ {<<p, t>>}]
        /\ seen' = [seen EXCEPT ![c] = found]
        /\ fetch' = [fetch EXCEPT ![c][<<p, t>>] = Unasked]
        /\ UNCHANGED <<pc, ask, taken, offered, toOffer, toKeep>>
    BY DEF Ends, readUnchanged
  <1>4. CallsType'
    BY <1>2, <1>3 DEF CallsType
  <1>5. CallInv(c)'
    <2>1. /\ seen'[c] = found /\ taken'[c] = taken[c] /\ pc'[c] = "reading"
          /\ ask'[c] = ask[c] /\ offered'[c] = offered[c] /\ toOffer'[c] = toOffer[c]
          /\ toKeep'[c] = toKeep[c] /\ toSee'[c] = toSee[c] \ {<<p, t>>}
      BY <1>2, <1>3 DEF CallsType
    <2>2. found.age <= PositionBudget + taken[c]
      BY <1>2
    <2> QED
      BY <1>2, <2>1, <2>2 DEF CallInv, Reading
  <1>6. CallsInv'
    <2>1. CallsInv
      BY DEF IInv
    <2> QED
      BY <1>2, <1>3, <1>4, <1>5, <2>1, OthersKeep DEF CallsType
  <1>7. FetchesInv'
    <2>1. fetch \in [Calls -> [Protocols \X Tokens -> Fetch]] /\ FetchesInv
      BY DEF IInv, FetchesInv
    <2>2. Unasked \in Fetch /\ Unasked.step # "rated"
      BY DEF Unasked, Fetch
    <2>3. /\ fetch' \in [Calls -> [Protocols \X Tokens -> Fetch]]
          /\ \A d \in Calls, pair \in Protocols \X Tokens :
                fetch'[d][pair] = IF d = c /\ pair = <<p, t>> THEN Unasked ELSE fetch[d][pair]
      BY <1>3, <2>1, <2>2
    <2>4. \A d \in Calls : toSee'[d] = IF d = c THEN toSee[c] \ {<<p, t>>} ELSE toSee[d]
      BY <1>2, <1>3 DEF CallsType
    <2>5. ASSUME NEW d \in Calls, NEW pair \in Protocols \X Tokens
          PROVE  /\ fetch'[d][pair] # Unasked => pair \in toSee'[d]
                 /\ fetch'[d][pair].step = "rated" => fetch'[d][pair].rate \in Rates
      <3>1. CASE d = c /\ pair = <<p, t>>
        BY <2>2, <2>3, <3>1
      <3>2. CASE ~ (d = c /\ pair = <<p, t>>)
        <4>1. fetch'[d][pair] = fetch[d][pair]
          BY <2>3, <3>2
        <4>2. pair \in toSee[d] => pair \in toSee'[d]
          BY <2>4, <3>2
        <4> QED
          BY <2>1, <4>1, <4>2 DEF FetchesInv
      <3> QED
        BY <3>1, <3>2
    <2> QED
      BY <2>3, <2>5 DEF FetchesInv
  <1> QED
    BY <1>1, <1>6, <1>7 DEF IInv

(* A position found makes a value as old as its rate, or as what was found   *)
(* before.                                                                   *)
LEMMA WithType ==
  ASSUME NEW c \in Calls, NEW p \in Protocols, NEW t \in Tokens, NEW r \in Rates, NEW age \in Nat,
         seen[c] \in PositionEntry
  PROVE  /\ With(c, p, t, r, age) \in PositionEntry
         /\ With(c, p, t, r, age).age = Older(seen[c].age, age)
  <1> DEFINE more == seen[c].found \cup {[protocol |-> p, token |-> t, rate |-> r]}
  <1>1. more \in SUBSET Position /\ Older(seen[c].age, age) \in Nat
    BY DEF PositionEntry, Position, Older
  <1>2. With(c, p, t, r, age) = Widened(seen[c], more, Older(seen[c].age, age))
    BY DEF With, Widened
  <1> HIDE DEF more
  <1> QED
    BY <1>1, <1>2, WidenedType

LEMMA ReadBalanceStep ==
  ASSUME NEW c \in Calls, NEW p \in Protocols, NEW t \in Tokens, IInv, ReadBalance(c, p, t)
  PROVE  IInv'
  <1>1. <<p, t>> \in toSee[c] /\ rates' = rates /\ readUnchanged
    BY DEF ReadBalance, At
  <1>2. CASE <<p, t>> \in holding
    <2> DEFINE read == [step |-> "held", rate |-> 0]
    <2>1. read \in Fetch /\ read.step # "rated" /\ GoesOn(c, p, t, read)
      BY <1>2 DEF ReadBalance, Fetch
    <2> HIDE DEF read
    <2> QED
      BY <1>1, <2>1, GoesOnKeeps
  <1>3. CASE <<p, t>> \notin holding
    <2>1. Ends(c, p, t, seen[c])
      BY <1>3 DEF ReadBalance
    <2>2. RatesInv'
      BY <1>1 DEF IInv, RatesInv, Live, Within
    <2> QED
      BY <1>1, <2>1, <2>2, ReadingOn, EndsKeeps
  <1> QED
    BY <1>2, <1>3

LEMMA AskRateStep ==
  ASSUME NEW c \in Calls, NEW p \in Protocols, NEW t \in Tokens, IInv, AskRate(c, p, t)
  PROVE  IInv'
  <1> DEFINE cached == rates[p][t]
  <1>1. <<p, t>> \in toSee[c] /\ rates' = rates /\ readUnchanged
    BY DEF AskRate, At
  <1>2. CASE Live(cached)
    <2> DEFINE found == With(c, p, t, cached.rate, cached.age)
    <2>1. Ends(c, p, t, found)
      BY <1>2 DEF AskRate
    <2>2. cached.rate \in Rates /\ cached.age \in Nat /\ cached.age <= RateBudget
      <3>1. cached \in RateEntry /\ cached.rate \in Rates /\ Within(cached, RateBudget)
        BY <1>2 DEF IInv, RatesInv
      <3> QED
        BY <1>2, <3>1 DEF RateEntry, Within, Live
    <2>3. found \in PositionEntry /\ found.age = Older(seen[c].age, cached.age)
      <3> DEFINE r   == cached.rate
                 age == cached.age
      <3>1. r \in Rates /\ age \in Nat /\ seen[c] \in PositionEntry
        BY <1>1, <2>2, ReadingOn
      <3> HIDE DEF r, age
      <3>2. /\ With(c, p, t, r, age) \in PositionEntry
            /\ With(c, p, t, r, age).age = Older(seen[c].age, age)
        BY <3>1, WithType
      <3> QED
        BY <3>2 DEF r, age
    <2> HIDE DEF found, cached
    <2>4. found.age <= RateBudget + taken[c] /\ taken[c] <= found.age
      BY <1>1, <2>2, <2>3, ReadingOn DEF Older
    <2>5. RatesInv'
      BY <1>1 DEF IInv, RatesInv, Live, Within
    <2> QED
      BY <1>1, <2>1, <2>3, <2>4, <2>5, EndsKeeps
  <1>3. CASE ~ Live(cached)
    <2> DEFINE read == [step |-> "missed", rate |-> 0]
    <2>1. read \in Fetch /\ read.step # "rated" /\ GoesOn(c, p, t, read)
      BY <1>3 DEF AskRate, Fetch
    <2> HIDE DEF read
    <2> QED
      BY <1>1, <2>1, GoesOnKeeps
  <1> QED
    BY <1>2, <1>3

LEMMA ReadRateStep ==
  ASSUME NEW c \in Calls, NEW p \in Protocols, NEW t \in Tokens, IInv, ReadRate(c, p, t)
  PROVE  IInv'
  <1> DEFINE read == [step |-> "rated", rate |-> rate[p][t]]
  <1>1. <<p, t>> \in toSee[c] /\ rates' = rates /\ readUnchanged /\ GoesOn(c, p, t, read)
    BY DEF ReadRate, At
  <1>2. rate[p][t] \in Rates
    BY DEF IInv, MarketInv
  <1>3. rate[p][t] \in Nat
    BY <1>2
  <1>4. read \in Fetch /\ read.rate \in Rates
    BY <1>2, <1>3 DEF Fetch
  <1> HIDE DEF read
  <1> QED
    BY <1>1, <1>4, GoesOnKeeps

(* A rate enters its cache with the age of the call that read it. *)
LEMMA CacheRateStep ==
  ASSUME NEW c \in Calls, NEW p \in Protocols, NEW t \in Tokens, IInv, CacheRate(c, p, t)
  PROVE  IInv'
  <1> DEFINE r     == fetch[c][<<p, t>>].rate
             entry == [rate |-> r, age |-> taken[c], left |-> AdapterTTL]
             found == With(c, p, t, r, taken[c])
  <1>1. /\ <<p, t>> \in toSee[c] /\ fetch[c][<<p, t>>].step = "rated"
        /\ rates' = [rates EXCEPT ![p][t] = entry]
        /\ Ends(c, p, t, found) /\ readUnchanged
    BY DEF CacheRate, At
  <1>2. r \in Rates
    BY <1>1 DEF IInv, FetchesInv
  <1>3. r \in Nat
    BY <1>2
  <1>4. /\ taken[c] \in Nat /\ taken[c] <= Patience /\ seen[c] \in PositionEntry
        /\ seen[c].age \in Nat /\ seen[c].age <= RateBudget + taken[c] /\ taken[c] <= seen[c].age
    BY <1>1, ReadingOn
  <1>5. entry \in RateEntry /\ entry.rate \in Rates /\ Within(entry, RateBudget)
    BY <1>2, <1>3, <1>4 DEF RateEntry, Within
  <1>6. found \in PositionEntry /\ found.age = Older(seen[c].age, taken[c])
    BY <1>2, <1>4, WithType
  <1> HIDE DEF r, entry, found
  <1>7. RatesInv'
    <2>1. rates \in [Protocols -> [Tokens -> RateEntry]] /\ RatesInv
      BY DEF IInv, RatesInv
    <2>2. rates' \in [Protocols -> [Tokens -> RateEntry]]
      BY <1>1, <1>5, <2>1
    <2>3. \A u \in Protocols, v \in Tokens :
             rates'[u][v] = IF u = p /\ v = t THEN entry ELSE rates[u][v]
      BY <1>1, <2>1
    <2>4. ASSUME NEW u \in Protocols, NEW v \in Tokens
          PROVE  /\ Live(rates'[u][v]) => rates'[u][v].rate \in Rates
                 /\ Within(rates'[u][v], RateBudget)
      <3>1. CASE u = p /\ v = t
        BY <1>5, <2>3, <3>1
      <3>2. CASE ~ (u = p /\ v = t)
        BY <2>1, <2>3, <3>2 DEF RatesInv
      <3> QED
        BY <3>1, <3>2
    <2> QED
      BY <2>2, <2>4 DEF RatesInv, Live, Within
  <1>8. found.age <= RateBudget + taken[c] /\ taken[c] <= found.age
    BY <1>4, <1>6 DEF Older
  <1> QED
    BY <1>1, <1>6, <1>7, <1>8, EndsKeeps

LEMMA LosePositionStep ==
  ASSUME NEW c \in Calls, NEW p \in Protocols, NEW t \in Tokens, IInv, LosePosition(c, p, t)
  PROVE  IInv'
  <1> DEFINE found == Faulted(seen[c])
  <1>1. /\ <<p, t>> \in toSee[c] /\ rates' = rates /\ readUnchanged
        /\ Ends(c, p, t, found)
    BY DEF LosePosition, Faulted
  <1>2. found \in PositionEntry /\ found.age = seen[c].age
    BY <1>1, ReadingOn, FaultedType
  <1> HIDE DEF found
  <1>3. RatesInv'
    BY <1>1 DEF IInv, RatesInv, Live, Within
  <1>4. found.age <= RateBudget + taken[c] /\ taken[c] <= found.age
    BY <1>1, <1>2, ReadingOn
  <1> QED
    BY <1>1, <1>2, <1>3, <1>4, EndsKeeps

(* The aggregator caches what a call found for its own time. *)
LEMMA KeepPositionsStep ==
  ASSUME NEW c \in Calls, IInv, KeepPositions(c)
  PROVE  IInv'
  <1>1. /\ "positions" \in toKeep[c] /\ toSee[c] = {}
        /\ positions' = Stored(seen[c])
        /\ toKeep' = [toKeep EXCEPT ![c] = @ \ {"positions"}]
        /\ UNCHANGED <<marketVars, rates, offers, advices, pc, ask, taken, seen, toSee, fetch,
                       offered, toOffer>>
    BY DEF KeepPositions
  <1>2. CallsInv /\ CallsType /\ CallInv(c) /\ seen[c] \in PositionEntry /\ taken[c] \in Nat
    BY DEF IInv, CallsInv, CallsType
  <1>3. pc[c] = "reading" /\ Reading(c)
    BY <1>1, <1>2 DEF CallInv, Idle
  <1>4. MarketInv' /\ RatesInv' /\ OffersInv' /\ AdvicesInv'
    BY <1>1 DEF marketVars, IInv, MarketInv, RatesInv, OffersInv, AdvicesInv, Live, Within, Horizon
  <1>5. PositionsInv'
    <2>1. /\ Stored(seen[c]) \in PositionEntry /\ Stored(seen[c]).left = AggregatorTTL
          /\ Stored(seen[c]).age = seen[c].age /\ seen[c].age \in Nat
      BY <1>2, TakenPositions DEF PositionEntry
    <2>2. seen[c].age <= RateBudget + taken[c] /\ taken[c] <= Patience
      BY <1>1, <1>3 DEF Reading
    <2> QED
      BY <1>1, <1>2, <2>1, <2>2 DEF PositionsInv, Within
  <1>6. CallsType'
    BY <1>1, <1>2 DEF CallsType
  <1>7. CallInv(c)'
    <2>1. /\ seen'[c] = seen[c] /\ taken'[c] = taken[c] /\ pc'[c] = "reading"
          /\ ask'[c] = ask[c] /\ offered'[c] = offered[c] /\ toOffer'[c] = toOffer[c]
          /\ toKeep'[c] = toKeep[c] \ {"positions"} /\ toSee'[c] = {}
      BY <1>1, <1>2, <1>3 DEF CallsType
    <2> QED
      BY <1>3, <2>1 DEF CallInv, Reading
  <1>8. CallsInv'
    BY <1>1, <1>2, <1>6, <1>7, OthersKeep DEF CallsType
  <1>9. FetchesInv'
    BY <1>1 DEF IInv, FetchesInv
  <1> QED
    BY <1>4, <1>5, <1>8, <1>9 DEF IInv

LEMMA SeeOfferStep ==
  ASSUME NEW c \in Calls, NEW p \in Protocols, NEW failed \in BOOLEAN,
         IInv, SeeOffer(c, p, failed)
  PROVE  IInv'
  <1> DEFINE t     == ask[c].token
             rest  == toOffer[c] \ {p}
             more  == offered[c].found \cup {[protocol |-> p, rate |-> rate[p][t]]}
             found == IF failed THEN Faulted(offered[c]) ELSE Answered(offered[c], more)
  <1>1. /\ CallsType /\ p \in toOffer[c]
        /\ toOffer' = [toOffer EXCEPT ![c] = rest]
        /\ offered' = [offered EXCEPT ![c] = found]
        /\ UNCHANGED <<rate, holding, quiet, cacheVars, pc, ask, taken, seen, toSee, fetch, toKeep>>
    <2>1. CallsType
      BY DEF IInv, CallsInv
    <2> QED
      BY <2>1 DEF SeeOffer, Faulted, Answered, CallsType
  <1>2. /\ pc[c] = "reading" /\ Reading(c)
        /\ offered[c] \in OfferEntry /\ offered[c].age \in Nat
        /\ offered[c].found \in SUBSET Offer /\ t \in Tokens
    <2>1. CallInv(c) /\ offered[c] \in OfferEntry
      BY <1>1 DEF IInv, CallsInv, CallsType
    <2>2. pc[c] = "reading" /\ Reading(c)
      BY <1>1, <2>1 DEF CallInv, Idle
    <2>3. t \in Tokens
      BY <2>2, MenuType DEF Reading
    <2> QED
      BY <2>1, <2>2, <2>3 DEF OfferEntry
  <1>3. found \in OfferEntry /\ found.age = offered[c].age
    <2>1. rate[p][t] \in Rates
      BY <1>2 DEF IInv, MarketInv
    <2>2. more \in SUBSET Offer
      BY <1>2, <2>1 DEF Offer
    <2> HIDE DEF more
    <2> QED
      BY <1>2, <2>2, AnsweredType
  <1> HIDE DEF found, t
  <1>4. MarketInv' /\ RatesInv' /\ PositionsInv' /\ OffersInv' /\ AdvicesInv'
    BY <1>1 DEF cacheVars, IInv, MarketInv, RatesInv, PositionsInv, OffersInv, AdvicesInv,
                Live, Within, Horizon
  <1>5. CallsType'
    BY <1>1, <1>3 DEF CallsType
  <1>6. CallInv(c)'
    <2>1. /\ offered'[c] = found /\ taken'[c] = taken[c] /\ pc'[c] = "reading"
          /\ ask'[c] = ask[c] /\ seen'[c] = seen[c] /\ toSee'[c] = toSee[c]
          /\ toKeep'[c] = toKeep[c] /\ toOffer'[c] = rest
      BY <1>1, <1>2 DEF CallsType
    <2>2. rest # {} => toOffer[c] # {}
      OBVIOUS
    <2> HIDE DEF rest
    <2> QED
      BY <1>2, <1>3, <2>1, <2>2 DEF CallInv, Reading
  <1>7. CallsInv'
    <2>1. CallsInv
      BY DEF IInv
    <2> QED
      BY <1>1, <1>5, <1>6, <2>1, OthersKeep DEF CallsType
  <1>8. FetchesInv'
    BY <1>1 DEF IInv, FetchesInv
  <1> QED
    BY <1>4, <1>7, <1>8 DEF IInv

LEMMA KeepOffersStep ==
  ASSUME NEW c \in Calls, IInv, KeepOffers(c)
  PROVE  IInv'
  <1> DEFINE t == ask[c].token
  <1>1. /\ "offers" \in toKeep[c] /\ toOffer[c] = {}
        /\ offers' = [offers EXCEPT ![t] = Stored(offered[c])]
        /\ toKeep' = [toKeep EXCEPT ![c] = @ \ {"offers"}]
        /\ UNCHANGED <<marketVars, rates, positions, advices, pc, ask, taken, seen, toSee, fetch,
                       offered, toOffer>>
    BY DEF KeepOffers
  <1>2. /\ CallsInv /\ CallsType /\ CallInv(c) /\ offered[c] \in OfferEntry /\ taken[c] \in Nat
    BY DEF IInv, CallsInv, CallsType
  <1>3. pc[c] = "reading" /\ Reading(c)
    BY <1>1, <1>2 DEF CallInv, Idle
  <1>4. t \in Tokens
    BY <1>3, MenuType DEF Reading
  <1> HIDE DEF t
  <1>5. MarketInv' /\ RatesInv' /\ PositionsInv' /\ AdvicesInv'
    BY <1>1 DEF marketVars, IInv, MarketInv, RatesInv, PositionsInv, AdvicesInv, Live, Within,
                Horizon
  <1>6. OffersInv'
    <2>1. offers \in [Tokens -> OfferEntry] /\ OffersInv
      BY DEF IInv, OffersInv
    <2>2. /\ Stored(offered[c]) \in OfferEntry /\ Stored(offered[c]).left = AggregatorTTL
          /\ Stored(offered[c]).age = offered[c].age /\ offered[c].age \in Nat
      BY <1>2, TakenOffers DEF OfferEntry
    <2>3. offered[c].age <= taken[c] /\ taken[c] <= Patience
      BY <1>1, <1>3 DEF Reading
    <2>4. Within(Stored(offered[c]), OfferBudget)
      BY <1>2, <2>2, <2>3 DEF Within
    <2>5. /\ offers' \in [Tokens -> OfferEntry]
          /\ \A u \in Tokens : offers'[u] = IF u = t THEN Stored(offered[c]) ELSE offers[u]
      BY <1>1, <2>1, <2>2
    <2> QED
      BY <2>1, <2>4, <2>5 DEF OffersInv, Within
  <1>7. CallsType'
    BY <1>1, <1>2 DEF CallsType
  <1>8. CallInv(c)'
    <2>1. /\ seen'[c] = seen[c] /\ taken'[c] = taken[c] /\ pc'[c] = "reading"
          /\ ask'[c] = ask[c] /\ offered'[c] = offered[c] /\ toOffer'[c] = {}
          /\ toKeep'[c] = toKeep[c] \ {"offers"} /\ toSee'[c] = toSee[c]
      BY <1>1, <1>2, <1>3 DEF CallsType
    <2> QED
      BY <1>3, <2>1 DEF CallInv, Reading
  <1>9. CallsInv'
    BY <1>1, <1>2, <1>7, <1>8, OthersKeep DEF CallsType
  <1>10. FetchesInv'
    BY <1>1 DEF IInv, FetchesInv
  <1> QED
    BY <1>5, <1>6, <1>9, <1>10 DEF IInv

(* An advice is as old as the older of the two it was made from. *)
LEMMA FinishStep ==
  ASSUME NEW c \in Calls, IInv, Finish(c)
  PROVE  IInv'
  <1> DEFINE t      == ask[c].token
             result == [advice |-> Advise(ask[c].strategy, t, seen[c].found, offered[c].found),
                        covers |-> seen[c].covers,
                        faulty |-> seen[c].faulty \/ offered[c].faulty,
                        age    |-> Older(seen[c].age, offered[c].age),
                        left   |-> OptimizerTTL]
  <1>1. /\ pc[c] = "reading" /\ toKeep[c] = {}
        /\ pc' = [pc EXCEPT ![c] = "idle"]
        /\ advices' = IF ask[c].kind = "optimize" THEN [advices EXCEPT ![t] = result]
                      ELSE advices
        /\ ask' = [ask EXCEPT ![c] = NoAsk]
        /\ taken' = [taken EXCEPT ![c] = 0]
        /\ seen' = [seen EXCEPT ![c] = NoPositions]
        /\ offered' = [offered EXCEPT ![c] = NoOffers]
        /\ UNCHANGED <<marketVars, rates, positions, offers, toSee, fetch, toOffer, toKeep>>
    BY DEF Finish
  <1>2. CallsInv /\ CallsType /\ Reading(c) /\ ask[c] \in Menu
    BY <1>1 DEF IInv, CallsInv, CallInv, Reading
  <1>3. t \in Tokens /\ ask[c].strategy \in Strategies \cup {NoStrategy}
    BY <1>2, MenuType
  <1>4. /\ seen[c].found \in SUBSET Position /\ seen[c].covers \in SUBSET Tokens
        /\ seen[c].faulty \in BOOLEAN /\ seen[c].age \in Nat
        /\ offered[c].found \in SUBSET Offer /\ offered[c].faulty \in BOOLEAN
        /\ offered[c].age \in Nat /\ taken[c] \in Nat
    BY <1>2 DEF CallsType, PositionEntry, OfferEntry
  <1>5. /\ Older(seen[c].age, offered[c].age) \in Nat
        /\ Older(seen[c].age, offered[c].age) + OptimizerTTL <= Horizon
    <2>1. /\ taken[c] <= Patience
          /\ seen[c].age <= PositionBudget + taken[c]
          /\ offered[c].age <= OfferBudget + taken[c]
      BY <1>2 DEF Reading
    <2>2. seen[c].age + OptimizerTTL <= Horizon
      BY <1>4, <2>1, SMTT(30) DEF Horizon
    <2>3. offered[c].age + OptimizerTTL <= Horizon
      <3>1. offered[c].age <= Patience + AggregatorTTL + Patience
        BY <1>4, <2>1
      <3> QED
        BY <1>4, <3>1 DEF Horizon
    <2> QED
      BY <1>4, <2>2, <2>3 DEF Older
  <1>6. result \in AdviceEntry /\ Within(result, Horizon)
    <2>1. Advise(ask[c].strategy, t, seen[c].found, offered[c].found) \in Advised
      BY <1>3, <1>4 DEF Advised
    <2>2. (seen[c].faulty \/ offered[c].faulty) \in BOOLEAN
      OBVIOUS
    <2> HIDE DEF t
    <2> QED
      BY <1>4, <1>5, <2>1, <2>2 DEF AdviceEntry, Within
  <1> HIDE DEF result, t
  <1>7. MarketInv' /\ RatesInv' /\ PositionsInv' /\ OffersInv'
    BY <1>1 DEF IInv, marketVars, MarketInv, RatesInv, PositionsInv, OffersInv, Live, Within
  <1>8. AdvicesInv'
    <2>1. Horizon' = Horizon
      BY DEF Horizon
    <2>2. advices \in [Tokens -> AdviceEntry]
      BY DEF IInv, AdvicesInv
    <2>3. CASE advices' = [advices EXCEPT ![t] = result]
      <3>1. /\ advices' \in [Tokens -> AdviceEntry]
            /\ \A u \in Tokens : advices'[u] = IF u = t THEN result ELSE advices[u]
        BY <1>6, <2>2, <2>3
      <3> QED
        BY <1>6, <2>1, <3>1 DEF IInv, AdvicesInv, Within
    <2>4. CASE advices' = advices
      BY <2>1, <2>4 DEF IInv, AdvicesInv, Within
    <2> QED
      BY <1>1, <2>3, <2>4
  <1>9. /\ NoPositions \in PositionEntry /\ NoPositions.age = 0
        /\ NoOffers \in OfferEntry /\ NoOffers.age = 0
    BY DEF PositionEntry, NoPositions, OfferEntry, NoOffers
  <1>10. CallsType'
    BY <1>1, <1>2, <1>9 DEF CallsType
  <1>11. CallInv(c)'
    BY <1>1, <1>2, <1>9 DEF CallsType, CallInv, Idle, Reading
  <1>12. CallsInv'
    BY <1>1, <1>2, <1>10, <1>11, OthersKeep DEF CallsType
  <1>13. FetchesInv'
    BY <1>1 DEF IInv, FetchesInv
  <1> QED
    BY <1>7, <1>8, <1>12, <1>13 DEF IInv

-----------------------------------------------------------------------------

LEMMA IInvIsInductive == IInv /\ [Next]_vars => IInv'
  <1> SUFFICES ASSUME IInv, [Next]_vars PROVE IInv'
    OBVIOUS
  <1>1. CASE Tick
    BY <1>1, TickStep
  <1>2. ASSUME NEW p \in Protocols, NEW t \in Tokens, NEW r \in Rates, SetRate(p, t, r)
        PROVE  IInv'
    BY <1>2, MarketStep
  <1>3. ASSUME NEW p \in Protocols, NEW t \in Tokens, Move(p, t)
        PROVE  IInv'
    <2>1. rate[p][t] \in Rates
      BY DEF IInv, MarketInv
    <2>2. SetRate(p, t, rate[p][t]) \/ Move(p, t)
      BY <1>3
    <2> QED
      BY <2>1, <2>2, MarketStep
  <1>4. ASSUME NEW c \in Calls, NEW q \in Menu, Begin(c, q)
        PROVE  IInv'
    BY <1>4, BeginStep
  <1>5. ASSUME NEW c \in Calls, NEW p \in Protocols, NEW t \in Tokens,
               \/ ReadBalance(c, p, t) \/ AskRate(c, p, t) \/ ReadRate(c, p, t)
               \/ CacheRate(c, p, t) \/ LosePosition(c, p, t)
        PROVE  IInv'
    BY <1>5, ReadBalanceStep, AskRateStep, ReadRateStep, CacheRateStep, LosePositionStep
  <1>6. ASSUME NEW c \in Calls, NEW p \in Protocols, NEW failed \in BOOLEAN,
               SeeOffer(c, p, failed)
        PROVE  IInv'
    BY <1>6, SeeOfferStep
  <1>7. ASSUME NEW c \in Calls, KeepPositions(c) \/ KeepOffers(c) \/ Finish(c)
        PROVE  IInv'
    BY <1>7, KeepPositionsStep, KeepOffersStep, FinishStep
  <1>8. CASE UNCHANGED vars
    <2>1. UNCHANGED <<rate, holding, cacheVars, callVars>>
      BY <1>8 DEF vars, cacheVars, callVars
    <2>2. MarketInv' /\ RatesInv' /\ PositionsInv' /\ OffersInv' /\ AdvicesInv'
      BY <2>1 DEF IInv, cacheVars, MarketInv, RatesInv, PositionsInv, OffersInv, AdvicesInv,
                  Live, Within, Horizon
    <2>3. CallsInv'
      BY <2>1 DEF IInv, callVars, CallsInv, CallsType, CallInv, Idle, Reading
    <2>4. FetchesInv'
      BY <2>1 DEF IInv, callVars, FetchesInv
    <2> QED
      BY <2>2, <2>3, <2>4 DEF IInv
  <1> QED
    BY <1>1, <1>2, <1>3, <1>4, <1>5, <1>6, <1>7, <1>8 DEF Next

LEMMA Always == Spec => []IInv
  <1> QED
    BY Initially, IInvIsInductive, PTL DEF Spec

(* The market and what the calls found stay of their types, and a call that *)
(* has ended, optimizePosition() or one of the aggregator's, has no read     *)
(* outstanding.                                                              *)
THEOREM TypeCorrect == Spec => []TypeOK
  <1>1. IInv => TypeOK
    <2> SUFFICES ASSUME IInv PROVE TypeOK
      OBVIOUS
    <2>1. rate \in [Protocols -> [Tokens -> Rates]] /\ holding \in SUBSET (Protocols \X Tokens)
      BY DEF IInv, MarketInv
    <2>2. pc \in [Calls -> {"idle", "reading"}]
      BY DEF IInv, CallsInv, CallsType
    <2>3. ASSUME NEW c \in Calls
          PROVE  /\ seen[c].found \in SUBSET Position
                 /\ offered[c].found \in SUBSET Offer
                 /\ pc[c] # "reading" => toSee[c] = {} /\ toOffer[c] = {}
                 /\ \A pair \in Protocols \X Tokens :
                       fetch[c][pair] \in Fetch /\ (fetch[c][pair] # Unasked => pair \in toSee[c])
      BY DEF IInv, CallsInv, CallsType, CallInv, Idle, PositionEntry, OfferEntry, FetchesInv
    <2> QED
      BY <2>1, <2>2, <2>3 DEF TypeOK
  <1> QED
    BY <1>1, Always, PTL

(* Whatever the times to live are and however many calls interleave, what    *)
(* optimizePosition() returns from its cache rests on nothing read longer    *)
(* ago than the Horizon: the times to live of the three caches it passes     *)
(* through, and three times what the reads of a call may take.               *)
THEOREM AdviceIsFresh == Spec => []FreshAdvice
  <1>1. IInv => FreshAdvice
    <2> SUFFICES ASSUME IInv, NEW t \in Tokens, Live(advices[t])
                 PROVE  advices[t].age <= Horizon
      BY DEF FreshAdvice
    <2>1. advices[t] \in AdviceEntry /\ Within(advices[t], Horizon)
      BY DEF IInv, AdvicesInv
    <2>2. advices[t].age \in Nat /\ advices[t].left \in Int
      BY <2>1 DEF AdviceEntry
    <2> QED
      BY <2>1, <2>2, HorizonType DEF Live, Within
  <1> QED
    BY <1>1, Always, PTL

-----------------------------------------------------------------------------
(* What the caches and calls know of a market at rest.  A value is recent     *)
(* when all of it was read since the market last moved, q ticks ago; h is     *)
(* what the wallet holds and r the rates.                                     *)

Recent(e, q) == e.age < q

RateTrue(e, p, t, q, r) == Recent(e, q) => e.rate = r[p][t]

(* But for the pairs in rest, all positions in the tokens covered are there. *)
PositionsTrue(e, rest, q, h, r) ==
    Recent(e, q) /\ ~ e.faulty =>
        \A x \in Position :
            x \in e.found <=> /\ <<x.protocol, x.token>> \in h \ rest
                              /\ x.token \in e.covers
                              /\ x.rate = r[x.protocol][x.token]

OffersTrue(e, t, rest, q, r) ==
    Recent(e, q) /\ ~ e.faulty =>
        \A x \in Offer : x \in e.found <=> x.protocol \notin rest /\ x.rate = r[x.protocol][t]

AllHeld(h, r) == {[protocol |-> pair[1], token |-> pair[2], rate |-> r[pair[1]][pair[2]]]
                     : pair \in h}

AllOffers(t, r) == {[protocol |-> p, rate |-> r[p][t]] : p \in Protocols}

AdviceTrue(e, t, q, h, r) ==
    Recent(e, q) /\ ~ e.faulty /\ t \in e.covers =>
        e.advice = Advise(e.advice.strategy, t, AllHeld(h, r), AllOffers(t, r))

RatesKnown ==
    \A p \in Protocols, t \in Tokens :
        Live(rates[p][t]) => RateTrue(rates[p][t], p, t, quiet, rate)

PositionsKnown == Live(positions) => PositionsTrue(positions, {}, quiet, holding, rate)

OffersKnown ==
    \A t \in Tokens : Live(offers[t]) => OffersTrue(offers[t], t, {}, quiet, rate)

AdvicesKnown ==
    \A t \in Tokens : Live(advices[t]) => AdviceTrue(advices[t], t, quiet, holding, rate)

CallKnows(c) ==
    IF pc[c] = "reading"
    THEN /\ PositionsTrue(seen[c], toSee[c], quiet, holding, rate)
         /\ toSee[c] \subseteq Protocols \X seen[c].covers
         /\ ask[c].kind # "positions" =>
                OffersTrue(offered[c], ask[c].token, toOffer[c], quiet, rate)
         /\ "offers" \in toKeep[c] => ask[c].kind # "positions"
    ELSE seen[c] = NoPositions

CallsKnow == \A c \in Calls : CallKnows(c)

(* What was read for a position since the market last moved. *)
FetchTrue(c, p, t) ==
    taken[c] < quiet =>
        /\ fetch[c][<<p, t>>].step # "balance" => <<p, t>> \in holding
        /\ fetch[c][<<p, t>>].step = "rated" => fetch[c][<<p, t>>].rate = rate[p][t]

FetchesKnown == \A c \in Calls, p \in Protocols, t \in Tokens : FetchTrue(c, p, t)

KnownInv ==
    /\ quiet \in Nat
    /\ RatesKnown /\ PositionsKnown /\ OffersKnown /\ AdvicesKnown /\ CallsKnow
    /\ FetchesKnown

(* What is true of a value stays true of one with the same content that is   *)
(* recent only if the other was.                                             *)
LEMMA SamePositions ==
  ASSUME NEW e, NEW f, NEW rest, NEW q, NEW q2, NEW h, NEW r,
         f.found = e.found, f.covers = e.covers, f.faulty = e.faulty,
         Recent(f, q2) => Recent(e, q), PositionsTrue(e, rest, q, h, r)
  PROVE  PositionsTrue(f, rest, q2, h, r)
  BY DEF PositionsTrue

LEMMA SameOffers ==
  ASSUME NEW e, NEW f, NEW t, NEW rest, NEW q, NEW q2, NEW r,
         f.found = e.found, f.faulty = e.faulty,
         Recent(f, q2) => Recent(e, q), OffersTrue(e, t, rest, q, r)
  PROVE  OffersTrue(f, t, rest, q2, r)
  BY DEF OffersTrue

LEMMA SameAdvice ==
  ASSUME NEW e, NEW f, NEW t, NEW q, NEW q2, NEW h, NEW r,
         f.advice = e.advice, f.covers = e.covers, f.faulty = e.faulty,
         Recent(f, q2) => Recent(e, q), AdviceTrue(e, t, q, h, r)
  PROVE  AdviceTrue(f, t, q2, h, r)
  BY DEF AdviceTrue

(* Replacing times changes nothing else. *)
LEMMA PositionsKept ==
  ASSUME NEW e \in PositionEntry, NEW l \in Int, NEW a \in Nat
  PROVE  /\ AgedBy(e, l, a).found = e.found /\ AgedBy(e, l, a).covers = e.covers
         /\ AgedBy(e, l, a).faulty = e.faulty
  BY DEF PositionEntry, AgedBy

LEMMA TakenPositionsKept ==
  ASSUME NEW e \in PositionEntry
  PROVE  /\ Taken(e).found = e.found /\ Taken(e).covers = e.covers
         /\ Taken(e).faulty = e.faulty
         /\ Stored(e).found = e.found /\ Stored(e).covers = e.covers
         /\ Stored(e).faulty = e.faulty
  BY DEF PositionEntry, Taken, Stored

LEMMA OffersKept ==
  ASSUME NEW e \in OfferEntry, NEW l \in Int, NEW a \in Nat
  PROVE  AgedBy(e, l, a).found = e.found /\ AgedBy(e, l, a).faulty = e.faulty
  BY DEF OfferEntry, AgedBy

LEMMA TakenOffersKept ==
  ASSUME NEW e \in OfferEntry
  PROVE  /\ Taken(e).found = e.found /\ Taken(e).faulty = e.faulty
         /\ Stored(e).found = e.found /\ Stored(e).faulty = e.faulty
  BY DEF OfferEntry, Taken, Stored

LEMMA AdviceKept ==
  ASSUME NEW e \in AdviceEntry, NEW l \in Int, NEW a \in Nat
  PROVE  /\ AgedBy(e, l, a).advice = e.advice /\ AgedBy(e, l, a).covers = e.covers
         /\ AgedBy(e, l, a).faulty = e.faulty
  BY DEF AdviceEntry, AgedBy

LEMMA OlderKept ==
  ASSUME NEW e
  PROVE  /\ e \in PositionEntry =>
                /\ [e EXCEPT !.age = @ + 1].found = e.found
                /\ [e EXCEPT !.age = @ + 1].covers = e.covers
                /\ [e EXCEPT !.age = @ + 1].faulty = e.faulty
         /\ e \in OfferEntry =>
                /\ [e EXCEPT !.age = @ + 1].found = e.found
                /\ [e EXCEPT !.age = @ + 1].faulty = e.faulty
  BY DEF PositionEntry, OfferEntry

(* What lives after a tick is what lived before it, older. *)
LEMMA LiveLater ==
  ASSUME NEW e, NEW empty, e.left \in Int, empty.left = -1, Live(Later(e, empty))
  PROVE  /\ Live(e)
         /\ Later(e, empty) = AgedBy(e, e.left - 1, e.age + 1)
  <1>1. ~ e.left <= 0
    BY DEF Later, Live
  <1>2. Later(e, empty) = AgedBy(e, e.left - 1, e.age + 1)
    BY <1>1 DEF Later, AgedBy
  <1> QED
    BY <1>1, <1>2 DEF Live

LEMMA KnownInitially == Init => KnownInv
  BY HorizonType
  DEF Init, KnownInv, RatesKnown, PositionsKnown, OffersKnown, AdvicesKnown, CallsKnow, CallKnows,
      FetchesKnown, FetchTrue, Unasked, NoRate, NoPositions, NoOffers, NoAdvice, Live

(* A call that reads nothing has read nothing. *)
LEMMA NothingFetched ==
  ASSUME NEW c \in Calls, IInv, toSee[c] = {}, NEW p \in Protocols, NEW t \in Tokens
  PROVE  fetch[c][<<p, t>>] = Unasked
  BY DEF IInv, FetchesInv

(* A tick later nothing is recent that was not. *)
LEMMA KnownTick == IInv /\ KnownInv /\ Tick => KnownInv'
  <1> SUFFICES ASSUME IInv, KnownInv, Tick PROVE KnownInv'
    OBVIOUS
  <1>1. quiet' \in Nat /\ \A a \in Nat : a + 1 < quiet' => a < quiet
    BY HorizonType DEF KnownInv, Tick
  <1>2. rate' = rate /\ holding' = holding
    BY DEF Tick
  <1>3. RatesKnown'
    <2> SUFFICES ASSUME NEW p \in Protocols, NEW t \in Tokens, Live(rates[p][t])'
                 PROVE  RateTrue(rates[p][t], p, t, quiet, rate)'
      BY DEF RatesKnown
    <2> DEFINE e == rates[p][t]
    <2>1. rates'[p][t] = Later(e, NoRate) /\ e \in RateEntry
      BY DEF Tick, IInv, RatesInv
    <2>2. e.left \in Int /\ e.age \in Nat /\ NoRate.left = -1 /\ Live(Later(e, NoRate))
      BY <2>1 DEF RateEntry, NoRate, Live
    <2> HIDE DEF e
    <2>3. Live(e) /\ Later(e, NoRate) = AgedBy(e, e.left - 1, e.age + 1)
      BY <2>2, LiveLater
    <2>4. e.left - 1 \in Int /\ e.age + 1 \in Nat
      BY <2>2
    <2>5. Later(e, NoRate).rate = e.rate /\ Later(e, NoRate).age = e.age + 1
      BY <2>1, <2>3, <2>4, RateAged
    <2>6. RateTrue(e, p, t, quiet, rate)
      BY <2>3 DEF KnownInv, RatesKnown, e
    <2> QED
      BY <1>1, <1>2, <2>1, <2>2, <2>5, <2>6 DEF RateTrue, Recent
  <1>4. PositionsKnown'
    <2> SUFFICES ASSUME Live(positions)'
                 PROVE  PositionsTrue(positions, {}, quiet, holding, rate)'
      BY DEF PositionsKnown
    <2> DEFINE e == positions
               f == Later(positions, NoPositions)
    <2>1. positions' = f /\ e \in PositionEntry
      BY DEF Tick, IInv, PositionsInv
    <2>2. e.left \in Int /\ e.age \in Nat /\ NoPositions.left = -1 /\ Live(f)
      BY <2>1 DEF PositionEntry, NoPositions, Live
    <2>3. Live(e) /\ f = AgedBy(e, e.left - 1, e.age + 1)
      BY <2>2, LiveLater
    <2>4. e.left - 1 \in Int /\ e.age + 1 \in Nat
      BY <2>2
    <2>5. /\ f.age = e.age + 1 /\ f.found = e.found /\ f.covers = e.covers
          /\ f.faulty = e.faulty
      BY <2>1, <2>3, <2>4, PositionsAged, PositionsKept
    <2>6. PositionsTrue(e, {}, quiet, holding, rate)
      BY <2>3 DEF KnownInv, PositionsKnown
    <2>7. Recent(f, quiet') => Recent(e, quiet)
      BY <1>1, <2>2, <2>5 DEF Recent
    <2> HIDE DEF e, f
    <2>8. PositionsTrue(f, {}, quiet', holding, rate)
      BY <2>5, <2>6, <2>7, SamePositions
    <2> QED
      BY <1>2, <2>1, <2>8
  <1>5. OffersKnown'
    <2> SUFFICES ASSUME NEW t \in Tokens, Live(offers[t])'
                 PROVE  OffersTrue(offers[t], t, {}, quiet, rate)'
      BY DEF OffersKnown
    <2> DEFINE e == offers[t]
               f == Later(offers[t], NoOffers)
    <2>1. offers'[t] = f /\ e \in OfferEntry
      BY DEF Tick, IInv, OffersInv
    <2>2. e.left \in Int /\ e.age \in Nat /\ NoOffers.left = -1 /\ Live(f)
      BY <2>1 DEF OfferEntry, NoOffers, Live
    <2>3. Live(e) /\ f = AgedBy(e, e.left - 1, e.age + 1)
      BY <2>2, LiveLater
    <2>4. e.left - 1 \in Int /\ e.age + 1 \in Nat
      BY <2>2
    <2>5. f.age = e.age + 1 /\ f.found = e.found /\ f.faulty = e.faulty
      BY <2>1, <2>3, <2>4, OffersAged, OffersKept
    <2>6. OffersTrue(e, t, {}, quiet, rate)
      BY <2>3 DEF KnownInv, OffersKnown
    <2>7. Recent(f, quiet') => Recent(e, quiet)
      BY <1>1, <2>2, <2>5 DEF Recent
    <2> HIDE DEF e, f
    <2>8. OffersTrue(f, t, {}, quiet', rate)
      BY <2>5, <2>6, <2>7, SameOffers
    <2> QED
      BY <1>2, <2>1, <2>8
  <1>6. AdvicesKnown'
    <2> SUFFICES ASSUME NEW t \in Tokens, Live(advices[t])'
                 PROVE  AdviceTrue(advices[t], t, quiet, holding, rate)'
      BY DEF AdvicesKnown
    <2> DEFINE e == advices[t]
               f == Later(advices[t], NoAdvice)
    <2>1. advices'[t] = f /\ e \in AdviceEntry
      BY DEF Tick, IInv, AdvicesInv
    <2>2. e.left \in Int /\ e.age \in Nat /\ NoAdvice.left = -1 /\ Live(f)
      BY <2>1 DEF AdviceEntry, NoAdvice, Live
    <2>3. Live(e) /\ f = AgedBy(e, e.left - 1, e.age + 1)
      BY <2>2, LiveLater
    <2>4. e.left - 1 \in Int /\ e.age + 1 \in Nat
      BY <2>2
    <2>5. /\ f.age = e.age + 1 /\ f.advice = e.advice /\ f.covers = e.covers
          /\ f.faulty = e.faulty
      BY <2>1, <2>3, <2>4, AdviceAged, AdviceKept
    <2>6. AdviceTrue(e, t, quiet, holding, rate)
      BY <2>3 DEF KnownInv, AdvicesKnown
    <2>7. Recent(f, quiet') => Recent(e, quiet)
      BY <1>1, <2>2, <2>5 DEF Recent
    <2> HIDE DEF e, f
    <2>8. AdviceTrue(f, t, quiet', holding, rate)
      BY <2>5, <2>6, <2>7, SameAdvice
    <2> QED
      BY <1>2, <2>1, <2>8
  <1>7. CallsKnow'
    <2> SUFFICES ASSUME NEW c \in Calls PROVE CallKnows(c)'
      BY DEF CallsKnow
    <2>1. /\ CallKnows(c) /\ seen[c] \in PositionEntry /\ offered[c] \in OfferEntry
          /\ seen[c].age \in Nat /\ offered[c].age \in Nat
      BY DEF KnownInv, CallsKnow, IInv, CallsInv, CallsType, PositionEntry, OfferEntry
    <2>2. /\ seen'[c] = IF pc[c] = "reading" THEN [seen[c] EXCEPT !.age = @ + 1] ELSE seen[c]
          /\ offered'[c] = IF pc[c] = "reading" THEN [offered[c] EXCEPT !.age = @ + 1]
                           ELSE offered[c]
          /\ pc' = pc /\ ask' = ask /\ toSee' = toSee /\ toOffer' = toOffer
          /\ toKeep' = toKeep
      BY DEF Tick
    <2>3. CASE pc[c] # "reading"
      BY <2>1, <2>2, <2>3 DEF CallKnows
    <2>4. CASE pc[c] = "reading"
      <3> DEFINE f == [seen[c] EXCEPT !.age = @ + 1]
                 g == [offered[c] EXCEPT !.age = @ + 1]
      <3>1. /\ f.age = seen[c].age + 1 /\ f.found = seen[c].found
            /\ f.covers = seen[c].covers /\ f.faulty = seen[c].faulty
        BY <2>1, SeenOlder, OlderKept
      <3>2. /\ g.age = offered[c].age + 1 /\ g.found = offered[c].found
            /\ g.faulty = offered[c].faulty
        BY <2>1, OfferedOlder, OlderKept
      <3>3. seen'[c] = f /\ offered'[c] = g
        BY <2>2, <2>4
      <3> HIDE DEF f, g
      <3>4. /\ Recent(f, quiet') => Recent(seen[c], quiet)
            /\ Recent(g, quiet') => Recent(offered[c], quiet)
        BY <1>1, <2>1, <3>1, <3>2 DEF Recent
      <3>5. PositionsTrue(f, toSee[c], quiet', holding, rate)
        BY <2>1, <2>4, <3>1, <3>4, SamePositions DEF CallKnows
      <3>6. ask[c].kind # "positions" =>
                OffersTrue(g, ask[c].token, toOffer[c], quiet', rate)
        BY <2>1, <2>4, <3>2, <3>4, SameOffers DEF CallKnows
      <3> QED
        BY <1>2, <2>1, <2>2, <2>4, <3>1, <3>3, <3>5, <3>6 DEF CallKnows
    <2> QED
      BY <2>3, <2>4
  <1>8. FetchesKnown'
    <2> SUFFICES ASSUME NEW c \in Calls, NEW p \in Protocols, NEW t \in Tokens
                 PROVE  FetchTrue(c, p, t)'
      BY DEF FetchesKnown
    <2>1. /\ CallsType /\ CallInv(c) /\ FetchTrue(c, p, t)
          /\ fetch' = fetch /\ taken[c] \in Nat
      BY DEF IInv, CallsInv, CallsType, KnownInv, FetchesKnown, Tick
    <2>2. CASE pc[c] = "reading"
      <3>1. taken'[c] = taken[c] + 1
        BY <2>2 DEF Tick
      <3>2. taken'[c] < quiet' => taken[c] < quiet
        BY <1>1, <2>1, <3>1
      <3> QED
        BY <1>2, <2>1, <3>2 DEF FetchTrue
    <2>3. CASE pc[c] # "reading"
      <3>1. fetch[c][<<p, t>>] = Unasked
        BY <2>1, <2>3, NothingFetched DEF CallInv, Idle
      <3> QED
        BY <2>1, <3>1 DEF FetchTrue, Unasked
    <2> QED
      BY <2>2, <2>3
  <1> QED
    BY <1>1, <1>3, <1>4, <1>5, <1>6, <1>7, <1>8 DEF KnownInv

(* When the market moves nothing is recent any more. *)
LEMMA KnownMarket ==
  ASSUME NEW p \in Protocols, NEW t \in Tokens, NEW r \in Rates, IInv, KnownInv,
         SetRate(p, t, r) \/ Move(p, t)
  PROVE  KnownInv'
  <1>1. quiet' = 0 /\ UNCHANGED <<cacheVars, callVars>>
    BY DEF SetRate, Move, Disturb
  <1>2. ASSUME NEW e, e.age \in Nat PROVE ~ Recent(e, 0)
    BY <1>2 DEF Recent
  <1>3. RatesKnown'
    <2>1. \A u \in Protocols, v \in Tokens : rates[u][v].age \in Nat
      BY DEF IInv, RatesInv, RateEntry
    <2> QED
      BY <1>1, <1>2, <2>1 DEF RatesKnown, RateTrue, cacheVars
  <1>4. PositionsKnown'
    <2>1. positions.age \in Nat
      BY DEF IInv, PositionsInv, PositionEntry
    <2> QED
      BY <1>1, <1>2, <2>1 DEF PositionsKnown, PositionsTrue, cacheVars
  <1>5. OffersKnown'
    <2>1. \A v \in Tokens : offers[v].age \in Nat
      BY DEF IInv, OffersInv, OfferEntry
    <2> QED
      BY <1>1, <1>2, <2>1 DEF OffersKnown, OffersTrue, cacheVars
  <1>6. AdvicesKnown'
    <2>1. \A v \in Tokens : advices[v].age \in Nat
      BY DEF IInv, AdvicesInv, AdviceEntry
    <2> QED
      BY <1>1, <1>2, <2>1 DEF AdvicesKnown, AdviceTrue, cacheVars
  <1>7. CallsKnow'
    <2>1. \A c \in Calls : seen[c].age \in Nat /\ offered[c].age \in Nat /\ CallKnows(c)
      BY DEF IInv, CallsInv, CallsType, PositionEntry, OfferEntry, KnownInv, CallsKnow
    <2> QED
      BY <1>1, <1>2, <2>1 DEF CallsKnow, CallKnows, PositionsTrue, OffersTrue, callVars
  <1>8. FetchesKnown'
    <2>1. \A c \in Calls : taken[c] \in Nat
      BY DEF IInv, CallsInv, CallsType
    <2> QED
      BY <1>1, <2>1 DEF FetchesKnown, FetchTrue, callVars
  <1> QED
    BY <1>1, <1>3, <1>4, <1>5, <1>6, <1>7, <1>8 DEF KnownInv

(* A step of one call leaves what the others know. *)
LEMMA OthersKnow ==
  ASSUME NEW c \in Calls, CallsKnow, CallKnows(c)',
         UNCHANGED <<rate, holding, quiet>>,
         \A d \in Calls \ {c} :
            /\ pc'[d] = pc[d] /\ ask'[d] = ask[d]
            /\ seen'[d] = seen[d] /\ toSee'[d] = toSee[d]
            /\ offered'[d] = offered[d] /\ toOffer'[d] = toOffer[d]
            /\ toKeep'[d] = toKeep[d]
  PROVE  CallsKnow'
  <1>1. ASSUME NEW d \in Calls \ {c} PROVE CallKnows(d)'
    BY <1>1 DEF CallsKnow, CallKnows
  <1> QED
    BY <1>1 DEF CallsKnow

LEMMA KnownBegin ==
  ASSUME NEW c \in Calls, NEW q \in Menu, IInv, KnownInv, Begin(c, q)
  PROVE  KnownInv'
  <1> DEFINE bare == Covering(NoPositions, q.tokens)
  <1>1. /\ UNCHANGED <<rate, holding, quiet, rates, positions, offers, advices>>
        /\ pc[c] = "idle"
        /\ pc' = [pc EXCEPT ![c] = "reading"] /\ ask' = [ask EXCEPT ![c] = q]
        /\ taken' = [taken EXCEPT ![c] = 0] /\ fetch' = fetch
    BY DEF Begin, marketVars, cacheVars
  <1>2. RatesKnown' /\ PositionsKnown' /\ OffersKnown' /\ AdvicesKnown' /\ quiet' \in Nat
    BY <1>1 DEF KnownInv, RatesKnown, PositionsKnown, OffersKnown, AdvicesKnown, Live
  <1>3. /\ CallsType /\ seen[c] = NoPositions /\ toSee[c] = {} /\ toOffer[c] = {}
        /\ CallsKnow
    BY <1>1 DEF IInv, CallsInv, CallInv, Idle, KnownInv, CallsKnow, CallKnows
  <1>4. pc'[c] = "reading" /\ ask'[c] = q
    BY <1>1, <1>3 DEF CallsType
  <1>a. /\ "offers" \in toKeep'[c] => q.kind # "positions"
        /\ \A d \in Calls \ {c} : toKeep'[d] = toKeep[d]
    BY <1>3 DEF Begin, CallsType
  <1>5. /\ PositionsTrue(seen'[c], toSee'[c], quiet, holding, rate)
        /\ toSee'[c] \subseteq Protocols \X seen'[c].covers
        /\ \A d \in Calls \ {c} : seen'[d] = seen[d] /\ toSee'[d] = toSee[d]
    <2>1. CASE q.kind = "opportunities"
      <3>1. seen' = seen /\ toSee' = toSee
        BY <2>1 DEF Begin
      <3>2. NoPositions.found = {} /\ NoPositions.covers = {}
        BY DEF NoPositions
      <3> QED
        BY <1>3, <3>1, <3>2 DEF PositionsTrue
    <2>2. CASE q.kind # "opportunities" /\ Live(positions)
      <3>1. seen' = [seen EXCEPT ![c] = Taken(positions)] /\ toSee' = toSee
        BY <2>2 DEF Begin, LookForPositions
      <3>2. positions \in PositionEntry
        BY DEF IInv, PositionsInv
      <3>3. /\ Taken(positions).found = positions.found
            /\ Taken(positions).covers = positions.covers
            /\ Taken(positions).faulty = positions.faulty
            /\ Taken(positions).age = positions.age
        BY <3>2, TakenPositionsKept, TakenPositions
      <3>4. PositionsTrue(positions, {}, quiet, holding, rate)
        BY <2>2 DEF KnownInv, PositionsKnown
      <3>5. PositionsTrue(Taken(positions), {}, quiet, holding, rate)
        BY <3>3, <3>4, SamePositions DEF Recent
      <3>6. seen'[c] = Taken(positions) /\ toSee'[c] = {}
        BY <1>3, <3>1 DEF CallsType
      <3> QED
        BY <3>1, <3>5, <3>6
    <2>3. CASE q.kind # "opportunities" /\ ~ Live(positions)
      <3>1. /\ seen' = [seen EXCEPT ![c] = bare]
            /\ toSee' = [toSee EXCEPT ![c] = Protocols \X q.tokens]
        BY <2>3 DEF Begin, LookForPositions, Covering
      <3>2. bare.found = {} /\ bare.covers = q.tokens
        BY DEF NoPositions, Covering
      <3> HIDE DEF bare
      <3>3. seen'[c] = bare /\ toSee'[c] = Protocols \X q.tokens
        BY <1>3, <3>1 DEF CallsType
      <3>4. PositionsTrue(bare, Protocols \X q.tokens, quiet, holding, rate)
        <4>1. \A x \in Position :
                 x.token \in bare.covers => <<x.protocol, x.token>> \in Protocols \X q.tokens
          BY <3>2 DEF Position
        <4> QED
          BY <3>2, <4>1 DEF PositionsTrue
      <3>5. \A d \in Calls \ {c} : seen'[d] = seen[d] /\ toSee'[d] = toSee[d]
        BY <1>3, <3>1 DEF CallsType
      <3> QED
        BY <3>2, <3>3, <3>4, <3>5
    <2> QED
      BY <2>1, <2>2, <2>3
  <1>6. /\ q.kind # "positions" => OffersTrue(offered'[c], q.token, toOffer'[c], quiet, rate)
        /\ \A d \in Calls \ {c} : offered'[d] = offered[d] /\ toOffer'[d] = toOffer[d]
    <2>1. CASE q.kind = "positions"
      <3>1. offered' = offered /\ toOffer' = toOffer
        BY <2>1 DEF Begin
      <3> QED
        BY <1>3, <2>1, <3>1
    <2>2. CASE q.kind # "positions" /\ Live(offers[q.token])
      <3>1. offered' = [offered EXCEPT ![c] = Taken(offers[q.token])] /\ toOffer' = toOffer
        BY <2>2 DEF Begin, LookForOffers
      <3>2. offers[q.token] \in OfferEntry /\ q.token \in Tokens
        BY MenuType DEF IInv, OffersInv
      <3>3. /\ Taken(offers[q.token]).found = offers[q.token].found
            /\ Taken(offers[q.token]).faulty = offers[q.token].faulty
            /\ Taken(offers[q.token]).age = offers[q.token].age
        BY <3>2, TakenOffersKept, TakenOffers
      <3>4. OffersTrue(offers[q.token], q.token, {}, quiet, rate)
        BY <2>2, <3>2 DEF KnownInv, OffersKnown
      <3>5. OffersTrue(Taken(offers[q.token]), q.token, {}, quiet, rate)
        BY <3>3, <3>4, SameOffers DEF Recent
      <3>6. offered'[c] = Taken(offers[q.token]) /\ toOffer'[c] = {}
        BY <1>3, <3>1 DEF CallsType
      <3> QED
        BY <2>2, <3>1, <3>5, <3>6
    <2>3. CASE q.kind # "positions" /\ ~ Live(offers[q.token])
      <3>1. /\ offered' = [offered EXCEPT ![c] = NoOffers]
            /\ toOffer' = [toOffer EXCEPT ![c] = Protocols]
        BY <2>3 DEF Begin, LookForOffers
      <3>2. offered'[c] = NoOffers /\ toOffer'[c] = Protocols
        BY <1>3, <3>1 DEF CallsType
      <3>3. OffersTrue(NoOffers, q.token, Protocols, quiet, rate)
        BY DEF OffersTrue, NoOffers, Offer
      <3> QED
        BY <2>3, <3>1, <3>2, <3>3
    <2> QED
      BY <2>1, <2>2, <2>3
  <1>7. CallKnows(c)'
    BY <1>1, <1>4, <1>5, <1>6, <1>a DEF CallKnows
  <1>8. CallsKnow'
    BY <1>1, <1>3, <1>5, <1>6, <1>7, <1>a, OthersKnow DEF CallsType
  <1>9. FetchesKnown'
    <2> SUFFICES ASSUME NEW d \in Calls, NEW p \in Protocols, NEW t \in Tokens
                 PROVE  FetchTrue(d, p, t)'
      BY DEF FetchesKnown
    <2>1. CASE d = c
      <3>1. fetch[c][<<p, t>>] = Unasked
        BY <1>3, NothingFetched
      <3> QED
        BY <1>1, <2>1, <3>1 DEF FetchTrue, Unasked
    <2>2. CASE d # c
      <3>1. taken'[d] = taken[d] /\ FetchTrue(d, p, t)
        BY <1>1, <1>3, <2>2 DEF CallsType, KnownInv, FetchesKnown
      <3> QED
        BY <1>1, <3>1 DEF FetchTrue
    <2> QED
      BY <2>1, <2>2
  <1> QED
    BY <1>2, <1>8, <1>9 DEF KnownInv

(* What the three outcomes of a read change. *)
LEMMA FaultedKept ==
  ASSUME NEW e \in PositionEntry
  PROVE  Faulted(e).faulty = TRUE /\ Faulted(e).covers = e.covers
  BY DEF PositionEntry, Faulted

LEMMA WidenedKept ==
  ASSUME NEW e \in PositionEntry, NEW found \in SUBSET Position, NEW age \in Nat
  PROVE  /\ Widened(e, found, age).found = found
         /\ Widened(e, found, age).covers = e.covers
         /\ Widened(e, found, age).faulty = e.faulty
  BY DEF PositionEntry, Widened

LEMMA AnswersKept ==
  ASSUME NEW e \in OfferEntry, NEW found \in SUBSET Offer
  PROVE  /\ Faulted(e).faulty = TRUE
         /\ Answered(e, found).found = found
         /\ Answered(e, found).faulty = e.faulty
  BY DEF OfferEntry, Faulted, Answered

(* What the reads that go on, or end, of a call know. *)
LEMMA KnowingOn ==
  ASSUME NEW c \in Calls, NEW p \in Protocols, NEW t \in Tokens, IInv, KnownInv,
         <<p, t>> \in toSee[c]
  PROVE  /\ CallsType /\ CallsKnow /\ pc[c] = "reading" /\ CallKnows(c) /\ quiet \in Nat
         /\ PositionsTrue(seen[c], toSee[c], quiet, holding, rate)
         /\ toSee[c] \subseteq Protocols \X seen[c].covers
  <1>1. CallsType /\ pc[c] = "reading"
    BY ReadingOn
  <1>2. CallsKnow /\ CallKnows(c) /\ quiet \in Nat
    BY DEF KnownInv, CallsKnow
  <1> QED
    BY <1>1, <1>2 DEF CallKnows

LEMMA GoesOnKnows ==
  ASSUME NEW c \in Calls, NEW p \in Protocols, NEW t \in Tokens, NEW read \in Fetch,
         IInv, KnownInv, GoesOn(c, p, t, read), rates' = rates, readUnchanged,
         taken[c] < quiet => /\ read.step # "balance" => <<p, t>> \in holding
                             /\ read.step = "rated" => read.rate = rate[p][t]
  PROVE  KnownInv'
  <1>1. /\ UNCHANGED <<rate, holding, quiet, rates, positions, offers, advices, pc, ask, taken,
                       seen, toSee, offered, toOffer, toKeep>>
        /\ fetch' = [fetch EXCEPT ![c][<<p, t>>] = read]
    BY DEF GoesOn, readUnchanged
  <1>2. RatesKnown' /\ PositionsKnown' /\ OffersKnown' /\ AdvicesKnown' /\ quiet' \in Nat
    BY <1>1 DEF KnownInv, RatesKnown, PositionsKnown, OffersKnown, AdvicesKnown, Live
  <1>3. CallsKnow'
    BY <1>1 DEF KnownInv, CallsKnow, CallKnows
  <1>4. FetchesKnown'
    <2>1. fetch \in [Calls -> [Protocols \X Tokens -> Fetch]]
      BY DEF IInv, FetchesInv
    <2>2. \A d \in Calls, u \in Protocols, v \in Tokens :
             fetch'[d][<<u, v>>] = IF d = c /\ u = p /\ v = t THEN read ELSE fetch[d][<<u, v>>]
      BY <1>1, <2>1
    <2>3. ASSUME NEW d \in Calls, NEW u \in Protocols, NEW v \in Tokens
          PROVE  FetchTrue(d, u, v)'
      <3>1. CASE d = c /\ u = p /\ v = t
        BY <1>1, <2>2, <3>1 DEF FetchTrue
      <3>2. CASE ~ (d = c /\ u = p /\ v = t)
        <4>1. FetchTrue(d, u, v)
          BY DEF KnownInv, FetchesKnown
        <4> QED
          BY <1>1, <2>2, <3>2, <4>1 DEF FetchTrue
      <3> QED
        BY <3>1, <3>2
    <2> QED
      BY <2>3 DEF FetchesKnown
  <1> QED
    BY <1>2, <1>3, <1>4 DEF KnownInv

LEMMA EndsKnows ==
  ASSUME NEW c \in Calls, NEW p \in Protocols, NEW t \in Tokens, NEW found \in PositionEntry,
         IInv, KnownInv, <<p, t>> \in toSee[c], Ends(c, p, t, found), readUnchanged,
         RatesKnown', found.covers = seen[c].covers,
         PositionsTrue(found, toSee[c] \ {<<p, t>>}, quiet, holding, rate)
  PROVE  KnownInv'
  <1>1. /\ UNCHANGED <<rate, holding, quiet, positions, offers, advices, pc, ask, taken,
                       offered, toOffer, toKeep>>
        /\ fetch' = [fetch EXCEPT ![c][<<p, t>>] = Unasked]
        /\ toSee' = [toSee EXCEPT ![c] = @ \ {<<p, t>>}]
        /\ seen' = [seen EXCEPT ![c] = found]
    BY DEF Ends, readUnchanged
  <1>2. PositionsKnown' /\ OffersKnown' /\ AdvicesKnown' /\ quiet' \in Nat
    BY <1>1 DEF KnownInv, PositionsKnown, OffersKnown, AdvicesKnown, Live
  <1>3. /\ CallsType /\ CallsKnow /\ pc[c] = "reading" /\ CallKnows(c)
        /\ toSee[c] \subseteq Protocols \X seen[c].covers
    BY KnowingOn
  <1>4. CallKnows(c)'
    <2>1. /\ seen'[c] = found /\ pc'[c] = "reading" /\ toSee'[c] = toSee[c] \ {<<p, t>>}
          /\ ask'[c] = ask[c] /\ offered'[c] = offered[c] /\ toOffer'[c] = toOffer[c]
          /\ toKeep'[c] = toKeep[c]
      BY <1>1, <1>3 DEF CallsType
    <2>2. toSee'[c] \subseteq Protocols \X found.covers
      BY <1>3, <2>1
    <2> QED
      BY <1>1, <1>3, <2>1, <2>2 DEF CallKnows
  <1>5. CallsKnow'
    BY <1>1, <1>3, <1>4, OthersKnow DEF CallsType
  <1>6. FetchesKnown'
    <2>1. fetch \in [Calls -> [Protocols \X Tokens -> Fetch]]
      BY DEF IInv, FetchesInv
    <2>2. \A d \in Calls, u \in Protocols, v \in Tokens :
             fetch'[d][<<u, v>>] = IF d = c /\ u = p /\ v = t THEN Unasked ELSE fetch[d][<<u, v>>]
      BY <1>1, <2>1
    <2>3. ASSUME NEW d \in Calls, NEW u \in Protocols, NEW v \in Tokens
          PROVE  FetchTrue(d, u, v)'
      <3>1. CASE d = c /\ u = p /\ v = t
        BY <2>2, <3>1 DEF FetchTrue, Unasked
      <3>2. CASE ~ (d = c /\ u = p /\ v = t)
        <4>1. FetchTrue(d, u, v)
          BY DEF KnownInv, FetchesKnown
        <4> QED
          BY <1>1, <2>2, <3>2, <4>1 DEF FetchTrue
      <3> QED
        BY <3>1, <3>2
    <2> QED
      BY <2>3 DEF FetchesKnown
  <1> QED
    BY <1>2, <1>5, <1>6 DEF KnownInv

(* A position that is true of the market when the value with it is recent,   *)
(* leaves that true.                                                         *)
LEMMA WithTrue ==
  ASSUME NEW c \in Calls, NEW p \in Protocols, NEW t \in Tokens, NEW r \in Rates, NEW age \in Nat,
         IInv, KnownInv, <<p, t>> \in toSee[c],
         Older(seen[c].age, age) < quiet => <<p, t>> \in holding /\ r = rate[p][t]
  PROVE  /\ With(c, p, t, r, age).covers = seen[c].covers
         /\ PositionsTrue(With(c, p, t, r, age), toSee[c] \ {<<p, t>>}, quiet, holding, rate)
  <1> DEFINE rest  == toSee[c] \ {<<p, t>>}
             new   == [protocol |-> p, token |-> t, rate |-> r]
             more  == seen[c].found \cup {new}
             old   == Older(seen[c].age, age)
             found == Widened(seen[c], more, old)
  <1>1. With(c, p, t, r, age) = found
    BY DEF With, Widened
  <1>2. /\ seen[c] \in PositionEntry /\ seen[c].found \in SUBSET Position /\ seen[c].age \in Nat
        /\ PositionsTrue(seen[c], toSee[c], quiet, holding, rate) /\ quiet \in Nat
        /\ toSee[c] \subseteq Protocols \X seen[c].covers
    BY ReadingOn, KnowingOn
  <1>3. more \in SUBSET Position
    BY <1>2 DEF Position
  <1>4. old \in Nat /\ old >= seen[c].age
    BY <1>2 DEF Older
  <1> HIDE DEF more, old
  <1>5. /\ found.found = more /\ found.age = old
        /\ found.covers = seen[c].covers /\ found.faulty = seen[c].faulty
    BY <1>2, <1>3, <1>4, WidenedType, WidenedKept
  <1> HIDE DEF found
  <1>6. ASSUME Recent(found, quiet), ~ found.faulty, NEW x \in Position
        PROVE  x \in more <=> /\ <<x.protocol, x.token>> \in holding \ rest
                              /\ x.token \in found.covers
                              /\ x.rate = rate[x.protocol][x.token]
    <2>1. old < quiet /\ ~ seen[c].faulty
      BY <1>5, <1>6 DEF Recent
    <2>2. Recent(seen[c], quiet)
      BY <1>2, <1>4, <2>1 DEF Recent
    <2>3. <<p, t>> \in holding /\ r = rate[p][t]
      BY <2>1 DEF old
    <2>4. x \in seen[c].found <=> /\ <<x.protocol, x.token>> \in holding \ toSee[c]
                                  /\ x.token \in seen[c].covers
                                  /\ x.rate = rate[x.protocol][x.token]
      BY <1>2, <2>1, <2>2 DEF PositionsTrue
    <2>5. x = new <=> x.protocol = p /\ x.token = t /\ x.rate = rate[p][t]
      BY <2>3 DEF Position
    <2>6. t \in seen[c].covers
      BY <1>2
    <2>7. x \in more <=> x \in seen[c].found \/ x = new
      BY DEF more
    <2> HIDE DEF new
    <2>8. CASE x.protocol = p /\ x.token = t
      BY <1>5, <2>3, <2>4, <2>5, <2>6, <2>7, <2>8
    <2>9. CASE ~ (x.protocol = p /\ x.token = t)
      <3>1. <<x.protocol, x.token>> # <<p, t>>
        BY <2>9
      <3>2. <<x.protocol, x.token>> \in rest <=> <<x.protocol, x.token>> \in toSee[c]
        BY <3>1
      <3> QED
        BY <1>5, <2>4, <2>5, <2>7, <2>9, <3>2
    <2> QED
      BY <2>8, <2>9
  <1> QED
    BY <1>1, <1>5, <1>6 DEF PositionsTrue

LEMMA KnownReadBalance ==
  ASSUME NEW c \in Calls, NEW p \in Protocols, NEW t \in Tokens, IInv, KnownInv,
         ReadBalance(c, p, t)
  PROVE  KnownInv'
  <1>1. <<p, t>> \in toSee[c] /\ rates' = rates /\ readUnchanged
    BY DEF ReadBalance, At
  <1>2. CASE <<p, t>> \in holding
    <2> DEFINE read == [step |-> "held", rate |-> 0]
    <2>1. read \in Fetch /\ read.step # "rated" /\ GoesOn(c, p, t, read)
      BY <1>2 DEF ReadBalance, Fetch
    <2> HIDE DEF read
    <2> QED
      BY <1>1, <1>2, <2>1, GoesOnKnows
  <1>3. CASE <<p, t>> \notin holding
    <2>1. Ends(c, p, t, seen[c]) /\ seen[c] \in PositionEntry
      BY <1>1, <1>3, ReadingOn DEF ReadBalance
    <2>2. RatesKnown'
      BY <1>1 DEF KnownInv, RatesKnown, Live, readUnchanged
    <2>3. PositionsTrue(seen[c], toSee[c] \ {<<p, t>>}, quiet, holding, rate)
      <3>1. PositionsTrue(seen[c], toSee[c], quiet, holding, rate)
        BY <1>1, KnowingOn
      <3>2. holding \ toSee[c] = holding \ (toSee[c] \ {<<p, t>>})
        BY <1>3
      <3> QED
        BY <3>1, <3>2 DEF PositionsTrue
    <2> QED
      BY <1>1, <2>1, <2>2, <2>3, EndsKnows
  <1> QED
    BY <1>2, <1>3

LEMMA KnownAskRate ==
  ASSUME NEW c \in Calls, NEW p \in Protocols, NEW t \in Tokens, IInv, KnownInv, AskRate(c, p, t)
  PROVE  KnownInv'
  <1> DEFINE cached == rates[p][t]
  <1>1. /\ <<p, t>> \in toSee[c] /\ rates' = rates /\ readUnchanged
        /\ fetch[c][<<p, t>>].step = "held"
    BY DEF AskRate, At
  <1>2. taken[c] < quiet => <<p, t>> \in holding
    BY <1>1 DEF KnownInv, FetchesKnown, FetchTrue
  <1>3. CASE Live(cached)
    <2> DEFINE r     == cached.rate
               age   == cached.age
               found == With(c, p, t, r, age)
    <2>1. Ends(c, p, t, found)
      BY <1>3 DEF AskRate
    <2>2. r \in Rates /\ age \in Nat /\ (age < quiet => r = rate[p][t])
      <3>1. cached \in RateEntry /\ cached.rate \in Rates
        BY <1>3 DEF IInv, RatesInv
      <3>2. RateTrue(cached, p, t, quiet, rate)
        BY <1>3 DEF KnownInv, RatesKnown
      <3> QED
        BY <3>1, <3>2 DEF RateEntry, RateTrue, Recent
    <2>3. /\ seen[c] \in PositionEntry /\ seen[c].age \in Nat /\ taken[c] \in Nat
          /\ taken[c] <= seen[c].age /\ quiet \in Nat
      BY <1>1, ReadingOn, KnowingOn
    <2> HIDE DEF r, age
    <2>4. Older(seen[c].age, age) < quiet => <<p, t>> \in holding /\ r = rate[p][t]
      BY <1>2, <2>2, <2>3 DEF Older
    <2>5. found \in PositionEntry
      BY <2>2, <2>3, WithType
    <2>6. /\ found.covers = seen[c].covers
          /\ PositionsTrue(found, toSee[c] \ {<<p, t>>}, quiet, holding, rate)
      BY <1>1, <2>2, <2>4, WithTrue
    <2>7. RatesKnown'
      BY <1>1 DEF KnownInv, RatesKnown, Live, readUnchanged
    <2> HIDE DEF found
    <2> QED
      BY <1>1, <2>1, <2>5, <2>6, <2>7, EndsKnows
  <1>4. CASE ~ Live(cached)
    <2> DEFINE read == [step |-> "missed", rate |-> 0]
    <2>1. read \in Fetch /\ read.step # "rated" /\ GoesOn(c, p, t, read)
      BY <1>4 DEF AskRate, Fetch
    <2> HIDE DEF read
    <2> QED
      BY <1>1, <1>2, <2>1, GoesOnKnows
  <1> QED
    BY <1>3, <1>4

LEMMA KnownReadRate ==
  ASSUME NEW c \in Calls, NEW p \in Protocols, NEW t \in Tokens, IInv, KnownInv, ReadRate(c, p, t)
  PROVE  KnownInv'
  <1> DEFINE read == [step |-> "rated", rate |-> rate[p][t]]
  <1>1. /\ <<p, t>> \in toSee[c] /\ rates' = rates /\ readUnchanged
        /\ fetch[c][<<p, t>>].step = "missed" /\ GoesOn(c, p, t, read)
    BY DEF ReadRate, At
  <1>2. taken[c] < quiet => <<p, t>> \in holding
    BY <1>1 DEF KnownInv, FetchesKnown, FetchTrue
  <1>3. rate[p][t] \in Rates
    BY DEF IInv, MarketInv
  <1>4. rate[p][t] \in Nat
    BY <1>3
  <1>5. read \in Fetch /\ read.rate = rate[p][t]
    BY <1>4 DEF Fetch
  <1> HIDE DEF read
  <1> QED
    BY <1>1, <1>2, <1>5, GoesOnKnows

(* A rate that enters its cache with the age of the call that read it is     *)
(* true if the market has been at rest since that began.                     *)
LEMMA KnownCacheRate ==
  ASSUME NEW c \in Calls, NEW p \in Protocols, NEW t \in Tokens, IInv, KnownInv, CacheRate(c, p, t)
  PROVE  KnownInv'
  <1> DEFINE r     == fetch[c][<<p, t>>].rate
             entry == [rate |-> r, age |-> taken[c], left |-> AdapterTTL]
             found == With(c, p, t, r, taken[c])
  <1>1. /\ <<p, t>> \in toSee[c] /\ fetch[c][<<p, t>>].step = "rated"
        /\ rates' = [rates EXCEPT ![p][t] = entry]
        /\ Ends(c, p, t, found) /\ readUnchanged
    BY DEF CacheRate, At
  <1>2. r \in Rates
    BY <1>1 DEF IInv, FetchesInv
  <1>3. taken[c] < quiet => <<p, t>> \in holding /\ r = rate[p][t]
    BY <1>1 DEF KnownInv, FetchesKnown, FetchTrue
  <1>4. /\ seen[c] \in PositionEntry /\ seen[c].age \in Nat /\ taken[c] \in Nat
        /\ taken[c] <= seen[c].age /\ quiet \in Nat
    BY <1>1, ReadingOn, KnowingOn
  <1>5. RateTrue(entry, p, t, quiet, rate)
    BY <1>3 DEF RateTrue, Recent
  <1> HIDE DEF r, entry
  <1>6. Older(seen[c].age, taken[c]) < quiet => <<p, t>> \in holding /\ r = rate[p][t]
    BY <1>3, <1>4 DEF Older
  <1>7. found \in PositionEntry
    BY <1>2, <1>4, WithType
  <1>8. /\ found.covers = seen[c].covers
        /\ PositionsTrue(found, toSee[c] \ {<<p, t>>}, quiet, holding, rate)
    BY <1>1, <1>2, <1>4, <1>6, WithTrue
  <1>9. RatesKnown'
    <2>1. rates \in [Protocols -> [Tokens -> RateEntry]] /\ RatesKnown
      BY DEF IInv, RatesInv, KnownInv
    <2>2. \A u \in Protocols, v \in Tokens :
             rates'[u][v] = IF u = p /\ v = t THEN entry ELSE rates[u][v]
      BY <1>1, <2>1
    <2>3. ASSUME NEW u \in Protocols, NEW v \in Tokens, Live(rates'[u][v])
          PROVE  RateTrue(rates'[u][v], u, v, quiet, rate)
      <3>1. CASE u = p /\ v = t
        BY <1>5, <2>2, <3>1
      <3>2. CASE ~ (u = p /\ v = t)
        BY <2>1, <2>2, <2>3, <3>2 DEF RatesKnown
      <3> QED
        BY <3>1, <3>2
    <2>4. rate' = rate /\ quiet' = quiet
      BY <1>1 DEF readUnchanged
    <2> QED
      BY <2>3, <2>4, Zenon DEF RatesKnown, Live
  <1> HIDE DEF found
  <1> QED
    BY <1>1, <1>7, <1>8, <1>9, EndsKnows

LEMMA KnownLosePosition ==
  ASSUME NEW c \in Calls, NEW p \in Protocols, NEW t \in Tokens, IInv, KnownInv,
         LosePosition(c, p, t)
  PROVE  KnownInv'
  <1> DEFINE found == Faulted(seen[c])
  <1>1. /\ <<p, t>> \in toSee[c] /\ rates' = rates /\ readUnchanged
        /\ Ends(c, p, t, found)
    BY DEF LosePosition, Faulted
  <1>2. found \in PositionEntry /\ found.covers = seen[c].covers /\ found.faulty = TRUE
    BY <1>1, ReadingOn, FaultedType, FaultedKept
  <1> HIDE DEF found
  <1>3. PositionsTrue(found, toSee[c] \ {<<p, t>>}, quiet, holding, rate)
    BY <1>2 DEF PositionsTrue
  <1>4. RatesKnown'
    BY <1>1 DEF KnownInv, RatesKnown, Live, readUnchanged
  <1> QED
    BY <1>1, <1>2, <1>3, <1>4, EndsKnows

LEMMA KnownKeepPositions ==
  ASSUME NEW c \in Calls, IInv, KnownInv, KeepPositions(c)
  PROVE  KnownInv'
  <1>1. /\ "positions" \in toKeep[c] /\ toSee[c] = {}
        /\ positions' = Stored(seen[c])
        /\ toKeep' = [toKeep EXCEPT ![c] = @ \ {"positions"}]
        /\ UNCHANGED <<rate, holding, quiet, rates, offers, advices, pc, ask, taken, seen, toSee,
                       fetch, offered, toOffer>>
    BY DEF KeepPositions, marketVars
  <1>2. CallsType /\ CallInv(c) /\ CallsKnow /\ CallKnows(c) /\ seen[c] \in PositionEntry
    BY DEF IInv, CallsInv, CallsType, KnownInv, CallsKnow
  <1>3. pc[c] = "reading"
    BY <1>1, <1>2 DEF CallInv, Idle
  <1>4. PositionsKnown'
    <2>1. /\ Stored(seen[c]).found = seen[c].found /\ Stored(seen[c]).covers = seen[c].covers
          /\ Stored(seen[c]).faulty = seen[c].faulty /\ Stored(seen[c]).age = seen[c].age
      BY <1>2, TakenPositionsKept, TakenPositions
    <2>2. Recent(Stored(seen[c]), quiet) => Recent(seen[c], quiet)
      BY <2>1 DEF Recent
    <2>3. PositionsTrue(seen[c], {}, quiet, holding, rate)
      BY <1>1, <1>2, <1>3 DEF CallKnows
    <2>4. PositionsTrue(Stored(seen[c]), {}, quiet, holding, rate)
      BY <2>1, <2>2, <2>3, SamePositions
    <2> QED
      BY <1>1, <2>4 DEF PositionsKnown
  <1>5. RatesKnown' /\ OffersKnown' /\ AdvicesKnown' /\ quiet' \in Nat
    BY <1>1 DEF KnownInv, RatesKnown, OffersKnown, AdvicesKnown, Live
  <1>6. CallKnows(c)'
    <2>1. toKeep'[c] = toKeep[c] \ {"positions"}
      BY <1>1, <1>2 DEF CallsType
    <2> QED
      BY <1>1, <1>2, <2>1 DEF CallKnows
  <1>7. CallsKnow'
    BY <1>1, <1>2, <1>6, OthersKnow DEF CallsType
  <1>8. FetchesKnown'
    BY <1>1 DEF KnownInv, FetchesKnown, FetchTrue
  <1> QED
    BY <1>4, <1>5, <1>7, <1>8 DEF KnownInv

LEMMA KnownSeeOffer ==
  ASSUME NEW c \in Calls, NEW p \in Protocols, NEW failed \in BOOLEAN,
         IInv, KnownInv, SeeOffer(c, p, failed)
  PROVE  KnownInv'
  <1> DEFINE t     == ask[c].token
             rest  == toOffer[c] \ {p}
             new   == [protocol |-> p, rate |-> rate[p][t]]
             more  == offered[c].found \cup {new}
             found == IF failed THEN Faulted(offered[c]) ELSE Answered(offered[c], more)
  <1>1. /\ p \in toOffer[c]
        /\ toOffer' = [toOffer EXCEPT ![c] = rest]
        /\ offered' = [offered EXCEPT ![c] = found]
        /\ UNCHANGED <<rate, holding, quiet, rates, positions, offers, advices, pc, ask, taken,
                       seen, toSee, fetch, toKeep>>
    BY DEF SeeOffer, Faulted, Answered, cacheVars
  <1>2. /\ CallsType /\ CallsKnow /\ pc[c] = "reading" /\ CallKnows(c)
        /\ offered[c] \in OfferEntry /\ offered[c].found \in SUBSET Offer /\ t \in Tokens
        /\ ask[c].kind # "positions" /\ OffersTrue(offered[c], t, toOffer[c], quiet, rate)
    <2>1. /\ CallsType /\ CallInv(c) /\ offered[c] \in OfferEntry /\ CallsKnow
          /\ CallKnows(c)
      BY DEF IInv, CallsInv, CallsType, KnownInv, CallsKnow
    <2>2. pc[c] = "reading" /\ Reading(c)
      BY <1>1, <2>1 DEF CallInv, Idle
    <2>3. t \in Tokens /\ "offers" \in toKeep[c]
      BY <1>1, <2>2, MenuType DEF Reading
    <2> QED
      BY <1>1, <2>1, <2>2, <2>3 DEF OfferEntry, CallKnows
  <1>3. rate[p][t] \in Rates
    BY <1>2 DEF IInv, MarketInv
  <1> HIDE DEF t
  <1>4. found \in OfferEntry /\ OffersTrue(found, t, rest, quiet, rate)
    <2>1. more \in SUBSET Offer
      BY <1>2, <1>3 DEF Offer
    <2> HIDE DEF more
    <2>2. CASE failed
      <3>1. found = Faulted(offered[c])
        BY <2>2
      <3> HIDE DEF found
      <3>2. found \in OfferEntry /\ found.faulty = TRUE
        BY <1>2, <2>1, <3>1, AnsweredType, AnswersKept
      <3> QED
        BY <3>2 DEF OffersTrue
    <2>3. CASE ~ failed
      <3>1. found = Answered(offered[c], more)
        BY <2>3
      <3> HIDE DEF found
      <3>2. /\ found \in OfferEntry /\ found.found = more /\ found.age = offered[c].age
            /\ found.faulty = offered[c].faulty
        BY <1>2, <2>1, <3>1, AnsweredType, AnswersKept
      <3>3. ASSUME Recent(found, quiet), ~ found.faulty, NEW x \in Offer
            PROVE  x \in more <=> x.protocol \notin rest /\ x.rate = rate[x.protocol][t]
        <4>1. Recent(offered[c], quiet) /\ ~ offered[c].faulty
          BY <3>2, <3>3 DEF Recent
        <4>2. x \in offered[c].found <=> x.protocol \notin toOffer[c]
                                         /\ x.rate = rate[x.protocol][t]
          BY <1>2, <4>1 DEF OffersTrue
        <4>3. x = new <=> x.protocol = p /\ x.rate = rate[p][t]
          BY DEF Offer
        <4>4. x \in more <=> x \in offered[c].found \/ x = new
          BY DEF more
        <4> HIDE DEF new
        <4> QED
          BY <1>1, <4>2, <4>3, <4>4
      <3> QED
        BY <3>2, <3>3 DEF OffersTrue
    <2> QED
      BY <2>2, <2>3
  <1> HIDE DEF found
  <1>5. /\ RatesKnown' /\ PositionsKnown' /\ OffersKnown' /\ AdvicesKnown' /\ quiet' \in Nat
    BY <1>1 DEF KnownInv, RatesKnown, PositionsKnown, OffersKnown, AdvicesKnown, Live
  <1>6. CallKnows(c)'
    <2>1. /\ offered'[c] = found /\ toOffer'[c] = rest /\ pc'[c] = "reading"
          /\ ask'[c] = ask[c] /\ seen'[c] = seen[c] /\ toSee'[c] = toSee[c]
          /\ toKeep'[c] = toKeep[c]
      BY <1>1, <1>2 DEF CallsType
    <2> HIDE DEF rest
    <2> QED
      BY <1>1, <1>2, <1>4, <2>1 DEF CallKnows, t
  <1>7. CallsKnow'
    BY <1>1, <1>2, <1>6, OthersKnow DEF CallsType
  <1>8. FetchesKnown'
    BY <1>1 DEF KnownInv, FetchesKnown, FetchTrue
  <1> QED
    BY <1>5, <1>7, <1>8 DEF KnownInv

LEMMA KnownKeepOffers ==
  ASSUME NEW c \in Calls, IInv, KnownInv, KeepOffers(c)
  PROVE  KnownInv'
  <1> DEFINE t == ask[c].token
  <1>1. /\ "offers" \in toKeep[c] /\ toOffer[c] = {}
        /\ offers' = [offers EXCEPT ![t] = Stored(offered[c])]
        /\ toKeep' = [toKeep EXCEPT ![c] = @ \ {"offers"}]
        /\ UNCHANGED <<rate, holding, quiet, rates, positions, advices, pc, ask, taken, seen,
                       toSee, fetch, offered, toOffer>>
    BY DEF KeepOffers, marketVars
  <1>2. CallsType /\ CallInv(c) /\ CallsKnow /\ CallKnows(c) /\ offered[c] \in OfferEntry
    BY DEF IInv, CallsInv, CallsType, KnownInv, CallsKnow
  <1>3. pc[c] = "reading" /\ Reading(c)
    BY <1>1, <1>2 DEF CallInv, Idle
  <1>4. t \in Tokens /\ OffersTrue(offered[c], t, {}, quiet, rate)
    <2>1. t \in Tokens
      BY <1>3, MenuType DEF Reading
    <2> QED
      BY <1>1, <1>2, <1>3, <2>1 DEF CallKnows
  <1> HIDE DEF t
  <1>5. OffersKnown'
    <2>1. offers \in [Tokens -> OfferEntry] /\ OffersKnown
      BY DEF IInv, OffersInv, KnownInv
    <2>2. /\ Stored(offered[c]).found = offered[c].found
          /\ Stored(offered[c]).faulty = offered[c].faulty
          /\ Stored(offered[c]).age = offered[c].age
      BY <1>2, TakenOffersKept, TakenOffers
    <2>3. Recent(Stored(offered[c]), quiet) => Recent(offered[c], quiet)
      BY <2>2 DEF Recent
    <2>4. OffersTrue(Stored(offered[c]), t, {}, quiet, rate)
      BY <1>4, <2>2, <2>3, SameOffers
    <2>5. \A u \in Tokens : offers'[u] = IF u = t THEN Stored(offered[c]) ELSE offers[u]
      BY <1>1, <2>1
    <2>6. ASSUME NEW u \in Tokens, Live(offers'[u])
          PROVE  OffersTrue(offers'[u], u, {}, quiet, rate)
      <3>1. CASE u = t
        BY <2>4, <2>5, <3>1
      <3>2. CASE u # t
        BY <2>1, <2>5, <2>6, <3>2 DEF OffersKnown
      <3> QED
        BY <3>1, <3>2
    <2> QED
      BY <1>1, <2>6 DEF OffersKnown, Live
  <1>6. RatesKnown' /\ PositionsKnown' /\ AdvicesKnown' /\ quiet' \in Nat
    BY <1>1 DEF KnownInv, RatesKnown, PositionsKnown, AdvicesKnown, Live
  <1>7. CallKnows(c)'
    <2>1. toKeep'[c] = toKeep[c] \ {"offers"}
      BY <1>1, <1>2 DEF CallsType
    <2> QED
      BY <1>1, <1>2, <2>1 DEF CallKnows
  <1>8. CallsKnow'
    BY <1>1, <1>2, <1>7, OthersKnow DEF CallsType
  <1>9. FetchesKnown'
    BY <1>1 DEF KnownInv, FetchesKnown, FetchTrue
  <1> QED
    BY <1>5, <1>6, <1>8, <1>9 DEF KnownInv

(* An advice looks only at the positions in its token. *)
LEMMA AdviseOnToken ==
  ASSUME NEW s, NEW t, NEW some \in SUBSET Position, NEW all \in SUBSET Position, NEW found,
         \A x \in Position : x.token = t => (x \in some <=> x \in all)
  PROVE  Advise(s, t, some, found) = Advise(s, t, all, found)
  <1>1. Current(t, some) = Current(t, all)
    BY DEF Current
  <1> QED
    BY <1>1 DEF Advise

LEMMA AllHeldType ==
  ASSUME MarketInv
  PROVE  /\ AllHeld(holding, rate) \in SUBSET Position
         /\ \A x \in Position : x \in AllHeld(holding, rate) <=>
                                    /\ <<x.protocol, x.token>> \in holding
                                    /\ x.rate = rate[x.protocol][x.token]
  <1>1. ASSUME NEW pair \in holding
        PROVE  [protocol |-> pair[1], token |-> pair[2], rate |-> rate[pair[1]][pair[2]]]
                   \in Position
    BY <1>1 DEF MarketInv, Position
  <1>2. ASSUME NEW x \in Position, x \in AllHeld(holding, rate)
        PROVE  <<x.protocol, x.token>> \in holding /\ x.rate = rate[x.protocol][x.token]
    <2>1. PICK pair \in holding :
             x = [protocol |-> pair[1], token |-> pair[2], rate |-> rate[pair[1]][pair[2]]]
      BY <1>2 DEF AllHeld
    <2>2. pair = <<pair[1], pair[2]>>
      BY DEF MarketInv
    <2> QED
      BY <2>1, <2>2
  <1>3. ASSUME NEW x \in Position, <<x.protocol, x.token>> \in holding,
               x.rate = rate[x.protocol][x.token]
        PROVE  x \in AllHeld(holding, rate)
    <2>1. x = [protocol |-> x.protocol, token |-> x.token, rate |-> rate[x.protocol][x.token]]
      BY <1>3 DEF Position
    <2>2. [protocol |-> x.protocol, token |-> x.token, rate |-> rate[x.protocol][x.token]]
             \in AllHeld(holding, rate)
      BY <1>3 DEF AllHeld
    <2> QED
      BY <2>1, <2>2
  <1> QED
    BY <1>1, <1>2, <1>3 DEF AllHeld

LEMMA AllOffersType ==
  ASSUME MarketInv, NEW t \in Tokens
  PROVE  /\ AllOffers(t, rate) \in SUBSET Offer
         /\ \A x \in Offer : x \in AllOffers(t, rate) <=> x.rate = rate[x.protocol][t]
  <1>1. \A p \in Protocols : [protocol |-> p, rate |-> rate[p][t]] \in Offer
    BY DEF MarketInv, Offer
  <1>2. ASSUME NEW x \in Offer, x.rate = rate[x.protocol][t]
        PROVE  x \in AllOffers(t, rate)
    <2>1. x = [protocol |-> x.protocol, rate |-> rate[x.protocol][t]] /\ x.protocol \in Protocols
      BY <1>2 DEF Offer
    <2> QED
      BY <2>1 DEF AllOffers
  <1>3. ASSUME NEW x \in Offer, x \in AllOffers(t, rate)
        PROVE  x.rate = rate[x.protocol][t]
    BY <1>3 DEF AllOffers
  <1> QED
    BY <1>1, <1>2, <1>3 DEF AllOffers

(* What a call found of a market at rest is what there is. *)
LEMMA KnownFinish ==
  ASSUME NEW c \in Calls, IInv, KnownInv, Finish(c)
  PROVE  KnownInv'
  <1> DEFINE t      == ask[c].token
             result == [advice |-> Advise(ask[c].strategy, t, seen[c].found, offered[c].found),
                        covers |-> seen[c].covers,
                        faulty |-> seen[c].faulty \/ offered[c].faulty,
                        age    |-> Older(seen[c].age, offered[c].age),
                        left   |-> OptimizerTTL]
  <1>0. /\ pc[c] = "reading" /\ toKeep[c] = {}
        /\ pc' = [pc EXCEPT ![c] = "idle"]
        /\ advices' = IF ask[c].kind = "optimize" THEN [advices EXCEPT ![t] = result]
                      ELSE advices
        /\ ask' = [ask EXCEPT ![c] = NoAsk]
        /\ seen' = [seen EXCEPT ![c] = NoPositions]
        /\ offered' = [offered EXCEPT ![c] = NoOffers]
        /\ taken' = [taken EXCEPT ![c] = 0]
        /\ UNCHANGED <<rate, holding, quiet, rates, positions, offers, toSee, fetch, toOffer,
                       toKeep>>
    BY DEF Finish, marketVars
  <1>1. toSee[c] = {} /\ toOffer[c] = {}
    BY <1>0 DEF IInv, CallsInv, CallInv, Reading
  <1>2. CallsKnow /\ CallKnows(c) /\ CallsType /\ Reading(c) /\ MarketInv /\ quiet \in Nat
    BY <1>0, <1>1 DEF KnownInv, CallsKnow, IInv, CallsInv, CallInv
  <1>3. t \in Tokens
    BY <1>2, MenuType DEF Reading
  <1>4. /\ seen[c].found \in SUBSET Position /\ offered[c].found \in SUBSET Offer
        /\ seen[c].age \in Nat /\ offered[c].age \in Nat
    BY <1>2 DEF CallsType, PositionEntry, OfferEntry
  <1>5. ask[c].kind = "optimize" => AdviceTrue(result, t, quiet, holding, rate)
    <2> SUFFICES ASSUME ask[c].kind = "optimize", Recent(result, quiet), ~ result.faulty,
                        t \in result.covers
                 PROVE  result.advice = Advise(result.advice.strategy, t,
                                               AllHeld(holding, rate), AllOffers(t, rate))
      BY DEF AdviceTrue
    <2>1. /\ Recent(seen[c], quiet) /\ Recent(offered[c], quiet)
          /\ ~ seen[c].faulty /\ ~ offered[c].faulty /\ t \in seen[c].covers
      <3>1. /\ result.age = Older(seen[c].age, offered[c].age)
            /\ result.faulty = (seen[c].faulty \/ offered[c].faulty)
            /\ result.covers = seen[c].covers
        OBVIOUS
      <3> HIDE DEF result
      <3>2. result.age < quiet
        BY DEF Recent
      <3>3. seen[c].age < quiet /\ offered[c].age < quiet
        BY <1>2, <1>4, <3>1, <3>2 DEF Older
      <3> QED
        BY <3>1, <3>3 DEF Recent
    <2>2. result.advice.strategy = ask[c].strategy
      BY DEF Advise
    <2>3. \A x \in Position : x.token = t =>
              (x \in seen[c].found <=> x \in AllHeld(holding, rate))
      <3>1. PositionsTrue(seen[c], {}, quiet, holding, rate)
        BY <1>0, <1>1, <1>2 DEF CallKnows
      <3> HIDE DEF t
      <3> QED
        BY <1>2, <2>1, <3>1, AllHeldType DEF PositionsTrue
    <2>4. offered[c].found = AllOffers(t, rate)
      <3>1. OffersTrue(offered[c], t, {}, quiet, rate)
        BY <1>0, <1>1, <1>2 DEF CallKnows
      <3> HIDE DEF t
      <3>2. \A x \in Offer : x \in offered[c].found <=> x \in AllOffers(t, rate)
        BY <1>2, <1>3, <2>1, <3>1, AllOffersType DEF OffersTrue
      <3>3. AllOffers(t, rate) \in SUBSET Offer
        BY <1>2, <1>3, AllOffersType
      <3> QED
        BY <1>4, <3>2, <3>3
    <2>5. AllHeld(holding, rate) \in SUBSET Position
      BY <1>2, AllHeldType
    <2>6. Advise(ask[c].strategy, t, seen[c].found, offered[c].found)
            = Advise(ask[c].strategy, t, AllHeld(holding, rate), offered[c].found)
      <3> HIDE DEF t
      <3> QED
        BY <1>4, <2>3, <2>5, AdviseOnToken
    <2> QED
      BY <2>2, <2>4, <2>6
  <1> HIDE DEF result, t
  <1>6. AdvicesKnown'
    <2>1. advices \in [Tokens -> AdviceEntry] /\ AdvicesKnown
      BY DEF IInv, AdvicesInv, KnownInv
    <2>2. CASE ask[c].kind = "optimize"
      <3>1. \A u \in Tokens : advices'[u] = IF u = t THEN result ELSE advices[u]
        BY <1>0, <1>1, <2>1, <2>2
      <3>2. ASSUME NEW u \in Tokens, Live(advices'[u])
            PROVE  AdviceTrue(advices'[u], u, quiet, holding, rate)
        <4>1. CASE u = t
          BY <1>5, <2>2, <3>1, <4>1
        <4>2. CASE u # t
          BY <2>1, <3>1, <3>2, <4>2 DEF AdvicesKnown
        <4> QED
          BY <4>1, <4>2
      <3> QED
        BY <1>0, <1>1, <3>2 DEF AdvicesKnown, Live
    <2>3. CASE ask[c].kind # "optimize"
      <3>1. advices' = advices
        BY <1>0, <1>1, <2>3
      <3> QED
        BY <1>0, <1>1, <2>1, <3>1 DEF AdvicesKnown, Live
    <2> QED
      BY <2>2, <2>3
  <1>7. RatesKnown' /\ PositionsKnown' /\ OffersKnown' /\ quiet' \in Nat
    BY <1>0, <1>1 DEF KnownInv, RatesKnown, PositionsKnown, OffersKnown, Live
  <1>8. CallKnows(c)'
    BY <1>0, <1>1, <1>2 DEF CallsType, CallKnows
  <1>9. CallsKnow'
    BY <1>0, <1>1, <1>2, <1>8, OthersKnow DEF CallsType
  <1>10. FetchesKnown'
    <2> SUFFICES ASSUME NEW d \in Calls, NEW p \in Protocols, NEW v \in Tokens
                 PROVE  FetchTrue(d, p, v)'
      BY DEF FetchesKnown
    <2>1. CASE d = c
      <3>1. fetch[c][<<p, v>>] = Unasked
        BY <1>1, NothingFetched
      <3> QED
        BY <1>0, <2>1, <3>1 DEF FetchTrue, Unasked
    <2>2. CASE d # c
      <3>1. taken'[d] = taken[d] /\ FetchTrue(d, p, v)
        BY <1>0, <1>2, <2>2 DEF CallsType, KnownInv, FetchesKnown
      <3> QED
        BY <1>0, <3>1 DEF FetchTrue
    <2> QED
      BY <2>1, <2>2
  <1> QED
    BY <1>6, <1>7, <1>9, <1>10 DEF KnownInv

LEMMA KnownIsInductive == IInv /\ KnownInv /\ [Next]_vars => KnownInv'
  <1> SUFFICES ASSUME IInv, KnownInv, [Next]_vars PROVE KnownInv'
    OBVIOUS
  <1>1. CASE Tick
    BY <1>1, KnownTick
  <1>2. ASSUME NEW p \in Protocols, NEW t \in Tokens, NEW r \in Rates, SetRate(p, t, r)
        PROVE  KnownInv'
    BY <1>2, KnownMarket
  <1>3. ASSUME NEW p \in Protocols, NEW t \in Tokens, Move(p, t)
        PROVE  KnownInv'
    <2>1. rate[p][t] \in Rates
      BY DEF IInv, MarketInv
    <2>2. SetRate(p, t, rate[p][t]) \/ Move(p, t)
      BY <1>3
    <2> QED
      BY <2>1, <2>2, KnownMarket
  <1>4. ASSUME NEW c \in Calls, NEW q \in Menu, Begin(c, q)
        PROVE  KnownInv'
    BY <1>4, KnownBegin
  <1>5. ASSUME NEW c \in Calls, NEW p \in Protocols, NEW t \in Tokens,
               \/ ReadBalance(c, p, t) \/ AskRate(c, p, t) \/ ReadRate(c, p, t)
               \/ CacheRate(c, p, t) \/ LosePosition(c, p, t)
        PROVE  KnownInv'
    BY <1>5, KnownReadBalance, KnownAskRate, KnownReadRate, KnownCacheRate, KnownLosePosition
  <1>6. ASSUME NEW c \in Calls, NEW p \in Protocols, NEW failed \in BOOLEAN,
               SeeOffer(c, p, failed)
        PROVE  KnownInv'
    BY <1>6, KnownSeeOffer
  <1>7. ASSUME NEW c \in Calls, KeepPositions(c) \/ KeepOffers(c) \/ Finish(c)
        PROVE  KnownInv'
    BY <1>7, KnownKeepPositions, KnownKeepOffers, KnownFinish
  <1>8. CASE UNCHANGED vars
    <2>1. UNCHANGED <<rate, holding, quiet, cacheVars, callVars>>
      BY <1>8 DEF vars, cacheVars, callVars
    <2>a. rate' = rate /\ holding' = holding /\ quiet' = quiet
      BY <2>1
    <2>b. rates' = rates /\ positions' = positions /\ offers' = offers /\ advices' = advices
      BY <2>1 DEF cacheVars
    <2>2. RatesKnown' /\ quiet' \in Nat
      BY <2>a, <2>b DEF KnownInv, RatesKnown, Live
    <2>3. PositionsKnown'
      BY <2>a, <2>b DEF KnownInv, PositionsKnown, Live
    <2>5. OffersKnown'
      BY <2>a, <2>b DEF KnownInv, OffersKnown, Live
    <2>6. AdvicesKnown'
      BY <2>a, <2>b DEF KnownInv, AdvicesKnown, Live
    <2>4. CallsKnow'
      <3>1. ASSUME NEW c \in Calls PROVE CallKnows(c)'
        <4>1. CallKnows(c)
          BY DEF KnownInv, CallsKnow
        <4> QED
          BY <2>1, <4>1 DEF CallKnows, callVars
      <3> QED
        BY <3>1 DEF CallsKnow
    <2>7. FetchesKnown'
      BY <2>1, <2>a DEF KnownInv, FetchesKnown, FetchTrue, callVars
    <2> QED
      BY <2>2, <2>3, <2>4, <2>5, <2>6, <2>7 DEF KnownInv
  <1>9. ASSUME Next PROVE KnownInv'
    <2>1. CASE \E p \in Protocols, t \in Tokens : (\E r \in Rates : SetRate(p, t, r)) \/ Move(p, t)
      BY <2>1, <1>2, <1>3
    <2>2. CASE \E c \in Calls :
                   \/ \E q \in Menu : Begin(c, q)
                   \/ \E p \in Protocols, t \in Tokens :
                         \/ ReadBalance(c, p, t) \/ AskRate(c, p, t) \/ ReadRate(c, p, t)
                         \/ CacheRate(c, p, t) \/ LosePosition(c, p, t)
                   \/ KeepPositions(c) \/ KeepOffers(c)
                   \/ \E p \in Protocols, failed \in BOOLEAN : SeeOffer(c, p, failed)
                   \/ Finish(c)
      BY <2>2, <1>4, <1>5, <1>6, <1>7
    <2> QED
      BY <1>1, <1>9, <2>1, <2>2 DEF Next
  <1> QED
    BY <1>8, <1>9

(* Once a market has been at rest for longer than the Horizon, what           *)
(* optimizePosition() returns from its cache is what it would compute from    *)
(* the market itself, whatever was asked and cached in between, unless a read *)
(* failed or the positions were cached for other tokens.                      *)
THEOREM AdviceSettles == Spec => []SettledAdvice
  <1>1. IInv /\ KnownInv => SettledAdvice
    <2> SUFFICES ASSUME IInv, KnownInv, NEW t \in Tokens,
                        Live(advices[t]), quiet > Horizon, ~ advices[t].faulty,
                        t \in advices[t].covers
                 PROVE  advices[t].advice = Advise(advices[t].advice.strategy, t,
                                                   AllHeld(holding, rate), AllOffers(t, rate))
      BY DEF SettledAdvice, AllHeld, AllOffers
    <2>1. advices[t] \in AdviceEntry /\ Within(advices[t], Horizon)
      BY DEF IInv, AdvicesInv
    <2>2. advices[t].age \in Nat /\ advices[t].left \in Int /\ quiet \in Nat
      BY <2>1 DEF AdviceEntry, KnownInv
    <2>3. Recent(advices[t], quiet)
      BY <2>1, <2>2, HorizonType DEF Live, Within, Recent
    <2> QED
      BY <2>3 DEF KnownInv, AdvicesKnown, AdviceTrue
  <1>2. Spec => [](IInv /\ KnownInv)
    <2>1. IInv /\ KnownInv /\ [Next]_vars => (IInv /\ KnownInv)'
      BY IInvIsInductive, KnownIsInductive
    <2> QED
      BY Initially, KnownInitially, <2>1, PTL DEF Spec
  <1> QED
    BY <1>1, <1>2, PTL
=============================================================================
