----------------------- MODULE WithdrawalFlowProofs -----------------------
(***************************************************************************)
(* What TLAPS proves of the withdrawal use case for every set of orders,   *)
(* accounts and vaults, every fee, and any interleaving and crash.         *)
(***************************************************************************)
EXTENDS WithdrawalFlow, SumTheorems, TLAPS

-----------------------------------------------------------------------------
(* Arithmetic of shares and fees.                                          *)

(* Truncating division.                                                    *)
LEMMA Quotient ==
    ASSUME NEW n \in Nat, NEW d \in Nat \ {0}
    PROVE  /\ n \div d \in Nat
           /\ d * (n \div d) <= n
  OBVIOUS

(* Remembering one more thing keeps the type of what a request has read.   *)
LEMMA ReadTyped ==
    ASSUME NEW s \in ReadType, NEW growth \in Nat, NEW p \in PositionType,
           NEW d \in DistributionType
    PROVE  /\ [s EXCEPT !.growth = growth] \in ReadType
           /\ [s EXCEPT !.position = p] \in ReadType
           /\ [s EXCEPT !.split = d] \in ReadType
  BY DEF ReadType

LEMMA ProductIsNat ==
    ASSUME NEW x \in Nat, NEW y \in Nat
    PROVE  x * y \in Nat
  OBVIOUS

(* A double of a number of parts is a natural number within Noise of it.   *)
LEMMA DoubleBounded ==
    ASSUME NEW x \in Nat, NEW y \in Doubles(x)
    PROVE  y \in Nat /\ x <= y + Noise /\ y <= x + Noise
  BY ConstantsAssumption DEF Doubles

(* Whatever the rounding, a split has natural shares and the yield it splits  *)
(* is one rounding error off the one it was given.                         *)
LEMMA SplitTyped ==
    ASSUME NEW yield \in Nat, NEW d \in Splits(yield)
    PROVE  /\ d \in DistributionType
           /\ d.raw <= yield + Noise
           /\ SplitTotal(d) \in Nat
<1>1. PICK raw \in Doubles(yield) \ {0} :
        d \in [raw      : {raw},
              enduser  : Doubles((raw * (Whole - ClientShare - PlatformFee)) \div Whole),
              client   : Doubles((raw * ClientShare) \div Whole),
              platform : Doubles((raw * PlatformFee) \div Whole)]
  BY DEF Splits
<1>2. raw \in Nat /\ raw <= yield + Noise
  BY DoubleBounded
<1>3. d \in DistributionType /\ d.raw = raw
  BY <1>1, <1>2 DEF DistributionType, Doubles
<1>4. SplitTotal(d) \in Nat
  BY <1>3 DEF SplitTotal, DistributionType
<1> QED BY <1>2, <1>3, <1>4

-----------------------------------------------------------------------------
(* What a request computes from what it has read.                          *)

LEMMA ValueIsNat ==
    ASSUME NEW p \in PositionType, NEW growth \in Nat
    PROVE  ValueOf(p, growth) \in Nat
<1>1. p.deposited \in Nat /\ p.entry \in Nat /\ Fraction \in Nat
  BY ConstantsAssumption DEF PositionType
<1> DEFINE parts == p.deposited * Fraction
           n == parts * growth
<1>2. parts \in Nat
  BY <1>1, ProductIsNat
<1>3. n \in Nat
  <2> HIDE DEF parts
  <2> QED BY <1>2, ProductIsNat
<1>4. CASE p.entry = 0
  BY <1>4 DEF ValueOf, CurrentValue
<1>5. CASE p.entry # 0
  <2>1. n \div p.entry \in Nat
    <3> HIDE DEF n
    <3> QED BY <1>1, <1>3, <1>5, Quotient
  <2> QED BY <2>1, <1>5 DEF ValueOf, CurrentValue
<1> QED BY <1>4, <1>5

LEMMA YieldIsNat ==
    ASSUME TypeOK, NEW o \in Orders
    PROVE  /\ Value(o) \in Nat
           /\ RawYield(o) \in Nat
           /\ seen[o].position.deposited * Fraction \in Nat
           /\ RawYield(o) > 0 =>
                 RawYield(o) + seen[o].position.deposited * Fraction = Value(o)
<1>1. seen[o].position \in PositionType /\ seen[o].growth \in Nat
  BY DEF TypeOK, ReadType
<1>2. Value(o) \in Nat
  BY <1>1, ValueIsNat DEF Value
<1>3. seen[o].position.deposited \in Nat /\ Fraction \in Nat
  BY <1>1, ConstantsAssumption DEF PositionType
<1> DEFINE parts == seen[o].position.deposited * Fraction
<1>4. parts \in Nat
  BY <1>3, ProductIsNat
<1>5. RawYield(o) = IF Value(o) > parts THEN Value(o) - parts ELSE 0
  BY DEF RawYield, CalculateYield
<1> HIDE DEF parts
<1>6. RawYield(o) \in Nat /\ (RawYield(o) > 0 => RawYield(o) + parts = Value(o))
  BY <1>2, <1>4, <1>5
<1> QED BY <1>2, <1>4, <1>6 DEF parts

(* The split of a yield: its shares are natural numbers, and the yield it     *)
(* splits is one rounding error off the one read.                          *)
SplitKnown(o) ==
    /\ RawYield(o) > 0
    /\ seen[o].split.raw <= RawYield(o) + Noise

(* A payout is never more than the position is worth and, when fees are     *)
(* deducted from a yield, leaves them in it but for the rounding.           *)
LEMMA PayoutBounded ==
    ASSUME TypeOK, NEW o \in Orders, Sufficient(o, seen[o].position),
           RawYield(o) > 0 => SplitKnown(o) /\ SplitStorable(seen[o].split)
    PROVE  /\ Payout(o) \in Nat
           /\ ~(RawYield(o) > 0 /\ req[o].deductFees) => Payout(o) <= Value(o)
           /\ RawYield(o) > 0 /\ req[o].deductFees =>
                 Payout(o) + seen[o].split.client + seen[o].split.platform
                     < Value(o) + Noise + Tolerance
<1> DEFINE parts == seen[o].position.deposited * Fraction
           raw == RawYield(o)
           asked == req[o].amount * Fraction
           split == seen[o].split
           value == Value(o)
<1>1. parts \in Nat /\ raw \in Nat /\ value \in Nat /\ (raw > 0 => raw + parts = value)
  BY YieldIsNat
<1>2. asked \in Nat /\ asked <= value
  <2>1. req[o].amount \in Nat /\ Fraction \in Nat
    BY ConstantsAssumption DEF TypeOK
  <2> QED BY <2>1, ProductIsNat DEF Sufficient, Value
<1>3. /\ split.enduser \in Nat /\ split.client \in Nat /\ split.platform \in Nat
      /\ split.raw \in Nat
  BY DEF TypeOK, ReadType, DistributionType
<1>4. Payout(o) = IF raw > 0 /\ req[o].deductFees THEN parts + split.enduser ELSE asked
  BY DEF Payout
<1>5. raw > 0 => /\ split.raw <= raw + Noise
                 /\ split.enduser + split.client + split.platform - split.raw < Tolerance
  <2>1. SplitTotal(split) = split.enduser + split.client + split.platform
    BY DEF SplitTotal
  <2>2. raw > 0 => split.raw <= raw + Noise
    BY DEF SplitKnown
  <2>3. raw > 0 => SplitTotal(split) - split.raw < Tolerance
    BY DEF SplitStorable
  <2> HIDE DEF raw, split
  <2> QED BY <1>3, <2>1, <2>2, <2>3, ConstantsAssumption
<1>6. Noise \in Nat /\ Tolerance \in Nat
  BY ConstantsAssumption
<1> HIDE DEF parts, raw, asked, split, value
<1>7. Payout(o) \in Nat
  BY <1>1, <1>2, <1>3, <1>4
<1>8. ~(raw > 0 /\ req[o].deductFees) => Payout(o) <= value
  BY <1>2, <1>4
<1>9. ASSUME raw > 0, req[o].deductFees
      PROVE  Payout(o) + split.client + split.platform < value + Noise + Tolerance
  <2>1. Payout(o) = parts + split.enduser
    BY <1>4, <1>9
  <2> QED BY <2>1, <1>1, <1>3, <1>5, <1>6, <1>9
<1> QED BY <1>7, <1>8, <1>9 DEF raw, split, value

(* What can be asked of a position worth it has a growth index to divide by. *)
LEMMA GrowthIsPositive ==
    ASSUME TypeOK, NEW o \in Orders, Sufficient(o, seen[o].position), req[o].amount > 0
    PROVE  seen[o].growth \in Nat \ {0}
<1>1. seen[o].growth \in Nat /\ req[o].amount \in Nat \ {0} /\ Fraction \in Nat \ {0}
      /\ seen[o].position.entry \in Nat \ {0} /\ seen[o].position.deposited \in Nat
  BY ConstantsAssumption DEF TypeOK, ReadType, Sufficient, PositionType
<1>2. SUFFICES ASSUME seen[o].growth = 0 PROVE FALSE
  BY <1>1
<1>3. req[o].amount * Fraction > 0
  BY <1>1
<1>4. ValueOf(seen[o].position, 0) = 0
  <2> DEFINE parts == seen[o].position.deposited * Fraction
  <2>1. parts \in Nat
    BY <1>1, ProductIsNat
  <2>2. ValueOf(seen[o].position, 0) = (parts * 0) \div seen[o].position.entry
    BY <1>1 DEF ValueOf, CurrentValue
  <2> HIDE DEF parts
  <2>3. parts * 0 = 0
    BY <2>1
  <2> QED BY <1>1, <2>2, <2>3
<1> QED BY <1>2, <1>3, <1>4, <1>1 DEF Sufficient

-----------------------------------------------------------------------------
(* The inductive invariant.                                                *)

(* What a request in flight has written so far, and that it computes with a  *)
(* position that was worth what it was asked.                              *)
RequestKnown(o) ==
    /\ pc[o] \in {"idle", "readGrowth", "readPosition", "recordYield", "distribute", "create"}
          => status[o] = "none" /\ queue[o].amount = 0 /\ paid[o] = 0
    /\ pc[o] \in {"recordYield", "distribute", "create", "enqueue", "debit"}
          => Sufficient(o, seen[o].position)
    /\ pc[o] \in {"recordYield", "distribute"} => RawYield(o) > 0
    /\ pc[o] \in {"idle", "readGrowth", "readPosition", "recordYield", "distribute"}
          => distribution[o] = NoDistribution
    /\ pc[o] \in {"idle", "readGrowth", "readPosition", "recordYield"}
          => seen[o].split = NoDistribution
    /\ pc[o] = "distribute" => SplitKnown(o)
    /\ pc[o] \in {"create", "enqueue", "debit"}
          => /\ distribution[o] = seen[o].split
             /\ RawYield(o) = 0 => seen[o].split = NoDistribution
             /\ RawYield(o) > 0 => SplitKnown(o) /\ SplitStorable(seen[o].split)
    /\ pc[o] \in {"enqueue", "debit"} => req[o].amount > 0 /\ status[o] # "none" /\ paid[o] = 0
    /\ pc[o] = "enqueue" => queue[o].amount = 0
    /\ pc[o] = "debit" => queue[o].amount = Payout(o)
    /\ paid[o] # 0 => status[o] # "none" /\ paid[o] = queue[o].amount

WithdrawalInv == TypeOK /\ \A o \in Orders : RequestKnown(o)

(* A step that leaves an order and its request alone keeps what is known.   *)
Mine(o) == <<status[o], queue[o], distribution[o], pc[o], req[o], seen[o], paid[o]>>

LEMMA UntouchedIsKnown ==
    ASSUME NEW o \in Orders, RequestKnown(o), Mine(o)' = Mine(o)
    PROVE  RequestKnown(o)'
BY DEF RequestKnown, Mine, Sufficient, SplitKnown, RawYield, Value, Payout

LEMMA OthersUntouched ==
    ASSUME TypeOK, NEW o \in Orders, NEW amount, NEW deductFees,
           Begin(o, amount, deductFees) \/ Statement(o) \/ Crash(o),
           NEW other \in Orders \ {o}
    PROVE  Mine(other)' = Mine(other)
BY DEF TypeOK, Mine, Begin, Statement, ReadGrowth, ReadPosition, Reject, RecordYield,
       SplitRefused, CreateDistribution, DistributionRefused, CreateWithdrawal, CreateRefused,
       CreateWithdrawalQueue, UpdateVaultWithdrawal, Crash, Goto, Return, dbVars

-----------------------------------------------------------------------------
(* Type correctness.  The statements that divide or subtract need what is    *)
(* known of the request.                                                   *)

LEMMA BlankTyped ==
    /\ NoRequest \in [amount : Nat, deductFees : BOOLEAN]
    /\ Unread \in ReadType
    /\ NoDistribution \in DistributionType
BY DEF NoRequest, Unread, NoPosition, NoDistribution, PositionType, DistributionType, ReadType

LEMMA WeightedIndexIsNat ==
    ASSUME NEW old \in Nat, NEW entry \in Nat, NEW amount \in Nat, NEW growth \in Nat
    PROVE  CalculateWeightedIndex(old, entry, amount, growth) \in Nat
<1> DEFINE sum == old + amount
           n == old * entry + amount * growth
<1>1. sum \in Nat /\ n \in Nat
  BY ProductIsNat
<1>2. CalculateWeightedIndex(old, entry, amount, growth) = IF sum = 0 THEN growth ELSE n \div sum
  BY DEF CalculateWeightedIndex
<1> HIDE DEF sum, n
<1> QED BY <1>1, <1>2, Quotient

(* Of a request about to write: the amounts it writes are natural numbers,  *)
(* and what it pays is not nothing.                                        *)
LEMMA WritesTyped ==
    ASSUME WithdrawalInv, NEW o \in Orders
    PROVE  /\ seen[o].split \in DistributionType
           /\ SplitTotal(seen[o].split) \in Nat
           /\ pc[o] \in {"enqueue", "debit"} =>
                 /\ Payout(o) \in Nat \ {0}
                 /\ CalculateShares(Payout(o) * MicroUnits, seen[o].growth) \in Nat
<1>1. TypeOK /\ RequestKnown(o)
  BY DEF WithdrawalInv
<1>2. RawYield(o) \in Nat
  BY <1>1, YieldIsNat
<1>3. seen[o].split \in DistributionType
  BY <1>1 DEF TypeOK, ReadType
<1>4. SplitTotal(seen[o].split) \in Nat
  BY <1>3 DEF SplitTotal, DistributionType
<1>5. ASSUME pc[o] \in {"enqueue", "debit"}
      PROVE  /\ Payout(o) \in Nat \ {0}
             /\ CalculateShares(Payout(o) * MicroUnits, seen[o].growth) \in Nat
  <2>1. Sufficient(o, seen[o].position) /\ req[o].amount > 0
    BY <1>1, <1>5 DEF RequestKnown
  <2>2. seen[o].growth \in Nat \ {0}
    BY <1>1, <2>1, GrowthIsPositive
  <2>3. Payout(o) \in Nat
    <3>1. RawYield(o) > 0 => SplitKnown(o) /\ SplitStorable(seen[o].split)
      BY <1>1, <1>5 DEF RequestKnown
    <3> QED BY <1>1, <2>1, <3>1, PayoutBounded
  <2>4. Payout(o) # 0
    <3> DEFINE deposited == seen[o].position.deposited
               enduser == seen[o].split.enduser
    <3>1. req[o].amount \in Nat \ {0} /\ Fraction \in Nat \ {0} /\ deposited \in Nat
          /\ seen[o].position.entry \in Nat \ {0}
      BY <1>1, <2>1, ConstantsAssumption DEF TypeOK, ReadType, PositionType, Sufficient
    <3>2. req[o].amount * Fraction > 0
      BY <3>1
    <3>3. enduser \in Nat
      BY <1>3 DEF DistributionType
    <3>4. deposited # 0
      <4> SUFFICES ASSUME deposited = 0 PROVE FALSE
        OBVIOUS
      <4>1. ValueOf(seen[o].position, seen[o].growth) =
              ((0 * Fraction) * seen[o].growth) \div seen[o].position.entry
        BY <3>1 DEF ValueOf, CurrentValue
      <4>2. 0 * Fraction = 0 /\ 0 * seen[o].growth = 0
        BY <2>2, <3>1
      <4>3. ValueOf(seen[o].position, seen[o].growth) = 0
        BY <4>1, <4>2, <3>1
      <4> QED BY <4>3, <3>2, <2>1, <3>1 DEF Sufficient
    <3>5. deposited * Fraction > 0
      BY <3>1, <3>4
    <3>6. Payout(o) = IF RawYield(o) > 0 /\ req[o].deductFees
                      THEN deposited * Fraction + enduser ELSE req[o].amount * Fraction
      BY DEF Payout
    <3> DEFINE parts == deposited * Fraction
    <3>7. parts \in Nat
      BY <3>1, ProductIsNat
    <3> HIDE DEF deposited, enduser
    <3> QED BY <3>2, <3>3, <3>5, <3>6, <3>7
  <2> DEFINE n == Payout(o) * MicroUnits * Scale
  <2>5. n \in Nat
    <3>1. MicroUnits \in Nat /\ Scale \in Nat
      BY ConstantsAssumption, ScaleAssumption
    <3>2. Payout(o) * MicroUnits \in Nat
      BY <3>1, <2>3, ProductIsNat
    <3> QED BY <3>1, <3>2, ProductIsNat
  <2>6. CalculateShares(Payout(o) * MicroUnits, seen[o].growth) = n \div seen[o].growth
    BY DEF CalculateShares
  <2> HIDE DEF n
  <2> QED BY <2>2, <2>3, <2>4, <2>5, <2>6, Quotient
<1> QED BY <1>3, <1>4, <1>5

LEMMA TypeStep == WithdrawalInv /\ [Next]_vars => TypeOK'
<1> USE ConstantsAssumption, ScaleAssumption
<1> SUFFICES ASSUME WithdrawalInv, [Next]_vars PROVE TypeOK'
  OBVIOUS
<1> USE DEF TypeOK, Running, Ended
<1>0. TypeOK /\ \A o \in Orders : RequestKnown(o)
  BY DEF WithdrawalInv
<1>1. ASSUME NEW a \in Accounts, NEW v \in Vaults, NEW amount \in DepositAmounts,
             Deposit(a, v, amount)
      PROVE  TypeOK'
  <2>1. PICK growth \in 0 .. MaxIndex :
          position' = [position EXCEPT
            ![a].deposited = @ + amount,
            ![a].entry = CalculateWeightedIndex(position[a].deposited, @, amount, growth)]
    BY <1>1 DEF Deposit
  <2>2. amount \in Nat /\ growth \in Nat /\ position[a] \in PositionType
    BY <1>0
  <2>3. CalculateWeightedIndex(position[a].deposited, position[a].entry, amount, growth) \in Nat
    BY <2>2, WeightedIndexIsNat DEF PositionType
  <2> DEFINE deposited == position[a].deposited + amount
             entry == CalculateWeightedIndex(position[a].deposited, position[a].entry,
                                             amount, growth)
             row == [position[a] EXCEPT !.deposited = deposited, !.entry = entry]
  <2>4. position' \in [Accounts -> PositionType]
    <3>1. deposited \in Nat /\ entry \in Nat
      BY <2>2, <2>3 DEF PositionType
    <3>2. position' = [position EXCEPT ![a] = row]
      BY <1>0, <2>1, <2>2 DEF PositionType
    <3> HIDE DEF deposited, entry
    <3>3. row \in PositionType
      BY <2>2, <3>1 DEF PositionType
    <3> HIDE DEF row
    <3> QED BY <1>0, <3>2, <3>3
  <2>5. aum' \in [Vaults -> Nat]
    BY <1>0, <1>1, <2>2 DEF Deposit
  <2> QED BY <1>0, <1>1, <2>4, <2>5 DEF Deposit
<1>2. ASSUME NEW v \in Vaults, AccrueIndex(v)
      PROVE  TypeOK'
  BY <1>0, <1>2 DEF AccrueIndex
<1>3. ASSUME NEW o \in Orders, NEW amount \in Amounts, NEW deductFees \in BOOLEAN,
             Begin(o, amount, deductFees)
      PROVE  TypeOK'
  BY <1>0, <1>3 DEF Begin, Goto, dbVars
<1>4. ASSUME NEW o \in Orders, ReadGrowth(o)
      PROVE  TypeOK'
  <2>1. PICK growth \in 0 .. MaxIndex : seen' = [seen EXCEPT ![o].growth = growth]
    BY <1>4 DEF ReadGrowth
  <2> DEFINE read == [seen[o] EXCEPT !.growth = growth]
  <2>2. seen' \in [Orders -> ReadType]
    <3>1. seen' = [seen EXCEPT ![o] = read]
      BY <1>0, <2>1, Zenon
    <3>2. read \in ReadType
      <4>1. seen[o] \in ReadType /\ seen[o].position \in PositionType
            /\ seen[o].split \in DistributionType
        BY <1>0 DEF ReadType
      <4>2. growth \in Nat
        OBVIOUS
      <4> QED BY <4>1, <4>2, ReadTyped
    <3>3. seen \in [Orders -> ReadType]
      BY <1>0
    <3> HIDE DEF read
    <3> QED BY <3>1, <3>2, <3>3, Zenon
  <2> QED BY <1>0, <1>4, <2>2 DEF ReadGrowth, Goto, dbVars
<1>5. ASSUME NEW o \in Orders, ReadPosition(o)
      PROVE  TypeOK'
  <2>1. position[AccountOf[o]] \in PositionType
    BY <1>0
  <2>2. seen' = [seen EXCEPT ![o].position = position[AccountOf[o]]]
    BY <1>5 DEF ReadPosition
  <2> DEFINE read == [seen[o] EXCEPT !.position = position[AccountOf[o]]]
  <2>3. seen' \in [Orders -> ReadType]
    <3>1. seen' = [seen EXCEPT ![o] = read]
      BY <1>0, <2>2, Zenon
    <3>2. read \in ReadType
      <4>1. seen[o] \in ReadType
        BY <1>0
      <4>2. seen[o].growth \in Nat /\ seen[o].split \in DistributionType
        BY <4>1 DEF ReadType
      <4> QED BY <2>1, <4>1, <4>2, ReadTyped
    <3>3. seen \in [Orders -> ReadType]
      BY <1>0
    <3> HIDE DEF read
    <3> QED BY <3>1, <3>2, <3>3, Zenon
  <2>4. pc' \in [Orders -> {"idle"} \cup Running \cup Ended]
    BY <1>0, <1>5 DEF ReadPosition, Goto
  <2> QED BY <1>0, <1>5, <2>3, <2>4 DEF ReadPosition, dbVars
<1>6. ASSUME NEW o \in Orders, Reject(o)
      PROVE  TypeOK'
  BY <1>0, <1>6, BlankTyped DEF Reject, Return, dbVars
<1>7. ASSUME NEW o \in Orders, RecordYield(o)
      PROVE  TypeOK'
  <2>1. PICK d \in Splits(RawYield(o)) :
          /\ \E recorded \in Doubles(SplitTotal(d)) :
               cumulativeYield' = [cumulativeYield EXCEPT ![NewestVault] = @ + recorded]
          /\ seen' = [seen EXCEPT ![o].split = d]
    BY <1>7 DEF RecordYield
  <2>2. d \in DistributionType /\ SplitTotal(d) \in Nat
    BY <1>0, YieldIsNat, SplitTyped
  <2>3. cumulativeYield' \in [Vaults -> Nat]
    <3>1. PICK recorded \in Nat :
            cumulativeYield' = [cumulativeYield EXCEPT ![NewestVault] = @ + recorded]
      BY <2>1, <2>2, DoubleBounded
    <3> QED BY <1>0, <3>1
  <2> DEFINE read == [seen[o] EXCEPT !.split = d]
  <2>4. seen' \in [Orders -> ReadType]
    <3>1. seen' = [seen EXCEPT ![o] = read]
      BY <1>0, <2>1, Zenon
    <3>2. read \in ReadType
      <4>1. seen[o] \in ReadType /\ seen[o].position \in PositionType
            /\ seen[o].growth \in Nat
        BY <1>0 DEF ReadType
      <4> QED BY <2>2, <4>1, ReadTyped
    <3>3. seen \in [Orders -> ReadType]
      BY <1>0
    <3> HIDE DEF read
    <3> QED BY <3>1, <3>2, <3>3, Zenon
  <2> QED BY <1>0, <1>7, <2>3, <2>4 DEF RecordYield, Goto
<1>8. ASSUME NEW o \in Orders, CreateDistribution(o)
      PROVE  TypeOK'
  <2> DEFINE split == seen[o].split
  <2>1. split \in DistributionType
    BY WritesTyped
  <2>2. distribution' = [distribution EXCEPT ![o] = split]
    BY <1>8 DEF CreateDistribution
  <2> HIDE DEF split
  <2>3. distribution' \in [Orders -> DistributionType]
    BY <1>0, <2>1, <2>2
  <2> QED BY <1>0, <1>8, <2>3 DEF CreateDistribution, Goto
<1>9. ASSUME NEW o \in Orders, CreateWithdrawal(o)
      PROVE  TypeOK'
  BY <1>0, <1>9 DEF CreateWithdrawal, Goto
<1>10. ASSUME NEW o \in Orders, SplitRefused(o) \/ DistributionRefused(o) \/ CreateRefused(o)
       PROVE  TypeOK'
  <2>1. Return(o, "failed") /\ UNCHANGED <<dbVars, paid>>
    BY <1>10 DEF SplitRefused, DistributionRefused, CreateRefused
  <2> QED BY <1>0, <2>1, BlankTyped DEF Return, dbVars
<1>11. ASSUME NEW o \in Orders, CreateWithdrawalQueue(o)
       PROVE  TypeOK'
  <2> DEFINE payout == Payout(o)
             shares == CalculateShares(Payout(o) * MicroUnits, seen[o].growth)
  <2>1. payout \in Nat /\ shares \in Nat
    BY <1>11, WritesTyped DEF CreateWithdrawalQueue
  <2>2. queue' = [queue EXCEPT ![o] = [amount |-> payout, shares |-> shares]]
    BY <1>11 DEF CreateWithdrawalQueue
  <2> HIDE DEF payout, shares
  <2>3. queue' \in [Orders -> [amount : Nat, shares : Nat]]
    BY <1>0, <2>1, <2>2
  <2> QED BY <1>0, <1>11, <2>3 DEF CreateWithdrawalQueue, Goto
<1>12. ASSUME NEW o \in Orders, UpdateVaultWithdrawal(o)
       PROVE  TypeOK'
  <2> DEFINE payout == Payout(o)
             a == AccountOf[o]
  <2>1. payout \in Nat /\ a \in Accounts
    BY <1>12, WritesTyped DEF UpdateVaultWithdrawal
  <2>2. /\ position' = [position EXCEPT ![a].withdrawn = @ + payout]
        /\ paid' = [paid EXCEPT ![o] = payout]
    BY <1>12 DEF UpdateVaultWithdrawal
  <2> HIDE DEF payout, a
  <2> DEFINE row == [position[a] EXCEPT !.withdrawn = @ + payout]
  <2>3. position' \in [Accounts -> PositionType]
    <3>1. position' = [position EXCEPT ![a] = row]
      BY <1>0, <2>1, <2>2, Zenon
    <3>2. position[a] \in PositionType
      BY <1>0, <2>1
    <3>3. row \in PositionType
      BY <2>1, <3>2 DEF PositionType
    <3> HIDE DEF row
    <3> QED BY <1>0, <3>1, <3>3
  <2>4. paid' \in [Orders -> Nat]
    BY <1>0, <2>1, <2>2
  <2> QED BY <1>0, <1>12, <2>3, <2>4, BlankTyped DEF UpdateVaultWithdrawal, Return
<1>13. ASSUME NEW o \in Orders, Crash(o)
       PROVE  TypeOK'
  BY <1>0, <1>13, BlankTyped DEF Crash, Return, dbVars
<1>14. ASSUME NEW o \in Orders, CompleteWithdrawal(o) \/ FailWithdrawal(o)
       PROVE  TypeOK'
  BY <1>0, <1>14 DEF CompleteWithdrawal, FailWithdrawal, Settle
<1>15. CASE UNCHANGED vars
  BY <1>0, <1>15 DEF vars
<1> QED
  BY <1>1, <1>2, <1>3, <1>4, <1>5, <1>6, <1>7, <1>8, <1>9, <1>10, <1>11, <1>12,
     <1>13, <1>14, <1>15 DEF Next, Statement

-----------------------------------------------------------------------------
(* Every statement of a request keeps what is known of it.                  *)
LEMMA StatementKeepsKnown ==
    ASSUME WithdrawalInv, NEW o \in Orders, Statement(o)
    PROVE  RequestKnown(o)'
<1>0. TypeOK /\ RequestKnown(o)
  BY DEF WithdrawalInv
<1> USE DEF TypeOK, ReadType, RequestKnown, Sufficient, RawYield, Value, Payout, SplitKnown,
            Goto, dbVars
<1>1. CASE ReadGrowth(o)
  <2>1. pc' = [pc EXCEPT ![o] = "readPosition"] /\ UNCHANGED <<dbVars, req, paid>>
        /\ pc[o] = "readGrowth" /\ \E growth : seen' = [seen EXCEPT ![o].growth = growth]
    BY <1>1 DEF ReadGrowth
  <2>2. seen'[o].split = seen[o].split
    BY <1>0, <2>1
  <2> QED BY <1>0, <2>1, <2>2
<1>2. CASE ReadPosition(o)
  <2> DEFINE p == position[AccountOf[o]]
             value == ValueOf(p, seen[o].growth)
             parts == p.deposited * Fraction
  <2>1. p \in PositionType /\ seen[o].growth \in Nat
    BY <1>0, ConstantsAssumption
  <2>2. value \in Nat /\ parts \in Nat
    BY <2>1, ValueIsNat, ProductIsNat, ConstantsAssumption DEF PositionType
  <2>3. /\ pc[o] = "readPosition" /\ UNCHANGED <<dbVars, req, paid>>
        /\ Sufficient(o, p)
        /\ seen' = [seen EXCEPT ![o].position = p]
        /\ pc' = [pc EXCEPT ![o] = IF value > parts THEN "recordYield" ELSE "create"]
    BY <1>2 DEF ReadPosition
  <2>4. seen'[o].position = p /\ seen'[o].growth = seen[o].growth
    BY <1>0, <2>3
  <2>5. Sufficient(o, seen[o].position)'
    BY <2>3, <2>4
  <2>6. RawYield(o)' = IF value > parts THEN value - parts ELSE 0
    BY <2>4 DEF CalculateYield
  <2>7. /\ (RawYield(o) > 0)' <=> value > parts
        /\ (RawYield(o) = 0)' <=> ~(value > parts)
    <3> HIDE DEF value, parts, RawYield
    <3> QED BY <2>2, <2>6
  <2>8. distribution'[o] = NoDistribution /\ status'[o] = "none" /\ queue'[o].amount = 0
        /\ paid'[o] = 0 /\ seen'[o].split = NoDistribution
    BY <1>0, <2>3
  <2>9. pc'[o] = IF value > parts THEN "recordYield" ELSE "create"
    BY <1>0, <2>3
  <2> HIDE DEF value, parts, RawYield, Sufficient, Payout, SplitKnown
  <2> QED BY <2>5, <2>7, <2>8, <2>9
<1>3. CASE Reject(o)
  BY <1>0, <1>3 DEF Reject, Return
<1>4. CASE RecordYield(o)
  <2>1. PICK d \in Splits(RawYield(o)) : seen' = [seen EXCEPT ![o].split = d]
    BY <1>4 DEF RecordYield
  <2>2. /\ seen'[o].position = seen[o].position /\ seen'[o].growth = seen[o].growth
        /\ seen'[o].split = d
    BY <1>0, <2>1
  <2>3. /\ pc[o] = "recordYield" /\ pc'[o] = "distribute"
        /\ UNCHANGED <<status, queue, distribution, req, paid>>
    BY <1>0, <1>4 DEF RecordYield
  <2>4. RawYield(o)' = RawYield(o) /\ (Sufficient(o, seen[o].position) =>
                                        Sufficient(o, seen[o].position)')
    BY <2>2, <2>3
  <2>5. d.raw <= RawYield(o) + Noise
    <3> HIDE DEF RawYield
    <3> QED BY <1>0, YieldIsNat, SplitTyped
  <2> HIDE DEF RawYield, Sufficient, Payout, TypeOK
  <2> QED BY <1>0, <2>2, <2>3, <2>4, <2>5
<1>5. CASE CreateDistribution(o) \/ SplitRefused(o) \/ DistributionRefused(o)
  <2>1. CASE CreateDistribution(o)
    <3>1. /\ pc[o] = "distribute" /\ pc'[o] = "create" /\ SplitStorable(seen[o].split)
          /\ distribution'[o] = seen[o].split
          /\ UNCHANGED <<status, queue, seen, req, paid>>
      BY <1>0, <2>1 DEF CreateDistribution
    <3>2. RawYield(o)' = RawYield(o) /\ RawYield(o) > 0 /\ RawYield(o) \in Nat
      <4>1. RawYield(o)' = RawYield(o) /\ RawYield(o) > 0
        BY <1>0, <3>1
      <4> HIDE DEF RawYield
      <4> QED BY <1>0, <4>1, YieldIsNat
    <3>3. Sufficient(o, seen[o].position)' /\ SplitKnown(o)'
      BY <1>0, <3>1
    <3> HIDE DEF RawYield, Sufficient, Payout, SplitKnown, TypeOK
    <3> QED BY <1>0, <3>1, <3>2, <3>3
  <2>2. CASE SplitRefused(o) \/ DistributionRefused(o)
    BY <1>0, <2>2 DEF SplitRefused, DistributionRefused, Return
  <2> QED BY <1>5, <2>1, <2>2
<1>6. CASE CreateWithdrawal(o)
  BY <1>0, <1>6 DEF CreateWithdrawal
<1>7. CASE CreateRefused(o)
  BY <1>0, <1>7 DEF CreateRefused, Return
<1>8. CASE CreateWithdrawalQueue(o)
  BY <1>0, <1>8 DEF CreateWithdrawalQueue
<1>9. CASE UpdateVaultWithdrawal(o)
  BY <1>0, <1>9 DEF UpdateVaultWithdrawal, Return
<1> QED BY <1>1, <1>2, <1>3, <1>4, <1>5, <1>6, <1>7, <1>8, <1>9 DEF Statement

LEMMA KnownStep == WithdrawalInv /\ [Next]_vars => \A o \in Orders : RequestKnown(o)'
<1> SUFFICES ASSUME WithdrawalInv, [Next]_vars, NEW order \in Orders
             PROVE  RequestKnown(order)'
  OBVIOUS
<1>0. TypeOK /\ RequestKnown(order)
  BY DEF WithdrawalInv
<1>1. CASE Mine(order)' = Mine(order)
  BY <1>0, <1>1, UntouchedIsKnown
<1>2. CASE UNCHANGED vars
  BY <1>1, <1>2 DEF vars, Mine
<1>3. ASSUME NEW a \in Accounts, NEW v \in Vaults, NEW amount \in DepositAmounts,
             Deposit(a, v, amount)
      PROVE  RequestKnown(order)'
  BY <1>1, <1>3 DEF Deposit, Mine
<1>4. ASSUME NEW v \in Vaults, AccrueIndex(v)
      PROVE  RequestKnown(order)'
  BY <1>1, <1>4 DEF AccrueIndex, Mine
<1>5. ASSUME NEW o \in Orders, NEW amount, NEW deductFees, Begin(o, amount, deductFees)
      PROVE  RequestKnown(order)'
  <2>1. CASE order = o
    BY <1>0, <1>5, <2>1 DEF Begin, Goto, dbVars, RequestKnown, TypeOK
  <2> QED BY <1>0, <1>1, <1>5, <2>1, OthersUntouched
<1>6. ASSUME NEW o \in Orders, Statement(o)
      PROVE  RequestKnown(order)'
  <2>1. CASE order = o
    BY <1>6, <2>1, StatementKeepsKnown
  <2> QED BY <1>0, <1>1, <1>6, <2>1, OthersUntouched
<1>7. ASSUME NEW o \in Orders, Crash(o)
      PROVE  RequestKnown(order)'
  <2>1. CASE order = o
    BY <1>0, <1>7, <2>1 DEF Crash, InFlight, Running, Return, dbVars, RequestKnown, TypeOK
  <2> QED BY <1>0, <1>1, <1>7, <2>1, OthersUntouched
<1>8. ASSUME NEW o \in Orders, CompleteWithdrawal(o) \/ FailWithdrawal(o)
      PROVE  RequestKnown(order)'
  <2>1. status[o] # "none" /\ UNCHANGED <<queue, distribution, pc, req, seen, paid>>
    BY <1>8 DEF CompleteWithdrawal, FailWithdrawal, Settle
  <2>2. PICK outcome \in {"completed", "failed"} : status' = [status EXCEPT ![o] = outcome]
    BY <1>8 DEF CompleteWithdrawal, FailWithdrawal, Settle
  <2>3. CASE order = o
    BY <1>0, <2>1, <2>2, <2>3
       DEF RequestKnown, TypeOK, Sufficient, SplitKnown, RawYield, Value, Payout
  <2>4. CASE order # o
    BY <1>0, <1>1, <2>1, <2>2, <2>4 DEF Mine, TypeOK
  <2> QED BY <2>3, <2>4
<1> QED BY <1>2, <1>3, <1>4, <1>5, <1>6, <1>7, <1>8 DEF Next

(* Whatever interleaves or dies, the types hold and each request has written *)
(* exactly what its program counter says.                                  *)
THEOREM WithdrawalInvariance == Spec => []WithdrawalInv
<1>1. Init => WithdrawalInv
  <2> SUFFICES ASSUME Init PROVE WithdrawalInv
    OBVIOUS
  <2>1. TypeOK
    BY BlankTyped, ScaleAssumption
       DEF Init, TypeOK, NoPosition, NotQueued, PositionType
  <2>2. ASSUME NEW o \in Orders PROVE RequestKnown(o)
    BY DEF Init, RequestKnown, NotQueued, Unread
  <2> QED BY <2>1, <2>2 DEF WithdrawalInv
<1>2. WithdrawalInv /\ [Next]_vars => WithdrawalInv'
  BY TypeStep, KnownStep DEF WithdrawalInv
<1> QED BY <1>1, <1>2, PTL DEF Spec

(* The values of the variables are always of their types.                  *)
THEOREM TypeCorrect == Spec => []TypeOK
BY WithdrawalInvariance, PTL DEF WithdrawalInv

(* What an account is debited is what the unstaking queue holds for the order. *)
THEOREM DebitsAreQueued == Spec => []DebitIsQueued
<1>1. WithdrawalInv => DebitIsQueued
  BY DEF WithdrawalInv, RequestKnown, DebitIsQueued
<1> QED BY <1>1, WithdrawalInvariance, PTL

(* For all fees and any rounding, a payout queued is covered by the position  *)
(* as the request read it, fees included, up to the rounding of the yield and *)
(* the tolerance of its split.                                             *)
THEOREM FeesStay == Spec => PayoutLeavesFees
<1> DEFINE Covered(o) ==
             IF req[o].deductFees
             THEN queue'[o].amount + distribution[o].client + distribution[o].platform
                    < Value(o) + Noise + Tolerance
             ELSE queue'[o].amount <= Value(o)
<1>1. WithdrawalInv /\ [Next]_vars => [\A o \in Orders : queue'[o] # queue[o] => Covered(o)]_vars
  <2> SUFFICES ASSUME WithdrawalInv, Next, NEW o \in Orders, queue'[o] # queue[o]
               PROVE  Covered(o)
    OBVIOUS
  <2>0. TypeOK /\ RequestKnown(o)
    BY DEF WithdrawalInv
  <2>1. CreateWithdrawalQueue(o)
    <3>1. PICK other \in Orders : CreateWithdrawalQueue(other)
      BY DEF Next, Statement, Deposit, AccrueIndex, Begin, ReadGrowth, ReadPosition, Reject,
             RecordYield, SplitRefused, CreateDistribution, DistributionRefused,
             CreateWithdrawal, CreateRefused, UpdateVaultWithdrawal, Crash,
             CompleteWithdrawal, FailWithdrawal, Settle, dbVars, Return
    <3> QED BY <2>0, <3>1 DEF CreateWithdrawalQueue, TypeOK
  <2>2. pc[o] = "enqueue" /\ queue'[o].amount = Payout(o)
    BY <2>0, <2>1 DEF CreateWithdrawalQueue, TypeOK
  <2>3. /\ Sufficient(o, seen[o].position) /\ distribution[o] = seen[o].split
        /\ RawYield(o) = 0 => seen[o].split = NoDistribution
        /\ RawYield(o) > 0 => SplitKnown(o) /\ SplitStorable(seen[o].split)
    BY <2>0, <2>2 DEF RequestKnown
  <2>4. /\ Payout(o) \in Nat /\ Value(o) \in Nat /\ RawYield(o) \in Nat
        /\ ~(RawYield(o) > 0 /\ req[o].deductFees) => Payout(o) <= Value(o)
        /\ RawYield(o) > 0 /\ req[o].deductFees =>
              Payout(o) + distribution[o].client + distribution[o].platform
                < Value(o) + Noise + Tolerance
    BY <2>0, <2>3, PayoutBounded, YieldIsNat
  <2>5. CASE RawYield(o) = 0 /\ req[o].deductFees
    <3>1. distribution[o].client = 0 /\ distribution[o].platform = 0
      BY <2>3, <2>5 DEF NoDistribution
    <3> QED BY <2>2, <2>4, <2>5, <3>1, ConstantsAssumption
  <2>6. CASE ~(RawYield(o) = 0 /\ req[o].deductFees)
    BY <2>2, <2>4, <2>6
  <2> QED BY <2>5, <2>6
<1> QED BY <1>1, WithdrawalInvariance, PTL DEF Spec, PayoutLeavesFees

-----------------------------------------------------------------------------
(* Refinement of WithdrawalContract.                                       *)

(* What the contract sees of the queue and of the positions.               *)
Queued    == [o \in Orders |-> queue[o].amount]
Withdrawn == [a \in Accounts |-> position[a].withdrawn]

(* Every statement is a step of the contract or changes nothing it sees.    *)
THEOREM Refinement == Spec => ImplementsContract
<1>1. Init => Contract!Init
  BY DEF Init, Contract!Init, NotQueued, NoPosition
<1>2. WithdrawalInv /\ [Next]_vars => [Contract!Next]_(Contract!vars)
  <2> SUFFICES ASSUME WithdrawalInv, [Next]_vars
               PROVE  Contract!Next \/ UNCHANGED Contract!vars
    OBVIOUS
  <2>0. TypeOK
    BY DEF WithdrawalInv
  <2>1. CASE UNCHANGED <<status, queue, Withdrawn, paid>>
    BY <2>1 DEF Contract!vars, Withdrawn
  <2>2. CASE UNCHANGED <<status, queue, position, paid>>
    BY <2>1, <2>2 DEF Withdrawn
  <2>3. ASSUME NEW a \in Accounts, NEW v \in Vaults, NEW amount \in DepositAmounts,
               Deposit(a, v, amount)
        PROVE  UNCHANGED <<status, queue, Withdrawn, paid>>
    <3>1. PICK entry : position' = [position EXCEPT ![a].deposited = @ + amount,
                                                    ![a].entry = entry]
      BY <2>3 DEF Deposit
    <3>2. Withdrawn' = Withdrawn
      BY <2>0, <3>1 DEF Withdrawn, TypeOK, PositionType
    <3> QED BY <2>3, <3>2 DEF Deposit
  <2>4. ASSUME NEW o \in Orders, CreateWithdrawal(o)
        PROVE  Contract!Open(o)
    <3>1. status[o] = "none"
      BY <2>4 DEF CreateWithdrawal, WithdrawalInv, RequestKnown
    <3> QED BY <2>4, <3>1 DEF CreateWithdrawal, Contract!Open
  <2>5. ASSUME NEW o \in Orders, CreateWithdrawalQueue(o)
        PROVE  Contract!Enqueue(o)
    <3> DEFINE payout == Payout(o)
               shares == CalculateShares(Payout(o) * MicroUnits, seen[o].growth)
    <3>1. pc[o] = "enqueue"
      BY <2>5 DEF CreateWithdrawalQueue
    <3>2. status[o] # "none" /\ queue[o].amount = 0
      BY <3>1 DEF WithdrawalInv, RequestKnown
    <3>3. payout \in Nat \ {0}
      BY <3>1, WritesTyped
    <3>4. /\ queue' = [queue EXCEPT ![o] = [amount |-> payout, shares |-> shares]]
          /\ UNCHANGED <<status, position, paid>>
      BY <2>5 DEF CreateWithdrawalQueue
    <3> HIDE DEF payout, shares
    <3>5. Queued' = [Queued EXCEPT ![o] = payout]
      BY <2>0, <3>4 DEF Queued, TypeOK
    <3>6. Queued[o] = 0 /\ Queued'[o] = payout
      BY <3>2, <3>5 DEF Queued
    <3>7. UNCHANGED <<status, paid, Withdrawn>>
      BY <3>4 DEF Withdrawn
    <3> QED BY <3>2, <3>3, <3>5, <3>6, <3>7, Zenon DEF Contract!Enqueue, Queued, Withdrawn
  <2>6. ASSUME NEW o \in Orders, UpdateVaultWithdrawal(o)
        PROVE  Contract!Debit(o)
    <3> DEFINE payout == Payout(o)
               a == AccountOf[o]
    <3>1. pc[o] = "debit" /\ a \in Accounts
      BY <2>6, ConstantsAssumption DEF UpdateVaultWithdrawal
    <3>2. payout \in Nat \ {0} /\ queue[o].amount = payout /\ paid[o] = 0
      BY <3>1, WritesTyped DEF WithdrawalInv, RequestKnown
    <3>3. /\ position' = [position EXCEPT ![a].withdrawn = @ + payout]
          /\ paid' = [paid EXCEPT ![o] = payout]
          /\ UNCHANGED <<status, queue>>
      BY <2>6 DEF UpdateVaultWithdrawal
    <3> HIDE DEF payout, a
    <3>4. Queued[o] = payout /\ payout # 0
      BY <3>2 DEF Queued
    <3>5. Withdrawn' = [Withdrawn EXCEPT ![a] = @ + Queued[o]]
      <4> DEFINE row == [position[a] EXCEPT !.withdrawn = @ + payout]
      <4>1. position' = [position EXCEPT ![a] = row]
        BY <2>0, <3>1, <3>3, Zenon
      <4>2. position \in [Accounts -> PositionType] /\ position[a] \in PositionType
        BY <2>0, <3>1 DEF TypeOK
      <4>3. row.withdrawn = position[a].withdrawn + payout
        BY <4>2 DEF PositionType
      <4> HIDE DEF row
      <4> QED BY <3>1, <3>4, <4>1, <4>2, <4>3 DEF Withdrawn
    <3>6. paid' = [paid EXCEPT ![o] = Queued[o]]
      BY <3>3, <3>4
    <3>7. UNCHANGED <<status, Queued>>
      BY <3>3 DEF Queued
    <3> QED BY <3>2, <3>4, <3>5, <3>6, <3>7, Zenon DEF Contract!Debit, Queued, Withdrawn, a
  <2>7. ASSUME NEW o \in Orders, CompleteWithdrawal(o) \/ FailWithdrawal(o)
        PROVE  \E outcome \in {"completed", "failed"} : Contract!Settle(o, outcome)
    <3>1. PICK outcome \in {"completed", "failed"} : Settle(o, outcome)
      BY <2>7 DEF CompleteWithdrawal, FailWithdrawal
    <3>2. /\ status[o] # "none" /\ status' = [status EXCEPT ![o] = outcome]
          /\ UNCHANGED <<Queued, paid, Withdrawn>>
      BY <3>1 DEF Settle, Queued, Withdrawn
    <3>3. Contract!Settle(o, outcome)
      BY <3>2, Zenon DEF Contract!Settle, Queued, Withdrawn
    <3> QED BY <3>3
  <2>8. ASSUME NEW o \in Orders, Statement(o)
        PROVE  Contract!Next \/ UNCHANGED Contract!vars
    <3>1. CASE CreateWithdrawal(o)
      BY <2>4, <3>1 DEF Contract!Next
    <3>2. CASE CreateWithdrawalQueue(o)
      BY <2>5, <3>2 DEF Contract!Next
    <3>3. CASE UpdateVaultWithdrawal(o)
      BY <2>6, <3>3 DEF Contract!Next
    <3>4. CASE \/ ReadGrowth(o) \/ ReadPosition(o) \/ Reject(o) \/ RecordYield(o)
               \/ SplitRefused(o) \/ CreateDistribution(o) \/ DistributionRefused(o)
               \/ CreateRefused(o)
      BY <2>2, <3>4 DEF ReadGrowth, ReadPosition, Reject, RecordYield, SplitRefused,
                        CreateDistribution, DistributionRefused, CreateRefused, dbVars
    <3> QED BY <2>8, <3>1, <3>2, <3>3, <3>4 DEF Statement
  <2>9. CASE \E o \in Orders : CompleteWithdrawal(o) \/ FailWithdrawal(o)
    BY <2>7, <2>9 DEF Contract!Next
  <2>10. ASSUME NEW o \in Orders, NEW amount, NEW deductFees,
                Begin(o, amount, deductFees) \/ Crash(o)
         PROVE  UNCHANGED <<status, queue, position, paid>>
    BY <2>10 DEF Begin, Crash, dbVars
  <2>11. ASSUME NEW v \in Vaults, AccrueIndex(v)
         PROVE  UNCHANGED <<status, queue, position, paid>>
    BY <2>11 DEF AccrueIndex
  <2>12. CASE UNCHANGED vars
    BY <2>2, <2>12 DEF vars
  <2> QED
    BY <2>1, <2>2, <2>3, <2>8, <2>9, <2>10, <2>11, <2>12 DEF Next
<1> QED BY <1>1, <1>2, WithdrawalInvariance, PTL DEF Spec, ImplementsContract, Contract!Spec


-----------------------------------------------------------------------------
(* The debits of an account.                                               *)

LEMMA WithdrawnStep == WithdrawalInv /\ WithdrawnAdditive /\ [Next]_vars => WithdrawnAdditive'
<1> SUFFICES ASSUME WithdrawalInv, WithdrawnAdditive, [Next]_vars, NEW a \in Accounts
             PROVE  position'[a].withdrawn = SumOver(paid', OrdersOf(a))
  BY DEF WithdrawnAdditive, OrdersOf
<1>0. TypeOK /\ position[a].withdrawn = SumOver(paid, OrdersOf(a))
  BY DEF WithdrawalInv, WithdrawnAdditive
<1>1. CASE UNCHANGED <<position, paid>>
  BY <1>0, <1>1
<1>2. ASSUME NEW b \in Accounts, NEW v \in Vaults, NEW amount \in DepositAmounts,
             Deposit(b, v, amount)
      PROVE  position'[a].withdrawn = SumOver(paid', OrdersOf(a))
  <2>1. PICK entry : position' = [position EXCEPT ![b].deposited = @ + amount,
                                                  ![b].entry = entry]
    BY <1>2 DEF Deposit
  <2>2. position'[a].withdrawn = position[a].withdrawn
    BY <1>0, <2>1 DEF TypeOK, PositionType
  <2> QED BY <1>0, <1>2, <2>2 DEF Deposit
<1>3. ASSUME NEW o \in Orders, UpdateVaultWithdrawal(o)
      PROVE  position'[a].withdrawn = SumOver(paid', OrdersOf(a))
  <2> DEFINE payout == Payout(o)
             b == AccountOf[o]
             S == OrdersOf(a)
  <2>1. pc[o] = "debit" /\ b \in Accounts
    BY <1>3, ConstantsAssumption DEF UpdateVaultWithdrawal
  <2>2. payout \in Int /\ paid[o] = 0
    <3>1. payout \in Nat \ {0}
      BY <2>1, WritesTyped
    <3> QED BY <2>1, <3>1 DEF WithdrawalInv, RequestKnown
  <2>3. /\ position' = [position EXCEPT ![b].withdrawn = @ + payout]
        /\ paid' = [paid EXCEPT ![o] = payout]
    BY <1>3 DEF UpdateVaultWithdrawal
  <2> HIDE DEF payout, b
  <2>4. IsFiniteSet(S) /\ \A x \in S : paid[x] \in Int
    <3>1. S \subseteq Orders
      BY DEF OrdersOf
    <3> QED BY <1>0, <3>1, FS_Subset, ConstantsAssumption DEF TypeOK
  <2>5. \A x \in S : paid'[x] = IF x = o THEN paid[x] + payout ELSE paid[x]
    BY <1>0, <2>2, <2>3 DEF TypeOK, OrdersOf
  <2>6. SumOver(paid', S) = SumOver(paid, S) + (IF o \in S THEN payout ELSE 0)
    <3> HIDE DEF S
    <3>1. payout \in Int
      BY <2>2
    <3> QED BY ONLY <3>1, <2>4, <2>5, SumGrows
  <2>7. o \in S <=> a = b
    BY DEF OrdersOf, b
  <2>8. position'[a].withdrawn = position[a].withdrawn + (IF a = b THEN payout ELSE 0)
    <3>1. position[a].withdrawn \in Nat
      BY <1>0 DEF TypeOK, PositionType
    <3>2. CASE a = b
      BY <1>0, <2>3, <3>2 DEF TypeOK, PositionType
    <3>3. CASE a # b
      BY <1>0, <2>3, <3>1, <3>3 DEF TypeOK, PositionType
    <3> QED BY <3>2, <3>3
  <2> QED BY <1>0, <2>6, <2>7, <2>8
<1>4. CASE Next
  <2>1. \/ UNCHANGED <<position, paid>>
        \/ \E b \in Accounts, v \in Vaults, amount \in DepositAmounts : Deposit(b, v, amount)
        \/ \E o \in Orders : UpdateVaultWithdrawal(o)
    BY <1>4 DEF Next, Statement, AccrueIndex, Begin, ReadGrowth, ReadPosition, Reject, RecordYield,
           SplitRefused, CreateDistribution, DistributionRefused, CreateWithdrawal,
           CreateRefused, CreateWithdrawalQueue, Crash,
           CompleteWithdrawal, FailWithdrawal, Settle, dbVars
  <2> QED BY <2>1, <1>1, <1>2, <1>3
<1>5. CASE UNCHANGED vars
  BY <1>1, <1>5 DEF vars
<1> QED BY <1>4, <1>5

(* However requests interleave, an account has been debited exactly what its *)
(* requests have debited: the amount is added to the row, never put there.   *)
THEOREM DebitsAdd == Spec => []WithdrawnAdditive
<1>1. Init => WithdrawnAdditive
  <2> SUFFICES ASSUME Init, NEW a \in Accounts
               PROVE  position[a].withdrawn = SumOver(paid, OrdersOf(a))
    BY DEF WithdrawnAdditive
  <2>1. position[a].withdrawn = 0 /\ \A o \in OrdersOf(a) : paid[o] = 0
    BY DEF Init, NoPosition, OrdersOf
  <2>2. IsFiniteSet(OrdersOf(a))
    <3>1. OrdersOf(a) \subseteq Orders
      BY DEF OrdersOf
    <3> QED BY <3>1, FS_Subset, ConstantsAssumption
  <2> QED BY <2>1, <2>2, SumOfZeros
<1> QED BY <1>1, WithdrawnStep, WithdrawalInvariance, PTL DEF Spec

-----------------------------------------------------------------------------
(* The yield shared out.                                                   *)

(* What of an order's shares has to be recorded: those it has shared out, or   *)
(* those it has recorded and is about to share out.                         *)
Shared(o) == Backed(distribution[o])
               + (IF pc[o] = "distribute" THEN Backed(seen[o].split) ELSE 0)

(* The strengthening: yield is recorded before it is shared out.            *)
YieldInv == SumOver([o \in Orders |-> Shared(o)], Orders) <= SumOver(cumulativeYield, Vaults)

LEMMA SharedTyped ==
    ASSUME WithdrawalInv, NEW o \in Orders
    PROVE  /\ Shared(o) \in Nat
           /\ Backed(distribution[o]) \in Nat /\ Backed(seen[o].split) \in Nat
<1>1. SplitTotal(seen[o].split) \in Nat
  BY WritesTyped
<1>2. SplitTotal(distribution[o]) \in Nat
  BY DEF WithdrawalInv, TypeOK, SplitTotal, DistributionType
<1>3. Backed(distribution[o]) \in Nat /\ Backed(seen[o].split) \in Nat
  BY <1>1, <1>2, ConstantsAssumption DEF Backed
<1> QED BY <1>3 DEF Shared

(* Only recording adds to what an order shares out, and it adds the same to  *)
(* a vault; a crash between the two leaves the vault with more.             *)
LEMMA SharedStep ==
    ASSUME WithdrawalInv, [Next]_vars
    PROVE  \/ /\ cumulativeYield' = cumulativeYield
              /\ \A o \in Orders : Shared(o)' \in Nat /\ Shared(o)' <= Shared(o)
           \/ \E o \in Orders, n \in Nat, recorded \in Nat :
                 /\ n <= recorded
                 /\ cumulativeYield' = [cumulativeYield EXCEPT ![NewestVault] = @ + recorded]
                 /\ \A x \in Orders : Shared(x)' = IF x = o THEN Shared(x) + n ELSE Shared(x)
<1> DEFINE Same == \A o \in Orders : Shared(o)' \in Nat /\ Shared(o)' <= Shared(o)
<1>0. TypeOK /\ \A o \in Orders : RequestKnown(o) /\ Shared(o) \in Nat
  BY SharedTyped DEF WithdrawalInv
<1>1. ASSUME NEW x \in Orders, Mine(x)' = Mine(x)
      PROVE  Shared(x)' = Shared(x) /\ Shared(x)' \in Nat /\ Shared(x)' <= Shared(x)
  BY <1>0, <1>1 DEF Mine, Shared
<1>2. CASE UNCHANGED vars
  BY <1>1, <1>2 DEF vars, Mine
<1>3. ASSUME \/ \E a \in Accounts, v \in Vaults, amount \in DepositAmounts : Deposit(a, v, amount)
             \/ \E v \in Vaults : AccrueIndex(v)
      PROVE  cumulativeYield' = cumulativeYield /\ Same
  BY <1>1, <1>3 DEF Deposit, AccrueIndex, Mine
<1>4. ASSUME NEW o \in Orders, CompleteWithdrawal(o) \/ FailWithdrawal(o)
      PROVE  cumulativeYield' = cumulativeYield /\ Same
  <2>1. UNCHANGED <<distribution, pc, seen, cumulativeYield>>
    BY <1>4 DEF CompleteWithdrawal, FailWithdrawal, Settle
  <2>2. \A x \in Orders : Shared(x)' = Shared(x)
    BY <2>1 DEF Shared
  <2> QED BY <1>0, <2>1, <2>2
<1>5. ASSUME NEW o \in Orders, NEW amount, NEW deductFees,
             Begin(o, amount, deductFees) \/ Statement(o) \/ Crash(o)
      PROVE  \A x \in Orders \ {o} : /\ Shared(x)' = Shared(x)
                                  /\ Shared(x)' \in Nat /\ Shared(x)' <= Shared(x)
  BY <1>0, <1>1, <1>5, OthersUntouched
<1>6. ASSUME NEW o \in Orders, NEW amount, NEW deductFees,
             \/ Begin(o, amount, deductFees) \/ Crash(o)
             \/ ReadGrowth(o) \/ ReadPosition(o) \/ Reject(o) \/ SplitRefused(o)
             \/ DistributionRefused(o) \/ CreateWithdrawal(o) \/ CreateRefused(o)
             \/ CreateWithdrawalQueue(o) \/ UpdateVaultWithdrawal(o)
      PROVE  cumulativeYield' = cumulativeYield /\ Same
  <2>1. distribution' = distribution /\ pc'[o] # "distribute" /\ cumulativeYield' = cumulativeYield
    BY <1>0, <1>6 DEF Begin, Crash, ReadGrowth, ReadPosition, Reject, SplitRefused,
           DistributionRefused, CreateWithdrawal, CreateRefused, CreateWithdrawalQueue,
           UpdateVaultWithdrawal, Goto, Return, dbVars, TypeOK
  <2>2. Shared(o)' = Backed(distribution[o]) + 0
    BY <2>1 DEF Shared
  <2>3. Shared(o)' \in Nat /\ Shared(o)' <= Shared(o)
    BY <1>0, <2>2, SharedTyped DEF Shared
  <2>4. Begin(o, amount, deductFees) \/ Statement(o) \/ Crash(o)
    BY <1>6 DEF Statement
  <2> QED BY <1>5, <2>1, <2>3, <2>4
<1>7. ASSUME NEW o \in Orders, CreateDistribution(o)
      PROVE  cumulativeYield' = cumulativeYield /\ Same
  <2> DEFINE n == Backed(seen[o].split)
  <2>1. /\ pc[o] = "distribute" /\ distribution[o] = NoDistribution
        /\ pc'[o] = "create" /\ distribution'[o] = seen[o].split
        /\ cumulativeYield' = cumulativeYield
    BY <1>0, <1>7 DEF CreateDistribution, Goto, TypeOK, RequestKnown
  <2>2. Backed(NoDistribution) = 0
    BY ConstantsAssumption DEF Backed, SplitTotal, NoDistribution
  <2>3. n \in Nat
    BY SharedTyped
  <2>4. Shared(o)' = n /\ Shared(o) = n
    <3>1. Backed(distribution[o])' = n
      BY <2>1 DEF Backed
    <3> HIDE DEF n
    <3>2. Shared(o)' = n + 0
      BY <2>1, <3>1 DEF Shared
    <3>3. Shared(o) = 0 + n
      BY <2>1, <2>2 DEF Shared, n
    <3> QED BY <2>3, <3>2, <3>3
  <2> HIDE DEF n
  <2>5. Statement(o)
    BY <1>7 DEF Statement
  <2> QED BY <1>5, <2>1, <2>3, <2>4, <2>5
<1>8. ASSUME NEW o \in Orders, RecordYield(o)
      PROVE  \E n \in Nat, recorded \in Nat :
               /\ n <= recorded
               /\ cumulativeYield' = [cumulativeYield EXCEPT ![NewestVault] = @ + recorded]
               /\ \A x \in Orders : Shared(x)' = IF x = o THEN Shared(x) + n ELSE Shared(x)
  <2>1. PICK d \in Splits(RawYield(o)) :
          /\ \E recorded \in Doubles(SplitTotal(d)) :
               cumulativeYield' = [cumulativeYield EXCEPT ![NewestVault] = @ + recorded]
          /\ seen' = [seen EXCEPT ![o].split = d]
    BY <1>8 DEF RecordYield
  <2>2. SplitTotal(d) \in Nat
    BY <1>0, YieldIsNat, SplitTyped
  <2>3. PICK recorded \in Nat :
          /\ SplitTotal(d) <= recorded + Noise
          /\ cumulativeYield' = [cumulativeYield EXCEPT ![NewestVault] = @ + recorded]
    BY <2>1, <2>2, DoubleBounded
  <2> DEFINE n == Backed(d)
  <2>4. n \in Nat /\ n <= recorded
    BY <2>2, <2>3, ConstantsAssumption DEF Backed
  <2>5. /\ pc[o] = "recordYield" /\ pc'[o] = "distribute" /\ distribution' = distribution
        /\ seen'[o].split = d
    BY <1>0, <1>8, <2>1 DEF RecordYield, Goto, TypeOK, ReadType
  <2>6. Shared(o) = Backed(distribution[o]) + 0
    BY <2>5 DEF Shared
  <2>7. Shared(o)' = Backed(distribution[o]) + n
    BY <2>5 DEF Shared
  <2>8. Statement(o)
    BY <1>8 DEF Statement
  <2> HIDE DEF n
  <2>9. Shared(o)' = Shared(o) + n
    BY <2>4, <2>6, <2>7, SharedTyped
  <2> QED BY <1>5, <2>3, <2>4, <2>8, <2>9
<1> QED BY <1>2, <1>3, <1>4, <1>6, <1>7, <1>8 DEF Next, Statement

LEMMA YieldStep == WithdrawalInv /\ YieldInv /\ [Next]_vars => YieldInv'
<1> SUFFICES ASSUME WithdrawalInv, YieldInv, [Next]_vars PROVE YieldInv'
  OBVIOUS
<1> DEFINE before == [o \in Orders |-> Shared(o)]
           after  == [o \in Orders |-> Shared(o)']
<1>1. /\ IsFiniteSet(Orders) /\ IsFiniteSet(Vaults) /\ TypeOK'
      /\ cumulativeYield \in [Vaults -> Nat]
  BY ConstantsAssumption, TypeStep DEF WithdrawalInv, TypeOK
<1>2. \A o \in Orders : before[o] \in Int /\ after[o] \in Int
  BY SharedTyped, SharedStep
<1>3. SumOver(before, Orders) <= SumOver(cumulativeYield, Vaults)
  BY DEF YieldInv
<1>4. /\ SumOver(before, Orders) \in Int /\ SumOver(after, Orders) \in Int
      /\ SumOver(cumulativeYield, Vaults) \in Int
  <2>1. \A v \in Vaults : cumulativeYield[v] \in Int
    BY <1>1
  <2> HIDE DEF before, after
  <2>2. SumOver(before, Orders) \in Int /\ SumOver(after, Orders) \in Int
    BY ONLY <1>1, <1>2, SumIsInt
  <2>3. SumOver(cumulativeYield, Vaults) \in Int
    BY ONLY <1>1, <2>1, SumIsInt
  <2> QED BY <2>2, <2>3
<1>5. SUFFICES SumOver(after, Orders) <= SumOver(cumulativeYield', Vaults)
  BY DEF YieldInv
<1>6. CASE /\ cumulativeYield' = cumulativeYield
           /\ \A o \in Orders : Shared(o)' \in Nat /\ Shared(o)' <= Shared(o)
  <2>1. \A o \in Orders : after[o] \in Int /\ before[o] \in Int /\ after[o] <= before[o]
    BY <1>2, <1>6
  <2> HIDE DEF before, after
  <2>2. SumOver(after, Orders) <= SumOver(before, Orders)
    BY ONLY <1>1, <2>1, SumIsOrdered
  <2> QED BY <1>3, <1>4, <1>6, <2>2
<1>7. ASSUME NEW o \in Orders, NEW n \in Nat, NEW recorded \in Nat, n <= recorded,
             cumulativeYield' = [cumulativeYield EXCEPT ![NewestVault] = @ + recorded],
             \A x \in Orders : Shared(x)' = IF x = o THEN Shared(x) + n ELSE Shared(x)
      PROVE  SumOver(after, Orders) <= SumOver(cumulativeYield', Vaults)
  <2>1. /\ n \in Int /\ \A x \in Orders : before[x] \in Int
        /\ \A x \in Orders : after[x] = IF x = o THEN before[x] + n ELSE before[x]
    BY <1>2, <1>7
  <2> HIDE DEF before, after
  <2>2. SumOver(after, Orders) = SumOver(before, Orders) + (IF o \in Orders THEN n ELSE 0)
    BY ONLY <1>1, <2>1, SumGrows
  <2>3. SumOver(cumulativeYield', Vaults)
          = SumOver(cumulativeYield, Vaults) + (IF NewestVault \in Vaults THEN recorded ELSE 0)
    <3>1. IsFiniteSet(Vaults) /\ \A v \in Vaults : cumulativeYield[v] \in Int
      BY <1>1
    <3>2. \A v \in Vaults : cumulativeYield'[v] = IF v = NewestVault
                                                  THEN cumulativeYield[v] + recorded
                                                  ELSE cumulativeYield[v]
      BY <1>1, <1>7
    <3>3. recorded \in Int
      OBVIOUS
    <3> QED BY ONLY <3>1, <3>2, <3>3, SumGrows
  <2> QED BY <1>3, <1>4, <1>7, <2>2, <2>3, ConstantsAssumption
<1> QED BY <1>6, <1>7, SharedStep

(* Yield is recorded before it is shared out, by every request.              *)
THEOREM YieldInvariance == Spec => []YieldInv
<1>1. Init => YieldInv
  <2> SUFFICES ASSUME Init PROVE YieldInv
    OBVIOUS
  <2> DEFINE shared == [o \in Orders |-> Shared(o)]
  <2>1. \A o \in Orders : shared[o] = 0
    BY ConstantsAssumption DEF Init, Shared, Backed, SplitTotal, NoDistribution
  <2>2. \A v \in Vaults : cumulativeYield[v] = 0
    BY DEF Init
  <2>3. SumOver(shared, Orders) = 0
    <3> HIDE DEF shared
    <3> QED BY <2>1, ConstantsAssumption, SumOfZeros
  <2>4. SumOver(cumulativeYield, Vaults) = 0
    BY <2>2, ConstantsAssumption, SumOfZeros
  <2> QED BY <2>3, <2>4 DEF YieldInv
<1> QED BY <1>1, YieldStep, WithdrawalInvariance, PTL DEF Spec

(* Wherever requests stop, yield shared out has been recorded in the         *)
(* cumulative yield of a vault before, but for the rounding of each sum.     *)
THEOREM YieldIsRecorded == Spec => []DistributionsBacked
<1>1. WithdrawalInv /\ YieldInv => DistributionsBacked
  <2> SUFFICES ASSUME WithdrawalInv, YieldInv PROVE DistributionsBacked
    OBVIOUS
  <2> DEFINE shared == [o \in Orders |-> Shared(o)]
             given  == [o \in Orders |-> Backed(distribution[o])]
  <2>1. IsFiniteSet(Orders) /\ IsFiniteSet(Vaults)
    BY ConstantsAssumption
  <2>2. \A o \in Orders : given[o] \in Int /\ shared[o] \in Int /\ given[o] <= shared[o]
    <3> SUFFICES ASSUME NEW o \in Orders
                 PROVE  Backed(distribution[o]) <= Shared(o)
      BY SharedTyped
    <3> QED BY SharedTyped DEF Shared
  <2>3. SumOver(shared, Orders) <= SumOver(cumulativeYield, Vaults)
    BY DEF YieldInv
  <2>4. \A v \in Vaults : cumulativeYield[v] \in Int
    BY DEF WithdrawalInv, TypeOK
  <2>5. SumOver(cumulativeYield, Vaults) \in Int
    BY ONLY <2>1, <2>4, SumIsInt
  <2>6. /\ SumOver(given, Orders) <= SumOver(shared, Orders)
        /\ SumOver(given, Orders) \in Int /\ SumOver(shared, Orders) \in Int
    <3> HIDE DEF given, shared
    <3> QED BY ONLY <2>1, <2>2, SumIsOrdered, SumIsInt
  <2>7. SumOver(given, Orders) <= SumOver(cumulativeYield, Vaults)
    <3> HIDE DEF given, shared
    <3> QED BY <2>3, <2>5, <2>6
  <2> QED BY <2>7 DEF DistributionsBacked
<1> QED BY <1>1, WithdrawalInvariance, YieldInvariance, PTL

===========================================================================
