---------------------------- MODULE VaultMath ----------------------------
(***************************************************************************)
(* The index arithmetic that every money flow shares.  Amounts are micro-  *)
(* units, an index is a fixed-point number whose 1.0 is Scale (1e18 in the *)
(* code, a small number in the models), and every division truncates       *)
(* (BigNumber.ROUND_DOWN followed by integerValue).                        *)
(***************************************************************************)
EXTENDS Integers, FiniteSets, Sums

CONSTANT Scale

ASSUME ScaleAssumption == Scale \in Nat \ {0}

(***************************************************************************)
(* Shares bought by an amount at an index, and what shares are worth.      *)
(***************************************************************************)
CalculateShares(amount, index) == (amount * Scale) \div index

CalculateValueFromShares(shares, index) == (shares * index) \div Scale

(***************************************************************************)
(* Entry index of a position of oldAmount bought at oldEntry after newAmount *)
(* more is bought at index: the amount-weighted mean, and the index itself *)
(* for an empty position.  (Swapped: the slip of weighting each index with  *)
(* the other amount.)                                                      *)
(***************************************************************************)
CalculateWeightedIndex_Swapped(oldAmount, oldEntry, newAmount, index) ==
    IF oldAmount + newAmount = 0
    THEN index
    ELSE (oldAmount * index + newAmount * oldEntry) \div (oldAmount + newAmount)

CalculateWeightedIndex(oldAmount, oldEntry, newAmount, index) ==
    IF oldAmount + newAmount = 0
    THEN index
    ELSE (oldAmount * oldEntry + newAmount * index) \div (oldAmount + newAmount)

(***************************************************************************)
(* What a position is worth today and the yield in it.  The use cases take *)
(* a zero entry index as "no position yet".                                *)
(***************************************************************************)
CurrentValue(deposited, entry, growth) ==
    IF entry = 0 THEN 0 ELSE (deposited * growth) \div entry

CalculateYield(value, basis) == IF value > basis THEN value - basis ELSE 0

(***************************************************************************)
(* The client growth index: the mean of the vault indexes weighted by the  *)
(* assets under management of each vault, 1.0 when nothing is managed.     *)
(***************************************************************************)
TotalAUM(aum) == SumOver(aum, DOMAIN aum)

WeightedIndexSum(aum, index) ==
    SumOver([v \in DOMAIN aum |-> aum[v] * index[v]], DOMAIN aum)

IsGrowthIndex(g, aum, index) ==
    IF TotalAUM(aum) = 0
    THEN g = Scale
    ELSE /\ g * TotalAUM(aum) <= WeightedIndexSum(aum, index)
         /\ WeightedIndexSum(aum, index) < (g + 1) * TotalAUM(aum)
==========================================================================
