---------------------------- MODULE SumTheorems ----------------------------
(***************************************************************************)
(* How sums over finite sets change, from the definition of the fold.  The *)
(* invariants of the ledgers rest on these facts.                          *)
(***************************************************************************)
EXTENDS Sums, FiniteSetTheorems, TLAPS

(* Induction over a finite set, as the search for a smallest counterexample: *)
(* of some subsets of a finite set, one has no other of them inside it.      *)
LEMMA MinimalSubset ==
    ASSUME NEW S, IsFiniteSet(S), NEW B \in SUBSET (SUBSET S), B # {}
    PROVE  \E T \in B : \A U \in SUBSET T : U # T => U \notin B
<1>1. IsWellFoundedOn(StrictSubsetOrdering(S), FiniteSubsetsOf(S))
  BY FS_StrictSubsetOrderingWellFounded
<1>2. B \subseteq FiniteSubsetsOf(S)
  BY FS_FiniteSubsetsOfFinite
<1>3. PICK T \in B : \A U \in B : ~ (<<U, T>> \in StrictSubsetOrdering(S))
  BY <1>1, <1>2, WFMin
<1> QED BY <1>3 DEF StrictSubsetOrdering

(* The member of a set that the fold takes first, and the equation that the *)
(* function inside the fold is chosen to satisfy.                            *)
Chosen(T) == CHOOSE x \in T : TRUE

Unfolds(g, f, S) ==
    g = [T \in SUBSET S |-> IF T = {} THEN 0 ELSE f[Chosen(T)] + g[T \ {Chosen(T)}]]

(* The sum is the value of that function.                                   *)
LEMMA SumIsFold ==
    ASSUME NEW f, NEW S
    PROVE  SumOver(f, S) = (CHOOSE g : Unfolds(g, f, S))[S]
BY DEF SumOver, MapThenSumSet, MapThenFoldSet, Unfolds, Chosen

(* What is taken from a set is in it.                                        *)
LEMMA ChosenIsMember == ASSUME NEW T, T # {} PROVE Chosen(T) \in T
BY DEF Chosen

(* The equation has at most one solution.                                   *)
LEMMA UnfoldingIsUnique ==
    ASSUME NEW f, NEW S, IsFiniteSet(S), NEW g, Unfolds(g, f, S), NEW h, Unfolds(h, f, S)
    PROVE  g = h
<1> DEFINE B == {T \in SUBSET S : g[T] # h[T]}
<1>1. SUFFICES ASSUME B # {} PROVE FALSE
  BY DEF Unfolds
<1>2. PICK T \in B : \A U \in SUBSET T : U # T => U \notin B
  <2>1. B \in SUBSET (SUBSET S)
    OBVIOUS
  <2> HIDE DEF B
  <2> QED BY <1>1, <2>1, MinimalSubset
<1>3. CASE T = {}
  BY <1>3 DEF Unfolds
<1>4. CASE T # {}
  <2>1. Chosen(T) \in T
    BY <1>4, ChosenIsMember
  <2>2. g[T \ {Chosen(T)}] = h[T \ {Chosen(T)}]
    BY <1>2, <2>1
  <2>3. /\ g[T] = f[Chosen(T)] + g[T \ {Chosen(T)}]
        /\ h[T] = f[Chosen(T)] + h[T \ {Chosen(T)}]
    BY <1>4 DEF Unfolds
  <2> QED BY <2>2, <2>3
<1> QED BY <1>3, <1>4

(* What the sum comes to, taking one member first.                          *)
Unfolded(f, T) == IF T = {} THEN 0 ELSE f[Chosen(T)] + SumOver(f, T \ {Chosen(T)})

(* The equation has a solution, so that the sum does what its definition     *)
(* says: at a smallest set where it did not, the sums of the smaller sets    *)
(* make one.                                                                 *)
LEMMA SumUnfolds ==
    ASSUME NEW f, NEW S, IsFiniteSet(S)
    PROVE  SumOver(f, S) = Unfolded(f, S)
<1> DEFINE B == {T \in SUBSET S : SumOver(f, T) # Unfolded(f, T)}
<1>1. SUFFICES ASSUME B # {} PROVE FALSE
  OBVIOUS
<1>2. PICK T \in B : \A U \in SUBSET T : U # T => U \notin B
  <2>1. B \in SUBSET (SUBSET S)
    OBVIOUS
  <2> HIDE DEF B
  <2> QED BY <1>1, <2>1, MinimalSubset
<1>3. IsFiniteSet(T)
  BY FS_Subset
<1> DEFINE h == [U \in SUBSET T |-> IF U = T THEN Unfolded(f, T) ELSE SumOver(f, U)]
<1>4. Unfolds(h, f, T)
  <2>1. ASSUME NEW U \in SUBSET T
        PROVE  h[U] = IF U = {} THEN 0 ELSE f[Chosen(U)] + h[U \ {Chosen(U)}]
    <3>1. h[U] = Unfolded(f, U)
      BY <1>2
    <3>2. CASE U = {}
      BY <3>1, <3>2 DEF Unfolded
    <3>3. CASE U # {}
      <4>1. Chosen(U) \in U
        BY <3>3, ChosenIsMember
      <4>2. U \ {Chosen(U)} # T /\ U \ {Chosen(U)} \in SUBSET T
        BY <4>1
      <4>3. h[U \ {Chosen(U)}] = SumOver(f, U \ {Chosen(U)})
        BY <4>2
      <4> QED BY <3>1, <3>3, <4>3 DEF Unfolded
    <3> QED BY <3>2, <3>3
  <2>2. h = [U \in SUBSET T |-> h[U]]
    OBVIOUS
  <2> HIDE DEF h
  <2> QED BY <2>1, <2>2 DEF Unfolds
<1> HIDE DEF h
<1>5. Unfolds(CHOOSE g : Unfolds(g, f, T), f, T)
  BY <1>4
<1>6. (CHOOSE g : Unfolds(g, f, T)) = h
  BY <1>3, <1>4, <1>5, UnfoldingIsUnique
<1>7. SumOver(f, T) = h[T]
  BY <1>6, SumIsFold
<1> QED BY <1>2, <1>7 DEF h

(* Nothing sums up to zero.                                                 *)
THEOREM SumOfNothing == ASSUME NEW f PROVE SumOver(f, {}) = 0
BY SumUnfolds, FS_EmptySet DEF Unfolded

(* Integers sum up to an integer.                                           *)
THEOREM SumIsInt ==
    ASSUME NEW S, IsFiniteSet(S), NEW f, \A x \in S : f[x] \in Int
    PROVE  SumOver(f, S) \in Int
<1> DEFINE B == {T \in SUBSET S : SumOver(f, T) \notin Int}
<1>1. SUFFICES ASSUME B # {} PROVE FALSE
  OBVIOUS
<1>2. PICK T \in B : \A U \in SUBSET T : U # T => U \notin B
  <2>1. B \in SUBSET (SUBSET S)
    OBVIOUS
  <2> HIDE DEF B
  <2> QED BY <1>1, <2>1, MinimalSubset
<1>3. SumOver(f, T) = Unfolded(f, T)
  BY SumUnfolds, FS_Subset
<1>4. T # {}
  BY <1>3 DEF Unfolded
<1>5. Chosen(T) \in T
  BY <1>4, ChosenIsMember
<1>6. SumOver(f, T \ {Chosen(T)}) \in Int
  BY <1>2, <1>5
<1>7. f[Chosen(T)] \in Int
  BY <1>5
<1> QED BY <1>3, <1>4, <1>6, <1>7 DEF Unfolded

(* The order in which the fold takes the members does not matter: any of     *)
(* them may be taken out first.                                              *)
THEOREM SumTakesOut ==
    ASSUME NEW S, IsFiniteSet(S), NEW f, \A x \in S : f[x] \in Int, NEW x \in S
    PROVE  SumOver(f, S) = f[x] + SumOver(f, S \ {x})
<1> DEFINE B == {T \in SUBSET S : \E y \in T : SumOver(f, T) # f[y] + SumOver(f, T \ {y})}
<1>1. SUFFICES ASSUME B # {} PROVE FALSE
  OBVIOUS
<1>2. PICK T \in B : \A U \in SUBSET T : U # T => U \notin B
  <2>1. B \in SUBSET (SUBSET S)
    OBVIOUS
  <2> HIDE DEF B
  <2> QED BY <1>1, <2>1, MinimalSubset
<1>3. PICK y \in T : SumOver(f, T) # f[y] + SumOver(f, T \ {y})
  OBVIOUS
<1> DEFINE c == Chosen(T)
<1>4. c \in T
  BY ChosenIsMember
<1> HIDE DEF c
<1>5. SumOver(f, T) = f[c] + SumOver(f, T \ {c})
  BY <1>4, SumUnfolds, FS_Subset DEF Unfolded, c
<1>6. c # y
  BY <1>3, <1>5
<1> DEFINE rest == (T \ {c}) \ {y}
<1>7. SumOver(f, T \ {c}) = f[y] + SumOver(f, rest)
  BY <1>2, <1>4, <1>6
<1>8. SumOver(f, T \ {y}) = f[c] + SumOver(f, rest)
  <2>1. (T \ {y}) \ {c} = rest
    OBVIOUS
  <2>2. T \ {y} \notin B /\ T \ {y} \in SUBSET S /\ c \in T \ {y}
    BY <1>2, <1>4, <1>6
  <2> HIDE DEF rest
  <2> QED BY <2>1, <2>2
<1>9. SumOver(f, rest) \in Int
  BY SumIsInt, FS_Subset
<1>10. f[c] \in Int /\ f[y] \in Int
  BY <1>4
<1> HIDE DEF rest
<1> QED BY <1>3, <1>5, <1>7, <1>8, <1>9, <1>10

(* The sum depends on what the function has for the members alone.          *)
THEOREM SumOfSame ==
    ASSUME NEW S, IsFiniteSet(S), NEW f, NEW g, \A x \in S : f[x] = g[x]
    PROVE  SumOver(f, S) = SumOver(g, S)
<1> DEFINE B == {T \in SUBSET S : SumOver(f, T) # SumOver(g, T)}
<1>1. SUFFICES ASSUME B # {} PROVE FALSE
  OBVIOUS
<1>2. PICK T \in B : \A U \in SUBSET T : U # T => U \notin B
  <2>1. B \in SUBSET (SUBSET S)
    OBVIOUS
  <2> HIDE DEF B
  <2> QED BY <1>1, <2>1, MinimalSubset
<1>3. SumOver(f, T) = Unfolded(f, T) /\ SumOver(g, T) = Unfolded(g, T)
  BY SumUnfolds, FS_Subset
<1>4. T # {}
  BY <1>3 DEF Unfolded
<1>5. Chosen(T) \in T
  BY <1>4, ChosenIsMember
<1>6. SumOver(f, T \ {Chosen(T)}) = SumOver(g, T \ {Chosen(T)})
  BY <1>2, <1>5
<1>7. f[Chosen(T)] = g[Chosen(T)]
  BY <1>5
<1> QED BY <1>3, <1>4, <1>6, <1>7 DEF Unfolded

(* Larger values do not sum up to less.                                     *)
THEOREM SumIsOrdered ==
    ASSUME NEW S, IsFiniteSet(S), NEW f, NEW g,
           \A x \in S : f[x] \in Int /\ g[x] \in Int /\ f[x] <= g[x]
    PROVE  SumOver(f, S) <= SumOver(g, S)
<1> DEFINE B == {T \in SUBSET S : ~ (SumOver(f, T) <= SumOver(g, T))}
<1>1. SUFFICES ASSUME B # {} PROVE FALSE
  OBVIOUS
<1>2. PICK T \in B : \A U \in SUBSET T : U # T => U \notin B
  <2>1. B \in SUBSET (SUBSET S)
    OBVIOUS
  <2> HIDE DEF B
  <2> QED BY <1>1, <2>1, MinimalSubset
<1>3. SumOver(f, T) = Unfolded(f, T) /\ SumOver(g, T) = Unfolded(g, T)
  BY SumUnfolds, FS_Subset
<1>4. T # {}
  BY <1>3 DEF Unfolded
<1> DEFINE rest == T \ {Chosen(T)}
<1>5. Chosen(T) \in T /\ rest \in SUBSET S
  BY <1>4, ChosenIsMember
<1>6. SumOver(f, rest) <= SumOver(g, rest)
  BY <1>2, <1>5
<1>7. f[Chosen(T)] \in Int /\ g[Chosen(T)] \in Int /\ f[Chosen(T)] <= g[Chosen(T)]
  BY <1>5
<1>8. SumOver(f, rest) \in Int /\ SumOver(g, rest) \in Int
  BY <1>5, SumIsInt, FS_Subset
<1>9. /\ SumOver(f, T) = f[Chosen(T)] + SumOver(f, rest)
      /\ SumOver(g, T) = g[Chosen(T)] + SumOver(g, rest)
  BY <1>3, <1>4 DEF Unfolded
<1> HIDE DEF rest
<1> QED BY <1>6, <1>7, <1>8, <1>9

(* Zeros sum up to zero.                                                    *)
THEOREM SumOfZeros ==
    ASSUME NEW S, IsFiniteSet(S), NEW f, \A x \in S : f[x] = 0
    PROVE  SumOver(f, S) = 0
<1> DEFINE B == {T \in SUBSET S : SumOver(f, T) # 0}
<1>1. SUFFICES ASSUME B # {} PROVE FALSE
  OBVIOUS
<1>2. PICK T \in B : \A U \in SUBSET T : U # T => U \notin B
  <2>1. B \in SUBSET (SUBSET S)
    OBVIOUS
  <2> HIDE DEF B
  <2> QED BY <1>1, <2>1, MinimalSubset
<1>3. SumOver(f, T) = Unfolded(f, T)
  BY SumUnfolds, FS_Subset
<1>4. T # {}
  BY <1>3 DEF Unfolded
<1>5. Chosen(T) \in T
  BY <1>4, ChosenIsMember
<1> QED BY <1>2, <1>3, <1>4, <1>5 DEF Unfolded

(* Natural numbers sum up to a natural number.                              *)
THEOREM SumIsNat ==
    ASSUME NEW S, IsFiniteSet(S), NEW f, \A x \in S : f[x] \in Nat
    PROVE  SumOver(f, S) \in Nat
<1> DEFINE zero == [x \in S |-> 0]
<1>1. SumOver(zero, S) = 0
  BY SumOfZeros
<1>2. SumOver(zero, S) <= SumOver(f, S)
  <2>1. \A x \in S : zero[x] \in Int /\ f[x] \in Int /\ zero[x] <= f[x]
    OBVIOUS
  <2> HIDE DEF zero
  <2> QED BY <2>1, SumIsOrdered
<1>3. SumOver(f, S) \in Int
  BY SumIsInt
<1> QED BY <1>1, <1>2, <1>3

(* When the value of one member changes, the sum changes by as much.        *)
THEOREM SumChanges ==
    ASSUME NEW S, IsFiniteSet(S), NEW f, NEW g,
           \A x \in S : f[x] \in Int /\ g[x] \in Int,
           NEW x \in S, \A y \in S \ {x} : g[y] = f[y]
    PROVE  SumOver(g, S) = SumOver(f, S) - f[x] + g[x]
<1>1. SumOver(f, S) = f[x] + SumOver(f, S \ {x})
  BY SumTakesOut
<1>2. SumOver(g, S) = g[x] + SumOver(g, S \ {x})
  BY SumTakesOut
<1>3. SumOver(g, S \ {x}) = SumOver(f, S \ {x})
  BY SumOfSame, FS_Subset
<1>4. SumOver(f, S \ {x}) \in Int
  BY SumIsInt, FS_Subset
<1>5. f[x] \in Int /\ g[x] \in Int
  OBVIOUS
<1> QED BY <1>1, <1>2, <1>3, <1>4, <1>5

(* A new member adds its value.                                             *)
THEOREM SumPutsIn ==
    ASSUME NEW S, IsFiniteSet(S), NEW f, \A x \in S : f[x] \in Int,
           NEW y, y \notin S, f[y] \in Int
    PROVE  SumOver(f, S \cup {y}) = SumOver(f, S) + f[y]
<1> DEFINE T == S \cup {y}
<1>1. IsFiniteSet(T) /\ T \ {y} = S /\ y \in T /\ \A x \in T : f[x] \in Int
  BY FS_AddElement
<1> HIDE DEF T
<1>2. SumOver(f, T) = f[y] + SumOver(f, T \ {y})
  BY <1>1, SumTakesOut
<1>3. SumOver(f, S) \in Int
  BY SumIsInt
<1>4. SumOver(f, T) = f[y] + SumOver(f, S)
  BY <1>1, <1>2
<1>5. SumOver(f, S) + f[y] = f[y] + SumOver(f, S)
  BY <1>3
<1> QED BY <1>4, <1>5 DEF T

(* A common factor may be taken out of the sum.                             *)
THEOREM SumOfMultiples ==
    ASSUME NEW S, IsFiniteSet(S), NEW f, \A x \in S : f[x] \in Int,
           NEW k \in Int, NEW g, \A x \in S : g[x] = f[x] * k
    PROVE  SumOver(g, S) = SumOver(f, S) * k
<1> DEFINE B == {T \in SUBSET S : SumOver(g, T) # SumOver(f, T) * k}
<1>1. SUFFICES ASSUME B # {} PROVE FALSE
  OBVIOUS
<1>2. PICK T \in B : \A U \in SUBSET T : U # T => U \notin B
  <2>1. B \in SUBSET (SUBSET S)
    OBVIOUS
  <2> HIDE DEF B
  <2> QED BY <1>1, <2>1, MinimalSubset
<1>3. SumOver(f, T) = Unfolded(f, T) /\ SumOver(g, T) = Unfolded(g, T)
  BY SumUnfolds, FS_Subset
<1>4. T # {}
  BY <1>3 DEF Unfolded
<1> DEFINE rest == T \ {Chosen(T)}
           x == f[Chosen(T)]
           s == SumOver(f, rest)
<1>5. Chosen(T) \in T /\ rest \in SUBSET S
  BY <1>4, ChosenIsMember
<1>6. SumOver(g, rest) = s * k
  BY <1>2, <1>5
<1>7. x \in Int /\ g[Chosen(T)] = x * k
  BY <1>5
<1>8. s \in Int
  BY <1>5, SumIsInt, FS_Subset
<1>9. SumOver(f, T) = x + s /\ SumOver(g, T) = x * k + s * k
  BY <1>3, <1>4, <1>6, <1>7 DEF Unfolded
<1>10. SumOver(g, T) # SumOver(f, T) * k
  OBVIOUS
<1> HIDE DEF x, s
<1>11. (x + s) * k = x * k + s * k
  BY <1>7, <1>8
<1> QED BY <1>9, <1>10, <1>11

(* Two sums over the same set add up member by member.                      *)
THEOREM SumOfSums ==
    ASSUME NEW S, IsFiniteSet(S), NEW f, NEW g, NEW h,
           \A x \in S : f[x] \in Int /\ g[x] \in Int /\ h[x] = f[x] + g[x]
    PROVE  SumOver(h, S) = SumOver(f, S) + SumOver(g, S)
<1> DEFINE B == {T \in SUBSET S : SumOver(h, T) # SumOver(f, T) + SumOver(g, T)}
<1>1. SUFFICES ASSUME B # {} PROVE FALSE
  OBVIOUS
<1>2. PICK T \in B : \A U \in SUBSET T : U # T => U \notin B
  <2>1. B \in SUBSET (SUBSET S)
    OBVIOUS
  <2> HIDE DEF B
  <2> QED BY <1>1, <2>1, MinimalSubset
<1>3. /\ SumOver(f, T) = Unfolded(f, T)
      /\ SumOver(g, T) = Unfolded(g, T)
      /\ SumOver(h, T) = Unfolded(h, T)
  BY SumUnfolds, FS_Subset
<1>4. T # {}
  BY <1>3 DEF Unfolded
<1> DEFINE rest == T \ {Chosen(T)}
           x == f[Chosen(T)]
           y == g[Chosen(T)]
           s == SumOver(f, rest)
           t == SumOver(g, rest)
<1>5. Chosen(T) \in T /\ rest \in SUBSET S
  BY <1>4, ChosenIsMember
<1>6. SumOver(h, rest) = s + t
  BY <1>2, <1>5
<1>7. x \in Int /\ y \in Int /\ h[Chosen(T)] = x + y
  BY <1>5
<1>8. s \in Int /\ t \in Int
  BY <1>5, SumIsInt, FS_Subset
<1>9. /\ SumOver(f, T) = x + s /\ SumOver(g, T) = y + t
      /\ SumOver(h, T) = (x + y) + (s + t)
  BY <1>3, <1>4, <1>6, <1>7 DEF Unfolded
<1>10. SumOver(h, T) # SumOver(f, T) + SumOver(g, T)
  OBVIOUS
<1> HIDE DEF x, y, s, t
<1> QED BY <1>7, <1>8, <1>9, <1>10

(* Members whose value is zero may be left out.                             *)
THEOREM SumOfPart ==
    ASSUME NEW S, IsFiniteSet(S), NEW f, \A x \in S : f[x] \in Int,
           NEW P \in SUBSET S, \A x \in S \ P : f[x] = 0
    PROVE  SumOver(f, S) = SumOver(f, P)
<1> DEFINE B == {T \in SUBSET S : SumOver(f, T) # SumOver(f, T \cap P)}
<1>1. SUFFICES ASSUME B # {} PROVE FALSE
  <2>1. S \cap P = P /\ S \notin B
    BY <1>1
  <2> QED BY <2>1
<1>2. PICK T \in B : \A U \in SUBSET T : U # T => U \notin B
  <2>1. B \in SUBSET (SUBSET S)
    OBVIOUS
  <2> HIDE DEF B
  <2> QED BY <1>1, <2>1, MinimalSubset
<1>3. T \ P # {}
  <2>1. SUFFICES ASSUME T \ P = {} PROVE FALSE
    OBVIOUS
  <2>2. T \cap P = T
    BY <2>1
  <2> QED BY <2>2
<1>4. PICK x \in T \ P : TRUE
  BY <1>3
<1>5. SumOver(f, T) = f[x] + SumOver(f, T \ {x})
  BY SumTakesOut, FS_Subset
<1>6. f[x] = 0
  OBVIOUS
<1>7. SumOver(f, T \ {x}) = SumOver(f, T \cap P)
  <2>1. T \ {x} \notin B
    BY <1>2
  <2>2. (T \ {x}) \cap P = T \cap P
    OBVIOUS
  <2> QED BY <2>1, <2>2
<1>8. SumOver(f, T \cap P) \in Int
  BY SumIsInt, FS_Subset
<1>9. SumOver(f, T) = SumOver(f, T \cap P)
  BY <1>5, <1>6, <1>7, <1>8
<1> QED BY <1>9

(* What a statement like UPDATE ... SET x = x + n does to the sum over some  *)
(* of the rows: it grows by n if the row is one of them, and else keeps.     *)
THEOREM SumGrows ==
    ASSUME NEW S, IsFiniteSet(S), NEW f, \A y \in S : f[y] \in Int, NEW n \in Int, NEW x,
           NEW g, \A y \in S : g[y] = IF y = x THEN f[y] + n ELSE f[y]
    PROVE  SumOver(g, S) = SumOver(f, S) + (IF x \in S THEN n ELSE 0)
<1>1. SumOver(f, S) \in Int
  BY SumIsInt
<1>2. CASE x \in S
  <2>1. /\ \A y \in S : g[y] \in Int
        /\ \A y \in S \ {x} : g[y] = f[y]
        /\ g[x] = f[x] + n /\ f[x] \in Int
    BY <1>2
  <2>2. SumOver(g, S) = SumOver(f, S) - f[x] + g[x]
    BY <2>1, <1>2, SumChanges
  <2> QED BY <1>1, <1>2, <2>1, <2>2
<1>3. CASE x \notin S
  <2>1. SumOver(g, S) = SumOver(f, S)
    BY <1>3, SumOfSame
  <2> QED BY <1>1, <1>3, <2>1
<1> QED BY <1>2, <1>3
============================================================================
