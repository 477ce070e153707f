------------------------- MODULE VaultLedgerProofs -------------------------
(***************************************************************************)
(* What TLAPS proves of the vault ledger for every set of jobs and markets,*)
(* every amount and rate; the second half for jobs that wait for each other. *)
(***************************************************************************)
EXTENDS VaultLedger, TLAPS

-----------------------------------------------------------------------------
(* Arithmetic.                                                             *)

LEMMA Quotient ==
    ASSUME NEW n \in Nat, NEW d \in Nat \ {0}
    PROVE  n \div d \in Nat /\ d * (n \div d) <= n
  OBVIOUS

LEMMA ProductIsNat ==
    ASSUME NEW x \in Nat, NEW y \in Nat
    PROVE  x * y \in Nat
  OBVIOUS

LEMMA ProductMonotone ==
    ASSUME NEW x \in Nat, NEW y \in Nat, NEW d \in Nat, x <= y
    PROVE  d * x <= d * y
  OBVIOUS

LEMMA Cancel ==
    ASSUME NEW x \in Nat, NEW y \in Nat, NEW d \in Nat \ {0}, d * x <= d * y
    PROVE  x <= y
  OBVIOUS

LEMMA Distributes ==
    ASSUME NEW x \in Nat, NEW y \in Nat, NEW d \in Nat
    PROVE  d * (x + y) = d * x + d * y
  OBVIOUS

LEMMA Swap ==
    ASSUME NEW x \in Nat, NEW y \in Nat, NEW z \in Nat
    PROVE  x * (y * z) = y * (x * z)
  OBVIOUS

(* A quotient is at least x if its dividend holds d * x.                   *)
LEMMA QuotientAtLeast ==
    ASSUME NEW n \in Nat, NEW d \in Nat \ {0}, NEW x \in Nat, d * x <= n
    PROVE  x <= n \div d
<1> DEFINE q == n \div d
<1>1. q \in Nat /\ n < d * (q + 1)
  OBVIOUS
<1> HIDE DEF q
<1>2. d * x < d * (q + 1)
  BY <1>1, ProductIsNat
<1>3. CASE q + 1 <= x
  <2>1. d * (q + 1) <= d * x
    BY <1>1, <1>3, ProductMonotone
  <2>2. d * (q + 1) \in Nat /\ d * x \in Nat
    BY <1>1, ProductIsNat
  <2> QED BY <1>2, <2>1, <2>2
<1>4. CASE ~(q + 1 <= x)
  BY <1>1, <1>4 DEF q
<1> QED BY <1>3, <1>4

(* The day's yield never lowers an index, whatever is truncated.           *)
LEMMA DailyIndexGrows ==
    ASSUME NEW old \in Nat, NEW rate \in Rates
    PROVE  DailyIndex(old, rate) \in Nat /\ old <= DailyIndex(old, rate)
<1>1. Whole \in Nat \ {0} /\ rate \in Nat
  BY VaultAssumption
<1>2. old * (Whole + rate) \in Nat
  BY <1>1, ProductIsNat
<1>3. Whole * old <= old * (Whole + rate)
  <2>1. old * Whole <= old * (Whole + rate)
    BY <1>1, ProductMonotone
  <2> QED BY <1>1, <2>1
<1> DEFINE n == old * (Whole + rate)
<1>4. DailyIndex(old, rate) = n \div Whole
  BY DEF DailyIndex
<1> HIDE DEF n
<1> QED BY <1>1, <1>2, <1>3, <1>4, Quotient, QuotientAtLeast DEF n

LEMMA CompoundGrows ==
    ASSUME NEW old \in Nat, NEW g \in Nat, Scale <= g
    PROVE  /\ (old * g) \div Scale \in Nat
           /\ old <= (old * g) \div Scale
           /\ Scale * ((old * g) \div Scale) <= old * g
<1>1. Scale \in Nat \ {0}
  BY ScaleAssumption
<1>2. old * g \in Nat
  BY ProductIsNat
<1>3. Scale * old <= old * g
  <2>1. old * Scale <= old * g
    BY <1>1, ProductMonotone
  <2> QED BY <1>1, <2>1
<1> DEFINE n == old * g
<1> HIDE DEF n
<1>4. n \in Nat /\ Scale * old <= n
  BY <1>2, <1>3 DEF n
<1>5. n \div Scale \in Nat /\ old <= n \div Scale /\ Scale * (n \div Scale) <= n
  BY <1>1, <1>4, Quotient, QuotientAtLeast
<1> QED BY <1>5 DEF n

(* A factor cancels on both sides of an inequality of products.            *)
LEMMA CancelFactor ==
    ASSUME NEW x \in Nat, NEW y \in Nat, NEW d \in Nat \ {0}, NEW n \in Nat, NEW m \in Nat,
           d * x <= n, n <= m, m <= d * y
    PROVE  x <= y
<1> DEFINE A == d * x
           B == d * y
<1>1. A \in Nat /\ B \in Nat
  BY ProductIsNat
<1>2. A <= n /\ m <= B
  OBVIOUS
<1> HIDE DEF A, B
<1>3. A <= B
  BY <1>1, <1>2
<1> QED BY <1>3, Cancel DEF A, B

(* The heart of IndexIsBacked.  A job compounds index i with a growth g that  *)
(* is too large by at most one part in Precision, and writes a sum t of the  *)
(* staked balance s and the yield a that is too small by at most as much: of *)
(* what shares sh may exceed s by, up / down, each takes its part.           *)
LEMMA AccrualKeepsCover ==
    ASSUME NEW sh \in Nat, NEW i \in Nat, NEW s \in Nat \ {0}, NEW a \in Nat,
           NEW g \in Nat, Scale <= g, g * s * Precision <= (s + a) * Scale * (Precision + 1),
           NEW t \in Nat, (s + a) * (Precision - 1) <= t * Precision,
           NEW u \in Nat, NEW d \in Nat, sh * i * d <= s * Scale * u
    PROVE  sh * ((i * g) \div Scale) * (d * (Precision - 1))
             <= t * Scale * (u * (Precision + 1))
<1> DEFINE k == (i * g) \div Scale
           P == Precision
           lo == Precision - 1
           hi == Precision + 1
           n == s + a
<1>1. Scale \in Nat \ {0} /\ P \in Nat \ {0} /\ lo \in Nat /\ hi \in Nat /\ n \in Nat
  BY ScaleAssumption, VaultAssumption
<1>2. k \in Nat /\ Scale * k <= i * g
  BY CompoundGrows
<1>3. g * s * P <= n * Scale * hi /\ n * lo <= t * P
  OBVIOUS
<1> HIDE DEF k, P, lo, hi, n
(* First the index: its worth grows by no more than the growth.             *)
<1>4. sh * k * d <= g * s * u
  <2>1. Scale * (sh * k * d) <= (sh * d) * (i * g)
    <3>1. (sh * d) * (Scale * k) <= (sh * d) * (i * g)
      BY <1>1, <1>2, ProductIsNat, ProductMonotone
    <3>2. (sh * d) * (Scale * k) = Scale * (sh * k * d)
      BY <1>1, <1>2
    <3> QED BY <3>1, <3>2
  <2>2. (sh * d) * (i * g) <= g * (s * Scale * u)
    <3>1. g * (sh * i * d) <= g * (s * Scale * u)
      BY <1>1, ProductIsNat, ProductMonotone
    <3>2. g * (sh * i * d) = (sh * d) * (i * g)
      OBVIOUS
    <3> QED BY <3>1, <3>2
  <2>3. g * (s * Scale * u) = Scale * (g * s * u)
    BY <1>1
  <2> DEFINE x == sh * k * d
             y == g * s * u
             v == (sh * d) * (i * g)
             w == Scale * y
  <2>4. x \in Nat /\ y \in Nat /\ v \in Nat /\ w \in Nat
    BY <1>1, <1>2, ProductIsNat
  <2>5. Scale * x <= v /\ v <= w /\ w <= Scale * y
    BY <2>1, <2>2, <2>3, <2>4
  <2> HIDE DEF x, y, v, w
  <2>6. x <= y
    BY <1>1, <2>4, <2>5, CancelFactor
  <2> QED BY <2>6 DEF x, y
(* Then growth and sum, each with its rounding.                             *)
<1>5. P * (sh * k * d) <= n * Scale * hi * u
  <2>1. P * (sh * k * d) <= P * (g * s * u)
    BY <1>1, <1>2, <1>4, ProductIsNat, ProductMonotone
  <2>2. P * (g * s * u) = u * (g * s * P)
    BY <1>1
  <2>3. u * (g * s * P) <= u * (n * Scale * hi)
    BY <1>1, <1>3, ProductIsNat, ProductMonotone
  <2>4. u * (n * Scale * hi) = n * Scale * hi * u
    BY <1>1
  <2> DEFINE A == P * (sh * k * d)
             B == u * (g * s * P)
             C == n * Scale * hi * u
  <2>5. A \in Nat /\ B \in Nat /\ C \in Nat
    BY <1>1, <1>2, ProductIsNat
  <2>6. A <= B /\ B <= C
    BY <2>1, <2>2, <2>3, <2>4
  <2> HIDE DEF A, B, C
  <2>7. A <= C
    BY <2>5, <2>6
  <2> QED BY <2>7 DEF A, C
<1>6. sh * k * (d * lo) <= t * Scale * (u * hi)
  <2>1. lo * (P * (sh * k * d)) <= lo * (n * Scale * hi * u)
    BY <1>1, <1>2, <1>5, ProductIsNat, ProductMonotone
  <2>2. lo * (P * (sh * k * d)) = P * (sh * k * (d * lo))
    BY <1>1, <1>2
  <2>3. lo * (n * Scale * hi * u) = (Scale * hi * u) * (n * lo)
    BY <1>1
  <2>4. (Scale * hi * u) * (n * lo) <= (Scale * hi * u) * (t * P)
    BY <1>1, <1>3, ProductIsNat, ProductMonotone
  <2>5. (Scale * hi * u) * (t * P) = P * (t * Scale * (u * hi))
    BY <1>1
  <2> DEFINE x == sh * k * (d * lo)
             y == t * Scale * (u * hi)
             v == (Scale * hi * u) * (n * lo)
             w == P * y
  <2>6. x \in Nat /\ y \in Nat /\ v \in Nat /\ w \in Nat
    BY <1>1, <1>2, ProductIsNat
  <2>7. P * x <= v /\ v <= w /\ w <= P * y
    BY <2>1, <2>2, <2>3, <2>4, <2>5, <2>6
  <2> HIDE DEF x, y, v, w
  <2>8. x <= y
    BY <1>1, <2>6, <2>7, CancelFactor
  <2> QED BY <2>8 DEF x, y
<1> QED BY <1>6 DEF k, lo, hi

(* Staking adds to both sides: what is staked is added exactly, the shares  *)
(* bought for it are truncated.                                             *)
LEMMA StakingKeepsCover ==
    ASSUME NEW sh \in Nat, NEW i \in Nat \ {0}, NEW s \in Nat, NEW a \in Nat,
           NEW u \in Nat, NEW d \in Nat, d <= u, sh * i * d <= s * Scale * u
    PROVE  (sh + CalculateShares(a, i)) * i * d <= (s + a) * Scale * u
<1> DEFINE n == a * Scale
           q == n \div i
<1>1. Scale \in Nat \ {0} /\ n \in Nat
  BY ScaleAssumption, ProductIsNat
<1>2. q \in Nat /\ i * q <= n
  <2> HIDE DEF n
  <2> QED BY <1>1, Quotient
<1>3. CalculateShares(a, i) = q
  BY DEF CalculateShares
<1> HIDE DEF q, n
<1>4. (sh + q) * i * d = sh * i * d + d * (i * q)
  BY <1>2
<1>5. (s + a) * Scale * u = s * Scale * u + n * u
  BY <1>1 DEF n
<1>6. d * (i * q) <= n * u
  <2>1. d * (i * q) <= d * n
    BY <1>1, <1>2, ProductIsNat, ProductMonotone
  <2>2. n * d <= n * u
    BY <1>1, ProductMonotone
  <2>3. d * (i * q) \in Nat /\ d * n \in Nat /\ n * u \in Nat /\ d * n = n * d
    BY <1>1, <1>2, ProductIsNat
  <2> QED BY <2>1, <2>2, <2>3
<1> DEFINE A == sh * i * d
           B == d * (i * q)
           C == s * Scale * u
           D == n * u
<1>7. A \in Nat /\ B \in Nat /\ C \in Nat /\ D \in Nat
  BY <1>1, <1>2, ProductIsNat
<1>8. A <= C /\ B <= D
  BY <1>6
<1> HIDE DEF A, B, C, D
<1>9. A + B <= C + D
  BY <1>7, <1>8
<1> QED BY <1>3, <1>4, <1>5, <1>9 DEF A, B, C, D

-----------------------------------------------------------------------------
(* Types: the indexes that divide are positive, and a job that applies a   *)
(* yield has read a staked balance.                                        *)

ReadIsSound ==
    \A j \in Jobs :
        /\ pc[j] \in {"daily", "accrual"} => Scale <= seen[j].index
        /\ pc[j] = "accrual" => seen[j].staked # 0

TypeInv == TypeOK /\ Scale <= index /\ ReadIsSound

LEMMA InitTypeInv == Init => TypeInv
BY VaultAssumption, ScaleAssumption
   DEF Init, TypeInv, TypeOK, ReadIsSound, Unread, AllKinds, Running

ReadType == [staked : Nat, index : Nat, cumulative : Nat, balance : Nat]

LEMMA ReturnType ==
    ASSUME TypeInv, NEW j \in Jobs, Return(j)
    PROVE  /\ pc' \in [Jobs -> {"idle", "done"} \cup Running]
           /\ todo' \in [Jobs -> SUBSET Markets]
           /\ seen' \in [Jobs -> ReadType]
           /\ ReadIsSound'
<1>1. Unread \in ReadType
  BY DEF Unread, ReadType
<1>2. seen' \in [Jobs -> ReadType]
  BY <1>1 DEF TypeInv, TypeOK, Return, ReadType
<1>3. pc' \in [Jobs -> {"idle", "done"} \cup Running] /\ todo' \in [Jobs -> SUBSET Markets]
  BY DEF TypeInv, TypeOK, Return
<1>4. ReadIsSound'
  <2> SUFFICES ASSUME NEW k \in Jobs
               PROVE  /\ pc'[k] \in {"daily", "accrual"} => Scale <= seen'[k].index
                      /\ pc'[k] = "accrual" => seen'[k].staked # 0
    BY DEF ReadIsSound
  <2>1. CASE k = j
    BY <2>1 DEF TypeInv, TypeOK, Return
  <2>2. CASE k # j
    BY <2>2 DEF TypeInv, TypeOK, Return, ReadIsSound
  <2> QED BY <2>1, <2>2
<1> QED BY <1>2, <1>3, <1>4

(* A job begins: it remembers the row as it is.                            *)
LEMMA BeginType ==
    ASSUME TypeInv, NEW j \in Jobs, NEW what, NEW label \in Running, Begin(j, what, label),
           label = "accrual" => staked # 0
    PROVE  /\ pc' \in [Jobs -> {"idle", "done"} \cup Running]
           /\ kind' \in [Jobs -> AllKinds \cup {"none"}]
           /\ seen' \in [Jobs -> ReadType]
           /\ ReadIsSound'
<1> DEFINE r == [staked |-> staked, index |-> index, cumulative |-> cumulative, balance |-> 0]
<1>1. r \in ReadType /\ r.index = index /\ r.staked = staked
  BY DEF TypeInv, TypeOK, ReadType
<1>2. seen' = [seen EXCEPT ![j] = r]
  BY DEF Begin
<1> HIDE DEF r
<1>3. seen' \in [Jobs -> ReadType]
  BY <1>1, <1>2 DEF TypeInv, TypeOK, ReadType
<1>4. kind' \in [Jobs -> AllKinds \cup {"none"}]
  BY VaultAssumption DEF TypeInv, TypeOK, Begin
<1>5. pc' = [pc EXCEPT ![j] = label]
  BY DEF Begin, Goto
<1>6. pc' \in [Jobs -> {"idle", "done"} \cup Running]
  BY <1>5 DEF TypeInv, TypeOK
<1>7. ReadIsSound'
  <2> SUFFICES ASSUME NEW k \in Jobs
               PROVE  /\ pc'[k] \in {"daily", "accrual"} => Scale <= seen'[k].index
                      /\ pc'[k] = "accrual" => seen'[k].staked # 0
    BY DEF ReadIsSound
  <2>1. CASE k = j
    BY <1>1, <1>2, <1>5, <2>1 DEF TypeInv, TypeOK
  <2>2. CASE k # j
    BY <1>2, <1>5, <2>2 DEF TypeInv, TypeOK, ReadIsSound
  <2> QED BY <2>1, <2>2
<1> QED BY <1>3, <1>4, <1>6, <1>7

LEMMA BalanceIsNat ==
    ASSUME TypeInv, NEW answering \in SUBSET Markets
    PROVE  Balance(answering) \in Nat
<1>1. \A m : Held(m, answering) \in Nat
  BY DEF TypeInv, TypeOK, Held
<1> HIDE DEF Held
<1> QED BY <1>1 DEF Balance

LEMMA SumsTyped ==
    ASSUME NEW n \in Nat, NEW y \in Sums(n)
    PROVE  y \in Nat /\ n * (Precision - 1) <= y * Precision
BY DEF Sums

LEMMA AccrualType ==
    ASSUME TypeInv, NEW j \in Jobs, pc[j] = "accrual", NEW g \in GrowthFactors(j)
    PROVE  /\ seen[j].staked \in Nat \ {0}
           /\ amount[j] \in Nat
           /\ g \in Nat /\ Scale <= g
           /\ g * seen[j].staked * Precision
                <= (seen[j].staked + amount[j]) * Scale * (Precision + 1)
           /\ (seen[j].index * g) \div Scale \in Nat
           /\ seen[j].index <= (seen[j].index * g) \div Scale
<1>1. seen[j].staked \in Nat \ {0} /\ amount[j] \in Nat /\ seen[j].index \in Nat
  BY DEF TypeInv, TypeOK, ReadIsSound
<1>2. g \in Nat /\ Scale <= g
      /\ g * seen[j].staked * Precision
           <= (seen[j].staked + amount[j]) * Scale * (Precision + 1)
  <2> DEFINE top == (2 * ((seen[j].staked + amount[j]) * Scale)) \div seen[j].staked
  <2>1. g \in Scale .. top
        /\ g * seen[j].staked * Precision
             <= (seen[j].staked + amount[j]) * Scale * (Precision + 1)
    BY DEF GrowthFactors
  <2> HIDE DEF top
  <2> QED BY <2>1, ScaleAssumption
<1> QED BY <1>1, <1>2, CompoundGrows

LEMMA NextTypeInv == TypeInv /\ [Next]_vars => TypeInv'
<1> SUFFICES ASSUME TypeInv, [Next]_vars PROVE TypeInv'
  OBVIOUS
<1> USE DEF TypeInv
<1>0. Scale \in Nat \ {0} /\ Amounts \subseteq Nat
  BY ScaleAssumption, VaultAssumption
<1>1. ASSUME NEW a \in Amounts, AddPendingDeposit(a) PROVE TypeInv'
  BY <1>0, <1>1 DEF AddPendingDeposit, TypeOK, ReadIsSound
<1>2. ASSUME NEW a \in Amounts, MarkFundsAsStaked(a) PROVE TypeInv'
  <2>1. a * Scale \in Nat /\ index \in Nat \ {0}
    BY <1>0, ProductIsNat DEF TypeOK
  <2>2. CalculateShares(a, index) \in Nat
    <3> DEFINE n == a * Scale
    <3> HIDE DEF n
    <3>1. n \div index \in Nat
      BY <2>1, Quotient DEF n
    <3> QED BY <3>1 DEF CalculateShares, n
  <2> QED BY <1>0, <1>2, <2>2 DEF MarkFundsAsStaked, TypeOK, ReadIsSound
<1>3. ASSUME NEW m \in Markets, Earn(m) PROVE TypeInv'
  BY <1>3 DEF Earn, row, TypeOK, ReadIsSound
<1>4. ASSUME NEW j \in Jobs, NEW m \in Markets, Mine(j, m) PROVE TypeInv'
  <2>1. chain' \in [Markets -> Nat]
    BY <1>4, VaultAssumption DEF Mine, TypeOK
  <2> QED BY <1>4, <2>1 DEF Mine, row, history, TypeOK, ReadIsSound
<1>5. ASSUME NEW j \in Jobs, BeginDaily(j) PROVE TypeInv'
  <2>1. Begin(j, "daily", "daily") /\ "daily" \in Running
    BY <1>5 DEF BeginDaily, Running
  <2> QED BY <1>5, <2>1, BeginType DEF BeginDaily, Begin, row, history, TypeOK, ReadType
<1>6. ASSUME NEW j \in Jobs, NEW a \in Amounts, BeginAccrual(j, a) PROVE TypeInv'
  <2>1. Begin(j, "accrual", "accrual") /\ "accrual" \in Running /\ staked # 0
    BY <1>6 DEF BeginAccrual, Running
  <2>2. amount' \in [Jobs -> Nat]
    BY <1>0, <1>6 DEF BeginAccrual, TypeOK
  <2> QED BY <1>6, <2>1, <2>2, BeginType DEF BeginAccrual, Begin, row, history, TypeOK, ReadType
<1>7. ASSUME NEW j \in Jobs, NEW ms \in SUBSET Markets \ {{}},
             BeginDeploy(j, ms) \/ BeginRecall(j, ms)
      PROVE  TypeInv'
  <2>1. "send" \in Running /\ \E what : Begin(j, what, "send")
    BY <1>7 DEF BeginDeploy, BeginRecall, Running
  <2>2. todo' \in [Jobs -> SUBSET Markets]
    BY <1>7 DEF BeginDeploy, BeginRecall, TypeOK
  <2> QED BY <1>7, <2>1, <2>2, BeginType
          DEF BeginDeploy, BeginRecall, Begin, row, history, TypeOK, ReadType
<1>8. ASSUME NEW j \in Jobs, BeginSync(j) PROVE TypeInv'
  <2>1. Begin(j, "sync", "fetch") /\ "fetch" \in Running
    BY <1>8 DEF BeginSync, Running
  <2> QED BY <1>8, <2>1, BeginType DEF BeginSync, Begin, row, history, TypeOK, ReadType
<1>9. ASSUME NEW j \in Jobs, NEW rate \in Rates, WriteDaily(j, rate) PROVE TypeInv'
  <2>1. seen[j].index \in Nat /\ Scale <= seen[j].index /\ seen[j].staked \in Nat
    BY <1>9 DEF WriteDaily, TypeOK, ReadIsSound
  <2>2. DailyIndex(seen[j].index, rate) \in Nat /\ Scale <= DailyIndex(seen[j].index, rate)
    <3>1. DailyIndex(seen[j].index, rate) \in Nat
          /\ seen[j].index <= DailyIndex(seen[j].index, rate)
      BY <2>1, DailyIndexGrows
    <3> QED BY <1>0, <2>1, <3>1
  <2>3. (seen[j].staked * rate) \div Whole \in Nat
    <3> DEFINE n == seen[j].staked * rate
    <3>1. n \in Nat /\ Whole \in Nat \ {0}
      BY <2>1, VaultAssumption, ProductIsNat
    <3> HIDE DEF n
    <3>2. n \div Whole \in Nat
      BY <3>1, Quotient
    <3> QED BY <3>2 DEF n
  <2> DEFINE i == DailyIndex(seen[j].index, rate)
             y == (seen[j].staked * rate) \div Whole
  <2>4. WriteIndex(j, i, y, seen[j].staked) /\ exact' = FALSE /\ up' = 1 /\ down' = 1
    BY <1>9 DEF WriteDaily, MovedOtherwise
  <2>5. i \in Nat /\ Scale <= i /\ y \in Nat
    BY <2>2, <2>3
  <2> HIDE DEF i, y
  <2>6. Return(j)
    BY <2>4 DEF WriteIndex
  <2>7. pending' \in Nat /\ staked' \in Nat /\ index' \in Nat /\ Scale <= index'
        /\ cumulative' \in Nat
    BY <2>1, <2>4, <2>5 DEF WriteIndex, TypeOK
  <2>8. exact' \in BOOLEAN /\ up' \in Nat /\ down' \in Nat
    BY <2>4
  <2>9. UNCHANGED <<chain, sent, kind, amount, booked, marked, earned, shares>>
    BY <2>4 DEF WriteIndex
  <2> QED BY <2>6, <2>7, <2>8, <2>9, ReturnType DEF TypeOK, ReadType
<1>10. ASSUME NEW j \in Jobs, WriteAccrual(j) PROVE TypeInv'
  <2>1. PICK g \in GrowthFactors(j), y \in Sums(seen[j].cumulative + amount[j]),
             s \in Sums(seen[j].staked + amount[j]) :
               WriteIndex(j, (seen[j].index * g) \div Scale, y, s)
    BY <1>10 DEF WriteAccrual
  <2> DEFINE i == (seen[j].index * g) \div Scale
  <2>2. seen[j].index \in Nat /\ Scale <= seen[j].index /\ y \in Nat /\ s \in Nat
    <3>1. seen[j].cumulative + amount[j] \in Nat /\ seen[j].staked + amount[j] \in Nat
      BY DEF TypeOK
    <3>2. y \in Nat /\ s \in Nat
      BY <3>1, SumsTyped
    <3> QED BY <1>10, <3>2 DEF WriteAccrual, TypeOK, ReadIsSound
  <2>3. i \in Nat /\ seen[j].index <= i
    BY <1>10, AccrualType DEF WriteAccrual
  <2>4. WriteIndex(j, i, y, s)
    BY <2>1
  <2> HIDE DEF i
  <2>5. Return(j)
    BY <2>4 DEF WriteIndex
  <2>6. Scale <= i
    BY <1>0, <2>2, <2>3
  <2>7. exact' \in BOOLEAN /\ up' \in Nat /\ down' \in Nat
    <3>1. Precision \in Nat \ {0, 1} /\ up \in Nat /\ down \in Nat /\ exact \in BOOLEAN
      BY VaultAssumption DEF TypeOK
    <3>2. up * (Precision + 1) \in Nat /\ down * (Precision - 1) \in Nat
      BY <3>1, ProductIsNat
    <3> QED BY <1>10, <3>1, <3>2 DEF WriteAccrual, MayDrift
  <2> QED BY <2>2, <2>3, <2>4, <2>5, <2>6, <2>7, ReturnType DEF WriteIndex, TypeOK, ReadType
<1>11. ASSUME NEW j \in Jobs, NEW m \in Markets, Send(j, m) PROVE TypeInv'
  <2>1. pc' \in [Jobs -> {"idle", "done"} \cup Running]
    BY <1>11 DEF Send, Goto, TypeOK, Running
  <2>2. \A k \in Jobs : pc'[k] \in {"daily", "accrual"} => pc'[k] = pc[k]
    BY <1>11 DEF Send, Goto, TypeOK
  <2>3. sent' \in [Jobs -> SUBSET Markets] /\ todo' \in [Jobs -> SUBSET Markets]
    BY <1>11 DEF Send, TypeOK
  <2>4. ReadIsSound'
    BY <1>11, <2>2 DEF Send, ReadIsSound
  <2> QED BY <1>11, <2>1, <2>3, <2>4 DEF Send, row, history, TypeOK
<1>12. ASSUME NEW j \in Jobs, Fails(j) PROVE TypeInv'
  <2>1. Return(j)
    BY <1>12 DEF Fails
  <2> QED BY <1>12, <2>1, ReturnType DEF Fails, row, history, TypeOK, ReadType
<1>13. ASSUME NEW j \in Jobs, NEW answering \in SUBSET Markets, Fetch(j, answering)
       PROVE  TypeInv'
  <2> DEFINE r == [seen[j] EXCEPT !.balance = Balance(answering)]
  <2>1. r \in ReadType
    BY BalanceIsNat DEF TypeOK, ReadType
  <2>2. seen' = [seen EXCEPT ![j] = r]
    BY <1>13 DEF Fetch
  <2> HIDE DEF r
  <2>3. seen' \in [Jobs -> ReadType]
    BY <2>1, <2>2 DEF TypeOK, ReadType
  <2>4. pc' = [pc EXCEPT ![j] = "write"] /\ "write" \in Running
    BY <1>13 DEF Fetch, Goto, Running
  <2>5. ReadIsSound'
    BY <2>2, <2>4 DEF ReadIsSound, TypeOK
  <2>6. pc' \in [Jobs -> {"idle", "done"} \cup Running]
    BY <2>4 DEF TypeOK
  <2> QED BY <1>13, <2>3, <2>5, <2>6 DEF Fetch, row, history, TypeOK, ReadType
<1>14. ASSUME NEW j \in Jobs, WriteBalances(j) PROVE TypeInv'
  <2>1. Return(j) /\ seen[j].balance \in Nat /\ seen[j].staked \in Nat
    BY <1>14 DEF WriteBalances, TypeOK
  <2>2. CalculateYield(seen[j].balance, seen[j].staked) \in Nat
    BY <2>1 DEF CalculateYield
  <2>3. pending' \in Nat /\ staked' \in Nat /\ index' \in Nat /\ Scale <= index'
        /\ cumulative' \in Nat
    BY <1>14, <2>1, <2>2 DEF WriteBalances, TypeOK
  <2>4. exact' \in BOOLEAN /\ up' \in Nat /\ down' \in Nat
    BY <1>14 DEF WriteBalances, MovedOtherwise
  <2>5. UNCHANGED <<chain, sent, kind, amount, booked, marked, earned, shares>>
    BY <1>14 DEF WriteBalances
  <2> QED BY <2>1, <2>3, <2>4, <2>5, ReturnType DEF TypeOK, ReadType
<1>15. CASE UNCHANGED vars
  BY <1>15 DEF vars, row, history, TypeOK, ReadIsSound
<1> QED
  BY <1>1, <1>2, <1>3, <1>4, <1>5, <1>6, <1>7, <1>8, <1>9, <1>10, <1>11, <1>12, <1>13, <1>14,
     <1>15 DEF Next, Starts, Statement

(* The types of the ledger, its jobs and the chain, for every constant.    *)
THEOREM TypeCorrect == Spec => []TypeOK
<1>1. Spec => []TypeInv
  BY InitTypeInv, NextTypeInv, PTL DEF Spec
<1>2. TypeInv => TypeOK
  BY DEF TypeInv
<1> QED BY <1>1, <1>2, PTL

-----------------------------------------------------------------------------
(* Under any interleaving.                                                 *)

(* The pending balance is what deposits booked and nobody has staked yet.  *)
THEOREM PendingUnstaked == Spec => []PendingIsUnstaked
<1>1. Init => PendingIsUnstaked
  BY DEF Init, PendingIsUnstaked
<1>2. TypeInv /\ PendingIsUnstaked /\ [Next]_vars => PendingIsUnstaked'
  <2> SUFFICES ASSUME TypeInv, PendingIsUnstaked, [Next]_vars PROVE PendingIsUnstaked'
    OBVIOUS
  <2> USE DEF PendingIsUnstaked
  <2>0. pending \in Nat /\ booked \in Nat /\ marked \in Nat /\ Amounts \subseteq Nat
    BY VaultAssumption DEF TypeInv, TypeOK
  <2>1. ASSUME NEW a \in Amounts, AddPendingDeposit(a) \/ MarkFundsAsStaked(a)
        PROVE  PendingIsUnstaked'
    BY <2>0, <2>1 DEF AddPendingDeposit, MarkFundsAsStaked
  <2>2. ASSUME NEW m \in Markets, Earn(m) PROVE PendingIsUnstaked'
    BY <2>2 DEF Earn, row
  <2>3. ASSUME NEW j \in Jobs, NEW m \in Markets, Mine(j, m) PROVE PendingIsUnstaked'
    BY <2>3 DEF Mine, row, history
  <2>4. ASSUME NEW j \in Jobs, Starts(j) PROVE PendingIsUnstaked'
    BY <2>4 DEF Starts, BeginDaily, BeginAccrual, BeginDeploy, BeginRecall, BeginSync, Begin,
                row, history
  <2>5. ASSUME NEW j \in Jobs, Statement(j) PROVE PendingIsUnstaked'
    BY <2>5 DEF Statement, WriteDaily, WriteAccrual, WriteIndex, Send, Fails, Fetch,
                WriteBalances, row, history
  <2>6. CASE UNCHANGED vars
    BY <2>6 DEF vars, row, history
  <2> QED BY <2>1, <2>2, <2>3, <2>4, <2>5, <2>6 DEF Next
<1> QED BY <1>1, <1>2, InitTypeInv, NextTypeInv, PTL DEF Spec

(* Neither a late transaction, a silent market nor a recall ever takes     *)
(* recorded yield away.                                                    *)
THEOREM CumulativeGrows == Spec => CumulativeNeverFalls
<1>1. TypeInv /\ [Next]_vars => [cumulative' >= cumulative]_vars
  <2> SUFFICES ASSUME TypeInv, Next PROVE cumulative' >= cumulative
    OBVIOUS
  <2>0. cumulative \in Nat
    BY DEF TypeInv, TypeOK
  <2>1. ASSUME NEW j \in Jobs, NEW rate \in Rates, WriteDaily(j, rate)
        PROVE  cumulative' >= cumulative
    <3> DEFINE n == seen[j].staked * rate
    <3>1. n \in Nat /\ Whole \in Nat \ {0}
      BY VaultAssumption, ProductIsNat DEF TypeInv, TypeOK
    <3>2. cumulative' = cumulative + n \div Whole
      BY <2>1 DEF WriteDaily, WriteIndex
    <3> HIDE DEF n
    <3> QED BY <2>0, <3>1, <3>2, Quotient
  <2>2. ASSUME NEW j \in Jobs, WriteAccrual(j) PROVE cumulative' >= cumulative
    <3>1. PICK y \in Sums(seen[j].cumulative + amount[j]) : cumulative' = cumulative + y
      BY <2>2 DEF WriteAccrual, WriteIndex
    <3>2. y \in Nat
      <4>1. seen[j].cumulative + amount[j] \in Nat
        BY DEF TypeInv, TypeOK
      <4> QED BY <4>1, SumsTyped
    <3> QED BY <2>0, <3>1, <3>2
  <2>3. ASSUME NEW j \in Jobs, WriteBalances(j) PROVE cumulative' >= cumulative
    <3>1. cumulative' = cumulative + CalculateYield(seen[j].balance, seen[j].staked)
      BY <2>3 DEF WriteBalances
    <3>2. CalculateYield(seen[j].balance, seen[j].staked) \in Nat
      BY DEF CalculateYield, TypeInv, TypeOK
    <3> QED BY <2>0, <3>1, <3>2
  <2>4. ASSUME UNCHANGED cumulative PROVE cumulative' >= cumulative
    BY <2>0, <2>4
  <2> QED
    BY <2>1, <2>2, <2>3, <2>4
       DEF Next, Starts, Statement, AddPendingDeposit, MarkFundsAsStaked, Earn, Mine, BeginDaily,
           BeginAccrual, BeginDeploy, BeginRecall, BeginSync, Begin, Send, Fails, Fetch, row,
           history
<1> QED BY <1>1, InitTypeInv, NextTypeInv, PTL DEF Spec, CumulativeNeverFalls

-----------------------------------------------------------------------------
(* Jobs that wait for each other: one is in flight, and what an index job  *)
(* has read is still what the row holds.                                   *)

ReadsAreCurrent ==
    \A j \in Jobs : InFlight(j) =>
        /\ \A k \in Jobs : k # j => ~InFlight(k)
        /\ pc[j] \in {"daily", "accrual"} => seen[j].index = index /\ seen[j].staked = staked

SerialInv == TypeInv /\ ReadsAreCurrent

(* Whoever returns was the only one in flight.                             *)
LEMMA ReturnEndsAll ==
    ASSUME SerialInv, NEW j \in Jobs, InFlight(j), Return(j)
    PROVE  ReadsAreCurrent'
<1>1. \A k \in Jobs : pc'[k] = IF k = j THEN "done" ELSE pc[k]
  BY DEF Return, SerialInv, TypeInv, TypeOK
<1>2. \A k \in Jobs : pc'[k] \notin Running
  BY <1>1 DEF SerialInv, ReadsAreCurrent, InFlight, Running
<1> QED BY <1>2 DEF ReadsAreCurrent, InFlight

LEMMA BeginIsAlone ==
    ASSUME SerialInv, Serialised, NEW j \in Jobs, NEW what, NEW label, Begin(j, what, label)
    PROVE  ReadsAreCurrent'
<1>1. \A k \in Jobs : k # j => pc'[k] \notin Running
  BY DEF Begin, MayServe, Goto, InFlight, SerialInv, TypeInv, TypeOK
<1>2. seen'[j].index = index' /\ seen'[j].staked = staked'
  BY DEF Begin, row, SerialInv, TypeInv, TypeOK
<1> QED BY <1>1, <1>2 DEF ReadsAreCurrent, InFlight

LEMMA NextSerialInv == Serialised /\ SerialInv /\ [Next]_vars => SerialInv'
<1> SUFFICES ASSUME Serialised, SerialInv, [Next]_vars PROVE ReadsAreCurrent'
  BY NextTypeInv DEF SerialInv
<1> USE DEF SerialInv
<1>1. ASSUME NEW a \in Amounts, AddPendingDeposit(a) PROVE ReadsAreCurrent'
  BY <1>1 DEF AddPendingDeposit, ReadsAreCurrent, InFlight
<1>2. ASSUME NEW a \in Amounts, MarkFundsAsStaked(a) PROVE ReadsAreCurrent'
  BY <1>2 DEF MarkFundsAsStaked, MayServe, ReadsAreCurrent, InFlight
<1>3. ASSUME NEW m \in Markets, Earn(m) PROVE ReadsAreCurrent'
  BY <1>3 DEF Earn, row, ReadsAreCurrent, InFlight
<1>4. ASSUME NEW j \in Jobs, NEW m \in Markets, Mine(j, m) PROVE ReadsAreCurrent'
  BY <1>4 DEF Mine, row, ReadsAreCurrent, InFlight
<1>5. ASSUME NEW j \in Jobs, Starts(j) PROVE ReadsAreCurrent'
  BY <1>5, BeginIsAlone DEF Starts, BeginDaily, BeginAccrual, BeginDeploy, BeginRecall, BeginSync
<1>6. ASSUME NEW j \in Jobs, NEW rate \in Rates, WriteDaily(j, rate) PROVE ReadsAreCurrent'
  BY <1>6, ReturnEndsAll DEF WriteDaily, WriteIndex, InFlight, Running
<1>7. ASSUME NEW j \in Jobs, WriteAccrual(j) PROVE ReadsAreCurrent'
  BY <1>7, ReturnEndsAll DEF WriteAccrual, WriteIndex, InFlight, Running
<1>8. ASSUME NEW j \in Jobs, NEW m \in Markets, Send(j, m) PROVE ReadsAreCurrent'
  <2>1. InFlight(j) /\ pc[j] = "send"
    BY <1>8 DEF Send, InFlight, Running
  <2>2. pc'[j] \in {"send", "fetch"} /\ \A k \in Jobs : k # j => pc'[k] = pc[k]
    BY <1>8 DEF Send, Goto, TypeInv, TypeOK
  <2> QED BY <2>1, <2>2 DEF ReadsAreCurrent, InFlight
<1>9. ASSUME NEW j \in Jobs, Fails(j) PROVE ReadsAreCurrent'
  BY <1>9, ReturnEndsAll DEF Fails
<1>10. ASSUME NEW j \in Jobs, NEW answering \in SUBSET Markets, Fetch(j, answering)
       PROVE  ReadsAreCurrent'
  <2>1. InFlight(j)
    BY <1>10 DEF Fetch, InFlight, Running
  <2>2. pc'[j] = "write" /\ \A k \in Jobs : k # j => pc'[k] = pc[k]
    BY <1>10 DEF Fetch, Goto, TypeInv, TypeOK
  <2> QED BY <2>1, <2>2 DEF ReadsAreCurrent, InFlight
<1>11. ASSUME NEW j \in Jobs, WriteBalances(j) PROVE ReadsAreCurrent'
  BY <1>11, ReturnEndsAll DEF WriteBalances, InFlight, Running
<1>12. CASE UNCHANGED vars
  BY <1>12 DEF vars, row, ReadsAreCurrent, InFlight
<1> QED
  BY <1>1, <1>2, <1>3, <1>4, <1>5, <1>6, <1>7, <1>8, <1>9, <1>10, <1>11, <1>12
     DEF Next, Statement

LEMMA InitSerialInv == Init => SerialInv
BY InitTypeInv DEF Init, SerialInv, ReadsAreCurrent, InFlight, Running

(* The job in flight is alone, and what it has read is still in the row.     *)
THEOREM SerialInvariance == ASSUME Serialised PROVE Spec => []SerialInv
<1>1. SerialInv /\ [Next]_vars => SerialInv'
  BY NextSerialInv
<1> QED BY <1>1, InitSerialInv, PTL DEF Spec

(* The index of a vault never falls while jobs wait for each other.        *)
THEOREM IndexGrows == ASSUME Serialised PROVE Spec => IndexNeverFalls
<1>1. SerialInv /\ [Next]_vars => [index' >= index]_vars
  <2> SUFFICES ASSUME SerialInv, Next PROVE index' >= index
    OBVIOUS
  <2>0. index \in Nat
    BY DEF SerialInv, TypeInv, TypeOK
  <2>1. ASSUME NEW j \in Jobs, NEW rate \in Rates, WriteDaily(j, rate) PROVE index' >= index
    <3>1. seen[j].index = index
      BY <2>1 DEF WriteDaily, SerialInv, ReadsAreCurrent, InFlight, Running
    <3>2. index' = DailyIndex(index, rate)
      BY <2>1, <3>1 DEF WriteDaily, WriteIndex
    <3> QED BY <2>0, <3>2, DailyIndexGrows
  <2>2. ASSUME NEW j \in Jobs, WriteAccrual(j) PROVE index' >= index
    <3>1. seen[j].index = index /\ pc[j] = "accrual"
      BY <2>2 DEF WriteAccrual, SerialInv, ReadsAreCurrent, InFlight, Running
    <3>2. PICK g \in GrowthFactors(j) : index' = (seen[j].index * g) \div Scale
      BY <2>2 DEF WriteAccrual, WriteIndex
    <3> DEFINE i == (seen[j].index * g) \div Scale
    <3>3. i \in Nat /\ seen[j].index <= i
      BY <3>1, AccrualType DEF SerialInv
    <3>4. index' = i
      BY <3>2
    <3> HIDE DEF i
    <3> QED BY <2>0, <3>1, <3>3, <3>4
  <2>3. ASSUME UNCHANGED index PROVE index' >= index
    BY <2>0, <2>3
  <2> QED
    BY <2>1, <2>2, <2>3
       DEF Next, Starts, Statement, AddPendingDeposit, MarkFundsAsStaked, Earn, Mine, BeginDaily,
           BeginAccrual, BeginDeploy, BeginRecall, BeginSync, Begin, Send, Fails, Fetch,
           WriteBalances, row, history
<1> QED BY <1>1, SerialInvariance, PTL DEF Spec, IndexNeverFalls

(* What shares are worth is staked, while reported yields and staking are  *)
(* all that moves the vault, but for the rounding of each reported yield.    *)
(* The strengthening: what rounding may have done never favours the vault.   *)
Covered == IndexIsBacked /\ (exact => down <= up)

THEOREM SharesAreCovered == ASSUME Serialised PROVE Spec => []IndexIsBacked
<1>1. Init => Covered
  BY ScaleAssumption DEF Init, Covered, IndexIsBacked
<1>2. SerialInv /\ Covered /\ [Next]_vars => Covered'
  <2> SUFFICES ASSUME SerialInv, Covered, [Next]_vars, exact'
               PROVE  shares' * index' * down' <= staked' * Scale * up' /\ down' <= up'
    BY DEF Covered, IndexIsBacked
  <2>0. /\ index \in Nat \ {0} /\ staked \in Nat /\ shares \in Nat /\ Amounts \subseteq Nat
        /\ up \in Nat /\ down \in Nat /\ Precision \in Nat \ {0, 1}
    BY ScaleAssumption, VaultAssumption DEF SerialInv, TypeInv, TypeOK
  <2>1. ASSUME NEW a \in Amounts, MarkFundsAsStaked(a)
        PROVE  shares' * index' * down' <= staked' * Scale * up' /\ down' <= up'
    <3>1. shares * index * down <= staked * Scale * up /\ down <= up
      BY <2>1 DEF MarkFundsAsStaked, Covered, IndexIsBacked
    <3>2. (shares + CalculateShares(a, index)) * index * down <= (staked + a) * Scale * up
      BY <2>0, <3>1, StakingKeepsCover
    <3>3. /\ shares' = shares + CalculateShares(a, index) /\ index' = index
          /\ staked' = staked + a /\ up' = up /\ down' = down
      BY <2>1 DEF MarkFundsAsStaked
    <3> QED BY <3>1, <3>2, <3>3
  <2>2. ASSUME NEW j \in Jobs, WriteAccrual(j)
        PROVE  shares' * index' * down' <= staked' * Scale * up' /\ down' <= up'
    <3>1. pc[j] = "accrual" /\ seen[j].index = index /\ seen[j].staked = staked
      BY <2>2 DEF WriteAccrual, SerialInv, ReadsAreCurrent, InFlight, Running
    <3>2. PICK g \in GrowthFactors(j), y \in Sums(seen[j].cumulative + amount[j]),
               t \in Sums(seen[j].staked + amount[j]) :
                 WriteIndex(j, (seen[j].index * g) \div Scale, y, t)
      BY <2>2 DEF WriteAccrual
    <3>3. /\ staked \in Nat \ {0} /\ amount[j] \in Nat /\ g \in Nat /\ Scale <= g
          /\ g * staked * Precision <= (staked + amount[j]) * Scale * (Precision + 1)
      BY <3>1, AccrualType DEF SerialInv
    <3>4. t \in Nat /\ (staked + amount[j]) * (Precision - 1) <= t * Precision
      BY <3>1, <3>3, SumsTyped
    <3>5. exact /\ up' = up * (Precision + 1) /\ down' = down * (Precision - 1)
      BY <2>2 DEF WriteAccrual, MayDrift
    <3>6. shares * index * down <= staked * Scale * up /\ down <= up
      BY <3>5 DEF Covered, IndexIsBacked
    <3>7. shares * ((index * g) \div Scale) * (down * (Precision - 1))
            <= t * Scale * (up * (Precision + 1))
      BY <2>0, <3>3, <3>4, <3>6, AccrualKeepsCover
    <3>8. shares' = shares /\ staked' = t /\ index' = (index * g) \div Scale
      BY <3>1, <3>2 DEF WriteIndex
    <3>9. down * (Precision - 1) <= up * (Precision + 1)
      <4>1. down * Precision <= up * Precision
        <5>1. Precision * down <= Precision * up
          BY <2>0, <3>6, ProductMonotone
        <5> QED BY <2>0, <5>1
      <4> DEFINE A == down * Precision
                 B == up * Precision
      <4>2. A \in Nat /\ B \in Nat
        BY <2>0, ProductIsNat
      <4>3. down * (Precision - 1) = A - down /\ up * (Precision + 1) = B + up
        BY <2>0
      <4>4. A <= B
        BY <4>1
      <4> HIDE DEF A, B
      <4> QED BY <2>0, <4>2, <4>3, <4>4
    <3> QED BY <3>5, <3>7, <3>8, <3>9
  <2>3. ASSUME UNCHANGED <<shares, index, staked, exact, up, down>>
        PROVE  shares' * index' * down' <= staked' * Scale * up' /\ down' <= up'
    BY <2>3 DEF Covered, IndexIsBacked
  <2>4. ASSUME NEW j \in Jobs, NEW rate \in Rates, WriteDaily(j, rate) PROVE FALSE
    BY <2>4 DEF WriteDaily, MovedOtherwise
  <2>5. ASSUME NEW j \in Jobs, WriteBalances(j) PROVE FALSE
    BY <2>5 DEF WriteBalances, MovedOtherwise
  <2> QED
    BY <2>1, <2>2, <2>3, <2>4, <2>5
       DEF Next, Starts, Statement, AddPendingDeposit, Earn, Mine, BeginDaily, BeginAccrual,
           BeginDeploy, BeginRecall, BeginSync, Begin, Send, Fails, Fetch, vars, row, history
<1>3. Covered => IndexIsBacked
  BY DEF Covered
<1> QED BY <1>1, <1>2, <1>3, SerialInvariance, PTL DEF Spec
==========================================================================
