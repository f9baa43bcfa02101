--------------------------- MODULE RequestProofs ---------------------------
(***************************************************************************)
(* What is proved of one request: its way through a combo (ComboFallback)  *)
(* and the one end that is logged of it (OutcomeLedger), for every set of  *)
(* leaves, providers, keys and attempts, every chain, every size of console *)
(* and registry and every bound.                                            *)
(***************************************************************************)
EXTENDS ComboFallback, OutcomeLedger, FiniteSetTheorems, SequenceTheorems, TLAPS

(* ---- counting ------------------------------------------------------------- *)

LEMMA Counts ==
  \A N \in Nat : /\ IsFiniteSet(0 .. N - 1) /\ Cardinality(0 .. N - 1) = N
                /\ IsFiniteSet(1 .. N) /\ Cardinality(1 .. N) = N
<1> SUFFICES ASSUME NEW N \in Nat
             PROVE  /\ IsFiniteSet(0 .. N - 1) /\ Cardinality(0 .. N - 1) = N
                    /\ IsFiniteSet(1 .. N) /\ Cardinality(1 .. N) = N
  OBVIOUS
<1> QED BY FS_Interval

(* ---- subsequences --------------------------------------------------------- *)

\* A finite set of numbers can be counted off from 0: each number below its size
\* has one element, and each element one number.
LEMMA NthCounts ==
  ASSUME NEW P, IsFiniteSet(P), P \subseteq Nat
  PROVE  /\ \A k \in 0 .. Cardinality(P) - 1 :
              Nth(P, k) \in P /\ Cardinality({j \in P : j < Nth(P, k)}) = k
         /\ \A i \in P : \E k \in 0 .. Cardinality(P) - 1 : Nth(P, k) = i
<1> DEFINE Below(i) == {j \in P : j < i}
           N == Cardinality(P)
           f == [i \in P |-> Cardinality(Below(i))]
<1>1. N \in Nat
  BY FS_CardinalityType
<1>2. ASSUME NEW i \in P PROVE IsFiniteSet(Below(i)) /\ f[i] \in 0 .. N - 1
  <2>1. Below(i) \subseteq P /\ i \notin Below(i)
    OBVIOUS
  <2>2. IsFiniteSet(Below(i)) /\ Cardinality(Below(i)) <= N /\ Cardinality(Below(i)) # N
    BY <2>1, FS_Subset
  <2>3. Cardinality(Below(i)) \in Nat
    BY <2>2, FS_CardinalityType
  <2> QED BY <2>2, <2>3, <1>1
<1>3. ASSUME NEW i \in P, NEW j \in P, i < j PROVE f[i] < f[j]
  <2>1. Below(i) \subseteq Below(j) /\ i \in Below(j) /\ i \notin Below(i)
    <3>1. i \in Nat /\ j \in Nat /\ \A l \in P : l \in Nat
      OBVIOUS
    <3>2. \A l \in P : l < i => l < j
      BY <3>1, <1>3
    <3>3. ~(i < i)
      BY <3>1
    <3> QED BY <3>2, <3>3, <1>3, Zenon
  <2>2. IsFiniteSet(Below(j)) /\ f[i] \in Nat /\ f[j] \in Nat
    BY <1>1, <1>2
  <2>3. Cardinality(Below(i)) <= Cardinality(Below(j)) /\ Cardinality(Below(i)) # Cardinality(Below(j))
    BY <2>1, <2>2, FS_Subset
  <2> QED BY <2>2, <2>3
<1>4. \A i, j \in P : f[i] = f[j] => i = j
  <2> SUFFICES ASSUME NEW i \in P, NEW j \in P, f[i] = f[j] PROVE i = j
    OBVIOUS
  <2>1. f[i] \in Nat /\ f[j] \in Nat /\ i \in Nat /\ j \in Nat
    BY <1>1, <1>2
  <2>2. ~(i < j) /\ ~(j < i)
    BY <2>1, <1>3
  <2> QED BY <2>1, <2>2
<1>5. f \in Injection(P, 0 .. N - 1)
  <2>1. f \in [P -> 0 .. N - 1]
    BY <1>2
  <2> HIDE DEF f
  <2> QED BY <2>1, <1>4 DEF Injection, IsInjective
<1>6. f \in Surjection(P, 0 .. N - 1)
  <2>1. IsFiniteSet(0 .. N - 1) /\ Cardinality(0 .. N - 1) = N
    BY <1>1, Counts
  <2> QED BY <2>1, <1>5, FS_Injection
<1>7. ASSUME NEW k \in 0 .. N - 1 PROVE Nth(P, k) \in P /\ f[Nth(P, k)] = k
  <2>1. \E i \in P : f[i] = k
    <3> HIDE DEF f
    <3> QED BY <1>6 DEF Surjection
  <2> QED BY <2>1 DEF Nth
<1>8. ASSUME NEW i \in P PROVE \E k \in 0 .. N - 1 : Nth(P, k) = i
  <2>1. f[i] \in 0 .. N - 1
    BY <1>2
  <2>2. Nth(P, f[i]) \in P /\ f[Nth(P, f[i])] = f[i]
    <3> HIDE DEF f
    <3> QED BY <1>7, <2>1
  <2>3. Nth(P, f[i]) = i
    <3> HIDE DEF f
    <3> QED BY <1>4, <2>2
  <2> QED BY <2>1, <2>3
<1> QED BY <1>7, <1>8

\* Keeping positions of a sequence keeps exactly the entries there, once each.
LEMMA Keeps ==
  ASSUME NEW T, NEW s \in Seq(T), NEW P \in SUBSET DOMAIN s
  PROVE  /\ Keep(s, P) \in Seq(T) /\ Len(Keep(s, P)) <= Len(s)
         /\ \A n \in DOMAIN Keep(s, P) : Nth(P, n - 1) \in P /\ Keep(s, P)[n] = s[Nth(P, n - 1)]
         /\ \A m, n \in DOMAIN Keep(s, P) : Nth(P, m - 1) = Nth(P, n - 1) => m = n
         /\ \A i \in P : \E n \in DOMAIN Keep(s, P) : Keep(s, P)[n] = s[i]
<1> DEFINE N == Cardinality(P)
<1>1. IsFiniteSet(P) /\ P \subseteq Nat /\ N \in Nat /\ N <= Len(s)
  <2>1. DOMAIN s = 1 .. Len(s) /\ Len(s) \in Nat
    OBVIOUS
  <2>2. IsFiniteSet(1 .. Len(s)) /\ Cardinality(1 .. Len(s)) = Len(s)
    BY <2>1, Counts
  <2>3. P \in SUBSET (1 .. Len(s))
    BY <2>1
  <2>4. IsFiniteSet(P) /\ N <= Len(s)
    BY <2>2, <2>3, FS_Subset
  <2> QED BY <2>3, <2>4, FS_CardinalityType
<1>2. /\ \A k \in 0 .. N - 1 : Nth(P, k) \in P /\ Cardinality({j \in P : j < Nth(P, k)}) = k
      /\ \A i \in P : \E k \in 0 .. N - 1 : Nth(P, k) = i
  BY <1>1, NthCounts
<1>3. Keep(s, P) = [n \in 1 .. N |-> s[Nth(P, n - 1)]]
  BY DEF Keep
<1>4. \A n \in 1 .. N : n - 1 \in 0 .. N - 1
  BY <1>1
<1> HIDE DEF N
<1>5. Keep(s, P) \in Seq(T) /\ Len(Keep(s, P)) = N /\ DOMAIN Keep(s, P) = 1 .. N
  <2>1. \A i \in P : s[i] \in T
    OBVIOUS
  <2>2. ASSUME NEW n \in 1 .. N PROVE s[Nth(P, n - 1)] \in T
    BY <1>2, <1>4, <2>1
  <2> QED BY <2>2, <1>1, <1>3
<1>6. ASSUME NEW i \in P PROVE \E n \in 1 .. N : Nth(P, n - 1) = i
  <2>1. PICK k \in 0 .. N - 1 : Nth(P, k) = i
    BY <1>2
  <2>2. k + 1 \in 1 .. N /\ (k + 1) - 1 = k
    BY <1>1
  <2> QED BY <2>1, <2>2
<1>7. ASSUME NEW m \in 1 .. N, NEW n \in 1 .. N, Nth(P, m - 1) = Nth(P, n - 1) PROVE m = n
  <2>1. m - 1 \in 0 .. N - 1 /\ n - 1 \in 0 .. N - 1
    BY <1>4
  <2>2. m - 1 = n - 1
    BY <2>1, <1>2, <1>7
  <2> QED BY <2>2, <1>1
<1>8. ASSUME NEW n \in 1 .. N PROVE Nth(P, n - 1) \in P /\ Keep(s, P)[n] = s[Nth(P, n - 1)]
  BY <1>2, <1>3, <1>4
<1>9. ASSUME NEW i \in P PROVE \E n \in 1 .. N : Keep(s, P)[n] = s[i]
  BY <1>6, <1>8
<1> QED BY <1>1, <1>5, <1>7, <1>8, <1>9

LEMMA Extremes ==
  ASSUME NEW P, IsFiniteSet(P), P \subseteq Nat, P # {}
  PROVE  /\ MinOf(P) \in P /\ \A n \in P : MinOf(P) <= n
         /\ MaxOf(P) \in P /\ \A n \in P : n <= MaxOf(P)
<1> DEFINE N == Cardinality(P)
<1>1. N \in Nat /\ N # 0
  BY FS_CardinalityType, FS_EmptySet
<1>2. \A k \in 0 .. N - 1 : Nth(P, k) \in P /\ Cardinality({j \in P : j < Nth(P, k)}) = k
  BY NthCounts
<1> HIDE DEF N
<1>3. 0 \in 0 .. N - 1 /\ N - 1 \in 0 .. N - 1
  BY <1>1
<1>4. \E m \in P : \A n \in P : m <= n
  <2>1. PICK m \in P : m = Nth(P, 0) /\ Cardinality({j \in P : j < m}) = 0
    BY <1>2, <1>3
  <2>2. IsFiniteSet({j \in P : j < m})
    BY FS_Subset
  <2>3. {j \in P : j < m} = {}
    BY <2>1, <2>2, FS_EmptySet
  <2>4. \A n \in P : ~(n < m) /\ n \in Nat /\ m \in Nat
    BY <2>3
  <2>5. \A n \in P : m <= n
    BY <2>4
  <2> QED BY <2>5
<1>5. \E m \in P : \A n \in P : n <= m
  <2>1. PICK m \in P : m = Nth(P, N - 1) /\ Cardinality({j \in P : j < m}) = N - 1
    BY <1>2, <1>3
  <2>2. IsFiniteSet(P \ {m}) /\ Cardinality(P \ {m}) = N - 1
    BY FS_RemoveElement DEF N
  <2>3. {j \in P : j < m} \subseteq P \ {m}
    <3>1. m \in Nat /\ ~(m < m)
      OBVIOUS
    <3> QED BY <3>1
  <2>4. {j \in P : j < m} = P \ {m}
    BY <2>1, <2>2, <2>3, FS_Subset
  <2>5. \A n \in P : n \in Nat /\ m \in Nat /\ (n = m \/ n < m)
    BY <2>4
  <2>6. \A n \in P : n <= m
    BY <2>5
  <2> QED BY <2>6
<1> QED BY <1>4, <1>5 DEF MinOf, MaxOf

(* ---- the combo ------------------------------------------------------------ *)

LEMMA ImageIsFinite ==
  ASSUME NEW S, IsFiniteSet(S), NEW f, DOMAIN f = S
  PROVE  IsFiniteSet({f[x] : x \in S})
<1> DEFINE T == {f[x] : x \in S}
           g == [x \in S |-> f[x]]
<1>1. g \in [S -> T] /\ \A t \in T : \E x \in S : g[x] = t
  OBVIOUS
<1>2. g \in Surjection(S, T)
  BY <1>1 DEF Surjection
<1> QED BY <1>2, FS_Surjection

LEMMA TheCombo ==
  /\ Base \in Seq(Leaves) /\ Len(Base) \in Nat \ {0} /\ IsFiniteSet(Leaves)
  /\ \A l \in Leaves : \E i \in DOMAIN Base : Base[i] = l
  /\ \A l \in Leaves : Conns[l] \subseteq Nat /\ Conns[l] # {} /\ IsFiniteSet(Conns[l])
                       /\ ProviderOf[l] \in Providers
  /\ infinite \in RetrySettings => infinite \in BOOLEAN /\ MaxChanges[infinite] \in Nat
  /\ MaxDials \in Nat /\ MaxRestarts \in Nat
<1> USE ComboAssumption
<1>1. Base \in Seq(Leaves) /\ ToSet(Base) = Leaves /\ Leaves # {}
  OBVIOUS
<1>2. \A l \in Leaves : \E i \in DOMAIN Base : Base[i] = l
  BY <1>1 DEF ToSet
<1>3. Len(Base) \in Nat /\ DOMAIN Base = 1 .. Len(Base)
  BY <1>1
<1>4. Len(Base) # 0
  BY <1>1, <1>2, <1>3
<1>5. IsFiniteSet(DOMAIN Base)
  BY <1>3, Counts
<1>6. Leaves = {Base[i] : i \in DOMAIN Base}
  BY <1>1 DEF ToSet
<1>7. IsFiniteSet(Leaves)
  BY <1>5, <1>6, ImageIsFinite
<1>8. \A l \in Leaves : Conns[l] \subseteq Nat /\ Conns[l] # {} /\ IsFiniteSet(Conns[l])
                        /\ ProviderOf[l] \in Providers
  OBVIOUS
<1>9. infinite \in RetrySettings => infinite \in BOOLEAN /\ MaxChanges[infinite] \in Nat
  OBVIOUS
<1> QED BY <1>1, <1>2, <1>3, <1>4, <1>7, <1>8, <1>9

\* A chain's widest leaf exists, and no leaf of a chain is wider than the combo's widest.
LEMMA WidestIs ==
  ASSUME NEW chain \in Seq(Leaves), Len(chain) # 0
  PROVE  Widest(chain) \in Nat /\ Widest(Base) \in Nat /\ Widest(chain) <= Widest(Base)
<1> DEFINE Widths(s) == {Cardinality(Conns[s[i]]) : i \in DOMAIN s}
<1>1. ASSUME NEW s \in Seq(Leaves), Len(s) # 0
      PROVE  /\ Widest(s) \in Widths(s) /\ Widths(s) \subseteq Nat
             /\ \A n \in Widths(s) : n <= Widest(s)
  <2> DEFINE f == [i \in DOMAIN s |-> Cardinality(Conns[s[i]])]
  <2>1. Len(s) \in Nat /\ DOMAIN s = 1 .. Len(s)
    OBVIOUS
  <2>2. IsFiniteSet(DOMAIN s) /\ 1 \in DOMAIN s
    BY <1>1, <2>1, Counts
  <2>3. {f[i] : i \in DOMAIN s} = Widths(s)
    OBVIOUS
  <2>4. IsFiniteSet({f[i] : i \in DOMAIN s})
    <3>1. DOMAIN f = DOMAIN s
      OBVIOUS
    <3> HIDE DEF f
    <3> QED BY <2>2, <3>1, ImageIsFinite
  <2>5. \A i \in DOMAIN s : Cardinality(Conns[s[i]]) \in Nat
    <3>1. \A i \in DOMAIN s : s[i] \in Leaves
      OBVIOUS
    <3> QED BY <3>1, TheCombo, FS_CardinalityType
  <2>6. IsFiniteSet(Widths(s)) /\ Widths(s) \subseteq Nat /\ Widths(s) # {}
    BY <2>2, <2>3, <2>4, <2>5
  <2>7. Widest(s) = MaxOf(Widths(s))
    BY DEF Widest
  <2> HIDE DEF Widths
  <2> QED BY <2>6, <2>7, Extremes
<1>2. Base \in Seq(Leaves) /\ Len(Base) # 0 /\ \A l \in Leaves : \E i \in DOMAIN Base : Base[i] = l
  BY TheCombo
<1>3. Widths(chain) \subseteq Widths(Base)
  <2>1. \A i \in DOMAIN chain : chain[i] \in Leaves
    OBVIOUS
  <2> QED BY <1>2, <2>1
<1> HIDE DEF Widths
<1>4. Widest(chain) \in Nat /\ Widest(Base) \in Nat
  BY <1>1, <1>2
<1>5. Widest(chain) <= Widest(Base)
  BY <1>1, <1>2, <1>3
<1> QED BY <1>4, <1>5

LEMMA RepeatsIs ==
  ASSUME NEW n \in Nat \ {0}, NEW w \in Nat, NEW v \in Nat, w <= v
  PROVE  Repeats(n, w) \in 2 .. 6 /\ Repeats(n, v) \in 2 .. 6 /\ Repeats(n, w) <= Repeats(n, v)
<1>1. PICK d \in Nat : d = 24 \div n
  OBVIOUS
<1> QED BY <1>1 DEF Repeats, Least, Most

LEMMA LongestIs ==
  ASSUME NEW n \in 1 .. Len(Base)
  PROVE  Longest \in Nat /\ n * Repeats(n, Widest(Base)) <= Longest
<1> DEFINE Sizes == {m * Repeats(m, Widest(Base)) : m \in 1 .. Len(Base)}
<1>1. Len(Base) \in Nat \ {0} /\ Widest(Base) \in Nat
  BY TheCombo, WidestIs
<1>2. ASSUME NEW m \in 1 .. Len(Base)
      PROVE  m * Repeats(m, Widest(Base)) \in Nat /\ m * Repeats(m, Widest(Base)) <= 6 * Len(Base)
  <2>1. m \in Nat \ {0} /\ m <= Len(Base)
    BY <1>1
  <2>2. PICK r \in 2 .. 6 : r = Repeats(m, Widest(Base))
    BY <1>1, <2>1, RepeatsIs
  <2>3. m * r \in Nat /\ m * r <= 6 * Len(Base)
    <3>1. PICK L \in Nat : L = Len(Base)
      BY <1>1
    <3>2. m \in Nat /\ m <= L
      BY <2>1, <3>1
    <3>3. r \in {2, 3, 4, 5, 6}
      OBVIOUS
    <3>4. m * r \in Nat /\ m * r <= 6 * L
      BY <3>2, <3>3
    <3> QED BY <3>1, <3>4
  <2> QED BY <2>2, <2>3
<1>3. Sizes \in SUBSET Nat /\ \A x \in Sizes : x <= 6 * Len(Base)
  BY <1>2
<1>4. IsFiniteSet(Sizes)
  <2>1. 6 * Len(Base) \in Nat
    BY <1>1
  <2> HIDE DEF Sizes
  <2> QED BY <2>1, <1>3, FS_BoundedSetOfNaturals
<1>5. n * Repeats(n, Widest(Base)) \in Sizes
  OBVIOUS
<1>6. Longest = MaxOf(Sizes)
  BY DEF Longest
<1> HIDE DEF Sizes
<1>7. Longest \in Sizes /\ \A x \in Sizes : x <= Longest
  BY <1>3, <1>4, <1>5, <1>6, Extremes
<1> QED BY <1>3, <1>5, <1>7

\* A chain expanded from no more leaves than the combo has is no longer than Longest.
LEMMA ExpandedIs ==
  ASSUME NEW chain \in Seq(Leaves), Len(chain) # 0, Len(chain) <= Len(Base)
  PROVE  Expanded(chain) \in Seq(Leaves) /\ Len(Expanded(chain)) \in 1 .. Longest
<1>1. PICK n \in Nat \ {0} : n = Len(chain)
  OBVIOUS
<1>2. PICK r \in 2 .. 6 : r = Repeats(n, Widest(chain)) /\ r <= Repeats(n, Widest(Base))
                          /\ Repeats(n, Widest(Base)) \in 2 .. 6
  BY <1>1, WidestIs, RepeatsIs
<1>3. Expanded(chain) = [i \in 1 .. n * r |-> chain[((i - 1) % n) + 1]]
  BY <1>1, <1>2 DEF Expanded
<1>4. n * r \in Nat /\ n * r # 0
  <2>1. r \in {2, 3, 4, 5, 6}
    OBVIOUS
  <2>2. n \in Nat /\ n # 0
    OBVIOUS
  <2> QED BY <2>1, <2>2
<1>5. \A i \in 1 .. n * r : chain[((i - 1) % n) + 1] \in Leaves
  <2> SUFFICES ASSUME NEW i \in 1 .. n * r PROVE chain[((i - 1) % n) + 1] \in Leaves
    OBVIOUS
  <2>1. i - 1 \in Nat
    BY <1>4
  <2>2. ((i - 1) % n) \in 0 .. n - 1
    BY <2>1
  <2>3. ((i - 1) % n) + 1 \in 1 .. n
    BY <2>2
  <2> QED BY <1>1, <2>3
<1>6. Expanded(chain) \in Seq(Leaves) /\ Len(Expanded(chain)) = n * r
  BY <1>3, <1>4, <1>5
<1>7. n * r <= n * Repeats(n, Widest(Base))
  <2>1. PICK v \in 2 .. 6 : v = Repeats(n, Widest(Base)) /\ r <= v
    BY <1>2
  <2>2. r \in {2, 3, 4, 5, 6} /\ v \in {2, 3, 4, 5, 6}
    OBVIOUS
  <2>3. n \in Nat
    OBVIOUS
  <2>4. n * r <= n * v
    BY <2>1, <2>2, <2>3
  <2> QED BY <2>1, <2>4
<1>8. n * Repeats(n, Widest(Base)) \in Nat
  <2>1. PICK v \in 2 .. 6 : v = Repeats(n, Widest(Base))
    BY <1>2
  <2>2. v \in {2, 3, 4, 5, 6} /\ n \in Nat
    OBVIOUS
  <2>3. n * v \in Nat
    BY <2>2
  <2> QED BY <2>1, <2>3
<1>9. Longest \in Nat /\ n * Repeats(n, Widest(Base)) <= Longest
  <2>1. n \in 1 .. Len(Base)
    BY <1>1, TheCombo
  <2> QED BY <2>1, LongestIs
<1> QED BY <1>4, <1>6, <1>7, <1>8, <1>9

LEMMA ConfiguredIs == Configured \in Seq(Leaves) /\ Len(Configured) <= Len(Base)
<1>1. Base \in Seq(Leaves)
  BY TheCombo
<1>2. {i \in DOMAIN Base : status[Base[i]] # "removed"} \in SUBSET DOMAIN Base
  OBVIOUS
<1> QED BY <1>1, <1>2, Keeps DEF Configured

LEMMA ResolvedIs ==
  ASSUME Configured # <<>>
  PROVE  Resolved \in Seq(Leaves) /\ Len(Resolved) # 0 /\ Len(Resolved) <= Len(Base)
<1> DEFINE healthy == Keep(Base, {i \in DOMAIN Base : status[Base[i]] = "ok"})
<1>1. Base \in Seq(Leaves)
  BY TheCombo
<1>2. {i \in DOMAIN Base : status[Base[i]] = "ok"} \in SUBSET DOMAIN Base
  OBVIOUS
<1>3. healthy \in Seq(Leaves) /\ Len(healthy) <= Len(Base)
  BY <1>1, <1>2, Keeps
<1>4. Resolved = IF healthy # <<>> THEN healthy ELSE Configured
  BY DEF Resolved
<1> HIDE DEF healthy
<1> QED BY <1>3, <1>4, ConfiguredIs

LEMMA NewChainIs ==
  ASSUME Configured # <<>>
  PROVE  Expanded(Resolved) \in Seq(Leaves) /\ Len(Expanded(Resolved)) \in 1 .. Longest
  BY ResolvedIs, ExpandedIs

(* ---- retry states --------------------------------------------------------- *)

\* What a call is entered with: the original request has tried nothing.
Calls == {s \in RetryStates : s.fresh => s.pos = 1 /\ s.tried = NoneTried}

LEMMA UnsetIs == Unset \in Calls /\ Unset.fresh
<1>1. NoneTried \in [Leaves \cup Providers -> SUBSET Nat] /\ <<>> \in Seq(Leaves) /\ 1 \in Nat \ {0}
  BY DEF NoneTried
<1>2. /\ Unset = [chain |-> Unset.chain, pos |-> Unset.pos, tried |-> Unset.tried, fresh |-> Unset.fresh]
      /\ Unset.chain = <<>> /\ Unset.pos = 1 /\ Unset.tried = NoneTried /\ Unset.fresh = TRUE
  BY DEF Unset
<1> QED BY <1>1, <1>2 DEF Calls, RetryStates

LEMMA WrapStateIs == ASSUME NEW s \in RetryStates PROVE WrapState(s) \in Calls
<1>1. s.chain \in Seq(Leaves) /\ NoneTried \in [Leaves \cup Providers -> SUBSET Nat]
  BY DEF RetryStates, NoneTried
<1>2. (IF Configured # <<>> THEN Expanded(Resolved) ELSE s.chain) \in Seq(Leaves)
  BY <1>1, NewChainIs
<1> QED BY <1>1, <1>2 DEF WrapState, RetryStates, Calls

\* A pass that stands on an entry of its chain.
Standing(s) == s \in RetryStates /\ s.pos <= Len(s.chain)

LEMMA LeafIs ==
  ASSUME NEW s, Standing(s)
  PROVE  /\ LeafOf(s) \in Leaves /\ ProviderOf[LeafOf(s)] \in Providers
         /\ TriedOn(s, LeafOf(s)) \subseteq Nat
         /\ Picks(s) \subseteq Conns[LeafOf(s)] /\ Picks(s) # {} /\ Picks(s) \subseteq Nat
         /\ Untried(s, LeafOf(s)) # {} => Picks(s) = Untried(s, LeafOf(s))
<1>1. /\ s.chain \in Seq(Leaves) /\ s.pos \in Nat \ {0} /\ s.pos <= Len(s.chain)
      /\ s.tried \in [Leaves \cup Providers -> SUBSET Nat]
  BY DEF Standing, RetryStates
<1>2. LeafOf(s) \in Leaves
  BY <1>1 DEF LeafOf
<1>3. PICK l \in Leaves : l = LeafOf(s)
  BY <1>2
<1>4. Conns[l] \subseteq Nat /\ Conns[l] # {} /\ ProviderOf[l] \in Providers
  BY TheCombo
<1>5. TriedOn(s, l) \subseteq Nat
  BY <1>1, <1>4 DEF TriedOn
<1>6. Untried(s, l) \subseteq Conns[l]
  BY DEF Untried
<1> QED BY <1>3, <1>4, <1>5, <1>6 DEF Picks

\* The leaf a caller stood on, and what it had tried there when its key failed.
LEMMA NextStateIs ==
  ASSUME NEW f, Standing(f.s), f.key \in Nat, NEW u \in BOOLEAN
  PROVE  LET s == f.s
             l == LeafOf(s)
             t == NextState(f, u)
             mine == TriedOn(s, l) \cup {f.key}
         IN  /\ t \in RetryStates /\ t.chain = s.chain /\ ~t.fresh
             /\ t.pos \in {s.pos, s.pos + 1}
             /\ t.pos = s.pos => Conns[l] \ mine # {}
             /\ t.tried[l] = mine
             /\ \A w \in Leaves \ {l} : t.tried[w] = s.tried[w]
<1> DEFINE s == f.s
           l == LeafOf(s)
           mine == TriedOn(s, l) \cup {f.key}
           stays == ~u /\ Conns[l] \ mine # {}
           t == NextState(f, u)
           p == ProviderOf[l]
<1>1. /\ s.chain \in Seq(Leaves) /\ s.pos \in Nat \ {0} /\ s.pos <= Len(s.chain)
      /\ s.tried \in [Leaves \cup Providers -> SUBSET Nat]
  BY DEF Standing, RetryStates
<1>2. l \in Leaves /\ p \in Providers /\ mine \subseteq Nat
  BY LeafIs
<1>3. t = [chain |-> s.chain, pos |-> IF stays THEN s.pos ELSE s.pos + 1,
           tried |-> [s.tried EXCEPT ![l] = mine, ![p] = IF stays THEN mine ELSE {}],
           fresh |-> FALSE]
  BY DEF NextState
<1>4. Leaves \cap Providers = {}
  BY ComboAssumption
<1>5. /\ t.chain = s.chain /\ t.pos = (IF stays THEN s.pos ELSE s.pos + 1) /\ t.fresh = FALSE
      /\ t.tried = [s.tried EXCEPT ![l] = mine, ![p] = IF stays THEN mine ELSE {}]
  BY <1>3
<1>6. /\ t.tried \in [Leaves \cup Providers -> SUBSET Nat] /\ t.tried[l] = mine
      /\ \A w \in Leaves \ {l} : t.tried[w] = s.tried[w]
  <2>1. s.tried \in [Leaves \cup Providers -> SUBSET Nat] /\ l # p /\ mine \in SUBSET Nat
    BY <1>1, <1>2, <1>4
  <2>2. (IF stays THEN mine ELSE {}) \in SUBSET Nat
    BY <2>1
  <2> HIDE DEF s, l, mine, stays, p, t
  <2>3. t.tried \in [Leaves \cup Providers -> SUBSET Nat] /\ t.tried[l] = mine
    BY <1>2, <1>5, <2>1, <2>2
  <2>4. \A w \in Leaves \ {l} : w # p /\ t.tried[w] = s.tried[w]
    BY <1>2, <1>4, <1>5, <2>1
  <2> QED BY <2>3, <2>4
<1>7. t \in RetryStates
  <2>1. t.pos \in Nat \ {0}
    BY <1>1, <1>5
  <2> HIDE DEF s, l, mine, stays, p
  <2> QED BY <1>1, <1>3, <1>5, <1>6, <2>1 DEF RetryStates
<1> HIDE DEF t
<1>8. t.pos \in {s.pos, s.pos + 1} /\ (t.pos = s.pos => stays)
  BY <1>1, <1>5
<1> QED BY <1>5, <1>6, <1>7, <1>8 DEF t

\* Where a call that can go on comes to stand.
LEMMA LandedIs ==
  ASSUME state \in Calls, Configured # <<>>, state.fresh \/ Landings(state) # {},
         NEW s, s = IF state.fresh THEN Opened
                    ELSE [state EXCEPT !.pos = MinOf(Landings(state))]
  PROVE  /\ Standing(s) /\ s.tried = state.tried
         /\ state.fresh => Len(s.chain) <= Longest /\ s.pos = state.pos
         /\ ~state.fresh => s.chain = state.chain /\ state.pos <= s.pos
<1>1. /\ state.chain \in Seq(Leaves) /\ state.pos \in Nat \ {0} /\ state.fresh \in BOOLEAN
      /\ state.tried \in [Leaves \cup Providers -> SUBSET Nat]
      /\ state = [chain |-> state.chain, pos |-> state.pos, tried |-> state.tried,
                  fresh |-> state.fresh]
      /\ state.fresh => state.pos = 1
  BY DEF Calls, RetryStates
<1>2. CASE state.fresh
  <2>1. s = [state EXCEPT !.chain = Expanded(Resolved)]
    BY <1>2 DEF Opened
  <2>2. /\ s.chain = Expanded(Resolved) /\ s.pos = state.pos /\ s.tried = state.tried
        /\ s = [chain |-> s.chain, pos |-> s.pos, tried |-> s.tried, fresh |-> s.fresh]
        /\ s.fresh = state.fresh
    BY <1>1, <2>1
  <2>3. s.chain \in Seq(Leaves) /\ Len(s.chain) \in 1 .. Longest
    BY <2>2, NewChainIs
  <2>4. s.pos = 1 /\ s.pos \in Nat \ {0} /\ s.pos <= Len(s.chain) /\ Len(s.chain) <= Longest
    BY <1>1, <1>2, <2>2, <2>3
  <2>5. s \in RetryStates
    BY <1>1, <2>2, <2>3, <2>4 DEF RetryStates
  <2> QED BY <1>2, <2>2, <2>4, <2>5 DEF Standing
<1>3. CASE ~state.fresh
  <2> DEFINE m == MinOf(Landings(state))
  <2>1. Landings(state) \subseteq 1 .. Len(state.chain) /\ \A p \in Landings(state) : state.pos <= p
    BY <1>1 DEF Landings
  <2>2. IsFiniteSet(Landings(state))
    <3>1. Len(state.chain) \in Nat
      BY <1>1
    <3>2. IsFiniteSet(1 .. Len(state.chain))
      BY <3>1, Counts
    <3> QED BY <2>1, <3>2, FS_Subset
  <2>3. m \in Landings(state)
    <3>1. Landings(state) \subseteq Nat
      BY <2>1
    <3> QED BY <1>3, <2>2, <3>1, Extremes
  <2>4. m \in 1 .. Len(state.chain) /\ state.pos <= m
    BY <2>1, <2>3
  <2>5. s = [state EXCEPT !.pos = m]
    BY <1>3
  <2> HIDE DEF m
  <2>6. /\ s.chain = state.chain /\ s.pos = m /\ s.tried = state.tried /\ s.fresh = state.fresh
        /\ s = [chain |-> s.chain, pos |-> s.pos, tried |-> s.tried, fresh |-> s.fresh]
    BY <1>1, <2>5
  <2>7. m \in Nat \ {0} /\ m <= Len(s.chain)
    BY <1>1, <2>4, <2>6
  <2> QED BY <1>1, <1>3, <2>4, <2>6, <2>7 DEF Standing, RetryStates
<1> QED BY <1>2, <1>3

(* ---- the types ------------------------------------------------------------ *)

Modes == {"dial", "try", "handler", "gen"}

\* A pass that waits stands on an entry of its chain.
Waiting == {f \in Frames : Standing(f.s)}

\* What few steps change.
Settled ==
  /\ lane \in Lanes /\ infinite \in RetrySettings
  /\ status \in [Leaves -> {"ok", "timed", "disabled", "removed"}]
  /\ wall \in BOOLEAN /\ outcome \in Outcomes /\ restarts \in 0 .. MaxRestarts
  /\ unwell \subseteq Leaves /\ changes \in 0 .. MaxChanges[infinite]

\* What an upstream call is entered in.
Tallied ==
  /\ dials \in 0 .. MaxDials /\ dialled \in [Leaves -> SUBSET Nat]
  /\ unknown \subseteq Leaves /\ walled \in BOOLEAN /\ expired \in BOOLEAN

AllGenerators(fs) == \A i \in DOMAIN fs : fs[i].mode = "gen"

\* Who waits for whom.
Stacked ==
  /\ frames \in Seq(Waiting) /\ state \in Calls
  /\ pc \in {"enter", "dial", "redial", "stream", "raise", "over"}
  /\ pc = "dial" => frames # <<>> /\ Top.mode = "dial"
  /\ pc \in {"stream", "redial"} => frames # <<>> /\ AllGenerators(frames)

Shape == Settled /\ Tallied /\ Stacked

LEMMA FramesAre ==
  ASSUME NEW f
  PROVE  f \in Waiting <=> /\ f = [s |-> f.s, key |-> f.key, mode |-> f.mode]
                           /\ Standing(f.s) /\ f.key \in Nat /\ f.mode \in Modes
<1>1. ASSUME f \in Waiting
      PROVE  /\ f = [s |-> f.s, key |-> f.key, mode |-> f.mode]
             /\ Standing(f.s) /\ f.key \in Nat /\ f.mode \in Modes
  BY <1>1 DEF Waiting, Frames, Modes
<1>2. ASSUME f = [s |-> f.s, key |-> f.key, mode |-> f.mode],
             Standing(f.s), f.key \in Nat, f.mode \in Modes
      PROVE  f \in Waiting
  <2>1. f.s \in RetryStates
    BY <1>2 DEF Standing
  <2>2. f \in Frames
    BY <1>2, <2>1 DEF Frames, Modes
  <2> QED BY <1>2, <2>2 DEF Waiting
<1> QED BY <1>1, <1>2

LEMMA ShapeTypes == Shape => TypeOK
<1> SUFFICES ASSUME Shape PROVE TypeOK
  OBVIOUS
<1>1. Settled /\ Tallied /\ Stacked
  BY DEF Shape
<1>2. frames \in Seq(Frames)
  <2>1. frames \in Seq(Waiting) /\ Waiting \subseteq Frames
    BY <1>1 DEF Stacked, Waiting
  <2> QED BY <2>1
<1>3. pc \in {"stream", "redial"} => \A i \in DOMAIN frames : frames[i].mode = "gen"
  BY <1>1 DEF Stacked, AllGenerators
<1>4. state \in RetryStates
  BY <1>1 DEF Stacked, Calls
<1> QED BY <1>1, <1>2, <1>3, <1>4 DEF Settled, Tallied, Stacked, TypeOK

\* The top of a stack and what is below it.
LEMMA StackIs ==
  ASSUME NEW S, NEW fs \in Seq(S), fs # <<>>
  PROVE  /\ Last(fs) \in S /\ Len(fs) \in Nat \ {0} /\ Last(fs) = fs[Len(fs)]
         /\ Front(fs) \in Seq(S) /\ Len(Front(fs)) = Len(fs) - 1
         /\ \A i \in DOMAIN Front(fs) : i \in DOMAIN fs /\ Front(fs)[i] = fs[i]
<1>a. Len(fs) \in Nat \ {0}
  OBVIOUS
<1>1. Len(fs) \in Nat \ {0} /\ DOMAIN fs = 1 .. Len(fs)
  BY <1>a
<1>2. PICK n \in Nat : n = Len(fs) - 1
  BY <1>a
<1>3. \A i \in 1 .. n : i \in DOMAIN fs /\ fs[i] \in S
  BY <1>1, <1>2
<1>4. /\ SubSeq(fs, 1, n) \in Seq(S) /\ Len(SubSeq(fs, 1, n)) = n
      /\ \A i \in 1 .. n : SubSeq(fs, 1, n)[i] = fs[i]
  <2>1. /\ SubSeq(fs, 1, n) \in Seq(S) /\ Len(SubSeq(fs, 1, n)) = IF 1 <= n THEN n - 1 + 1 ELSE 0
        /\ \A i \in 1 .. n - 1 + 1 : SubSeq(fs, 1, n)[i] = fs[1 + i - 1]
    BY <1>3, SubSeqProperties
  <2>2. n - 1 + 1 = n /\ (~(1 <= n) => n = 0) /\ \A i \in 1 .. n : 1 + i - 1 = i
    OBVIOUS
  <2> QED BY <2>1, <2>2
<1>5. Front(fs) = SubSeq(fs, 1, n) /\ Last(fs) = fs[Len(fs)]
  BY <1>2 DEF Front, Last
<1>6. DOMAIN Front(fs) = 1 .. n
  BY <1>4, <1>5
<1> QED BY <1>1, <1>2, <1>3, <1>4, <1>5, <1>6

LEMMA TopIs ==
  ASSUME Stacked, frames # <<>>
  PROVE  Top \in Waiting /\ Standing(Top.s) /\ Front(frames) \in Seq(Waiting)
<1>1. frames \in Seq(Waiting)
  BY DEF Stacked
<1>2. Top \in Waiting
  BY <1>1, StackIs DEF Top
<1> QED BY <1>1, <1>2, StackIs, FramesAre

\* A pass that fails leaves a frame that waits, with the key it dialled.
LEMMA CallerIs ==
  ASSUME Stacked, frames # <<>>, NEW k \in Picks(Top.s)
  PROVE  /\ k \in Nat /\ Caller(k) \in Waiting /\ Caller(k).s = Top.s /\ Caller(k).key = k
         /\ Picked(k) \in Seq(Waiting) /\ Picked(k) # <<>> /\ Len(Picked(k)) = Len(frames)
         /\ Last(Picked(k)) = Caller(k)
         /\ \A i \in 1 .. Len(frames) - 1 : Picked(k)[i] = frames[i]
<1>1. k \in Nat /\ Top \in Waiting
  BY TopIs, LeafIs
<1>a. frames \in Seq(Waiting)
  BY DEF Stacked
<1>b. Len(frames) \in Nat \ {0} /\ Top = frames[Len(frames)]
  BY <1>a, StackIs DEF Top
<1>2. /\ frames \in Seq(Waiting) /\ Top = frames[Len(frames)]
      /\ Len(frames) \in Nat \ {0} /\ DOMAIN frames = 1 .. Len(frames)
  BY <1>a, <1>b
<1>3. Caller(k) = [Top EXCEPT !.key = k]
  BY DEF Caller
<1>4. Caller(k) = [s |-> Top.s, key |-> k, mode |-> Top.mode]
  BY <1>1, <1>3, FramesAre
<1>5. Caller(k).s = Top.s /\ Caller(k).key = k /\ Caller(k).mode = Top.mode
  BY <1>4
<1>6. Caller(k) \in Waiting
  BY <1>1, <1>4, <1>5, FramesAre
<1>7. Picked(k) = [frames EXCEPT ![Len(frames)] = Caller(k)]
  BY <1>2, <1>3 DEF Picked
<1>8. /\ Picked(k) \in Seq(Waiting) /\ Len(Picked(k)) = Len(frames)
      /\ Picked(k)[Len(frames)] = Caller(k)
      /\ \A i \in 1 .. Len(frames) - 1 : Picked(k)[i] = frames[i]
  <2>1. Len(frames) \in 1 .. Len(frames)
    BY <1>2
  <2>2. /\ Picked(k) \in Seq(Waiting) /\ Len(Picked(k)) = Len(frames)
        /\ \A i \in 1 .. Len(frames) :
             Picked(k)[i] = IF i = Len(frames) THEN Caller(k) ELSE frames[i]
    BY <1>2, <1>6, <1>7, <2>1, ExceptSeq
  <2>3. \A i \in 1 .. Len(frames) - 1 : i \in 1 .. Len(frames) /\ i # Len(frames)
    BY <1>b
  <2> QED BY <2>1, <2>2, <2>3
<1>9. Picked(k) # <<>>
  BY <1>2, <1>8
<1>10. Last(Picked(k)) = Caller(k)
  BY <1>8 DEF Last
<1> QED BY <1>1, <1>5, <1>6, <1>8, <1>9, <1>10

LEMMA StreamingIs ==
  ASSUME NEW fs \in Seq(Waiting), fs # <<>>
  PROVE  /\ Streaming(fs) \in Seq(Waiting) /\ Streaming(fs) # <<>>
         /\ AllGenerators(Streaming(fs)) /\ Len(Streaming(fs)) <= Len(fs)
         /\ Last(Streaming(fs)).s = Last(fs).s /\ Last(Streaming(fs)).key = Last(fs).key
<1> DEFINE P == {i \in 1 .. Len(fs) - 1 : fs[i].mode = "gen"}
           gens == Keep(fs, P)
           g == [Last(fs) EXCEPT !.mode = "gen"]
<1>a. Len(fs) \in Nat \ {0}
  BY StackIs
<1>1. Last(fs) \in Waiting /\ Len(fs) \in Nat \ {0} /\ DOMAIN fs = 1 .. Len(fs)
  BY StackIs
<1>2. P \in SUBSET DOMAIN fs
  BY <1>1
<1>3. /\ gens \in Seq(Waiting)
      /\ \A n \in DOMAIN gens : Nth(P, n - 1) \in P /\ gens[n] = fs[Nth(P, n - 1)]
  BY <1>2, Keeps
<1>4. g \in Waiting /\ g.s = Last(fs).s /\ g.key = Last(fs).key /\ g.mode = "gen"
  <2>1. g = [s |-> Last(fs).s, key |-> Last(fs).key, mode |-> "gen"]
    BY <1>1, FramesAre
  <2>2. g.s = Last(fs).s /\ g.key = Last(fs).key /\ g.mode = "gen"
    BY <2>1
  <2> HIDE DEF g
  <2> QED BY <1>1, <2>1, <2>2, FramesAre DEF Modes
<1>5. Streaming(fs) = Append(gens, g)
  BY DEF Streaming
<1>6. \A n \in DOMAIN gens : gens[n].mode = "gen"
  BY <1>3
<1>7. Len(gens) <= Len(fs) - 1 /\ Len(gens) \in Nat
  <2>1. Len(gens) = Cardinality(P)
    <3>1. IsFiniteSet(P)
      <4>1. IsFiniteSet(1 .. Len(fs) - 1)
        BY <1>1, FS_Interval
      <4> QED BY <4>1, FS_Subset
    <3>2. Cardinality(P) \in Nat
      BY <3>1, FS_CardinalityType
    <3>3. gens = [n \in 1 .. Cardinality(P) |-> fs[Nth(P, n - 1)]]
      BY DEF Keep
    <3> HIDE DEF gens, P
    <3>4. DOMAIN gens = 1 .. Cardinality(P)
      BY <3>3
    <3> QED BY <1>3, <3>2, <3>4, LenProperties
  <2>2. P \in SUBSET (1 .. Len(fs) - 1)
    OBVIOUS
  <2>3. PICK m \in Nat : m = Len(fs) - 1
    BY <1>a
  <2>4. IsFiniteSet(1 .. m) /\ Cardinality(1 .. m) = m
    BY Counts
  <2>5. Cardinality(P) <= m
    BY <2>2, <2>3, <2>4, FS_Subset
  <2> QED BY <1>3, <2>1, <2>3, <2>5
<1> HIDE DEF gens, g, P
<1>8. /\ Streaming(fs) \in Seq(Waiting) /\ Streaming(fs) # <<>>
      /\ Len(Streaming(fs)) = Len(gens) + 1
      /\ \A i \in 1 .. Len(gens) : Streaming(fs)[i] = gens[i]
      /\ Streaming(fs)[Len(gens) + 1] = g
  BY <1>3, <1>4, <1>5, AppendProperties
<1>9. AllGenerators(Streaming(fs))
  <2> SUFFICES ASSUME NEW i \in DOMAIN Streaming(fs) PROVE Streaming(fs)[i].mode = "gen"
    BY DEF AllGenerators
  <2>1. i \in 1 .. Len(gens) \/ i = Len(gens) + 1
    BY <1>7, <1>8
  <2>2. DOMAIN gens = 1 .. Len(gens)
    BY <1>3
  <2> QED BY <1>4, <1>6, <1>8, <2>1, <2>2
<1>10. Last(Streaming(fs)) = g
  BY <1>8 DEF Last
<1>11. Len(Streaming(fs)) <= Len(fs)
  BY <1>1, <1>7, <1>8
<1> QED BY <1>4, <1>8, <1>9, <1>10, <1>11

(* ---- how a step leaves the stack ------------------------------------------ *)

LEMMA AnswerShapes ==
  ASSUME Settled, NEW what \in Outcomes, Answer(what)
  PROVE  Settled' /\ Stacked'
<1>1. /\ outcome' = what /\ pc' = "over" /\ frames' = <<>> /\ state' = Unset
      /\ UNCHANGED <<lane, infinite, status, wall, restarts, unwell, changes>>
  BY DEF Answer
<1>2. Settled'
  BY <1>1 DEF Settled
<1>3. frames' \in Seq(Waiting)
  BY <1>1
<1> QED BY <1>1, <1>2, <1>3, UnsetIs DEF Stacked

LEMMA NestShapes ==
  ASSUME Shape, frames # <<>>, NEW f \in Waiting, NEW mode \in Modes, NEW s \in Calls,
         NestFrom(f, mode, s)
  PROVE  /\ Settled' /\ Stacked' /\ pc' = "enter" /\ state' = s
         /\ infinite' = infinite /\ Len(frames') = Len(frames)
<1> DEFINE g == [f EXCEPT !.mode = mode]
<1>1. /\ frames' = Append(Front(frames), g)
      /\ state' = s /\ pc' = "enter"
      /\ UNCHANGED <<lane, infinite, status, wall, outcome, restarts, unwell, changes>>
  BY DEF NestFrom
<1>2. g \in Waiting
  <2>1. g = [s |-> f.s, key |-> f.key, mode |-> mode]
    BY FramesAre
  <2>2. g.s = f.s /\ g.key = f.key /\ g.mode = mode
    BY <2>1
  <2> HIDE DEF g
  <2> QED BY <2>1, <2>2, FramesAre
<1>3. /\ Front(frames) \in Seq(Waiting) /\ Len(Front(frames)) = Len(frames) - 1
      /\ Len(frames) \in Nat
  BY StackIs DEF Shape, Stacked
<1> HIDE DEF g
<1>4. Append(Front(frames), g) \in Seq(Waiting)
      /\ Len(Append(Front(frames), g)) = Len(Front(frames)) + 1
  BY <1>2, <1>3, AppendProperties
<1>5. frames' \in Seq(Waiting) /\ Len(frames') = Len(frames)
  BY <1>1, <1>3, <1>4
<1>6. Settled'
  BY <1>1 DEF Shape, Settled
<1> QED BY <1>1, <1>5, <1>6 DEF Stacked

LEMMA ThrowShapes ==
  ASSUME Shape, frames # <<>>, NEW s \in RetryStates, Throw(s)
  PROVE  Settled' /\ Stacked'
<1>1. /\ frames' = Front(frames) /\ state' = WrapState(s) /\ pc' = "raise" /\ wall' = FALSE
      /\ UNCHANGED <<lane, infinite, status, outcome, restarts, unwell, changes>>
  BY DEF Throw
<1>2. frames' \in Seq(Waiting)
  BY <1>1, TopIs DEF Shape
<1>3. state' \in Calls
  BY <1>1, WrapStateIs
<1>4. Settled'
  BY <1>1 DEF Shape, Settled
<1> QED BY <1>1, <1>2, <1>3, <1>4 DEF Stacked

LEMMA RestartShapes ==
  ASSUME Shape, NEW fs \in Seq(Waiting), NEW s \in Calls, Restart(fs, s),
         wall' \in BOOLEAN, expired' \in BOOLEAN
  PROVE  Shape'
<1>1. /\ restarts < MaxRestarts /\ restarts' = restarts + 1
      /\ dials' = 0 /\ dialled' = [l \in Leaves |-> {}]
      /\ frames' = fs /\ state' = s /\ pc' = "enter"
      /\ UNCHANGED <<lane, infinite, status, outcome, unwell, unknown, walled, changes>>
  BY DEF Restart
<1>2. restarts' \in 0 .. MaxRestarts
  <2>1. restarts \in 0 .. MaxRestarts /\ MaxRestarts \in Nat
    BY TheCombo DEF Shape, Settled
  <2> QED BY <1>1, <2>1
<1>3. Settled'
  BY <1>1, <1>2 DEF Shape, Settled
<1>4. dials' \in 0 .. MaxDials
  <2>1. MaxDials \in Nat
    BY TheCombo
  <2> QED BY <1>1, <2>1
<1>5. dialled' \in [Leaves -> SUBSET Nat]
  BY <1>1
<1>6. Tallied'
  BY <1>1, <1>4, <1>5 DEF Shape, Tallied
<1>7. Stacked'
  BY <1>1 DEF Stacked
<1> QED BY <1>3, <1>6, <1>7 DEF Shape

LEMMA DialShapes ==
  ASSUME Shape, frames # <<>>, NEW k \in Nat, NEW out, Dial(k, out)
  PROVE  Tallied' /\ dials' = dials + 1 /\ dials \in Nat
<1> DEFINE l == LeafOf(Top.s)
<1>1. /\ dials < MaxDials /\ dials' = dials + 1
      /\ dialled' = [dialled EXCEPT ![l] = @ \cup {k}]
      /\ unknown' = IF out = "unknown" THEN unknown \cup {l} ELSE unknown
      /\ walled' = (walled \/ out = "wall")
      /\ expired' = expired
  BY DEF Dial
<1>2. l \in Leaves
  BY TopIs, LeafIs DEF Shape
<1> HIDE DEF l
<1>3. Tallied
  BY DEF Shape
<1>4. dials' \in 0 .. MaxDials /\ dials \in Nat
  <2>1. dials \in 0 .. MaxDials /\ MaxDials \in Nat
    BY <1>3, TheCombo DEF Tallied
  <2> QED BY <1>1, <2>1
<1>5. dialled' \in [Leaves -> SUBSET Nat]
  <2>1. dialled \in [Leaves -> SUBSET Nat]
    BY <1>3 DEF Tallied
  <2>2. dialled[l] \cup {k} \in SUBSET Nat
    BY <1>2, <2>1
  <2> QED BY <1>1, <2>1, <2>2
<1>6. unknown' \subseteq Leaves
  BY <1>1, <1>2, <1>3 DEF Tallied
<1>7. walled' \in BOOLEAN
  BY <1>1, <1>3 DEF Tallied
<1>8. expired' \in BOOLEAN
  BY <1>1, <1>3 DEF Tallied
<1> QED BY <1>1, <1>4, <1>5, <1>6, <1>7, <1>8 DEF Tallied

\* A stream's 200, or the generator that sends a broken probe once more.
LEMMA StreamShapes ==
  ASSUME Shape, frames # <<>>, NEW k \in Picks(Top.s),
         frames' = Streaming(Picked(k)), pc' \in {"stream", "redial"}, state' = state,
         UNCHANGED <<lane, infinite, status, wall, outcome, restarts, unwell, changes>>
  PROVE  /\ Settled' /\ Stacked' /\ Len(frames') <= Len(frames)
         /\ Top'.s = Top.s /\ Top'.key = k
<1>1. /\ Picked(k) \in Seq(Waiting) /\ Picked(k) # <<>> /\ Len(Picked(k)) = Len(frames)
      /\ Last(Picked(k)) = Caller(k) /\ Caller(k).s = Top.s /\ Caller(k).key = k
  BY CallerIs DEF Shape
<1>2. /\ frames' \in Seq(Waiting) /\ frames' # <<>> /\ AllGenerators(frames')
      /\ Len(frames') <= Len(frames) /\ Last(frames').s = Top.s /\ Last(frames').key = k
  BY <1>1, StreamingIs
<1>3. Settled'
  BY DEF Shape, Settled
<1>4. state' \in Calls
  BY DEF Shape, Stacked
<1>5. Stacked'
  BY <1>2, <1>4 DEF Stacked, AllGenerators
<1> QED BY <1>2, <1>3, <1>5 DEF Top

(* ---- every step keeps the types ------------------------------------------- *)

LEMMA EnterShapes ==
  ASSUME Shape, EnterEmpty \/ EnterExhausted \/ EnterLeaf
  PROVE  Shape'
<1>1. Settled /\ Tallied /\ Stacked /\ state \in Calls /\ state \in RetryStates /\ frames \in Seq(Waiting)
  BY DEF Shape, Stacked, Calls
<1>2. ASSUME NEW what \in Outcomes, EnterAnswered(what) PROVE Shape'
  <2>1. Answer(what) /\ UNCHANGED <<dials, history>>
    BY <1>2 DEF EnterAnswered
  <2>2. Settled' /\ Stacked'
    BY <1>1, <2>1, AnswerShapes
  <2>3. Tallied'
    BY <1>1, <2>1 DEF Tallied, history
  <2> QED BY <2>2, <2>3 DEF Shape
<1>3. CASE EnterEmpty
  BY <1>2, <1>3 DEF EnterEmpty, Outcomes
<1>4. CASE EnterExhausted
  <2>1. /\ expired' = (expired \/ Landings(state) # {})
        /\ UNCHANGED <<dials, dialled, unknown, walled>>
    BY <1>4 DEF EnterExhausted
  <2>2. expired' \in BOOLEAN
    BY <2>1, <1>1 DEF Tallied
  <2>3. Tallied'
    BY <1>1, <2>1, <2>2 DEF Tallied
  <2>4. CASE infinite
    <3>1. /\ pc' = "raise" /\ state' = WrapState(state) /\ wall' = FALSE
          /\ UNCHANGED <<lane, infinite, status, frames, outcome, restarts, unwell, changes>>
      BY <1>4, <2>4 DEF EnterExhausted
    <3>2. state' \in Calls
      BY <1>1, <3>1, WrapStateIs
    <3>3. Settled'
      BY <1>1, <3>1 DEF Settled
    <3>4. Stacked'
      BY <1>1, <3>1, <3>2 DEF Stacked
    <3> QED BY <2>3, <3>3, <3>4 DEF Shape
  <2>5. CASE ~infinite
    <3>1. Answer("error") /\ "error" \in Outcomes
      BY <1>4, <2>5 DEF EnterExhausted, Outcomes
    <3>2. Settled' /\ Stacked'
      BY <1>1, <3>1, AnswerShapes
    <3> QED BY <2>3, <3>2 DEF Shape
  <2> QED BY <2>4, <2>5
<1>5. CASE EnterLeaf
  <2> DEFINE s == IF state.fresh THEN Opened ELSE [state EXCEPT !.pos = MinOf(Landings(state))]
  <2>1. PICK sibling \in BOOLEAN :
          IF BanBlocks(s, sibling)
          THEN EnterAnswered("banned")
          ELSE /\ frames' = Append(frames, [s |-> s, key |-> 0, mode |-> "dial"])
               /\ pc' = "dial" /\ state' = Unset
               /\ wall' = (wall \/ (state.fresh /\ Len(s.chain) > Len(Resolved)))
               /\ UNCHANGED <<lane, infinite, status, outcome, dials, restarts, history, changes>>
    BY <1>5 DEF EnterLeaf
  <2>4. Standing(s)
    <3>1. Configured # <<>> /\ (state.fresh \/ Landings(state) # {})
      BY <1>5 DEF EnterLeaf
    <3> QED BY <1>1, <3>1, LandedIs
  <2> HIDE DEF s
  <2>2. CASE BanBlocks(s, sibling)
    <3>1. EnterAnswered("banned") /\ "banned" \in Outcomes
      BY <2>1, <2>2 DEF Outcomes
    <3> QED BY <1>2, <3>1
  <2>3. CASE ~BanBlocks(s, sibling)
    <3> DEFINE g == [s |-> s, key |-> 0, mode |-> "dial"]
    <3>1. /\ frames' = Append(frames, g)
          /\ pc' = "dial" /\ state' = Unset
          /\ wall' = (wall \/ (state.fresh /\ Len(s.chain) > Len(Resolved)))
          /\ UNCHANGED <<lane, infinite, status, outcome, dials, restarts, dialled, unwell, unknown,
                         walled, expired, changes>>
      BY <2>1, <2>3 DEF history
    <3>3. g \in Waiting /\ g.mode = "dial"
      <4>1. g.s = s /\ g.key = 0 /\ g.mode = "dial" /\ g = [s |-> g.s, key |-> g.key, mode |-> g.mode]
        OBVIOUS
      <4> HIDE DEF g
      <4> QED BY <2>4, <4>1, FramesAre DEF Modes
    <3> HIDE DEF g
    <3>4. /\ frames' \in Seq(Waiting) /\ frames' # <<>> /\ Len(frames') = Len(frames) + 1
          /\ frames'[Len(frames) + 1] = g
      BY <1>1, <3>1, <3>3, AppendProperties
    <3>5. Last(frames') = g
      BY <3>4 DEF Last
    <3>6. Stacked'
      BY <3>1, <3>3, <3>4, <3>5, UnsetIs DEF Stacked, Top
    <3>7. wall' \in BOOLEAN
      BY <1>1, <3>1 DEF Settled
    <3>8. Settled'
      BY <1>1, <3>1, <3>7 DEF Settled
    <3>9. Tallied'
      BY <1>1, <3>1 DEF Tallied
    <3> QED BY <3>6, <3>8, <3>9 DEF Shape
  <2> QED BY <2>2, <2>3
<1> QED BY <1>3, <1>4, <1>5

LEMMA DialOkShapes == ASSUME Shape, DialOk PROVE Shape'
<1>1. frames # <<>> /\ Stacked /\ Settled
  BY DEF DialOk, Shape, Stacked
<1>2. PICK k \in Picks(Top.s) :
        /\ Dial(k, "ok")
        /\ IF lane = "json"
           THEN Answer("served")
           ELSE /\ frames' = Streaming(Picked(k)) /\ pc' = "stream"
                /\ UNCHANGED <<lane, infinite, status, state, wall, outcome, restarts, unwell, changes>>
  BY DEF DialOk
<1>3. Tallied'
  BY <1>1, <1>2, CallerIs, DialShapes
<1>4. CASE Answer("served")
  <2>1. "served" \in Outcomes
    BY DEF Outcomes
  <2>2. Settled' /\ Stacked'
    BY <1>1, <1>4, <2>1, AnswerShapes
  <2> QED BY <1>3, <2>2 DEF Shape
<1>5. CASE lane # "json"
  <2>1. Settled' /\ Stacked'
    BY <1>1, <1>2, <1>5, StreamShapes
  <2> QED BY <1>3, <2>1 DEF Shape
<1> QED BY <1>2, <1>4, <1>5

\* What the handlers of a failed call may do: dial on, give up with an answer,
\* or throw the sentinel.
LEMMA FailureShapes ==
  ASSUME Shape, frames # <<>>, Tallied', NEW f \in Waiting, Standing(f.s),
         \/ \E mode \in Modes, u \in BOOLEAN : NestFrom(f, mode, NextState(f, u))
         \/ \E what \in Outcomes : Answer(what)
         \/ Throw(f.s)
  PROVE  Shape'
<1>1. Settled /\ Stacked /\ f.s \in RetryStates /\ f.key \in Nat
  BY FramesAre DEF Shape, Standing
<1>2. ASSUME NEW mode \in Modes, NEW u \in BOOLEAN, NestFrom(f, mode, NextState(f, u)) PROVE Shape'
  <2>1. NextState(f, u) \in Calls
    <3>1. NextState(f, u) \in RetryStates /\ ~NextState(f, u).fresh
      BY <1>1, NextStateIs
    <3> QED BY <3>1 DEF Calls
  <2>2. Settled' /\ Stacked'
    BY <1>2, <2>1, NestShapes
  <2> QED BY <2>2 DEF Shape
<1>3. ASSUME NEW what \in Outcomes, Answer(what) PROVE Shape'
  <2>1. Settled' /\ Stacked'
    BY <1>1, <1>3, AnswerShapes
  <2> QED BY <2>1 DEF Shape
<1>4. CASE Throw(f.s)
  <2>1. Settled' /\ Stacked'
    BY <1>1, <1>4, ThrowShapes
  <2> QED BY <2>1 DEF Shape
<1> QED BY <1>2, <1>3, <1>4

LEMMA DialRefusedShapes == ASSUME Shape, DialRefused PROVE Shape'
<1>1. frames # <<>> /\ Stacked
  BY DEF DialRefused, Shape, Stacked
<1>2. PICK k \in Picks(Top.s), out \in {"http", "unknown", "wall"} :
        /\ Dial(k, out)
        /\ \/ Answer("wall") \/ Answer("error")
           \/ NestFrom(Caller(k), "try", NextState(Caller(k), out = "unknown"))
           \/ Throw(Caller(k).s)
  BY DEF DialRefused
<1>3. Tallied' /\ Caller(k) \in Waiting /\ Standing(Caller(k).s)
  <2>1. Tallied' /\ Caller(k) \in Waiting
    BY <1>1, <1>2, CallerIs, DialShapes
  <2> QED BY <2>1, FramesAre
<1>4. "wall" \in Outcomes /\ "error" \in Outcomes /\ "try" \in Modes /\ (out = "unknown") \in BOOLEAN
  BY DEF Outcomes, Modes
<1>5. \/ \E mode \in Modes, u \in BOOLEAN : NestFrom(Caller(k), mode, NextState(Caller(k), u))
      \/ \E what \in Outcomes : Answer(what)
      \/ Throw(Caller(k).s)
  BY <1>2, <1>4
<1> QED BY <1>1, <1>3, <1>5, FailureShapes

LEMMA DialBrokenShapes == ASSUME Shape, DialBroken PROVE Shape'
<1>1. frames # <<>> /\ Stacked
  BY DEF DialBroken, Shape, Stacked
<1>2. PICK k \in Picks(Top.s) :
        /\ Dial(k, "net")
        /\ \/ NestFrom(Caller(k), IF lane = "json" THEN "try" ELSE "handler",
                       NextState(Caller(k), FALSE))
           \/ Answer(IF infinite THEN "sentinel" ELSE "error")
           \/ Throw(Caller(k).s)
           \/ /\ frames' = Streaming(Picked(k)) /\ pc' = "redial"
              /\ UNCHANGED <<lane, infinite, status, state, wall, outcome, restarts, unwell, changes>>
  BY DEF DialBroken
<1>3. Tallied' /\ Caller(k) \in Waiting /\ Standing(Caller(k).s)
  <2>1. Tallied' /\ Caller(k) \in Waiting
    BY <1>1, <1>2, CallerIs, DialShapes
  <2> QED BY <2>1, FramesAre
<1>4. /\ (IF infinite THEN "sentinel" ELSE "error") \in Outcomes
      /\ (IF lane = "json" THEN "try" ELSE "handler") \in Modes /\ FALSE \in BOOLEAN
  BY DEF Outcomes, Modes
<1>5. CASE \/ \E mode \in Modes, u \in BOOLEAN : NestFrom(Caller(k), mode, NextState(Caller(k), u))
           \/ \E what \in Outcomes : Answer(what)
           \/ Throw(Caller(k).s)
  BY <1>1, <1>3, <1>5, FailureShapes
<1>6. CASE /\ frames' = Streaming(Picked(k)) /\ pc' = "redial"
           /\ UNCHANGED <<lane, infinite, status, state, wall, outcome, restarts, unwell, changes>>
  <2>1. Settled' /\ Stacked'
    BY <1>1, <1>6, StreamShapes
  <2> QED BY <1>3, <2>1 DEF Shape
<1> QED BY <1>2, <1>4, <1>5, <1>6

LEMMA StreamsShape ==
  ASSUME Shape, Redial \/ StreamEmits \/ StreamDies \/ StreamGivesUp
  PROVE  Shape'
<1>1. Settled /\ Tallied /\ Stacked
  BY DEF Shape
<1>2. frames # <<>> /\ frames \in Seq(Waiting) /\ Top \in Waiting /\ Standing(Top.s)
  <2>1. frames # <<>>
    BY <1>1 DEF Redial, StreamEmits, StreamDies, StreamGivesUp, Stacked
  <2> QED BY <1>1, <2>1, TopIs DEF Stacked
<1>3. "served" \in Outcomes /\ "error" \in Outcomes /\ "gen" \in Modes /\ FALSE \in BOOLEAN
  BY DEF Outcomes, Modes
<1>4. CASE Redial
  <2>1. PICK out \in {"ok", "http"} :
          /\ Dial(Top.key, out)
          /\ IF out = "ok"
             THEN /\ pc' = "stream"
                  /\ UNCHANGED <<lane, infinite, status, frames, state, wall, outcome, restarts, unwell,
                                 changes>>
             ELSE Answer("error")
    BY <1>4 DEF Redial
  <2>2. Tallied'
    <3>1. Top.key \in Nat
      BY <1>2, FramesAre
    <3> QED BY <1>2, <2>1, <3>1, DialShapes
  <2>3. CASE out = "ok"
    <3>1. Stacked'
      BY <1>1, <1>4, <2>1, <2>3 DEF Redial, Stacked, AllGenerators
    <3>2. Settled'
      BY <1>1, <2>1, <2>3 DEF Settled
    <3> QED BY <2>2, <3>1, <3>2 DEF Shape
  <2>4. CASE out # "ok"
    BY <1>2, <1>3, <2>1, <2>2, <2>4, FailureShapes
  <2> QED BY <2>3, <2>4
<1>5. CASE StreamEmits
  <2>1. Answer("served") /\ UNCHANGED <<dials, dialled, unknown, walled, expired>>
    BY <1>5 DEF StreamEmits, history
  <2>2. Tallied'
    BY <1>1, <2>1 DEF Tallied
  <2> QED BY <1>2, <1>3, <2>1, <2>2, FailureShapes
<1>6. CASE StreamDies
  <2>1. NestFrom(Top, "gen", NextState(Top, FALSE)) /\ UNCHANGED <<dials, dialled, unknown, walled, expired>>
    BY <1>6 DEF StreamDies, history
  <2>2. Tallied'
    BY <1>1, <2>1 DEF Tallied
  <2> QED BY <1>2, <1>3, <2>1, <2>2, FailureShapes
<1>7. CASE StreamGivesUp
  <2>1. PICK inBudget \in BOOLEAN :
          /\ \/ Restart(frames, WrapState(Top.s)) /\ wall' = FALSE
             \/ Answer("error") /\ UNCHANGED <<dials, dialled>>
          /\ expired' = (expired \/ ~inBudget) /\ UNCHANGED <<unknown, walled>>
    BY <1>7 DEF StreamGivesUp
  <2>2. expired' \in BOOLEAN
    BY <1>1, <2>1 DEF Tallied
  <2>3. CASE Restart(frames, WrapState(Top.s)) /\ wall' = FALSE
    <3>1. WrapState(Top.s) \in Calls /\ wall' \in BOOLEAN
      BY <1>2, <2>3, WrapStateIs DEF Standing
    <3> QED BY <1>2, <2>2, <2>3, <3>1, RestartShapes
  <2>4. CASE Answer("error") /\ UNCHANGED <<dials, dialled>>
    <3>1. Tallied'
      BY <1>1, <2>1, <2>2, <2>4 DEF Tallied
    <3> QED BY <1>2, <1>3, <2>4, <3>1, FailureShapes
  <2> QED BY <2>1, <2>3, <2>4
<1> QED BY <1>4, <1>5, <1>6, <1>7

LEMMA RaiseShapes ==
  ASSUME Shape, RootRestarts \/ HandlerCatches \/ HandlerPasses \/ GeneratorCatches
  PROVE  Shape'
<1>1. /\ Settled /\ Tallied /\ Stacked /\ frames \in Seq(Waiting) /\ state \in Calls
      /\ wall \in BOOLEAN /\ expired \in BOOLEAN
  BY DEF Shape, Settled, Tallied, Stacked
<1>2. ASSUME UNCHANGED <<dials, history>> PROVE Tallied'
  BY <1>1, <1>2 DEF Tallied, history
<1>3. ASSUME frames # <<>> PROVE Top \in Waiting /\ Standing(Top.s) /\ Front(frames) \in Seq(Waiting)
  BY <1>1, <1>3, TopIs
<1>4. "sentinel" \in Outcomes /\ "handler" \in Modes /\ FALSE \in BOOLEAN
  BY DEF Outcomes, Modes
<1>5. CASE RootRestarts
  <2>1. Restart(<<>>, state) /\ UNCHANGED <<wall, expired>> /\ <<>> \in Seq(Waiting)
    BY <1>5 DEF RootRestarts
  <2> QED BY <1>1, <2>1, RestartShapes
<1>6. CASE HandlerCatches
  <2>1. /\ frames # <<>> /\ UNCHANGED <<dials, history>>
        /\ \/ NestFrom(Top, "handler", NextState(Top, FALSE))
           \/ Throw(Top.s) \/ Answer("sentinel")
    BY <1>6 DEF HandlerCatches
  <2> QED BY <1>2, <1>3, <1>4, <2>1, FailureShapes
<1>7. ASSUME pc = "raise", frames # <<>>, frames' = Front(frames), UNCHANGED <<dials, history>>,
             UNCHANGED <<lane, infinite, status, pc, state, wall, outcome, restarts, unwell, changes>>
      PROVE  Shape'
  <2>1. Settled'
    BY <1>1, <1>7 DEF Settled
  <2>2. Stacked'
    BY <1>1, <1>3, <1>7 DEF Stacked
  <2> QED BY <1>2, <1>7, <2>1, <2>2 DEF Shape
<1>8. CASE HandlerPasses
  BY <1>7, <1>8 DEF HandlerPasses, history
<1>9. CASE GeneratorCatches
  <2>1. CASE Top.s.fresh
    <3>1. Restart(frames, state) /\ UNCHANGED <<wall, expired>>
      BY <1>9, <2>1 DEF GeneratorCatches
    <3> QED BY <1>1, <3>1, RestartShapes
  <2>2. CASE ~Top.s.fresh
    <3>1. /\ pc = "raise" /\ frames # <<>> /\ UNCHANGED <<dials, history>>
          /\ \/ Answer("sentinel")
             \/ /\ frames' = Front(frames)
                /\ UNCHANGED <<lane, infinite, status, pc, state, wall, outcome, restarts, unwell, changes>>
      BY <1>9, <2>2 DEF GeneratorCatches
    <3>2. CASE Answer("sentinel")
      BY <1>2, <1>3, <1>4, <3>1, <3>2, FailureShapes
    <3> QED BY <1>7, <3>1, <3>2
  <2> QED BY <2>1, <2>2
<1> QED BY <1>5, <1>6, <1>8, <1>9

LEMMA WorldShapes ==
  ASSUME Shape, StatusChanges \/ Disconnect \/ Over \/ UNCHANGED vars
  PROVE  Shape'
<1>1. Settled /\ Tallied /\ Stacked
  BY DEF Shape
<1>2. CASE StatusChanges
  <2>1. PICK l \in Leaves, to \in {"ok", "timed", "disabled", "removed"} :
          status' = [status EXCEPT ![l] = to] /\ unwell' = unwell \cup {l}
    BY <1>2 DEF StatusChanges
  <2>2. /\ changes < MaxChanges[infinite] /\ changes' = changes + 1
        /\ UNCHANGED <<lane, infinite, frames, pc, state, wall, outcome, dials, restarts, dialled,
                       unknown, walled, expired>>
    BY <1>2 DEF StatusChanges
  <2>3. changes' \in 0 .. MaxChanges[infinite]
    <3>1. changes \in 0 .. MaxChanges[infinite] /\ MaxChanges[infinite] \in Nat
      BY <1>1, TheCombo DEF Settled
    <3> QED BY <2>2, <3>1
  <2>4. Settled'
    BY <1>1, <2>1, <2>2, <2>3 DEF Settled
  <2>5. Tallied'
    BY <1>1, <2>2 DEF Tallied
  <2>6. Stacked'
    BY <1>1, <2>2 DEF Stacked, AllGenerators, Top
  <2> QED BY <2>4, <2>5, <2>6 DEF Shape
<1>3. CASE Disconnect
  <2>1. Answer("gone") /\ UNCHANGED <<dials, dialled, unknown, walled, expired>> /\ "gone" \in Outcomes
    BY <1>3 DEF Disconnect, history, Outcomes
  <2>2. Settled' /\ Stacked'
    BY <1>1, <2>1, AnswerShapes
  <2>3. Tallied'
    BY <1>1, <2>1 DEF Tallied
  <2> QED BY <2>2, <2>3 DEF Shape
<1>4. CASE Over \/ UNCHANGED vars
  <2>1. UNCHANGED vars
    BY <1>4 DEF Over
  <2>2. Settled' /\ Tallied'
    BY <1>1, <2>1 DEF vars, Settled, Tallied
  <2>3. Stacked'
    BY <1>1, <2>1 DEF vars, Stacked, AllGenerators, Top
  <2> QED BY <2>2, <2>3 DEF Shape
<1> QED BY <1>2, <1>3, <1>4

LEMMA ShapeInit == Init => Shape
<1> SUFFICES ASSUME Init PROVE Shape
  OBVIOUS
<1>1. infinite \in RetrySettings /\ MaxChanges[infinite] \in Nat /\ MaxDials \in Nat /\ MaxRestarts \in Nat
  BY TheCombo DEF Init
<1>2. 0 \in 0 .. MaxChanges[infinite] /\ 0 \in 0 .. MaxDials /\ 0 \in 0 .. MaxRestarts
  BY <1>1
<1>3. Settled
  BY <1>1, <1>2 DEF Init, Settled, Outcomes
<1>4. Tallied
  BY <1>2 DEF Init, Tallied
<1>5. <<>> \in Seq(Waiting)
  OBVIOUS
<1>6. Stacked
  BY <1>5, UnsetIs DEF Init, Stacked
<1> QED BY <1>3, <1>4, <1>6 DEF Shape

LEMMA ShapeNext == Shape /\ [Next]_vars => Shape'
<1> SUFFICES ASSUME Shape, [Next]_vars PROVE Shape'
  OBVIOUS
<1>1. CASE EnterEmpty \/ EnterExhausted \/ EnterLeaf
  BY <1>1, EnterShapes
<1>2. CASE DialOk \/ DialRefused \/ DialBroken
  BY <1>2, DialOkShapes, DialRefusedShapes, DialBrokenShapes
<1>3. CASE Redial \/ StreamEmits \/ StreamDies \/ StreamGivesUp
  BY <1>3, StreamsShape
<1>4. CASE RootRestarts \/ HandlerCatches \/ HandlerPasses \/ GeneratorCatches
  BY <1>4, RaiseShapes
<1>5. CASE StatusChanges \/ Disconnect \/ Over \/ UNCHANGED vars
  BY <1>5, WorldShapes
<1> QED BY <1>1, <1>2, <1>3, <1>4, <1>5 DEF Next, Step

LEMMA ShapeInvariant == Spec => []Shape
  BY ShapeInit, ShapeNext, PTL DEF Spec

\* Whatever is answered, banned, lifted or removed: the request, its retry state and
\* every waiting frame stay within their types, only the top frame dials, and under
\* a running generator there are only generators.
THEOREM TypeCorrect == Spec => []TypeOK
  BY ShapeTypes, ShapeInvariant, PTL

(* ---- what a pass may cost ------------------------------------------------- *)

\* The keys a state has tried, and the leaves that have none left.
Used(s) == {x \in Keys : x[2] \in s.tried[x[1]]}
Complete(s) == {l \in Leaves : Conns[l] \subseteq s.tried[l]}

\* n calls are paid for: one by each entry up to the current one, and one by every
\* tried key of a leaf but its last.
Paid(s, n) == n + Cardinality(Complete(s)) <= s.pos + Cardinality(Used(s))

LEMMA KeysAre ==
  /\ IsFiniteSet(Keys) /\ Cardinality(Keys) \in Nat
  /\ IsFiniteSet(Leaves) /\ Cardinality(Leaves) \in Nat
  /\ \A l \in Leaves : \A k : <<l, k>> \in Keys <=> k \in Conns[l]
  /\ \A x \in Keys : \E l \in Leaves : \E k \in Conns[l] : x = <<l, k>>
<1>1. IsFiniteSet(Leaves) /\ \A l \in Leaves : IsFiniteSet(Conns[l])
  BY TheCombo
<1> DEFINE f == [l \in Leaves |-> {l} \X Conns[l]]
<1>2. \A l \in Leaves : IsFiniteSet({l} \X Conns[l])
  <2> SUFFICES ASSUME NEW l \in Leaves PROVE IsFiniteSet({l} \X Conns[l])
    OBVIOUS
  <2>1. IsFiniteSet({l})
    BY FS_Singleton
  <2> QED BY <1>1, <2>1, FS_Product
<1>3. IsFiniteSet({f[l] : l \in Leaves})
  <2>1. DOMAIN f = Leaves
    OBVIOUS
  <2> HIDE DEF f
  <2> QED BY <1>1, <2>1, ImageIsFinite
<1>4. {f[l] : l \in Leaves} = {{l} \X Conns[l] : l \in Leaves}
  OBVIOUS
<1>5. \A S \in {{l} \X Conns[l] : l \in Leaves} : IsFiniteSet(S)
  BY <1>2
<1>6. IsFiniteSet(Keys)
  <2>1. IsFiniteSet({{l} \X Conns[l] : l \in Leaves})
    BY <1>3, <1>4
  <2>2. PICK T : T = {{l} \X Conns[l] : l \in Leaves}
    OBVIOUS
  <2>3. IsFiniteSet(UNION T)
    BY <1>5, <2>1, <2>2, FS_UNION
  <2> QED BY <2>2, <2>3 DEF Keys
<1>7. \A l \in Leaves : \A k : <<l, k>> \in Keys <=> k \in Conns[l]
  BY DEF Keys
<1>8. \A x \in Keys : \E l \in Leaves : \E k \in Conns[l] : x = <<l, k>>
  BY DEF Keys
<1> QED BY <1>1, <1>6, <1>7, <1>8, FS_CardinalityType

LEMMA SpentIs ==
  ASSUME NEW s
  PROVE  /\ IsFiniteSet(Used(s)) /\ Cardinality(Used(s)) \in Nat
         /\ IsFiniteSet(Complete(s)) /\ Cardinality(Complete(s)) \in Nat
         /\ \A l \in Leaves : \A k \in Conns[l] : <<l, k>> \in Used(s) <=> k \in s.tried[l]
<1>1. IsFiniteSet(Keys) /\ IsFiniteSet(Leaves)
  BY KeysAre
<1>2. Used(s) \in SUBSET Keys /\ Complete(s) \in SUBSET Leaves
  BY DEF Used, Complete
<1>3. IsFiniteSet(Used(s)) /\ IsFiniteSet(Complete(s))
  BY <1>1, <1>2, FS_Subset
<1>4. \A l \in Leaves : \A k \in Conns[l] : <<l, k>> \in Used(s) <=> k \in s.tried[l]
  <2> SUFFICES ASSUME NEW l \in Leaves, NEW k \in Conns[l]
               PROVE  <<l, k>> \in Used(s) <=> k \in s.tried[l]
    OBVIOUS
  <2>1. <<l, k>> \in Keys /\ <<l, k>>[1] = l /\ <<l, k>>[2] = k
    BY KeysAre
  <2> QED BY <2>1 DEF Used
<1> QED BY <1>3, <1>4, FS_CardinalityType

\* Every leaf's last key is paid for by an entry: the others are ExtraKeys.
LEMMA SpentIsBounded ==
  ASSUME NEW s
  PROVE  Cardinality(Used(s)) <= Cardinality(Complete(s)) + ExtraKeys /\ ExtraKeys \in Int
<1> DEFINE Open == Leaves \ Complete(s)
           Rest == Keys \ Used(s)
           f == [l \in Open |-> <<l, CHOOSE k \in Conns[l] : k \notin s.tried[l]>>]
<1>1. ASSUME NEW l \in Open
      PROVE  f[l] \in Rest /\ f[l][1] = l
  <2>1. \E k \in Conns[l] : k \notin s.tried[l]
    BY DEF Complete
  <2>2. PICK k \in Conns[l] : k = (CHOOSE c \in Conns[l] : c \notin s.tried[l]) /\ k \notin s.tried[l]
    BY <2>1
  <2>3. f[l] = <<l, k>>
    BY <2>2
  <2>4. <<l, k>> \in Keys /\ <<l, k>> \notin Used(s)
    BY <2>2, KeysAre, SpentIs
  <2> QED BY <2>3, <2>4
<1>2. f \in Injection(Open, Rest)
  <2>1. f \in [Open -> Rest]
    BY <1>1
  <2>2. \A l, m \in Open : f[l] = f[m] => l = m
    BY <1>1
  <2> HIDE DEF f
  <2> QED BY <2>1, <2>2 DEF Injection, IsInjective
<1> HIDE DEF f
<1>3. /\ IsFiniteSet(Keys) /\ IsFiniteSet(Leaves) /\ Cardinality(Keys) \in Nat /\ Cardinality(Leaves) \in Nat
      /\ Cardinality(Used(s)) \in Nat /\ Cardinality(Complete(s)) \in Nat
  BY KeysAre, SpentIs
<1>4. IsFiniteSet(Rest) /\ Cardinality(Rest) = Cardinality(Keys) - Cardinality(Used(s))
  <2>1. Keys \cap Used(s) = Used(s)
    BY DEF Used
  <2> QED BY <1>3, <2>1, FS_Difference
<1>5. Cardinality(Open) = Cardinality(Leaves) - Cardinality(Complete(s))
  <2>1. Leaves \cap Complete(s) = Complete(s)
    BY DEF Complete
  <2> QED BY <1>3, <2>1, FS_Difference
<1>6. Cardinality(Open) <= Cardinality(Rest)
  BY <1>2, <1>4, FS_Injection
<1> HIDE DEF Open, Rest
<1> QED BY <1>3, <1>4, <1>5, <1>6 DEF ExtraKeys

\* The chain of a pass is one the combo can expand to.
OnChain(s) == s \in RetryStates /\ Len(s.chain) <= Longest /\ s.pos <= Len(s.chain) + 1

\* A key that was picked: an untried one as long as there is one.
Chosen(f) ==
  /\ f.key \in Conns[LeafOf(f.s)]
  /\ Untried(f.s, LeafOf(f.s)) # {} => f.key \in Untried(f.s, LeafOf(f.s))

\* Whatever a pass was paid, it ends within the bound.
LEMMA PaidIsBounded ==
  ASSUME NEW s, OnChain(s), NEW n \in Int, Paid(s, n)
  PROVE  n <= PassBound /\ (Standing(s) => n <= PassBound - 1)
<1>1. PICK N, c, u, p \in Nat :
        N = Len(s.chain) /\ c = Cardinality(Complete(s)) /\ u = Cardinality(Used(s)) /\ p = s.pos
  BY SpentIs DEF OnChain, RetryStates
<1>2. Longest \in Nat
  <2>1. 1 \in 1 .. Len(Base)
    BY TheCombo
  <2> QED BY <2>1, LongestIs
<1>3. u <= c + ExtraKeys /\ ExtraKeys \in Int
  BY <1>1, SpentIsBounded
<1>4. n + c <= p + u /\ p <= N + 1 /\ N <= Longest /\ (Standing(s) => p <= N)
  BY <1>1 DEF Paid, OnChain, Standing
<1>5. PassBound = Longest + ExtraKeys + 1
  BY DEF PassBound
<1> QED BY <1>2, <1>3, <1>4, <1>5

\* A state in which nothing was tried has paid nothing yet.
LEMMA NothingSpent ==
  ASSUME NEW s, s.tried = NoneTried, s.pos = 1
  PROVE  Paid(s, 1)
<1>1. \A l \in Leaves : s.tried[l] = {} /\ Conns[l] # {}
  BY TheCombo DEF NoneTried
<1>2. Complete(s) = {}
  BY <1>1 DEF Complete
<1>3. Used(s) = {}
  BY <1>1, KeysAre DEF Used
<1>4. Cardinality(Complete(s)) = 0 /\ Cardinality(Used(s)) = 0
  BY <1>2, <1>3, FS_EmptySet
<1> QED BY <1>4 DEF Paid

\* A failure pays for the next call: by the key it used up, or by the entry it
\* leaves behind.
LEMMA FailurePays ==
  ASSUME NEW f, Standing(f.s), f.key \in Nat, Chosen(f), NEW u \in BOOLEAN, NEW n \in Int, Paid(f.s, n)
  PROVE  Paid(NextState(f, u), n + 1)
<1> DEFINE s == f.s
           l == LeafOf(s)
           t == NextState(f, u)
           mine == TriedOn(s, l) \cup {f.key}
<1>1. /\ t.pos \in {s.pos, s.pos + 1} /\ (t.pos = s.pos => Conns[l] \ mine # {})
      /\ t.tried[l] = mine /\ \A w \in Leaves \ {l} : t.tried[w] = s.tried[w]
  BY NextStateIs
<1>2. l \in Leaves /\ f.key \in Conns[l] /\ s.pos \in Nat
  BY LeafIs DEF Chosen, Standing, RetryStates
<1>3. s.tried[l] \subseteq mine
  BY DEF TriedOn
<1> HIDE DEF t
<1>4. \A w \in Leaves : s.tried[w] \subseteq t.tried[w]
  BY <1>1, <1>3
<1>5. Used(s) \subseteq Used(t)
  <2> SUFFICES ASSUME NEW x \in Used(s) PROVE x \in Used(t)
    OBVIOUS
  <2>1. PICK w \in Leaves : \E k \in Conns[w] : x = <<w, k>>
    BY KeysAre DEF Used
  <2> QED BY <1>4, <2>1, SpentIs
<1>6. Complete(s) \subseteq Complete(t) /\ Complete(t) \subseteq Complete(s) \cup {l}
  BY <1>1, <1>4 DEF Complete
<1>7. /\ IsFiniteSet(Used(s)) /\ IsFiniteSet(Used(t)) /\ IsFiniteSet(Complete(s)) /\ IsFiniteSet(Complete(t))
      /\ Cardinality(Used(s)) \in Nat /\ Cardinality(Used(t)) \in Nat
      /\ Cardinality(Complete(s)) \in Nat /\ Cardinality(Complete(t)) \in Nat
  BY SpentIs
<1>8. Cardinality(Used(s)) <= Cardinality(Used(t))
  BY <1>5, <1>7, FS_Subset
<1>9. ASSUME NEW k \in Conns[l], k \in mine, k \notin s.tried[l]
      PROVE  Cardinality(Used(s)) + 1 <= Cardinality(Used(t))
  <2>1. <<l, k>> \in Used(t) /\ <<l, k>> \notin Used(s)
    BY <1>1, <1>2, <1>9, SpentIs
  <2>2. Cardinality(Used(s)) # Cardinality(Used(t))
    BY <1>5, <1>7, <2>1, FS_Subset
  <2> QED BY <1>7, <1>8, <2>2
<1>10. n + Cardinality(Complete(s)) <= s.pos + Cardinality(Used(s))
  BY DEF Paid
<1>11. CASE t.pos = s.pos
  <2>1. Untried(s, l) # {}
    BY <1>1, <1>11 DEF Untried
  <2>2. f.key \notin s.tried[l]
    BY <2>1 DEF Chosen, Untried, TriedOn
  <2>3. Cardinality(Used(s)) + 1 <= Cardinality(Used(t))
    BY <1>2, <1>9, <2>2
  <2>4. l \notin Complete(t)
    BY <1>1, <1>11 DEF Complete
  <2>5. Complete(t) = Complete(s)
    BY <1>6, <2>4
  <2> HIDE DEF s
  <2>6. (n + 1) + Cardinality(Complete(t)) <= t.pos + Cardinality(Used(t))
    BY <1>2, <1>7, <1>10, <1>11, <2>3, <2>5
  <2> QED BY <2>6 DEF Paid, t, s
<1>12. CASE t.pos = s.pos + 1
  <2>1. Cardinality(Complete(t)) - Cardinality(Complete(s)) <= Cardinality(Used(t)) - Cardinality(Used(s))
    <3>1. CASE l \notin Complete(t) \/ l \in Complete(s)
      <4>1. Complete(t) = Complete(s)
        BY <1>6, <3>1
      <4> QED BY <1>7, <1>8, <4>1
    <3>2. CASE l \in Complete(t) /\ l \notin Complete(s)
      <4>1. Complete(t) = Complete(s) \cup {l}
        BY <1>6, <3>2
      <4>2. Cardinality(Complete(t)) = Cardinality(Complete(s)) + 1
        BY <1>7, <3>2, <4>1, FS_AddElement
      <4>3. \E k \in Conns[l] : k \in mine /\ k \notin s.tried[l]
        BY <1>1, <1>2, <3>2 DEF Complete
      <4>4. Cardinality(Used(s)) + 1 <= Cardinality(Used(t))
        BY <1>9, <4>3
      <4> QED BY <1>7, <4>2, <4>4
    <3> QED BY <3>1, <3>2
  <2> HIDE DEF s
  <2>2. (n + 1) + Cardinality(Complete(t)) <= t.pos + Cardinality(Used(t))
    BY <1>2, <1>7, <1>10, <1>12, <2>1
  <2> QED BY <2>2 DEF Paid, t, s
<1> QED BY <1>1, <1>11, <1>12

\* Where a request without never-stop retry stands in its pass: every call it made
\* is paid for, the next one too unless nothing can follow, and every waiting frame
\* has made one.
Course ==
  /\ pc # "raise" /\ dials <= PassBound
  /\ pc = "enter" => IF state.fresh THEN dials = 0
                     ELSE OnChain(state) /\ Paid(state, dials + 1)
  /\ pc = "dial" => OnChain(Top.s) /\ Paid(Top.s, dials + 1)
  /\ pc = "redial" => OnChain(Top.s) /\ Paid(Top.s, dials) /\ ~Advances(Top)
  /\ pc = "stream" /\ Advances(Top) => OnChain(Top.s) /\ Paid(Top.s, dials) /\ Chosen(Top)
  /\ Len(frames) <= IF pc = "dial" THEN dials + 1 ELSE dials

CInv == Shape /\ (~infinite => Course)

LEMMA CourseFacts ==
  ASSUME Shape
  PROVE  /\ dials \in Nat /\ frames \in Seq(Waiting) /\ Len(frames) \in Nat
         /\ state \in Calls /\ state \in RetryStates
         /\ frames # <<>> => Top \in Waiting /\ Standing(Top.s) /\ Top.s \in RetryStates /\ Top.key \in Nat
<1>1. Tallied /\ Stacked
  BY DEF Shape
<1>2. dials \in Nat
  BY <1>1, TheCombo DEF Tallied
<1>3. frames \in Seq(Waiting) /\ state \in Calls /\ state \in RetryStates
  BY <1>1 DEF Stacked, Calls
<1>4. ASSUME frames # <<>>
      PROVE  Top \in Waiting /\ Standing(Top.s) /\ Top.s \in RetryStates /\ Top.key \in Nat
  BY <1>1, <1>4, TopIs, FramesAre DEF Standing
<1> QED BY <1>2, <1>3, <1>4

LEMMA BoundIs == PassBound \in Int /\ 0 <= PassBound
<1>1. PICK s : s.tried = NoneTried /\ s.pos = 1 /\ s.chain = <<>> /\ s = Unset
  BY DEF Unset
<1>2. Longest \in Nat
  <2>1. 1 \in 1 .. Len(Base)
    BY TheCombo
  <2> QED BY <2>1, LongestIs
<1>3. OnChain(s)
  BY <1>1, <1>2, UnsetIs DEF OnChain, Calls
<1>4. Paid(s, 1)
  BY <1>1, NothingSpent
<1>5. 1 <= PassBound
  BY <1>3, <1>4, PaidIsBounded
<1>6. ExtraKeys \in Int
  BY SpentIsBounded
<1> QED BY <1>2, <1>5, <1>6 DEF PassBound

\* An answer ends the pass.
LEMMA AnswerCourse ==
  ASSUME NEW what, Answer(what), dials' \in Nat, dials' <= PassBound
  PROVE  Course'
<1>1. pc' = "over" /\ frames' = <<>>
  BY DEF Answer
<1>2. Len(frames') = 0
  BY <1>1
<1> QED BY <1>1, <1>2 DEF Course

\* A failure that is dialled on from.
LEMMA NestCourse ==
  ASSUME Shape, frames # <<>>, NEW f \in Waiting, OnChain(f.s), Chosen(f),
         NEW mode \in Modes, NEW u \in BOOLEAN, NestFrom(f, mode, NextState(f, u)),
         dials' \in Nat, dials' <= PassBound, Paid(f.s, dials'), Len(frames) <= dials'
  PROVE  Course'
<1> DEFINE t == NextState(f, u)
<1>1. Standing(f.s) /\ f.key \in Nat
  BY FramesAre
<1>2. t \in RetryStates /\ ~t.fresh /\ t.chain = f.s.chain /\ t.pos \in {f.s.pos, f.s.pos + 1}
  BY <1>1, NextStateIs
<1>3. Paid(t, dials' + 1)
  <2>1. dials' \in Int
    OBVIOUS
  <2> QED BY <1>1, <2>1, FailurePays
<1> HIDE DEF t
<1>4. OnChain(t)
  BY <1>1, <1>2 DEF OnChain, Standing, RetryStates
<1>5. t \in Calls
  BY <1>2 DEF Calls
<1>6. pc' = "enter" /\ state' = t /\ Len(frames') = Len(frames)
  BY <1>5, NestShapes DEF t
<1> QED BY <1>2, <1>3, <1>4, <1>6 DEF Course

LEMMA EnterCourse ==
  ASSUME Shape, Course, ~infinite, EnterEmpty \/ EnterExhausted \/ EnterLeaf
  PROVE  Course'
<1>1. dials \in Nat /\ dials <= PassBound /\ state \in Calls /\ frames \in Seq(Waiting) /\ pc = "enter"
  BY CourseFacts DEF Course, EnterEmpty, EnterExhausted, EnterLeaf, EnterAnswered
<1>2. ASSUME NEW what, EnterAnswered(what) PROVE Course'
  BY <1>1, <1>2, AnswerCourse DEF EnterAnswered
<1>3. CASE EnterEmpty
  BY <1>2, <1>3 DEF EnterEmpty
<1>4. CASE EnterExhausted
  <2>1. Answer("error") /\ dials' = dials
    BY <1>4 DEF EnterExhausted
  <2> QED BY <1>1, <2>1, AnswerCourse
<1>5. CASE EnterLeaf
  <2> DEFINE s == IF state.fresh THEN Opened ELSE [state EXCEPT !.pos = MinOf(Landings(state))]
  <2>1. PICK sibling \in BOOLEAN :
          \/ EnterAnswered("banned")
          \/ /\ frames' = Append(frames, [s |-> s, key |-> 0, mode |-> "dial"])
             /\ pc' = "dial" /\ dials' = dials
    BY <1>5 DEF EnterLeaf
  <2>2. /\ Standing(s) /\ s.tried = state.tried
        /\ state.fresh => Len(s.chain) <= Longest /\ s.pos = state.pos
        /\ ~state.fresh => s.chain = state.chain /\ state.pos <= s.pos
    <3>1. Configured # <<>> /\ (state.fresh \/ Landings(state) # {})
      BY <1>5 DEF EnterLeaf
    <3> QED BY <1>1, <3>1, LandedIs
  <2> HIDE DEF s
  <2>3. CASE EnterAnswered("banned")
    BY <1>2, <2>3
  <2>4. CASE /\ frames' = Append(frames, [s |-> s, key |-> 0, mode |-> "dial"])
             /\ pc' = "dial" /\ dials' = dials
    <3>1. Last(frames').s = s /\ Len(frames') = Len(frames) + 1
      <4> DEFINE g == [s |-> s, key |-> 0, mode |-> "dial"]
      <4>1. g.s = s
        OBVIOUS
      <4>2. g \in Waiting
        <5>1. g = [s |-> g.s, key |-> g.key, mode |-> g.mode] /\ g.key = 0 /\ g.mode = "dial"
          OBVIOUS
        <5> HIDE DEF g
        <5> QED BY <2>2, <4>1, <5>1, FramesAre DEF Modes
      <4>3. frames' = Append(frames, g)
        BY <2>4
      <4> HIDE DEF g
      <4>4. Len(frames') = Len(frames) + 1 /\ frames'[Len(frames) + 1] = g
        BY <1>1, <4>2, <4>3, AppendProperties
      <4> QED BY <4>1, <4>4 DEF Last
    <3>2. OnChain(s)
      <4>1. Standing(s) /\ s.pos <= Len(s.chain) + 1
        BY <2>2 DEF Standing, RetryStates
      <4>2. CASE state.fresh
        BY <2>2, <4>1, <4>2 DEF OnChain, Standing
      <4>3. CASE ~state.fresh
        <5>1. Len(state.chain) <= Longest
          BY <1>1, <4>3 DEF Course, OnChain
        <5> QED BY <2>2, <4>1, <4>3, <5>1 DEF OnChain, Standing
      <4> QED BY <4>2, <4>3
    <3>3. Paid(s, dials + 1)
      <4>1. CASE state.fresh
        <5>1. dials + 1 = 1 /\ s.pos = 1 /\ s.tried = NoneTried
          BY <1>1, <2>2, <4>1 DEF Course, Calls
        <5> QED BY <5>1, NothingSpent
      <4>2. CASE ~state.fresh
        <5>1. Paid(state, dials + 1)
          BY <1>1, <4>2 DEF Course
        <5>2. Used(s) = Used(state) /\ Complete(s) = Complete(state)
          BY <2>2 DEF Used, Complete
        <5>3. PICK c, u, p, q \in Nat : /\ c = Cardinality(Complete(s)) /\ u = Cardinality(Used(s))
                                        /\ p = state.pos /\ q = s.pos
          BY <1>1, <2>2, SpentIs DEF Calls, RetryStates, Standing
        <5>4. dials + 1 + c <= p + u /\ p <= q
          BY <2>2, <4>2, <5>1, <5>2, <5>3 DEF Paid
        <5>5. dials + 1 + c <= q + u
          BY <1>1, <5>3, <5>4
        <5> QED BY <5>3, <5>5 DEF Paid
      <4> QED BY <4>1, <4>2
    <3>4. Len(frames) <= dials
      BY <1>1 DEF Course
    <3>5. Len(frames') <= dials' + 1
      <4>1. Len(frames) \in Nat
        BY <1>1
      <4> QED BY <1>1, <2>4, <3>1, <3>4, <4>1
    <3> QED BY <1>1, <2>4, <3>1, <3>2, <3>3, <3>5 DEF Course, Top
  <2> QED BY <2>1, <2>3, <2>4
<1> QED BY <1>3, <1>4, <1>5

\* A call of the upstream from the stage that dials: it is paid for.
LEMMA DialPays ==
  ASSUME Shape, Course, pc = "dial", NEW k \in Picks(Top.s), NEW out, Dial(k, out)
  PROVE  /\ frames # <<>> /\ k \in Nat /\ Caller(k) \in Waiting /\ Caller(k).s = Top.s
         /\ Caller(k).key = k /\ OnChain(Caller(k).s) /\ Chosen(Caller(k))
         /\ dials' \in Nat /\ Paid(Top.s, dials') /\ dials' <= PassBound - 1 /\ Len(frames) <= dials'
<1>1. frames # <<>> /\ Stacked
  BY DEF Shape, Stacked
<1>2. k \in Nat /\ Caller(k) \in Waiting /\ Caller(k).s = Top.s /\ Caller(k).key = k
  BY <1>1, CallerIs
<1>3. OnChain(Top.s) /\ Paid(Top.s, dials + 1) /\ Len(frames) <= dials + 1
  BY DEF Course
<1>4. dials' = dials + 1 /\ dials \in Nat
  BY <1>1, <1>2, DialShapes
<1>5. Standing(Top.s)
  BY <1>1, TopIs
<1>6. dials' <= PassBound - 1
  <2>1. dials + 1 \in Int
    BY <1>4
  <2> QED BY <1>3, <1>4, <1>5, <2>1, PaidIsBounded
<1>7. Chosen(Caller(k))
  BY <1>2, <1>5, LeafIs DEF Chosen
<1> QED BY <1>1, <1>2, <1>3, <1>4, <1>6, <1>7

LEMMA DialCourse ==
  ASSUME Shape, Course, ~infinite, DialOk \/ DialRefused \/ DialBroken
  PROVE  Course'
<1>1. pc = "dial" /\ PassBound \in Int
  BY BoundIs DEF DialOk, DialRefused, DialBroken
<1>2. ASSUME NEW k \in Picks(Top.s), NEW out, Dial(k, out), NEW what, Answer(what) PROVE Course'
  <2>1. dials' \in Nat /\ dials' <= PassBound - 1
    BY <1>1, <1>2, DialPays
  <2> QED BY <1>1, <1>2, <2>1, AnswerCourse
<1>3. ASSUME NEW k \in Picks(Top.s), NEW out, Dial(k, out), NEW mode \in Modes, NEW u \in BOOLEAN,
             NestFrom(Caller(k), mode, NextState(Caller(k), u))
      PROVE  Course'
  <2>1. /\ frames # <<>> /\ Caller(k) \in Waiting /\ OnChain(Caller(k).s) /\ Chosen(Caller(k))
        /\ dials' \in Nat /\ Paid(Caller(k).s, dials') /\ dials' <= PassBound - 1 /\ Len(frames) <= dials'
    BY <1>1, <1>3, DialPays
  <2>2. dials' <= PassBound
    BY <1>1, <2>1
  <2> QED BY <1>3, <2>1, <2>2, NestCourse
<1>4. ASSUME NEW k \in Picks(Top.s), NEW out, Dial(k, out), frames' = Streaming(Picked(k)),
             UNCHANGED <<lane, infinite, status, state, wall, outcome, restarts, unwell, changes>>,
             pc' = "stream" \/ (pc' = "redial" /\ ~Advances(Caller(k)))
      PROVE  Course'
  <2>1. /\ frames # <<>> /\ Caller(k).s = Top.s /\ Caller(k).key = k /\ OnChain(Caller(k).s)
        /\ Chosen(Caller(k))
        /\ dials' \in Nat /\ Paid(Top.s, dials') /\ dials' <= PassBound - 1 /\ Len(frames) <= dials'
    BY <1>1, <1>4, DialPays
  <2>2. Stacked' /\ Len(frames') <= Len(frames) /\ Top'.s = Top.s /\ Top'.key = k
    BY <1>4, <2>1, StreamShapes
  <2>3. OnChain(Top'.s) /\ Paid(Top'.s, dials') /\ Chosen(Top')
    BY <2>1, <2>2 DEF Chosen
  <2>4. Advances(Caller(k)) <=> Advances(Top')
    BY <2>1, <2>2 DEF Advances, HasNext, HasSibling
  <2>5. Len(frames') <= dials' /\ dials' <= PassBound
    <3>1. Len(frames') \in Nat /\ Len(frames) \in Nat
      BY <2>2, CourseFacts DEF Stacked
    <3> QED BY <1>1, <2>1, <2>2, <3>1
  <2> QED BY <1>4, <2>3, <2>4, <2>5 DEF Course
<1>5. CASE DialOk
  BY <1>2, <1>4, <1>5 DEF DialOk
<1>6. CASE DialRefused
  <2>1. PICK k \in Picks(Top.s), out \in {"http", "unknown", "wall"} :
          /\ Dial(k, out)
          /\ \/ \E what : Answer(what)
             \/ NestFrom(Caller(k), "try", NextState(Caller(k), out = "unknown"))
    BY <1>6 DEF DialRefused
  <2>2. "try" \in Modes /\ (out = "unknown") \in BOOLEAN
    BY DEF Modes
  <2> QED BY <1>2, <1>3, <2>1, <2>2
<1>7. CASE DialBroken
  <2>1. PICK k \in Picks(Top.s) :
          /\ Dial(k, "net")
          /\ \/ \E what : Answer(what)
             \/ NestFrom(Caller(k), IF lane = "json" THEN "try" ELSE "handler", NextState(Caller(k), FALSE))
             \/ /\ ~Advances(Caller(k)) /\ frames' = Streaming(Picked(k)) /\ pc' = "redial"
                /\ UNCHANGED <<lane, infinite, status, state, wall, outcome, restarts, unwell, changes>>
    BY <1>7 DEF DialBroken
  <2>2. (IF lane = "json" THEN "try" ELSE "handler") \in Modes /\ FALSE \in BOOLEAN
    BY DEF Modes
  <2> QED BY <1>2, <1>3, <1>4, <2>1, <2>2
<1> QED BY <1>5, <1>6, <1>7

LEMMA StreamCourse ==
  ASSUME Shape, Course, ~infinite, Redial \/ StreamEmits \/ StreamDies \/ StreamGivesUp
  PROVE  Course'
<1>1. /\ dials \in Nat /\ dials <= PassBound /\ frames # <<>> /\ Top \in Waiting /\ Standing(Top.s)
      /\ PassBound \in Int /\ Top.key \in Nat /\ Len(frames) \in Nat
  BY CourseFacts, BoundIs DEF Course, Redial, StreamEmits, StreamDies, StreamGivesUp, Shape, Stacked
<1>2. CASE Redial
  <2>1. PICK out \in {"ok", "http"} :
          /\ Dial(Top.key, out)
          /\ \/ pc' = "stream" /\ frames' = frames
             \/ Answer("error")
    BY <1>2 DEF Redial
  <2>2. dials' = dials + 1
    BY <1>1, <2>1, DialShapes
  <2>3. OnChain(Top.s) /\ Paid(Top.s, dials) /\ ~Advances(Top) /\ Len(frames) <= dials
    BY <1>2 DEF Redial, Course
  <2>4. dials <= PassBound - 1
    <3>1. dials \in Int
      BY <1>1
    <3> QED BY <1>1, <2>3, <3>1, PaidIsBounded
  <2>5. dials' \in Nat /\ dials' <= PassBound /\ Len(frames) <= dials'
    BY <1>1, <2>2, <2>3, <2>4
  <2>6. CASE pc' = "stream" /\ frames' = frames
    <3>1. ~Advances(Top')
      BY <2>3, <2>6 DEF Top
    <3> QED BY <2>5, <2>6, <3>1 DEF Course
  <2> QED BY <2>1, <2>5, <2>6, AnswerCourse
<1>3. CASE StreamEmits
  <2>1. Answer("served") /\ dials' = dials
    BY <1>3 DEF StreamEmits
  <2> QED BY <1>1, <2>1, AnswerCourse
<1>4. CASE StreamDies
  <2>1. /\ pc = "stream" /\ Advances(Top) /\ NestFrom(Top, "gen", NextState(Top, FALSE)) /\ dials' = dials
    BY <1>4 DEF StreamDies, StreamFallsBack, Advances
  <2>2. OnChain(Top.s) /\ Paid(Top.s, dials) /\ Chosen(Top) /\ Len(frames) <= dials
    BY <2>1 DEF Course
  <2>3. "gen" \in Modes /\ FALSE \in BOOLEAN
    BY DEF Modes
  <2> QED BY <1>1, <2>1, <2>2, <2>3, NestCourse
<1>5. CASE StreamGivesUp
  <2>1. Answer("error") /\ dials' = dials
    BY <1>5 DEF StreamGivesUp
  <2> QED BY <1>1, <2>1, AnswerCourse
<1> QED BY <1>2, <1>3, <1>4, <1>5

LEMMA SettingIsFixed == [Next]_vars => infinite' = infinite
<1> SUFFICES ASSUME [Next]_vars PROVE infinite' = infinite
  OBVIOUS
<1> USE DEF Answer, Throw, Restart, NestFrom, EnterAnswered
<1>1. CASE EnterEmpty \/ EnterExhausted \/ EnterLeaf
  BY <1>1 DEF EnterEmpty, EnterExhausted, EnterLeaf
<1>2. CASE DialOk \/ DialRefused \/ DialBroken \/ Redial
  BY <1>2 DEF DialOk, DialRefused, DialBroken, Redial
<1>3. CASE StreamEmits \/ StreamDies \/ StreamGivesUp
  BY <1>3 DEF StreamEmits, StreamDies, StreamGivesUp
<1>4. CASE RootRestarts \/ HandlerCatches \/ HandlerPasses \/ GeneratorCatches
  BY <1>4 DEF RootRestarts, HandlerCatches, HandlerPasses, GeneratorCatches
<1>5. CASE StatusChanges \/ Disconnect \/ Over \/ UNCHANGED vars
  BY <1>5 DEF StatusChanges, Disconnect, Over, vars
<1> QED BY <1>1, <1>2, <1>3, <1>4, <1>5 DEF Next, Step

LEMMA CourseNext == CInv /\ [Next]_vars => CInv'
<1> SUFFICES ASSUME CInv, [Next]_vars PROVE CInv'
  OBVIOUS
<1>1. Shape /\ Shape' /\ infinite' = infinite
  BY ShapeNext, SettingIsFixed DEF CInv
<1> SUFFICES ASSUME ~infinite PROVE Course'
  BY <1>1 DEF CInv
<1>2. Course /\ pc # "raise" /\ dials \in Nat /\ dials <= PassBound
  BY CourseFacts, <1>1 DEF CInv, Course
<1>3. CASE EnterEmpty \/ EnterExhausted \/ EnterLeaf
  BY <1>1, <1>2, <1>3, EnterCourse
<1>4. CASE DialOk \/ DialRefused \/ DialBroken
  BY <1>1, <1>2, <1>4, DialCourse
<1>5. CASE Redial \/ StreamEmits \/ StreamDies \/ StreamGivesUp
  BY <1>1, <1>2, <1>5, StreamCourse
<1>6. CASE RootRestarts \/ HandlerCatches \/ HandlerPasses \/ GeneratorCatches
  BY <1>2, <1>6 DEF RootRestarts, HandlerCatches, HandlerPasses, GeneratorCatches
<1>7. CASE Disconnect
  <2>1. Answer("gone") /\ dials' = dials
    BY <1>7 DEF Disconnect
  <2> QED BY <1>2, <2>1, AnswerCourse
<1>8. CASE StatusChanges \/ Over \/ UNCHANGED vars
  <2>1. UNCHANGED <<frames, pc, state, dials>>
    BY <1>8 DEF StatusChanges, Over, vars
  <2> QED BY <1>2, <2>1 DEF Course, Top
<1> QED BY <1>3, <1>4, <1>5, <1>6, <1>7, <1>8 DEF Next, Step

LEMMA CourseInvariant == Spec => []CInv
<1>1. Init => CInv
  <2> SUFFICES ASSUME Init PROVE CInv
    OBVIOUS
  <2>1. /\ pc = "enter" /\ state = Unset /\ frames = <<>> /\ dials = 0
    BY DEF Init
  <2>2. Len(frames) = 0
    BY <2>1
  <2>3. Course
    BY <2>1, <2>2, UnsetIs, BoundIs DEF Course
  <2> QED BY <2>3, ShapeInit DEF CInv
<1> QED BY <1>1, CourseNext, PTL DEF Spec

\* Whatever the combo, its keys and what is banned, lifted or removed meanwhile: a
\* pass without never-stop retry dials an entry once for every key it has left, so
\* its calls and the frames that wait for one another stay below the bound the
\* combo alone sets.
THEOREM BoundTheorem == Spec => []PassIsBounded
<1>1. CInv => PassIsBounded
  <2> SUFFICES ASSUME CInv, ~infinite PROVE PassIsShort
    BY DEF PassIsBounded
  <2>1. Course /\ dials \in Nat /\ Len(frames) \in Nat /\ PassBound \in Int
    BY CourseFacts, BoundIs DEF CInv
  <2>2. CASE pc = "dial"
    <3>1. OnChain(Top.s) /\ Paid(Top.s, dials + 1) /\ Len(frames) <= dials + 1
      BY <2>1, <2>2 DEF Course
    <3>2. dials + 1 \in Int
      BY <2>1
    <3>3. dials + 1 <= PassBound
      BY <3>1, <3>2, PaidIsBounded
    <3> QED BY <2>1, <3>1, <3>3 DEF PassIsShort
  <2>3. CASE pc # "dial"
    BY <2>1, <2>3 DEF Course, PassIsShort
  <2> QED BY <2>2, <2>3
<1> QED BY <1>1, CourseInvariant, PTL

(* ---- what a pass leaves behind -------------------------------------------- *)

\* What a request has learnt: whom it called, who was ever banned or removed, who
\* knows no such model.
World == [calls |-> dialled, ill |-> unwell, odd |-> unknown]
Worlds == [calls : [Leaves -> SUBSET Nat], ill : SUBSET Leaves, odd : SUBSET Leaves]

Grows(v, w) ==
  v.ill \subseteq w.ill /\ v.odd \subseteq w.odd /\ \A l \in Leaves : v.calls[l] \subseteq w.calls[l]

Held(l, k, w) ==
  k \in w.calls[l] \/ \E m \in w.ill : ProviderOf[m] = ProviderOf[l] /\ k \in w.calls[m]

\* Nothing is left to try on a leaf.
Done(l, w) == w.calls[l] # {} /\ (l \in w.odd \/ \A k \in Conns[l] : Held(l, k, w))
Passed(l, w) == l \in w.ill \/ Done(l, w)
AllPassed(w) == \A l \in Leaves : Passed(l, w)

\* What a state has tried was dialled: on the leaf, or on one of its provider that
\* fell ill or is the leaf it stands on.
Lent(s, k, P, w) ==
  \E m \in Leaves : /\ ProviderOf[m] = P /\ k \in w.calls[m]
                    /\ m \in w.ill \/ (Standing(s) /\ m = LeafOf(s))

Kept(s, w) ==
  /\ \A l \in Leaves : /\ \A k \in s.tried[l] : Held(l, k, w)
                       /\ s.tried[l] # {} => w.calls[l] # {}
  /\ \A l \in Leaves : \A k \in s.tried[ProviderOf[l]] : Lent(s, k, ProviderOf[l], w)

\* The entries before the current one, and the leaves ahead of one another.
Past(s, w) == \A i \in 1 .. s.pos - 1 : i \in DOMAIN s.chain => Passed(s.chain[i], w)
Covers(c, w) ==
  \A l \in Leaves \ w.ill : \E m, n \in DOMAIN c : m < n /\ c[m] = l /\ c[n] = l

Good(s, w) == Kept(s, w) /\ Past(s, w) /\ Covers(s.chain, w)
Called(f, w) == f.key \in w.calls[LeafOf(f.s)]

LEMMA WorldIs == Tallied /\ Settled => World \in Worlds
  BY DEF Tallied, Settled, World, Worlds

LEMMA GrowsIs ==
  ASSUME NEW v, NEW w, Grows(v, w), v.ill \subseteq Leaves
  PROVE  /\ \A l \in Leaves : \A k : Held(l, k, v) => Held(l, k, w)
         /\ \A l \in Leaves : Passed(l, v) => Passed(l, w)
         /\ AllPassed(v) => AllPassed(w)
         /\ \A c : Covers(c, v) => Covers(c, w)
<1>1. \A l \in Leaves : \A k : Held(l, k, v) => Held(l, k, w)
  BY DEF Grows, Held
<1>2. \A l \in Leaves : v.calls[l] # {} => w.calls[l] # {}
  BY DEF Grows
<1>3. \A l \in Leaves : Passed(l, v) => Passed(l, w)
  <2> SUFFICES ASSUME NEW l \in Leaves, Passed(l, v) PROVE Passed(l, w)
    OBVIOUS
  <2>1. CASE l \in v.ill
    BY <2>1 DEF Grows, Passed
  <2>2. CASE Done(l, v)
    <3>1. w.calls[l] # {}
      BY <1>2, <2>2 DEF Done
    <3>2. l \in w.odd \/ \A k \in Conns[l] : Held(l, k, w)
      BY <1>1, <2>2 DEF Done, Grows
    <3> QED BY <3>1, <3>2 DEF Done, Passed
  <2> QED BY <2>1, <2>2 DEF Passed
<1>4. \A c : Covers(c, v) => Covers(c, w)
  BY DEF Grows, Covers
<1>5. AllPassed(v) => AllPassed(w)
  BY <1>3 DEF AllPassed
<1> QED BY <1>1, <1>3, <1>4, <1>5

\* What was learnt stays learnt.
LEMMA GoodStays ==
  ASSUME NEW v, NEW w, Grows(v, w), v.ill \subseteq Leaves, NEW s \in RetryStates, Good(s, v)
  PROVE  Good(s, w)
<1>1. /\ \A l \in Leaves : \A k : Held(l, k, v) => Held(l, k, w)
      /\ \A l \in Leaves : Passed(l, v) => Passed(l, w)
      /\ \A c : Covers(c, v) => Covers(c, w)
  BY GrowsIs
<1>2. Kept(s, w)
  <2>1. \A l \in Leaves : (\A k \in s.tried[l] : Held(l, k, w)) /\ (s.tried[l] # {} => w.calls[l] # {})
    BY <1>1 DEF Good, Kept, Grows
  <2>2. \A k, P : Lent(s, k, P, v) => Lent(s, k, P, w)
    BY DEF Lent, Grows
  <2> QED BY <2>1, <2>2 DEF Good, Kept
<1>3. Past(s, w)
  <2>1. \A i \in DOMAIN s.chain : s.chain[i] \in Leaves
    BY DEF RetryStates
  <2> QED BY <1>1, <2>1 DEF Good, Past
<1> QED BY <1>1, <1>2, <1>3 DEF Good

\* The keys that are not picked again on the entry a state stands on were dialled.
LEMMA TriedIsHeld ==
  ASSUME NEW w, NEW s, Standing(s), Kept(s, w), NEW k \in TriedOn(s, LeafOf(s))
  PROVE  Held(LeafOf(s), k, w)
<1>1. LeafOf(s) \in Leaves
  BY LeafIs
<1>2. PICK l \in Leaves : l = LeafOf(s)
  BY <1>1
<1>3. CASE k \in s.tried[l]
  BY <1>2, <1>3 DEF Kept
<1>4. CASE k \in s.tried[ProviderOf[l]]
  <2>1. Lent(s, k, ProviderOf[l], w)
    BY <1>2, <1>4 DEF Kept
  <2>2. PICK m \in Leaves : /\ ProviderOf[m] = ProviderOf[l] /\ k \in w.calls[m]
                            /\ m \in w.ill \/ (Standing(s) /\ m = LeafOf(s))
    BY <2>1 DEF Lent
  <2> QED BY <1>2, <2>2 DEF Held
<1> QED BY <1>2, <1>3, <1>4 DEF TriedOn

\* A frame that fails hands on what it knows.
LEMMA FailureGoesOn ==
  ASSUME NEW w \in Worlds, NEW f, Standing(f.s), f.key \in Nat, Good(f.s, w), Called(f, w),
         NEW u \in BOOLEAN, u => LeafOf(f.s) \in w.odd
  PROVE  Good(NextState(f, u), w)
<1> DEFINE s == f.s
           l == LeafOf(s)
           mine == TriedOn(s, l) \cup {f.key}
           stays == ~u /\ Conns[l] \ mine # {}
           t == NextState(f, u)
           p == ProviderOf[l]
<1>1. /\ s.chain \in Seq(Leaves) /\ s.pos \in Nat \ {0} /\ s.pos <= Len(s.chain)
      /\ s.tried \in [Leaves \cup Providers -> SUBSET Nat]
  BY DEF Standing, RetryStates
<1>2. /\ l \in Leaves /\ p \in Providers /\ mine \subseteq Nat /\ Leaves \cap Providers = {}
      /\ \A m \in Leaves : ProviderOf[m] \in Providers
  BY LeafIs, ComboAssumption, TheCombo
<1>3. /\ t.chain = s.chain /\ t.pos = (IF stays THEN s.pos ELSE s.pos + 1)
      /\ t.tried = [s.tried EXCEPT ![l] = mine, ![p] = IF stays THEN mine ELSE {}]
  BY DEF NextState
<1>4. t \in RetryStates
  BY NextStateIs
<1>5. (\A k \in mine : Held(l, k, w)) /\ w.calls[l] # {}
  <2>1. \A k \in TriedOn(s, l) : Held(l, k, w)
    BY TriedIsHeld DEF Good
  <2>2. f.key \in w.calls[l]
    BY DEF Called
  <2> QED BY <2>1, <2>2 DEF Held
<1>6. stays \/ Done(l, w)
  <2>1. CASE u
    BY <1>5, <2>1 DEF Done
  <2>2. CASE Conns[l] \ mine = {}
    BY <1>5, <2>2 DEF Done
  <2> QED BY <2>1, <2>2
<1>7. Covers(t.chain, w)
  BY <1>3 DEF Good
<1>8. /\ t.tried[l] = mine /\ t.tried[p] = (IF stays THEN mine ELSE {})
      /\ \A m \in Leaves \ {l} : t.tried[m] = s.tried[m]
      /\ \A q \in Providers \ {p} : t.tried[q] = s.tried[q]
  <2> HIDE DEF s, l, mine, stays, p, t
  <2>1. l # p /\ l \in Leaves \cup Providers /\ p \in Leaves \cup Providers
    BY <1>2
  <2>2. \A x \in Leaves \cup Providers :
          t.tried[x] = IF x = p THEN (IF stays THEN mine ELSE {}) ELSE IF x = l THEN mine ELSE s.tried[x]
    BY <1>1, <1>3, <2>1
  <2>3. \A m \in Leaves : m # p
    BY <1>2
  <2>4. \A q \in Providers : q # l
    BY <1>2
  <2> QED BY <2>1, <2>2, <2>3, <2>4
<1>9. stays => Standing(t) /\ LeafOf(t) = l
  BY <1>1, <1>3, <1>4 DEF Standing, LeafOf
<1> HIDE DEF mine, stays, p, t
<1>10. Kept(t, w)
  <2>1. ASSUME NEW m \in Leaves
        PROVE  (\A k \in t.tried[m] : Held(m, k, w)) /\ (t.tried[m] # {} => w.calls[m] # {})
    <3>1. CASE m = l
      BY <1>5, <1>8, <3>1
    <3>2. CASE m # l
      BY <1>8, <3>2 DEF Good, Kept
    <3> QED BY <3>1, <3>2
  <2>2. ASSUME NEW m \in Leaves, NEW k \in t.tried[ProviderOf[m]]
        PROVE  Lent(t, k, ProviderOf[m], w)
    <3>1. CASE ProviderOf[m] = p
      <4>1. stays /\ k \in mine
        BY <1>8, <2>2, <3>1
      <4>2. Held(l, k, w) /\ p = ProviderOf[l]
        BY <1>5, <4>1 DEF p
      <4>3. CASE k \in w.calls[l]
        BY <1>2, <1>9, <3>1, <4>1, <4>2, <4>3 DEF Lent
      <4>4. CASE \E n \in w.ill : ProviderOf[n] = ProviderOf[l] /\ k \in w.calls[n]
        <5>1. w.ill \subseteq Leaves
          BY DEF Worlds
        <5> QED BY <3>1, <4>2, <4>4, <5>1 DEF Lent
      <4> QED BY <4>2, <4>3, <4>4 DEF Held
    <3>2. CASE ProviderOf[m] # p
      <4>1. k \in s.tried[ProviderOf[m]]
        BY <1>2, <1>8, <2>2, <3>2
      <4>2. Lent(s, k, ProviderOf[m], w)
        BY <4>1 DEF Good, Kept
      <4>3. PICK n \in Leaves : /\ ProviderOf[n] = ProviderOf[m] /\ k \in w.calls[n]
                                /\ n \in w.ill \/ n = l
        BY <4>2 DEF Lent
      <4>4. n # l
        BY <3>2, <4>3 DEF p
      <4> QED BY <4>3, <4>4 DEF Lent
    <3> QED BY <3>1, <3>2
  <2> QED BY <2>1, <2>2 DEF Kept
<1>11. Past(t, w)
  <2> SUFFICES ASSUME NEW i \in 1 .. t.pos - 1, i \in DOMAIN t.chain PROVE Passed(t.chain[i], w)
    BY DEF Past
  <2>1. CASE i \in 1 .. s.pos - 1
    BY <1>3, <2>1 DEF Good, Past
  <2>2. CASE i \notin 1 .. s.pos - 1
    <3>1. PICK c \in Nat \ {0} : c = s.pos
      BY <1>1
    <3>2. t.pos = c \/ t.pos = c + 1
      BY <1>3, <3>1
    <3>3. ~stays /\ i = s.pos
      <4>1. i \in Nat \ {0} /\ i = c /\ t.pos = c + 1
        BY <2>2, <3>1, <3>2
      <4> QED BY <1>3, <3>1, <4>1
    <3>4. t.chain[i] = l
      BY <1>3, <3>3 DEF LeafOf
    <3> QED BY <1>6, <3>3, <3>4 DEF Passed
  <2> QED BY <2>1, <2>2
<1> QED BY <1>7, <1>10, <1>11 DEF Good, t

\* With no entry ahead the leaves before the last entry are all the leaves, whatever
\* is left on the last one: a chain has every leaf twice.
LEMMA LastEntryEnds ==
  ASSUME NEW w, NEW s, Standing(s), Good(s, w), ~(s.pos < Len(s.chain))
  PROVE  AllPassed(w)
<1>1. s.chain \in Seq(Leaves) /\ s.pos \in Nat \ {0} /\ s.pos <= Len(s.chain)
  BY DEF Standing, RetryStates
<1> SUFFICES ASSUME NEW l \in Leaves, l \notin w.ill PROVE Passed(l, w)
  BY DEF AllPassed, Passed
<1>2. PICK m, n \in DOMAIN s.chain : m < n /\ s.chain[m] = l /\ s.chain[n] = l
  BY DEF Good, Covers
<1>3. PICK N \in Nat : N = Len(s.chain)
  BY <1>1
<1>4. m \in 1 .. N /\ n \in 1 .. N /\ s.pos = N
  BY <1>1, <1>3
<1>5. m \in 1 .. s.pos - 1
  BY <1>2, <1>4
<1> QED BY <1>2, <1>5 DEF Good, Past

\* Nobody is left to land on.
LEMMA NoLandingEnds ==
  ASSUME NEW w, NEW s \in RetryStates, Good(s, w), Landings(s) = {},
         \A l \in Leaves : status[l] = "ok" \/ l \in w.ill
  PROVE  AllPassed(w)
<1>1. s.chain \in Seq(Leaves) /\ s.pos \in Nat \ {0}
  BY DEF RetryStates
<1> SUFFICES ASSUME NEW l \in Leaves, l \notin w.ill PROVE Passed(l, w)
  BY DEF AllPassed, Passed
<1>2. PICK m \in DOMAIN s.chain : s.chain[m] = l
  BY DEF Good, Covers
<1>3. PICK N, c \in Nat : N = Len(s.chain) /\ c = s.pos
  BY <1>1
<1>4. m \in 1 .. N
  BY <1>1, <1>3
<1>5. CASE m \in 1 .. s.pos - 1
  BY <1>2, <1>5 DEF Good, Past
<1>6. CASE m \in s.pos .. Len(s.chain)
  <2>1. Skipped(s, m)
    BY <1>6 DEF Landings
  <2>2. status[l] = "ok"
    OBVIOUS
  <2> QED BY <1>2, <2>1, <2>2 DEF Skipped
<1>7. m \in 1 .. c - 1 \/ m \in c .. N
  BY <1>4
<1> QED BY <1>3, <1>5, <1>6, <1>7

\* A failed frame that cannot advance was the last chance of its pass.
LEMMA FailureEnds ==
  ASSUME NEW w, NEW f, Standing(f.s), Good(f.s, w), ~Advances(f)
  PROVE  AllPassed(w)
  BY LastEntryEnds DEF Advances, HasNext

LEMMA KeepsEach ==
  ASSUME NEW T, NEW s \in Seq(T), NEW P \in SUBSET DOMAIN s, NEW i \in P
  PROVE  \E n \in DOMAIN Keep(s, P) : Keep(s, P)[n] = s[i]
  BY Keeps

LEMMA Around ==
  ASSUME NEW N \in Nat \ {0}, NEW i \in Nat, i < N
  PROVE  i % N = i /\ (i + N) % N = i
<1>1. i % N = i
  OBVIOUS
<1>2. (i + N) % N = i
  OBVIOUS
<1> QED BY <1>1, <1>2

\* An expanded chain has every leaf of its chain twice.
LEMMA ExpandedTwice ==
  ASSUME NEW chain \in Seq(Leaves), Len(chain) # 0, NEW j \in DOMAIN chain
  PROVE  \E m, n \in DOMAIN Expanded(chain) :
            m < n /\ Expanded(chain)[m] = chain[j] /\ Expanded(chain)[n] = chain[j]
<1>1. PICK N \in Nat \ {0} : N = Len(chain)
  OBVIOUS
<1>2. PICK r \in 2 .. 6 : r = Repeats(N, Widest(chain))
  BY <1>1, WidestIs, RepeatsIs
<1>3. Expanded(chain) = [i \in 1 .. N * r |-> chain[((i - 1) % N) + 1]]
  BY <1>1, <1>2 DEF Expanded
<1>4. j \in 1 .. N
  BY <1>1
<1>5. PICK i \in Nat : i = j - 1 /\ i < N
  BY <1>4
<1>6. j \in 1 .. N * r /\ j + N \in 1 .. N * r /\ j < j + N
  <2>1. r \in {2, 3, 4, 5, 6}
    OBVIOUS
  <2>2. N \in Nat /\ N # 0 /\ j \in Nat /\ 1 <= j /\ j <= N
    BY <1>4
  <2>3. N * r \in Nat /\ N + N <= N * r
    BY <2>1, <2>2
  <2> QED BY <2>2, <2>3
<1>7. (j - 1) % N = i /\ (j + N - 1) % N = i
  <2>1. i % N = i /\ (i + N) % N = i
    BY <1>5, Around
  <2>2. j - 1 = i /\ j + N - 1 = i + N
    BY <1>4, <1>5
  <2> QED BY <2>1, <2>2
<1>8. i + 1 = j
  BY <1>4, <1>5
<1>9. Expanded(chain)[j] = chain[j] /\ Expanded(chain)[j + N] = chain[j]
  <2>1. \A o \in 1 .. N * r : Expanded(chain)[o] = chain[((o - 1) % N) + 1]
    BY <1>3
  <2>2. Expanded(chain)[j] = chain[((j - 1) % N) + 1]
    BY <1>6, <2>1
  <2>3. Expanded(chain)[j + N] = chain[((j + N - 1) % N) + 1]
    <3>1. PICK o \in 1 .. N * r : o = j + N
      BY <1>6
    <3>2. Expanded(chain)[o] = chain[((o - 1) % N) + 1]
      BY <2>1
    <3> QED BY <3>1, <3>2
  <2> QED BY <1>7, <1>8, <2>2, <2>3
<1>10. j \in DOMAIN Expanded(chain) /\ j + N \in DOMAIN Expanded(chain)
  BY <1>3, <1>6
<1> QED BY <1>6, <1>9, <1>10

\* The chain a pass starts with has every leaf twice that was well all along.
LEMMA NewChainCovers ==
  ASSUME NEW w, \A l \in Leaves : status[l] = "ok" \/ l \in w.ill, Configured # <<>>
  PROVE  Covers(Expanded(Resolved), w)
<1> DEFINE P == {i \in DOMAIN Base : status[Base[i]] = "ok"}
           healthy == Keep(Base, P)
<1> SUFFICES ASSUME NEW l \in Leaves, l \notin w.ill
             PROVE  \E m, n \in DOMAIN Expanded(Resolved) :
                       m < n /\ Expanded(Resolved)[m] = l /\ Expanded(Resolved)[n] = l
  BY DEF Covers
<1>1. Base \in Seq(Leaves)
  BY TheCombo
<1>2. PICK i \in DOMAIN Base : Base[i] = l
  BY TheCombo
<1>3. P \in SUBSET DOMAIN Base /\ i \in P
  BY <1>2
<1> HIDE DEF P
<1>4. healthy \in Seq(Leaves) /\ \E n \in DOMAIN healthy : healthy[n] = Base[i]
  <2>1. healthy \in Seq(Leaves)
    BY <1>1, <1>3, Keeps
  <2>2. \E n \in DOMAIN healthy : healthy[n] = Base[i]
    BY <1>1, <1>3, KeepsEach
  <2> QED BY <2>1, <2>2
<1>5. Resolved = IF healthy # <<>> THEN healthy ELSE Configured
  BY DEF Resolved, P
<1> HIDE DEF healthy
<1>6. healthy # <<>>
  BY <1>4
<1>7. Resolved = healthy /\ Len(healthy) # 0
  BY <1>4, <1>5, <1>6
<1>8. PICK n \in DOMAIN healthy : healthy[n] = l
  BY <1>2, <1>4
<1>9. \E m, o \in DOMAIN Expanded(healthy) :
         m < o /\ Expanded(healthy)[m] = healthy[n] /\ Expanded(healthy)[o] = healthy[n]
  BY <1>4, <1>7, ExpandedTwice
<1> QED BY <1>7, <1>8, <1>9

\* A combo without a configured leaf has no leaf that was well all along.
LEMMA ConfiguredIsEmpty ==
  ASSUME NEW w, \A l \in Leaves : status[l] = "ok" \/ l \in w.ill, Configured = <<>>
  PROVE  Leaves \subseteq w.ill
<1> DEFINE P == {i \in DOMAIN Base : status[Base[i]] # "removed"}
<1> SUFFICES ASSUME NEW l \in Leaves PROVE l \in w.ill
  OBVIOUS
<1>1. PICK i \in DOMAIN Base : Base[i] = l
  BY TheCombo
<1>2. Base \in Seq(Leaves) /\ P \in SUBSET DOMAIN Base
  BY TheCombo
<1>3. \A j \in P : \E n \in DOMAIN Keep(Base, P) : Keep(Base, P)[n] = Base[j]
  <2> HIDE DEF P
  <2> SUFFICES ASSUME NEW j \in P PROVE \E n \in DOMAIN Keep(Base, P) : Keep(Base, P)[n] = Base[j]
    OBVIOUS
  <2> QED BY <1>2, KeepsEach
<1>4. Configured = Keep(Base, P)
  BY DEF Configured
<1>5. DOMAIN Configured = {}
  OBVIOUS
<1>6. i \notin P
  BY <1>3, <1>4, <1>5
<1>7. status[l] = "removed"
  BY <1>1, <1>6
<1> QED BY <1>7

LEMMA WrapCovers ==
  ASSUME NEW w, \A l \in Leaves : status[l] = "ok" \/ l \in w.ill, NEW s
  PROVE  Covers(WrapState(s).chain, w)
<1>1. CASE Configured = <<>>
  BY <1>1, ConfiguredIsEmpty DEF Covers
<1>2. CASE Configured # <<>>
  <2>1. WrapState(s).chain = Expanded(Resolved)
    BY <1>2 DEF WrapState
  <2> QED BY <1>2, <2>1, NewChainCovers
<1> QED BY <1>1, <1>2

\* A state in which nothing was tried has left nothing behind.
LEMMA NewIsGood ==
  ASSUME NEW w, NEW s, s.tried = NoneTried, s.pos = 1, Covers(s.chain, w)
  PROVE  Good(s, w)
<1>1. Kept(s, w)
  <2>1. \A l \in Leaves : s.tried[l] = {} /\ s.tried[ProviderOf[l]] = {}
    BY TheCombo DEF NoneTried
  <2> QED BY <2>1 DEF Kept
<1>2. Past(s, w)
  BY DEF Past
<1> QED BY <1>1, <1>2 DEF Good

\* Landing skips only leaves that are ill.
LEMMA LandingIsGood ==
  ASSUME NEW w, NEW s \in RetryStates, Good(s, w), Landings(s) # {},
         \A l \in Leaves : status[l] = "ok" \/ l \in w.ill
  PROVE  Good([s EXCEPT !.pos = MinOf(Landings(s))], w)
<1> DEFINE m == MinOf(Landings(s))
           t == [s EXCEPT !.pos = m]
<1>1. /\ s.chain \in Seq(Leaves) /\ s.pos \in Nat \ {0} /\ Len(s.chain) \in Nat
      /\ s = [chain |-> s.chain, pos |-> s.pos, tried |-> s.tried, fresh |-> s.fresh]
  BY DEF RetryStates
<1>2. m \in Landings(s) /\ (\A p \in Landings(s) : m <= p) /\ Landings(s) \subseteq s.pos .. Len(s.chain)
  <2>1. Landings(s) \subseteq s.pos .. Len(s.chain)
    BY DEF Landings
  <2>2. Landings(s) \subseteq 1 .. Len(s.chain)
    BY <1>1, <2>1
  <2>3. IsFiniteSet(Landings(s))
    <3>1. IsFiniteSet(1 .. Len(s.chain))
      BY <1>1, Counts
    <3> QED BY <2>2, <3>1, FS_Subset
  <2>4. Landings(s) \subseteq Nat
    BY <2>2
  <2> QED BY <2>1, <2>3, <2>4, Extremes
<1>3. t.chain = s.chain /\ t.pos = m /\ t.tried = s.tried
  BY <1>1
<1>4. ASSUME NEW p \in s.pos .. m - 1, p \in DOMAIN s.chain PROVE s.chain[p] \in w.ill
  <2>1. PICK N, c, d \in Nat : N = Len(s.chain) /\ c = s.pos /\ d = m
    <3>1. m \in Nat
      BY <1>1, <1>2
    <3> QED BY <1>1, <3>1
  <2>2. c <= p /\ p < d /\ p \in Nat /\ p <= N
    BY <1>1, <1>4, <2>1
  <2>3. p \notin Landings(s)
    BY <1>2, <2>1, <2>2
  <2>4. p \in s.pos .. Len(s.chain)
    BY <2>1, <2>2
  <2>5. Skipped(s, p)
    BY <2>3, <2>4 DEF Landings
  <2>6. status[s.chain[p]] # "ok"
    BY <2>5 DEF Skipped
  <2>7. s.chain[p] \in Leaves
    BY <1>1, <1>4
  <2> QED BY <2>6, <2>7
<1> HIDE DEF t, m
<1>5. Past(t, w)
  <2> SUFFICES ASSUME NEW i \in 1 .. m - 1, i \in DOMAIN s.chain PROVE Passed(s.chain[i], w)
    BY <1>3 DEF Past
  <2>1. CASE i \in 1 .. s.pos - 1
    BY <2>1 DEF Good, Past
  <2>2. CASE i \in s.pos .. m - 1
    BY <1>4, <2>2 DEF Passed
  <2>3. i \in 1 .. s.pos - 1 \/ i \in s.pos .. m - 1
    <3>1. m \in Nat /\ s.pos \in Nat
      BY <1>1, <1>2
    <3> QED BY <3>1
  <2> QED BY <2>1, <2>2, <2>3
<1>6. Kept(t, w)
  <2>1. ASSUME NEW k, NEW P, Lent(s, k, P, w) PROVE Lent(t, k, P, w)
    <3>1. PICK n \in Leaves : /\ ProviderOf[n] = P /\ k \in w.calls[n]
                              /\ n \in w.ill \/ (Standing(s) /\ n = LeafOf(s))
      BY <2>1 DEF Lent
    <3>2. CASE n \in w.ill
      BY <3>1, <3>2 DEF Lent
    <3>3. CASE n \notin w.ill
      <4>1. Standing(s) /\ n = s.chain[s.pos]
        BY <3>1, <3>3 DEF LeafOf
      <4>2. s.pos \in DOMAIN s.chain
        BY <1>1, <4>1 DEF Standing
      <4>3. ~(s.pos \in s.pos .. m - 1)
        BY <1>4, <3>3, <4>1, <4>2
      <4>4. m = s.pos
        <5>1. m \in Nat /\ s.pos \in Nat /\ s.pos <= m
          BY <1>1, <1>2
        <5> QED BY <4>3, <5>1
      <4>5. t = s
        BY <1>1, <4>4 DEF t
      <4> QED BY <2>1, <4>5
    <3> QED BY <3>2, <3>3
  <2> QED BY <1>3, <2>1 DEF Good, Kept
<1>7. Covers(t.chain, w)
  BY <1>3 DEF Good
<1> QED BY <1>5, <1>6, <1>7 DEF Good, t, m

(* ---- when a pass may be given up ------------------------------------------ *)

\* What the waiting frames know, and that under a generator there are only generators.
Memory(fs, w) ==
  \A i \in DOMAIN fs :
    fs[i].mode # "gen" => Good(fs[i].s, w) /\ (fs[i].mode # "dial" => Called(fs[i], w))
Nested(fs) == \A i, j \in DOMAIN fs : i < j /\ fs[j].mode = "gen" => fs[i].mode = "gen"

\* A leaf that is not well is one that was banned or removed; a pass may be given up.
BansNoted == \A l \in Leaves : status[l] = "ok" \/ l \in unwell
Given == expired \/ AllPassed(World)

Journey ==
  /\ BansNoted /\ Memory(frames, World) /\ Nested(frames)
  /\ pc = "enter" /\ ~state.fresh => Good(state, World)
  /\ pc \in {"stream", "redial"} => Good(Top.s, World) /\ Called(Top, World)
  /\ pc = "redial" => Given
  /\ pc = "raise" => /\ Given /\ Covers(state.chain, World)
                     /\ state.tried = NoneTried /\ state.pos = 1 /\ ~state.fresh

\* A step that gives nothing up, and one that may.
Quiet == restarts' = restarts /\ (outcome' = outcome \/ outcome' \notin {"error", "sentinel"})
Answers == restarts' = restarts /\ unwell' = unwell /\ (expired' \/ AllPassed(World'))
Sleeps ==
  /\ outcome' = outcome /\ unwell' = unwell /\ unknown' = unknown
  /\ expired' \/ AllPassed(World)
Rightly == Quiet \/ Answers \/ Sleeps

LEMMA FramesKnow ==
  ASSUME NEW w, NEW fs \in Seq(Waiting), Memory(fs, w), Nested(fs), fs # <<>>
  PROVE  /\ Memory(Front(fs), w) /\ Nested(Front(fs))
         /\ Last(fs).mode # "gen" => /\ Good(Last(fs).s, w)
                                     /\ Last(fs).mode # "dial" => Called(Last(fs), w)
         /\ Last(fs).mode = "gen" => AllGenerators(fs)
<1>1. /\ Len(fs) \in Nat \ {0} /\ Last(fs) = fs[Len(fs)] /\ Front(fs) \in Seq(Waiting)
      /\ \A i \in DOMAIN Front(fs) : i \in DOMAIN fs /\ Front(fs)[i] = fs[i]
  BY StackIs
<1>2. Memory(Front(fs), w)
  BY <1>1 DEF Memory
<1>3. Nested(Front(fs))
  BY <1>1 DEF Nested
<1>4. DOMAIN fs = 1 .. Len(fs)
  OBVIOUS
<1>5. Len(fs) \in DOMAIN fs
  BY <1>1, <1>4
<1>6. ASSUME Last(fs).mode = "gen" PROVE AllGenerators(fs)
  <2> SUFFICES ASSUME NEW i \in DOMAIN fs PROVE fs[i].mode = "gen"
    BY DEF AllGenerators
  <2>1. i = Len(fs) \/ i < Len(fs)
    BY <1>1, <1>4
  <2> QED BY <1>1, <1>5, <1>6, <2>1 DEF Nested
<1>7. Last(fs).mode # "gen" => Good(Last(fs).s, w) /\ (Last(fs).mode # "dial" => Called(Last(fs), w))
  BY <1>1, <1>5 DEF Memory
<1> QED BY <1>2, <1>3, <1>6, <1>7

LEMMA FramesLearn ==
  ASSUME NEW v, NEW w, Grows(v, w), v.ill \subseteq Leaves, NEW fs \in Seq(Waiting), Memory(fs, v)
  PROVE  Memory(fs, w)
<1> SUFFICES ASSUME NEW i \in DOMAIN fs, fs[i].mode # "gen"
             PROVE  Good(fs[i].s, w) /\ (fs[i].mode # "dial" => Called(fs[i], w))
  BY DEF Memory
<1>1. fs[i] \in Waiting
  OBVIOUS
<1>2. Standing(fs[i].s)
  BY <1>1, FramesAre
<1>3. fs[i].s \in RetryStates
  BY <1>2 DEF Standing
<1>4. Good(fs[i].s, v) /\ (fs[i].mode # "dial" => Called(fs[i], v))
  BY DEF Memory
<1>5. Good(fs[i].s, w)
  BY <1>3, <1>4, GoodStays
<1>6. LeafOf(fs[i].s) \in Leaves
  BY <1>2, LeafIs
<1> QED BY <1>4, <1>5, <1>6 DEF Called, Grows

LEMMA FramesGrow ==
  ASSUME NEW w, NEW fs \in Seq(Waiting), Memory(fs, w), Nested(fs), NEW g \in Waiting,
         IF g.mode = "gen" THEN AllGenerators(fs)
                           ELSE Good(g.s, w) /\ (g.mode # "dial" => Called(g, w))
  PROVE  Memory(Append(fs, g), w) /\ Nested(Append(fs, g))
<1> DEFINE gs == Append(fs, g)
<1>1. /\ gs \in Seq(Waiting) /\ Len(gs) = Len(fs) + 1 /\ Len(fs) \in Nat
      /\ \A i \in 1 .. Len(fs) : gs[i] = fs[i]
      /\ gs[Len(fs) + 1] = g
  BY AppendProperties
<1> HIDE DEF gs
<1>2. DOMAIN fs = 1 .. Len(fs)
  OBVIOUS
<1>3. DOMAIN gs = 1 .. Len(gs)
  BY <1>1
<1>4. \A i \in DOMAIN gs : (i \in DOMAIN fs /\ gs[i] = fs[i]) \/ (i = Len(fs) + 1 /\ gs[i] = g)
  <2> SUFFICES ASSUME NEW i \in DOMAIN gs
               PROVE  (i \in DOMAIN fs /\ gs[i] = fs[i]) \/ (i = Len(fs) + 1 /\ gs[i] = g)
    OBVIOUS
  <2>1. PICK n \in Nat : n = Len(fs)
    BY <1>1
  <2>2. i \in 1 .. n + 1
    BY <1>1, <1>3, <2>1
  <2>3. i \in 1 .. n \/ i = n + 1
    BY <2>2
  <2> QED BY <1>1, <1>2, <2>1, <2>3
<1>5. Memory(gs, w)
  BY <1>4 DEF Memory
<1>6. Nested(gs)
  <2> SUFFICES ASSUME NEW i \in DOMAIN gs, NEW j \in DOMAIN gs, i < j, gs[j].mode = "gen"
               PROVE  gs[i].mode = "gen"
    BY DEF Nested
  <2>1. i \in DOMAIN fs /\ gs[i] = fs[i]
    <3>1. PICK n \in Nat : n = Len(fs)
      BY <1>1
    <3>2. i \in 1 .. n + 1 /\ j \in 1 .. n + 1
      BY <1>1, <1>3, <3>1
    <3>3. i # n + 1
      BY <3>2
    <3> QED BY <1>4, <3>1, <3>3
  <2>2. CASE j \in DOMAIN fs /\ gs[j] = fs[j]
    BY <2>1, <2>2 DEF Nested
  <2>3. CASE gs[j] = g
    BY <2>1, <2>3 DEF AllGenerators
  <2> QED BY <1>4, <2>2, <2>3
<1> QED BY <1>5, <1>6 DEF gs

LEMMA GeneratorsKnow ==
  ASSUME NEW w, NEW fs, AllGenerators(fs)
  PROVE  Memory(fs, w) /\ Nested(fs)
  BY DEF AllGenerators, Memory, Nested

LEMMA AnswerTravels ==
  ASSUME BansNoted, NEW what, Answer(what)
  PROVE  Journey'
<1>1. /\ pc' = "over" /\ frames' = <<>> /\ status' = status /\ unwell' = unwell
  BY DEF Answer
<1>2. AllGenerators(frames')
  BY <1>1 DEF AllGenerators
<1>3. Memory(frames', World') /\ Nested(frames')
  BY <1>2, GeneratorsKnow
<1>4. BansNoted'
  BY <1>1 DEF BansNoted
<1> QED BY <1>1, <1>3, <1>4 DEF Journey

LEMMA NestTravels ==
  ASSUME Shape, Shape', Journey, frames # <<>>, NEW f \in Waiting, NEW mode \in Modes, mode # "dial",
         NEW u \in BOOLEAN, NestFrom(f, mode, NextState(f, u)), Grows(World, World'),
         Good(f.s, World'), Called(f, World'), u => LeafOf(f.s) \in unknown',
         mode = "gen" => AllGenerators(frames)
  PROVE  Journey' /\ Quiet
<1> DEFINE g == [f EXCEPT !.mode = mode]
<1>1. /\ frames' = Append(Front(frames), g) /\ state' = NextState(f, u) /\ pc' = "enter"
      /\ UNCHANGED <<status, outcome, restarts, unwell>>
  BY DEF NestFrom
<1>2. Standing(f.s) /\ f.key \in Nat
  BY FramesAre
<1>3. World' \in Worlds
  <2>1. Tallied' /\ Settled'
    BY DEF Shape
  <2> QED BY <2>1 DEF Tallied, Settled, World, Worlds
<1>4. u => LeafOf(f.s) \in World'.odd
  BY DEF World
<1>5. Good(NextState(f, u), World')
  BY <1>2, <1>3, <1>4, FailureGoesOn
<1>6. g \in Waiting /\ g.s = f.s /\ g.key = f.key /\ g.mode = mode
  <2>1. g = [s |-> f.s, key |-> f.key, mode |-> mode]
    BY FramesAre
  <2>2. g.s = f.s /\ g.key = f.key /\ g.mode = mode
    BY <2>1
  <2> HIDE DEF g
  <2> QED BY <2>1, <2>2, FramesAre
<1>7. frames \in Seq(Waiting) /\ World.ill \subseteq Leaves
  BY DEF Shape, Stacked, Settled, World
<1>8. Front(frames) \in Seq(Waiting) /\ Memory(Front(frames), World) /\ Nested(Front(frames))
  BY <1>7, StackIs, FramesKnow DEF Journey
<1>9. Memory(Front(frames), World')
  BY <1>7, <1>8, FramesLearn
<1>10. mode = "gen" => AllGenerators(Front(frames))
  BY <1>7, StackIs DEF AllGenerators
<1> HIDE DEF g
<1>11. IF g.mode = "gen" THEN AllGenerators(Front(frames))
       ELSE Good(g.s, World') /\ (g.mode # "dial" => Called(g, World'))
  BY <1>6, <1>10 DEF Called
<1>12. Memory(frames', World') /\ Nested(frames')
  BY <1>1, <1>6, <1>8, <1>9, <1>11, FramesGrow
<1>13. BansNoted'
  BY <1>1 DEF Journey, BansNoted
<1> QED BY <1>1, <1>5, <1>12, <1>13 DEF Journey, Quiet

LEMMA ThrowTravels ==
  ASSUME Shape, Journey, frames # <<>>, NEW s, Throw(s), Grows(World, World'),
         expired' \/ AllPassed(World')
  PROVE  Journey' /\ Quiet
<1>1. /\ frames' = Front(frames) /\ state' = WrapState(s) /\ pc' = "raise"
      /\ UNCHANGED <<status, outcome, restarts, unwell>>
  BY DEF Throw
<1>2. frames \in Seq(Waiting) /\ World.ill \subseteq Leaves
  BY DEF Shape, Stacked, Settled, World
<1>3. Front(frames) \in Seq(Waiting) /\ Memory(Front(frames), World) /\ Nested(Front(frames))
  BY <1>2, StackIs, FramesKnow DEF Journey
<1>4. Memory(frames', World') /\ Nested(frames')
  BY <1>1, <1>2, <1>3, FramesLearn
<1>5. \A l \in Leaves : status[l] = "ok" \/ l \in World'.ill
  BY <1>1 DEF Journey, BansNoted, World
<1>6. Covers(WrapState(s).chain, World')
  BY <1>5, WrapCovers
<1>7. WrapState(s).tried = NoneTried /\ WrapState(s).pos = 1 /\ ~WrapState(s).fresh
  BY DEF WrapState
<1>8. BansNoted'
  BY <1>1 DEF Journey, BansNoted
<1> QED BY <1>1, <1>4, <1>6, <1>7, <1>8 DEF Journey, Quiet, Given

LEMMA RestartTravels ==
  ASSUME BansNoted, NEW fs, AllGenerators(fs), NEW s, Restart(fs, s), Covers(s.chain, World),
         s.tried = NoneTried, s.pos = 1, expired' \/ AllPassed(World)
  PROVE  Journey' /\ Sleeps
<1>1. /\ frames' = fs /\ state' = s /\ pc' = "enter"
      /\ UNCHANGED <<status, outcome, unwell, unknown>>
  BY DEF Restart
<1>2. Covers(s.chain, World')
  BY <1>1 DEF Covers, World
<1>3. Good(s, World')
  BY <1>2, NewIsGood
<1>4. Memory(frames', World') /\ Nested(frames')
  BY <1>1, GeneratorsKnow
<1>5. BansNoted'
  BY <1>1 DEF BansNoted
<1> QED BY <1>1, <1>3, <1>4, <1>5 DEF Journey, Sleeps

LEMMA Unlearnt ==
  ASSUME UNCHANGED <<dialled, unwell, unknown>>
  PROVE  World' = World /\ Grows(World, World')
<1>1. World' = World
  BY DEF World
<1>2. Grows(World, World)
  BY DEF Grows
<1> QED BY <1>1, <1>2

LEMMA EnterTravels ==
  ASSUME Shape, Shape', Journey, EnterEmpty \/ EnterExhausted \/ EnterLeaf
  PROVE  Journey' /\ Rightly
<1>1. /\ pc = "enter" /\ frames \in Seq(Waiting) /\ state \in Calls /\ state \in RetryStates
      /\ BansNoted /\ Memory(frames, World) /\ Nested(frames)
      /\ ~state.fresh => Good(state, World)
      /\ \A l \in Leaves : status[l] = "ok" \/ l \in World.ill
  BY CourseFacts DEF Journey, BansNoted, World, EnterEmpty, EnterExhausted, EnterLeaf, EnterAnswered
<1>2. ASSUME NEW what, what \notin {"error", "sentinel"}, EnterAnswered(what) PROVE Journey' /\ Rightly
  <2>1. Answer(what) /\ restarts' = restarts /\ outcome' = what
    BY <1>2 DEF EnterAnswered, Answer
  <2> QED BY <1>1, <1>2, <2>1, AnswerTravels DEF Rightly, Quiet
<1>3. CASE EnterEmpty
  BY <1>2, <1>3 DEF EnterEmpty
<1>4. CASE EnterExhausted
  <2>1. /\ ~state.fresh /\ expired' = (expired \/ Landings(state) # {})
        /\ UNCHANGED <<dialled, unwell, unknown>>
    BY <1>4 DEF EnterExhausted
  <2>2. World' = World
    BY <2>1, Unlearnt
  <2>3. expired' \/ AllPassed(World')
    <3>1. CASE Landings(state) = {}
      BY <1>1, <2>1, <2>2, <3>1, NoLandingEnds
    <3> QED BY <2>1, <3>1
  <2>4. CASE infinite
    <3>1. /\ pc' = "raise" /\ state' = WrapState(state)
          /\ UNCHANGED <<status, frames, outcome, restarts>>
      BY <1>4, <2>4 DEF EnterExhausted
    <3>2. Covers(state'.chain, World')
      BY <1>1, <2>2, <3>1, WrapCovers
    <3>3. state'.tried = NoneTried /\ state'.pos = 1 /\ ~state'.fresh
      BY <3>1 DEF WrapState
    <3>4. BansNoted' /\ Memory(frames', World') /\ Nested(frames')
      BY <1>1, <2>1, <2>2, <3>1 DEF BansNoted
    <3> QED BY <2>3, <3>1, <3>2, <3>3, <3>4 DEF Journey, Given, Rightly, Quiet
  <2>5. CASE ~infinite
    <3>1. Answer("error") /\ restarts' = restarts
      BY <1>4, <2>5 DEF EnterExhausted, Answer
    <3> QED BY <1>1, <2>1, <2>3, <3>1, AnswerTravels DEF Rightly, Answers
  <2> QED BY <2>4, <2>5
<1>5. CASE EnterLeaf
  <2> DEFINE s == IF state.fresh THEN Opened ELSE [state EXCEPT !.pos = MinOf(Landings(state))]
  <2>1. PICK sibling \in BOOLEAN :
          \/ EnterAnswered("banned")
          \/ /\ frames' = Append(frames, [s |-> s, key |-> 0, mode |-> "dial"])
             /\ pc' = "dial" /\ state' = Unset
             /\ UNCHANGED <<status, outcome, restarts, history>>
    BY <1>5 DEF EnterLeaf
  <2>2. Configured # <<>> /\ (state.fresh \/ Landings(state) # {})
    BY <1>5 DEF EnterLeaf
  <2>3. Standing(s)
    BY <1>1, <2>2, LandedIs
  <2>4. Good(s, World)
    <3>1. CASE state.fresh
      <4>1. s = [state EXCEPT !.chain = Expanded(Resolved)]
        BY <3>1 DEF Opened
      <4>2. s.chain = Expanded(Resolved) /\ s.pos = 1 /\ s.tried = NoneTried
        BY <1>1, <3>1, <4>1 DEF Calls, RetryStates
      <4>3. Covers(s.chain, World)
        BY <1>1, <2>2, <4>2, NewChainCovers
      <4> HIDE DEF s
      <4> QED BY <4>2, <4>3, NewIsGood
    <3>2. CASE ~state.fresh
      BY <1>1, <2>2, <3>2, LandingIsGood
    <3> QED BY <3>1, <3>2
  <2> HIDE DEF s
  <2>5. CASE EnterAnswered("banned")
    BY <1>2, <2>5
  <2>6. CASE /\ frames' = Append(frames, [s |-> s, key |-> 0, mode |-> "dial"])
             /\ pc' = "dial" /\ state' = Unset
             /\ UNCHANGED <<status, outcome, restarts, history>>
    <3> DEFINE g == [s |-> s, key |-> 0, mode |-> "dial"]
    <3>1. g \in Waiting /\ g.s = s /\ g.mode = "dial"
      <4>1. g.s = s /\ g.key = 0 /\ g.mode = "dial" /\ g = [s |-> g.s, key |-> g.key, mode |-> g.mode]
        OBVIOUS
      <4> HIDE DEF g
      <4> QED BY <2>3, <4>1, FramesAre DEF Modes
    <3>2. frames' = Append(frames, g)
      BY <2>6
    <3> HIDE DEF g
    <3>3. UNCHANGED <<dialled, unwell, unknown>>
      BY <2>6 DEF history
    <3>4. World' = World
      BY <3>3, Unlearnt
    <3>5. Memory(frames', World) /\ Nested(frames')
      BY <1>1, <2>4, <3>1, <3>2, FramesGrow
    <3>6. BansNoted'
      BY <1>1, <2>6, <3>3 DEF BansNoted
    <3> QED BY <2>6, <3>4, <3>5, <3>6 DEF Journey, Rightly, Quiet
  <2> QED BY <2>1, <2>5, <2>6
<1> QED BY <1>3, <1>4, <1>5

\* A call teaches what its handlers go on with.
LEMMA DialLearns ==
  ASSUME Shape, Shape', Journey, frames # <<>>, NEW k \in Nat, NEW out, Dial(k, out), unwell' = unwell
  PROVE  /\ Grows(World, World') /\ k \in World'.calls[LeafOf(Top.s)] /\ expired' = expired
         /\ out = "unknown" => LeafOf(Top.s) \in unknown'
<1> DEFINE l == LeafOf(Top.s)
<1>1. /\ dialled' = [dialled EXCEPT ![l] = @ \cup {k}]
      /\ unknown' = IF out = "unknown" THEN unknown \cup {l} ELSE unknown
      /\ expired' = expired
  BY DEF Dial
<1>2. l \in Leaves /\ dialled \in [Leaves -> SUBSET Nat]
  BY TopIs, LeafIs DEF Shape, Tallied
<1> HIDE DEF l
<1>3. dialled'[l] = dialled[l] \cup {k} /\ \A m \in Leaves \ {l} : dialled'[m] = dialled[m]
  BY <1>1, <1>2
<1>4. \A m \in Leaves : dialled[m] \subseteq dialled'[m]
  BY <1>3
<1>5. /\ World.calls = dialled /\ World.ill = unwell /\ World.odd = unknown
      /\ World'.calls = dialled' /\ World'.ill = unwell' /\ World'.odd = unknown'
  BY DEF World
<1>6. Grows(World, World')
  BY <1>1, <1>4, <1>5 DEF Grows
<1> QED BY <1>1, <1>3, <1>5, <1>6 DEF l

LEMMA CallerLearns ==
  ASSUME Shape, Shape', Journey, pc = "dial", NEW k \in Picks(Top.s), NEW out, Dial(k, out), unwell' = unwell
  PROVE  /\ frames # <<>> /\ Caller(k) \in Waiting /\ Caller(k).s = Top.s /\ Caller(k).key = k
         /\ Grows(World, World') /\ Good(Caller(k).s, World') /\ Called(Caller(k), World')
         /\ out = "unknown" => LeafOf(Caller(k).s) \in unknown'
         /\ ~Advances(Caller(k)) => AllPassed(World')
<1>1. /\ Stacked /\ frames # <<>> /\ frames \in Seq(Waiting) /\ Top.mode = "dial"
      /\ World.ill \subseteq Leaves
  BY DEF Shape, Stacked, Settled, World
<1>2. k \in Nat /\ Caller(k) \in Waiting /\ Caller(k).s = Top.s /\ Caller(k).key = k
  BY <1>1, CallerIs
<1>3. /\ Grows(World, World') /\ k \in World'.calls[LeafOf(Top.s)]
      /\ out = "unknown" => LeafOf(Top.s) \in unknown'
  BY <1>1, <1>2, DialLearns
<1>4. Good(Top.s, World)
  BY <1>1, FramesKnow DEF Journey, Top
<1>5. Standing(Top.s) /\ Top.s \in RetryStates
  BY <1>1, TopIs DEF Standing
<1>6. Good(Top.s, World')
  BY <1>1, <1>3, <1>4, <1>5, GoodStays
<1>7. ~Advances(Caller(k)) => AllPassed(World')
  BY <1>2, <1>5, <1>6, FailureEnds
<1> QED BY <1>1, <1>2, <1>3, <1>6, <1>7 DEF Called

\* A stream begins, or its generator is about to send once more.
LEMMA StreamTravels ==
  ASSUME Shape, Shape', Journey, pc = "dial", NEW k \in Picks(Top.s), NEW out, Dial(k, out),
         frames' = Streaming(Picked(k)), pc' \in {"stream", "redial"},
         UNCHANGED <<lane, infinite, status, state, wall, outcome, restarts, unwell, changes>>,
         pc' = "redial" => ~Advances(Caller(k))
  PROVE  Journey' /\ Rightly
<1>1. /\ frames # <<>> /\ Caller(k).s = Top.s /\ Caller(k).key = k
      /\ Good(Caller(k).s, World') /\ Called(Caller(k), World')
      /\ ~Advances(Caller(k)) => AllPassed(World')
  BY CallerLearns
<1>2. Stacked' /\ Top'.s = Top.s /\ Top'.key = k
  BY <1>1, StreamShapes
<1>3. AllGenerators(frames')
  BY <1>2 DEF Stacked
<1>4. Memory(frames', World') /\ Nested(frames')
  BY <1>3, GeneratorsKnow
<1>5. Good(Top'.s, World') /\ Called(Top', World')
  BY <1>1, <1>2 DEF Called
<1>6. BansNoted'
  BY DEF Journey, BansNoted
<1> QED BY <1>1, <1>4, <1>5, <1>6 DEF Journey, Given, Rightly, Quiet

\* What the handlers of a failed frame may do.
LEMMA FailureTravels ==
  ASSUME Shape, Shape', Journey, frames # <<>>, NEW f \in Waiting, Grows(World, World'),
         Good(f.s, World'), Called(f, World'),
         \/ \E mode \in Modes \ {"dial"}, u \in BOOLEAN :
               /\ NestFrom(f, mode, NextState(f, u)) /\ (u => LeafOf(f.s) \in unknown')
               /\ mode = "gen" => AllGenerators(frames)
         \/ \E what \in Outcomes \ {"error", "sentinel"} : Answer(what)
         \/ (expired' \/ AllPassed(World')) /\ \E what : Answer(what)
         \/ (expired' \/ AllPassed(World')) /\ Throw(f.s)
  PROVE  Journey' /\ Rightly
<1>1. ASSUME NEW mode \in Modes \ {"dial"}, NEW u \in BOOLEAN, NestFrom(f, mode, NextState(f, u)),
             u => LeafOf(f.s) \in unknown', mode = "gen" => AllGenerators(frames)
      PROVE  Journey' /\ Rightly
  <2>1. mode \in Modes /\ mode # "dial"
    OBVIOUS
  <2> QED BY <1>1, <2>1, NestTravels DEF Rightly
<1>2. BansNoted
  BY DEF Journey
<1>3. ASSUME NEW what \in Outcomes \ {"error", "sentinel"}, Answer(what) PROVE Journey' /\ Rightly
  <2>1. restarts' = restarts /\ outcome' = what
    BY <1>3 DEF Answer
  <2> QED BY <1>2, <1>3, <2>1, AnswerTravels DEF Rightly, Quiet
<1>4. ASSUME expired' \/ AllPassed(World'), NEW what, Answer(what) PROVE Journey' /\ Rightly
  <2>1. restarts' = restarts /\ unwell' = unwell
    BY <1>4 DEF Answer
  <2> QED BY <1>2, <1>4, <2>1, AnswerTravels DEF Rightly, Answers
<1>5. CASE (expired' \/ AllPassed(World')) /\ Throw(f.s)
  BY <1>5, ThrowTravels DEF Rightly
<1> QED BY <1>1, <1>3, <1>4, <1>5

LEMMA DialTravels ==
  ASSUME Shape, Shape', Journey, DialOk \/ DialRefused \/ DialBroken
  PROVE  Journey' /\ Rightly
<1>1. pc = "dial" /\ BansNoted
  BY DEF DialOk, DialRefused, DialBroken, Journey
<1>2. ASSUME NEW k \in Picks(Top.s), NEW out, Dial(k, out), unwell' = unwell,
             \/ \E mode \in {"try", "handler"}, u \in BOOLEAN :
                   NestFrom(Caller(k), mode, NextState(Caller(k), u)) /\ (u => out = "unknown")
             \/ \E what \in {"served", "wall"} : Answer(what)
             \/ ~Advances(Caller(k)) /\ \E what : Answer(what)
             \/ ~Advances(Caller(k)) /\ Throw(Caller(k).s)
      PROVE  Journey' /\ Rightly
  <2>1. /\ frames # <<>> /\ Caller(k) \in Waiting
        /\ Grows(World, World') /\ Good(Caller(k).s, World') /\ Called(Caller(k), World')
        /\ out = "unknown" => LeafOf(Caller(k).s) \in unknown'
        /\ ~Advances(Caller(k)) => AllPassed(World')
    BY <1>1, <1>2, CallerLearns
  <2>2. \/ \E mode \in Modes \ {"dial"}, u \in BOOLEAN :
              /\ NestFrom(Caller(k), mode, NextState(Caller(k), u))
              /\ (u => LeafOf(Caller(k).s) \in unknown')
              /\ mode = "gen" => AllGenerators(frames)
        \/ \E what \in Outcomes \ {"error", "sentinel"} : Answer(what)
        \/ (expired' \/ AllPassed(World')) /\ \E what : Answer(what)
        \/ (expired' \/ AllPassed(World')) /\ Throw(Caller(k).s)
    <3>1. CASE \E mode \in {"try", "handler"}, u \in BOOLEAN :
                  NestFrom(Caller(k), mode, NextState(Caller(k), u)) /\ (u => out = "unknown")
      <4>1. PICK mode \in {"try", "handler"}, u \in BOOLEAN :
                   NestFrom(Caller(k), mode, NextState(Caller(k), u)) /\ (u => out = "unknown")
        BY <3>1
      <4>2. mode \in Modes \ {"dial"} /\ mode # "gen"
        BY DEF Modes
      <4> QED BY <2>1, <4>1, <4>2
    <3>2. CASE \E what \in {"served", "wall"} : Answer(what)
      <4>1. \A what \in {"served", "wall"} : what \in Outcomes \ {"error", "sentinel"}
        BY DEF Outcomes
      <4> QED BY <3>2, <4>1
    <3>3. CASE ~Advances(Caller(k)) /\ \E what : Answer(what)
      BY <2>1, <3>3
    <3>4. CASE ~Advances(Caller(k)) /\ Throw(Caller(k).s)
      BY <2>1, <3>4
    <3> QED BY <1>2, <3>1, <3>2, <3>3, <3>4
  <2> QED BY <2>1, <2>2, FailureTravels
<1>3. CASE DialOk
  <2>1. PICK k \in Picks(Top.s) :
          /\ Dial(k, "ok")
          /\ \/ Answer("served")
             \/ /\ frames' = Streaming(Picked(k)) /\ pc' = "stream"
                /\ UNCHANGED <<lane, infinite, status, state, wall, outcome, restarts, unwell, changes>>
    BY <1>3 DEF DialOk
  <2>2. CASE Answer("served")
    <3>1. unwell' = unwell
      BY <2>2 DEF Answer
    <3> QED BY <1>2, <2>1, <2>2, <3>1
  <2>3. CASE /\ frames' = Streaming(Picked(k)) /\ pc' = "stream"
             /\ UNCHANGED <<lane, infinite, status, state, wall, outcome, restarts, unwell, changes>>
    BY <1>1, <2>1, <2>3, StreamTravels
  <2> QED BY <2>1, <2>2, <2>3
<1>4. CASE DialRefused
  <2>1. PICK k \in Picks(Top.s), out \in {"http", "unknown", "wall"} :
          /\ Dial(k, out)
          /\ \/ Answer("wall")
             \/ NestFrom(Caller(k), "try", NextState(Caller(k), out = "unknown"))
             \/ ~Advances(Caller(k)) /\ \E what : Answer(what)
             \/ ~Advances(Caller(k)) /\ Throw(Caller(k).s)
    BY <1>4 DEF DialRefused
  <2>2. unwell' = unwell
    BY <2>1 DEF Answer, NestFrom, Throw
  <2>3. (out = "unknown") \in BOOLEAN
    OBVIOUS
  <2> QED BY <1>2, <2>1, <2>2, <2>3
<1>5. CASE DialBroken
  <2>1. PICK k \in Picks(Top.s) :
          /\ Dial(k, "net")
          /\ \/ NestFrom(Caller(k), IF lane = "json" THEN "try" ELSE "handler", NextState(Caller(k), FALSE))
             \/ ~Advances(Caller(k)) /\ \E what : Answer(what)
             \/ ~Advances(Caller(k)) /\ Throw(Caller(k).s)
             \/ /\ ~Advances(Caller(k)) /\ frames' = Streaming(Picked(k)) /\ pc' = "redial"
                /\ UNCHANGED <<lane, infinite, status, state, wall, outcome, restarts, unwell, changes>>
    BY <1>5 DEF DialBroken
  <2>2. unwell' = unwell
    BY <2>1 DEF Answer, NestFrom, Throw
  <2>3. (IF lane = "json" THEN "try" ELSE "handler") \in {"try", "handler"} /\ FALSE \in BOOLEAN
    OBVIOUS
  <2>4. CASE /\ ~Advances(Caller(k)) /\ frames' = Streaming(Picked(k)) /\ pc' = "redial"
             /\ UNCHANGED <<lane, infinite, status, state, wall, outcome, restarts, unwell, changes>>
    BY <1>1, <2>1, <2>4, StreamTravels
  <2> QED BY <1>2, <2>1, <2>2, <2>3, <2>4
<1> QED BY <1>3, <1>4, <1>5

LEMMA StreamsTravel ==
  ASSUME Shape, Shape', Journey, Redial \/ StreamEmits \/ StreamDies \/ StreamGivesUp
  PROVE  Journey' /\ Rightly
<1>1. /\ pc \in {"stream", "redial"} /\ Stacked /\ frames # <<>> /\ AllGenerators(frames)
      /\ BansNoted /\ World.ill \subseteq Leaves
  BY DEF Redial, StreamEmits, StreamDies, StreamGivesUp, Shape, Stacked, Journey, Settled, World
<1>2. Top \in Waiting /\ Standing(Top.s) /\ Top.s \in RetryStates /\ Top.key \in Nat
  BY <1>1, TopIs, FramesAre DEF Standing
<1>3. Good(Top.s, World) /\ Called(Top, World) /\ (pc = "redial" => expired \/ AllPassed(World))
  BY <1>1 DEF Journey, Given
<1>4. CASE Redial
  <2>1. PICK out \in {"ok", "http"} :
          /\ Dial(Top.key, out)
          /\ \/ /\ pc' = "stream"
                /\ UNCHANGED <<lane, infinite, status, frames, state, wall, outcome, restarts, unwell,
                               changes>>
             \/ Answer("error")
    BY <1>4 DEF Redial
  <2>2. unwell' = unwell
    BY <2>1 DEF Answer
  <2>3. Grows(World, World') /\ expired' = expired
    BY <1>1, <1>2, <2>1, <2>2, DialLearns
  <2>4. Good(Top.s, World')
    BY <1>1, <1>2, <1>3, <2>3, GoodStays
  <2>5. Called(Top, World')
    <3>1. LeafOf(Top.s) \in Leaves
      BY <1>2, LeafIs
    <3> QED BY <1>3, <2>3, <3>1 DEF Called, Grows
  <2>6. expired' \/ AllPassed(World')
    <3>1. expired \/ AllPassed(World)
      BY <1>3, <1>4 DEF Redial
    <3> QED BY <1>1, <2>3, <3>1, GrowsIs
  <2>7. CASE /\ pc' = "stream"
             /\ UNCHANGED <<lane, infinite, status, frames, state, wall, outcome, restarts, unwell, changes>>
    <3>1. Top' = Top
      BY <2>7 DEF Top
    <3>2. Memory(frames', World') /\ Nested(frames')
      BY <1>1, <2>7, GeneratorsKnow
    <3>3. BansNoted'
      BY <1>1, <2>7 DEF BansNoted
    <3>4. Good(Top'.s, World') /\ Called(Top', World')
      BY <2>4, <2>5, <3>1
    <3> QED BY <2>7, <3>2, <3>3, <3>4 DEF Journey, Rightly, Quiet
  <2>8. CASE Answer("error")
    BY <1>1, <1>2, <2>3, <2>4, <2>5, <2>6, <2>8, FailureTravels
  <2> QED BY <2>1, <2>7, <2>8
<1>5. ASSUME UNCHANGED <<dialled, unwell, unknown>>
      PROVE  Grows(World, World') /\ Good(Top.s, World') /\ Called(Top, World')
  <2>1. World' = World /\ Grows(World, World')
    BY <1>5, Unlearnt
  <2> QED BY <1>3, <2>1
<1>6. CASE StreamEmits
  <2>1. Answer("served") /\ UNCHANGED <<dialled, unwell, unknown>>
    BY <1>6 DEF StreamEmits, history
  <2>2. "served" \in Outcomes \ {"error", "sentinel"}
    BY DEF Outcomes
  <2> QED BY <1>1, <1>2, <1>5, <2>1, <2>2, FailureTravels
<1>7. CASE StreamDies
  <2>1. NestFrom(Top, "gen", NextState(Top, FALSE)) /\ UNCHANGED <<dialled, unwell, unknown>>
    BY <1>7 DEF StreamDies, history
  <2>2. "gen" \in Modes \ {"dial"} /\ FALSE \in BOOLEAN
    BY DEF Modes
  <2> QED BY <1>1, <1>2, <1>5, <2>1, <2>2, FailureTravels
<1>8. CASE StreamGivesUp
  <2>1. PICK silent, inBudget \in BOOLEAN :
          /\ ~(StreamFallsBack(silent) /\ inBudget)
          /\ \/ Restart(frames, WrapState(Top.s))
             \/ Answer("error") /\ UNCHANGED dialled
          /\ expired' = (expired \/ ~inBudget) /\ UNCHANGED <<unwell, unknown>>
    BY <1>8 DEF StreamGivesUp
  <2>2. expired' \/ AllPassed(World)
    <3>1. CASE inBudget
      <4>1. ~(Top.s.pos < Len(Top.s.chain))
        BY <2>1, <3>1 DEF StreamFallsBack, HasNext
      <4> QED BY <1>2, <1>3, <4>1, LastEntryEnds
    <3> QED BY <2>1, <3>1
  <2>3. CASE Restart(frames, WrapState(Top.s))
    <3>1. \A l \in Leaves : status[l] = "ok" \/ l \in World.ill
      BY <1>1 DEF BansNoted, World
    <3>2. Covers(WrapState(Top.s).chain, World)
      BY <3>1, WrapCovers
    <3>3. WrapState(Top.s).tried = NoneTried /\ WrapState(Top.s).pos = 1
      BY DEF WrapState
    <3> QED BY <1>1, <2>2, <2>3, <3>2, <3>3, RestartTravels DEF Rightly
  <2>4. CASE Answer("error") /\ UNCHANGED dialled
    <3>1. World' = World
      BY <2>1, <2>4, Unlearnt
    <3>2. Grows(World, World') /\ Good(Top.s, World') /\ Called(Top, World')
      BY <1>5, <2>1, <2>4
    <3> QED BY <1>1, <1>2, <2>2, <2>4, <3>1, <3>2, FailureTravels
  <2> QED BY <2>1, <2>3, <2>4
<1> QED BY <1>4, <1>6, <1>7, <1>8

LEMMA RaiseTravels ==
  ASSUME Shape, Shape', Journey, RootRestarts \/ HandlerCatches \/ HandlerPasses \/ GeneratorCatches
  PROVE  Journey' /\ Rightly
<1>1. /\ pc = "raise" /\ Stacked /\ frames \in Seq(Waiting) /\ BansNoted
      /\ Memory(frames, World) /\ Nested(frames)
      /\ expired \/ AllPassed(World)
      /\ Covers(state.chain, World) /\ state.tried = NoneTried /\ state.pos = 1 /\ ~state.fresh
  BY DEF RootRestarts, HandlerCatches, HandlerPasses, GeneratorCatches, Shape, Stacked, Journey, Given
<1>2. ASSUME frames # <<>> PROVE Top \in Waiting /\ Front(frames) \in Seq(Waiting)
  BY <1>1, <1>2, TopIs
<1>3. CASE RootRestarts
  <2>1. Restart(<<>>, state) /\ expired' = expired
    BY <1>3 DEF RootRestarts
  <2>2. AllGenerators(<<>>)
    BY DEF AllGenerators
  <2> QED BY <1>1, <2>1, <2>2, RestartTravels DEF Rightly
<1>4. CASE HandlerCatches
  <2>1. /\ frames # <<>> /\ Top.mode = "try" /\ UNCHANGED <<dialled, unwell, unknown, expired>>
        /\ \/ NestFrom(Top, "handler", NextState(Top, FALSE))
           \/ Throw(Top.s) \/ Answer("sentinel")
    BY <1>4 DEF HandlerCatches, history
  <2>2. World' = World /\ Grows(World, World')
    BY <2>1, Unlearnt
  <2>3. Good(Top.s, World') /\ Called(Top, World')
    BY <1>1, <2>1, <2>2, FramesKnow DEF Top
  <2>4. "handler" \in Modes \ {"dial"} /\ "handler" # "gen" /\ FALSE \in BOOLEAN
    BY DEF Modes
  <2> QED BY <1>1, <1>2, <2>1, <2>2, <2>3, <2>4, FailureTravels
<1>5. ASSUME frames # <<>>, frames' = Front(frames), UNCHANGED <<dialled, unwell, unknown, expired>>,
             UNCHANGED <<status, pc, state, outcome, restarts>>
      PROVE  Journey' /\ Rightly
  <2>1. World' = World
    BY <1>5, Unlearnt
  <2>2. Memory(frames', World') /\ Nested(frames')
    BY <1>1, <1>5, <2>1, FramesKnow
  <2>3. BansNoted'
    BY <1>1, <1>5 DEF BansNoted
  <2> QED BY <1>1, <1>5, <2>1, <2>2, <2>3 DEF Journey, Given, Rightly, Quiet
<1>6. CASE HandlerPasses
  BY <1>5, <1>6 DEF HandlerPasses, history
<1>7. CASE GeneratorCatches
  <2>1. frames # <<>> /\ Top.mode = "gen"
    BY <1>7 DEF GeneratorCatches
  <2>2. CASE Top.s.fresh
    <3>1. Restart(frames, state) /\ expired' = expired
      BY <1>7, <2>2 DEF GeneratorCatches
    <3>2. AllGenerators(frames)
      BY <1>1, <2>1, FramesKnow DEF Top
    <3> QED BY <1>1, <3>1, <3>2, RestartTravels DEF Rightly
  <2>3. CASE ~Top.s.fresh
    <3>1. /\ UNCHANGED <<dialled, unwell, unknown, expired>>
          /\ \/ Answer("sentinel")
             \/ frames' = Front(frames) /\ UNCHANGED <<status, pc, state, outcome, restarts>>
      BY <1>7, <2>3 DEF GeneratorCatches, history
    <3>2. CASE Answer("sentinel")
      <4>1. World' = World /\ restarts' = restarts
        BY <3>1, <3>2, Unlearnt DEF Answer
      <4> QED BY <1>1, <3>1, <3>2, <4>1, AnswerTravels DEF Rightly, Answers
    <3>3. CASE frames' = Front(frames) /\ UNCHANGED <<status, pc, state, outcome, restarts>>
      BY <1>5, <2>1, <3>1, <3>3
    <3> QED BY <3>1, <3>2, <3>3
  <2> QED BY <2>2, <2>3
<1> QED BY <1>3, <1>4, <1>6, <1>7

LEMMA WorldTravels ==
  ASSUME Shape, Shape', Journey, StatusChanges \/ Disconnect \/ Over \/ UNCHANGED vars
  PROVE  Journey' /\ Rightly
<1>1. BansNoted
  BY DEF Journey
<1>2. CASE StatusChanges
  <2>1. PICK l \in Leaves, to \in {"ok", "timed", "disabled", "removed"} :
          status' = [status EXCEPT ![l] = to] /\ unwell' = unwell \cup {l}
    BY <1>2 DEF StatusChanges
  <2>2. UNCHANGED <<frames, pc, state, outcome, restarts, dialled, unknown, expired>>
    BY <1>2 DEF StatusChanges
  <2>3. /\ status \in [Leaves -> {"ok", "timed", "disabled", "removed"}] /\ World.ill \subseteq Leaves
        /\ frames \in Seq(Waiting) /\ state \in RetryStates
        /\ pc \in {"stream", "redial"} => frames # <<>>
    BY DEF Shape, Settled, Stacked, Calls, World
  <2>4. BansNoted'
    BY <1>1, <2>1, <2>3 DEF BansNoted
  <2>5. /\ World.calls = dialled /\ World.ill = unwell /\ World.odd = unknown
        /\ World'.calls = dialled' /\ World'.ill = unwell' /\ World'.odd = unknown'
    BY DEF World
  <2>6. Grows(World, World')
    BY <2>1, <2>2, <2>5 DEF Grows
  <2>7. Memory(frames', World') /\ Nested(frames')
    BY <2>2, <2>3, <2>6, FramesLearn DEF Journey
  <2>8. AllPassed(World) => AllPassed(World')
    BY <2>3, <2>6, GrowsIs
  <2>9. Covers(state.chain, World) => Covers(state.chain, World')
    BY <2>3, <2>6, GrowsIs
  <2>10. Good(state, World) => Good(state, World')
    BY <2>3, <2>6, GoodStays
  <2>11. ASSUME pc \in {"stream", "redial"} PROVE Good(Top.s, World') /\ Called(Top, World')
    <3>1. Standing(Top.s) /\ Top.s \in RetryStates
      BY <2>3, <2>11, TopIs DEF Standing, Shape
    <3>2. LeafOf(Top.s) \in Leaves
      BY <3>1, LeafIs
    <3>3. Good(Top.s, World) /\ Called(Top, World)
      BY <2>11 DEF Journey
    <3>4. Good(Top.s, World')
      BY <2>3, <2>6, <3>1, <3>3, GoodStays
    <3> QED BY <2>6, <3>2, <3>3, <3>4 DEF Called, Grows
  <2>12. Top' = Top
    BY <2>2 DEF Top
  <2> QED BY <2>2, <2>4, <2>7, <2>8, <2>9, <2>10, <2>11, <2>12 DEF Journey, Given, Rightly, Quiet
<1>3. CASE Disconnect
  <2>1. Answer("gone")
    BY <1>3 DEF Disconnect
  <2>2. restarts' = restarts /\ outcome' = "gone"
    BY <2>1 DEF Answer
  <2> QED BY <1>1, <2>1, <2>2, AnswerTravels DEF Rightly, Quiet
<1>4. CASE Over \/ UNCHANGED vars
  <2>1. UNCHANGED vars
    BY <1>4 DEF Over
  <2>2. World' = World /\ BansNoted' /\ Top' = Top
    <3>1. UNCHANGED <<dialled, unwell, unknown, status, frames>>
      BY <2>1 DEF vars
    <3> QED BY <1>1, <3>1 DEF World, BansNoted, Top
  <2> QED BY <2>1, <2>2 DEF vars, Journey, Given, Rightly, Quiet
<1> QED BY <1>2, <1>3, <1>4

LEMMA JourneyNext ==
  ASSUME Shape, Journey, [Next]_vars
  PROVE  Journey' /\ Rightly
<1>1. Shape'
  BY ShapeNext
<1>2. CASE EnterEmpty \/ EnterExhausted \/ EnterLeaf
  BY <1>1, <1>2, EnterTravels
<1>3. CASE DialOk \/ DialRefused \/ DialBroken
  BY <1>1, <1>3, DialTravels
<1>4. CASE Redial \/ StreamEmits \/ StreamDies \/ StreamGivesUp
  BY <1>1, <1>4, StreamsTravel
<1>5. CASE RootRestarts \/ HandlerCatches \/ HandlerPasses \/ GeneratorCatches
  BY <1>1, <1>5, RaiseTravels
<1>6. CASE StatusChanges \/ Disconnect \/ Over \/ UNCHANGED vars
  BY <1>1, <1>6, WorldTravels
<1> QED BY <1>2, <1>3, <1>4, <1>5, <1>6 DEF Next, Step

LEMMA JourneyInit == Init => Journey
<1> SUFFICES ASSUME Init PROVE Journey
  OBVIOUS
<1>1. /\ status = [l \in Leaves |-> "ok"] /\ frames = <<>> /\ pc = "enter" /\ state = Unset
  BY DEF Init
<1>2. AllGenerators(frames)
  BY <1>1 DEF AllGenerators
<1>3. Memory(frames, World) /\ Nested(frames)
  BY <1>2, GeneratorsKnow
<1>4. BansNoted
  BY <1>1 DEF BansNoted
<1> QED BY <1>1, <1>3, <1>4, UnsetIs DEF Journey

\* What nothing is left to try on is finished.
LEMMA PassedIsFinished ==
  ASSUME NEW l \in Leaves, NEW calls, NEW known, unwell' = unwell, known \subseteq unknown',
         Passed(l, [calls |-> calls, ill |-> unwell, odd |-> known]), l \notin unwell
  PROVE  Finished(l, calls)
<1> DEFINE w == [calls |-> calls, ill |-> unwell, odd |-> known]
<1>1. w.calls = calls /\ w.ill = unwell /\ w.odd = known
  OBVIOUS
<1>2. Done(l, w)
  BY <1>1 DEF Passed
<1> HIDE DEF w
<1>3. calls[l] # {} /\ (l \in known \/ \A k \in Conns[l] : Held(l, k, w))
  BY <1>1, <1>2 DEF Done
<1>4. ASSUME NEW k, Held(l, k, w) PROVE k \in Behind(l, calls)
  BY <1>1, <1>4 DEF Held, Behind
<1> QED BY <1>3, <1>4 DEF Finished

\* Whatever is banned, lifted or removed meanwhile, however the sentinels unwind and
\* however many passes follow: a pass is given up only when every leaf that was well
\* all along has been dialled and has no key left, or a clock ran out.
THEOREM CompleteTheorem == Spec => PassIsComplete
<1>1. ASSUME Shape, Journey, [Next]_vars
      PROVE  /\ restarts' > restarts =>
                  expired' \/ \A l \in Leaves \ unwell : Finished(l, dialled)
             /\ outcome' \in {"error", "sentinel"} /\ outcome = "none" =>
                  expired' \/ \A l \in Leaves \ unwell : Finished(l, dialled')
  <2>1. Rightly
    BY <1>1, JourneyNext
  <2>2. restarts' = restarts => ~(restarts' > restarts)
    <3>1. restarts \in Nat
      BY <1>1, TheCombo DEF Shape, Settled
    <3> QED BY <3>1
  <2>3. CASE Quiet
    BY <2>2, <2>3 DEF Quiet
  <2>4. CASE Answers
    <3>1. ASSUME AllPassed(World'), NEW l \in Leaves, l \notin unwell PROVE Finished(l, dialled')
      <4>1. Passed(l, [calls |-> dialled', ill |-> unwell, odd |-> unknown'])
        BY <2>4, <3>1 DEF Answers, AllPassed, World
      <4> QED BY <2>4, <3>1, <4>1, PassedIsFinished DEF Answers
    <3> QED BY <2>2, <2>4, <3>1 DEF Answers
  <2>5. CASE Sleeps
    <3>1. ASSUME AllPassed(World), NEW l \in Leaves, l \notin unwell PROVE Finished(l, dialled)
      <4>1. Passed(l, [calls |-> dialled, ill |-> unwell, odd |-> unknown])
        BY <3>1 DEF AllPassed, World
      <4>2. unknown \subseteq unknown' /\ unwell' = unwell
        BY <2>5 DEF Sleeps
      <4> QED BY <3>1, <4>1, <4>2, PassedIsFinished
    <3> QED BY <2>5, <3>1 DEF Sleeps
  <2> QED BY <2>1, <2>3, <2>4, <2>5 DEF Rightly
<1>2. Init => Shape /\ Journey
  BY ShapeInit, JourneyInit
<1>3. Shape /\ Journey /\ [Next]_vars => (Shape /\ Journey)'
  BY ShapeNext, JourneyNext
<1>4. Shape /\ Journey /\ [Next]_vars =>
        [/\ restarts' > restarts =>
              expired' \/ \A l \in Leaves \ unwell : Finished(l, dialled)
         /\ outcome' \in {"error", "sentinel"} /\ outcome = "none" =>
              expired' \/ \A l \in Leaves \ unwell : Finished(l, dialled')]_vars
  BY <1>1
<1> QED BY <1>2, <1>3, <1>4, PTL DEF Spec, PassIsComplete

(* ---- terminal walls ------------------------------------------------------- *)

\* Once a terminal wall was met in the JSON lane, the request is over.
WallEndsRequest == lane = "json" /\ walled => pc = "over"

\* No more upstream calls after a wall.
Silent == lane = "json" /\ walled => dials' = dials

\* The steps that call the upstream, and the only ones that can meet a wall.
Dials == DialOk \/ DialRefused \/ DialBroken \/ Redial

Waits ==
  \/ EnterEmpty \/ EnterExhausted \/ EnterLeaf
  \/ StreamEmits \/ StreamDies \/ StreamGivesUp
  \/ RootRestarts \/ HandlerCatches \/ HandlerPasses \/ GeneratorCatches
  \/ StatusChanges \/ Disconnect

LEMMA WaitsMeetNoWall ==
  ASSUME Waits
  PROVE  pc # "over" /\ lane' = lane /\ walled' = walled
<1> USE DEF Answer, Throw, Restart, NestFrom, EnterAnswered, history
<1>1. CASE EnterEmpty \/ EnterExhausted \/ EnterLeaf
  BY <1>1 DEF EnterEmpty, EnterExhausted, EnterLeaf
<1>2. CASE StreamEmits \/ StreamDies \/ StreamGivesUp
  BY <1>2 DEF StreamEmits, StreamDies, StreamGivesUp
<1>3. CASE RootRestarts \/ HandlerCatches
  BY <1>3 DEF RootRestarts, HandlerCatches
<1>4. CASE HandlerPasses \/ GeneratorCatches
  BY <1>4 DEF HandlerPasses, GeneratorCatches
<1>5. CASE StatusChanges \/ Disconnect
  BY <1>5 DEF StatusChanges, Disconnect
<1> QED
  BY <1>1, <1>2, <1>3, <1>4, <1>5 DEF Waits

LEMMA DialsStopAtWall ==
  ASSUME Dials, lane = "json"
  PROVE  pc # "over" /\ lane' = lane /\ (walled' => walled \/ pc' = "over")
<1> USE DEF Answer, Throw, NestFrom, Dial
<1>1. CASE DialOk
  BY <1>1 DEF DialOk
<1>2. CASE DialRefused
  <2>1. PICK k \in Picks(Top.s), out \in {"http", "unknown", "wall"} :
          /\ Dial(k, out)
          /\ \/ Final(out) /\ Answer("wall")
             \/ ~Final(out) /\ lane' = lane
    BY <1>2 DEF DialRefused
  <2> QED
    BY <1>2, <2>1 DEF DialRefused, Final
<1>3. CASE DialBroken
  BY <1>3 DEF DialBroken
<1>4. CASE Redial
  BY <1>4 DEF Redial
<1> QED
  BY <1>1, <1>2, <1>3, <1>4 DEF Dials

LEMMA LaneIsFixed == ASSUME Dials PROVE lane' = lane /\ pc # "over"
  BY DEF Dials, DialOk, DialRefused, DialBroken, Redial, Answer, Throw, NestFrom

LEMMA WallNext == WallEndsRequest /\ [Next]_vars => WallEndsRequest'
<1> SUFFICES ASSUME WallEndsRequest, [Next]_vars PROVE WallEndsRequest'
  OBVIOUS
<1>1. CASE Dials
  BY <1>1, LaneIsFixed, DialsStopAtWall DEF WallEndsRequest
<1>2. CASE Waits
  BY <1>2, WaitsMeetNoWall DEF WallEndsRequest
<1>3. CASE Over \/ UNCHANGED vars
  BY <1>3 DEF Over, vars, WallEndsRequest
<1> QED
  BY <1>1, <1>2, <1>3 DEF Next, Step, Dials, Waits

LEMMA WallInvariant == Spec => []WallEndsRequest
<1>1. Init => WallEndsRequest
  BY DEF Init, WallEndsRequest
<1> QED
  BY <1>1, WallNext, PTL DEF Spec

\* In the JSON lane a terminal relay wall is the last answer of the upstream: no
\* interleaving of sentinels, restarts, bans and retries calls it again.
THEOREM WallTheorem == Spec => WallIsFinal
<1>1. WallEndsRequest /\ [Next]_vars => [Silent]_vars
  <2> SUFFICES ASSUME WallEndsRequest, Next, lane = "json", walled
               PROVE  dials' = dials
    BY DEF Silent
  <2>1. pc = "over"
    BY DEF WallEndsRequest
  <2>2. ~Dials /\ ~Waits
    BY <2>1, LaneIsFixed, WaitsMeetNoWall
  <2> QED
    BY <2>2 DEF Next, Step, Dials, Waits, Over, vars
<1> QED
  BY <1>1, WallInvariant, PTL DEF Spec, WallIsFinal, Silent

(* ---- the registry of ends ------------------------------------------------- *)

Entries == [key : Ids, at : Nat \ {0}]
Dict(r) == r \in Seq(Entries) /\ \A j, k \in DOMAIN r : r[j].key = r[k].key => j = k
Points(r, i, n) == [key |-> i, at |-> n] \in ToSet(r)

LEMMA InSet == ASSUME NEW r PROVE \A e : e \in ToSet(r) <=> \E k \in DOMAIN r : r[k] = e
  BY DEF ToSet

\* The entries of a dict are pairs, and an id has at most one.
LEMMA DictIs ==
  ASSUME NEW r, Dict(r)
  PROVE  /\ \A e \in ToSet(r) : /\ e \in Entries /\ e = [key |-> e.key, at |-> e.at]
                                /\ Points(r, e.key, e.at)
         /\ \A i, m, n : Points(r, i, m) /\ Points(r, i, n) => m = n
         /\ \A i, n : Points(r, i, n) => i \in Ids /\ n \in Nat \ {0}
<1>1. \A e \in ToSet(r) : e \in Entries
  BY InSet DEF Dict
<1>2. \A e \in Entries : e = [key |-> e.key, at |-> e.at]
  BY DEF Entries
<1>3. ASSUME NEW i, NEW m, NEW n, Points(r, i, m), Points(r, i, n) PROVE m = n
  <2>1. PICK j \in DOMAIN r : r[j] = [key |-> i, at |-> m]
    BY <1>3, InSet DEF Points
  <2>2. PICK k \in DOMAIN r : r[k] = [key |-> i, at |-> n]
    BY <1>3, InSet DEF Points
  <2>3. r[j].key = i /\ r[k].key = i /\ r[j].at = m /\ r[k].at = n
    BY <2>1, <2>2
  <2>4. j = k
    BY <2>3 DEF Dict
  <2> QED BY <2>3, <2>4
<1>4. ASSUME NEW i, NEW n, Points(r, i, n) PROVE i \in Ids /\ n \in Nat \ {0}
  <2>1. [key |-> i, at |-> n] \in Entries
    BY <1>1, <1>4 DEF Points
  <2> QED BY <2>1 DEF Entries
<1>5. ASSUME NEW e \in ToSet(r) PROVE e = [key |-> e.key, at |-> e.at] /\ Points(r, e.key, e.at)
  <2>1. e = [key |-> e.key, at |-> e.at]
    BY <1>1, <1>2
  <2>2. [key |-> e.key, at |-> e.at] \in ToSet(r)
    BY <2>1
  <2> QED BY <2>1, <2>2 DEF Points
<1> QED BY <1>1, <1>3, <1>4, <1>5

\* Registered and At read the dict.
LEMMA AtIs ==
  ASSUME Dict(registry)
  PROVE  /\ \A i : i \in Registered <=> \E n : Points(registry, i, n)
         /\ \A i, n : Points(registry, i, n) => At(i) = n
<1>1. \A e \in ToSet(registry) : e = [key |-> e.key, at |-> e.at] /\ Points(registry, e.key, e.at)
  BY DictIs
<1>2. ASSUME NEW i, NEW n, Points(registry, i, n) PROVE i \in Registered /\ At(i) = n
  <2> DEFINE e == [key |-> i, at |-> n]
             c == CHOOSE entry \in ToSet(registry) : entry.key = i
  <2>1. e \in ToSet(registry) /\ e.key = i /\ e.at = n
    BY <1>2 DEF Points
  <2>2. c \in ToSet(registry) /\ c.key = i
    BY <2>1
  <2>3. Points(registry, i, c.at)
    BY <2>2, <1>1
  <2>4. c.at = n
    BY <2>3, <1>2, DictIs
  <2> QED BY <2>1, <2>4 DEF Registered, At
<1>3. ASSUME NEW i \in Registered PROVE \E n : Points(registry, i, n)
  BY <1>1 DEF Registered
<1> QED BY <1>2, <1>3

\* A put sets one position and leaves the others; the key of a full dict that
\* was not known comes last.
LEMMA PutIs ==
  ASSUME Dict(registry), NEW i \in Ids, NEW n \in Nat \ {0}
  PROVE  /\ Dict(Put(i, n)) /\ Points(Put(i, n), i, n)
         /\ \A j, m : j # i => (Points(Put(i, n), j, m) <=> Points(registry, j, m))
         /\ i \in Registered => Len(Put(i, n)) = Len(registry)
         /\ i \notin Registered => /\ Len(Put(i, n)) = Len(registry) + 1
                                   /\ Put(i, n)[Len(registry) + 1] = [key |-> i, at |-> n]
<1> DEFINE e == [key |-> i, at |-> n]
           p == Put(i, n)
           L == Len(registry)
<1>1. registry \in Seq(Entries) /\ L \in Nat /\ DOMAIN registry = 1 .. L
  BY DEF Dict
<1>2. e \in Entries /\ e.key = i
  BY DEF Entries
<1>3. \A k \in DOMAIN registry : registry[k] \in ToSet(registry)
  BY InSet
<1>4. CASE i \in Registered
  <2>1. p = [k \in DOMAIN registry |-> IF registry[k].key = i THEN e ELSE registry[k]]
    BY <1>4 DEF Put
  <2> HIDE DEF p, e
  <2>2. DOMAIN p = 1 .. L /\ \A k \in 1 .. L : p[k] = IF registry[k].key = i THEN e ELSE registry[k]
    BY <1>1, <2>1
  <2>3. \A k \in 1 .. L : p[k] \in Entries /\ p[k].key = registry[k].key
    BY <1>1, <1>2, <2>2
  <2>4. p \in Seq(Entries) /\ Len(p) = L
    BY <1>1, <2>1, <2>2, <2>3
  <2>5. Dict(p)
    BY <1>1, <2>2, <2>3, <2>4 DEF Dict
  <2>6. PICK x \in ToSet(registry) : x.key = i
    BY <1>4 DEF Registered
  <2>7. PICK y \in DOMAIN registry : registry[y] = x
    BY <2>6, InSet
  <2>8. p[y] = e
    BY <1>1, <2>2, <2>6, <2>7
  <2>9. e \in ToSet(p)
    BY <1>1, <2>2, <2>7, <2>8, InSet
  <2>10. ASSUME NEW j, NEW m, j # i PROVE Points(p, j, m) <=> Points(registry, j, m)
    <3> DEFINE z == [key |-> j, at |-> m]
    <3>1. z.key # i
      BY <2>10
    <3> HIDE DEF z
    <3>2. \A k \in 1 .. L : p[k] = z <=> registry[k] = z
      BY <1>2, <2>2, <3>1
    <3>3. z \in ToSet(p) <=> z \in ToSet(registry)
      BY <1>1, <2>2, <3>2, InSet
    <3> QED BY <3>3 DEF z, Points
  <2> QED BY <1>4, <2>4, <2>5, <2>9, <2>10 DEF Points, p, e
<1>5. CASE i \notin Registered
  <2>1. p = Append(registry, e)
    BY <1>5 DEF Put
  <2> HIDE DEF p, e
  <2>2. /\ p \in Seq(Entries) /\ Len(p) = L + 1 /\ DOMAIN p = 1 .. L + 1
        /\ p[L + 1] = e /\ \A k \in 1 .. L : p[k] = registry[k]
    BY <1>1, <1>2, <2>1
  <2>3. \A k \in 1 .. L : registry[k].key # i
    BY <1>1, <1>3, <1>5 DEF Registered
  <2>4. Dict(p)
    <3> SUFFICES ASSUME NEW j \in 1 .. L + 1, NEW k \in 1 .. L + 1, p[j].key = p[k].key PROVE j = k
      BY <2>2 DEF Dict
    <3>1. CASE j \in 1 .. L /\ k \in 1 .. L
      BY <3>1, <1>1, <2>2 DEF Dict
    <3>2. CASE j = L + 1 \/ k = L + 1
      <4>1. j # L + 1 => j \in 1 .. L /\ p[j].key # i
        BY <1>1, <2>2, <2>3
      <4>2. k # L + 1 => k \in 1 .. L /\ p[k].key # i
        BY <1>1, <2>2, <2>3
      <4>3. p[L + 1].key = i
        BY <1>2, <2>2
      <4> QED BY <3>2, <4>1, <4>2, <4>3
    <3> QED BY <3>1, <3>2, <1>1
  <2>5. e \in ToSet(p)
    <3>1. L + 1 \in DOMAIN p
      BY <1>1, <2>2
    <3> QED BY <2>2, <3>1, InSet
  <2>6. ASSUME NEW j, NEW m, j # i PROVE Points(p, j, m) <=> Points(registry, j, m)
    <3> DEFINE z == [key |-> j, at |-> m]
    <3>1. z.key # i
      BY <2>6
    <3> HIDE DEF z
    <3>2. z # e
      BY <1>2, <3>1
    <3>3. (\E k \in 1 .. L + 1 : p[k] = z) <=> (\E k \in 1 .. L : registry[k] = z)
      BY <1>1, <2>2, <3>2
    <3>4. z \in ToSet(p) <=> z \in ToSet(registry)
      BY <1>1, <2>2, <3>3, InSet
    <3> QED BY <3>4 DEF z, Points
  <2> QED BY <1>5, <2>2, <2>4, <2>5, <2>6 DEF Points, p, e
<1> QED BY <1>4, <1>5

\* Cutting a dict to its bound drops entries and changes none; the last stays.
LEMMA BoundedIs ==
  ASSUME NEW r, Dict(r), Len(r) <= RegCap + 1
  PROVE  /\ Dict(Bounded(r)) /\ Len(Bounded(r)) <= RegCap
         /\ ToSet(Bounded(r)) \subseteq ToSet(r)
         /\ Len(r) <= RegCap => Bounded(r) = r
         /\ r # <<>> => r[Len(r)] \in ToSet(Bounded(r))
<1>1. RegCap \in Nat \ {0} /\ RegDrop \in Nat \ {0} /\ RegDrop <= RegCap
  BY LedgerAssumption
<1>2. r \in Seq(Entries) /\ Len(r) \in Nat /\ DOMAIN r = 1 .. Len(r)
  BY DEF Dict
<1>3. CASE Len(r) <= RegCap
  <2>1. Bounded(r) = r
    BY <1>1, <1>2, <1>3 DEF Bounded
  <2>2. r # <<>> => Len(r) \in DOMAIN r
    BY <1>2
  <2> QED BY <2>1, <2>2, <1>3, InSet
<1>4. CASE Len(r) = RegCap + 1
  <2> DEFINE b == SubSeq(r, RegDrop + 1, Len(r))
             K == Len(r) - RegDrop
  <2>1. Bounded(r) = b
    BY <1>1, <1>4 DEF Bounded
  <2>2. K \in Nat /\ K >= 1 /\ K <= RegCap
    BY <1>1, <1>4
  <2>3. b \in Seq(Entries) /\ Len(b) = K /\ \A k \in 1 .. K : b[k] = r[RegDrop + k]
    <3>1. RegDrop + 1 \in 1 .. Len(r) /\ Len(r) \in 1 .. Len(r)
      BY <1>1, <1>4
    <3> QED BY <1>1, <1>2, <2>2, <3>1, SubSeqProperties
  <2> HIDE DEF b
  <2>4. DOMAIN b = 1 .. K
    BY <2>3
  <2>5. \A k \in 1 .. K : RegDrop + k \in DOMAIN r
    BY <1>1, <1>2, <2>2
  <2>6. ToSet(b) \subseteq ToSet(r)
    BY <2>3, <2>4, <2>5, InSet
  <2>7. Dict(b)
    <3> SUFFICES ASSUME NEW j \in 1 .. K, NEW k \in 1 .. K, b[j].key = b[k].key PROVE j = k
      BY <2>3, <2>4 DEF Dict
    <3>1. RegDrop + j = RegDrop + k
      BY <2>3, <2>5 DEF Dict
    <3> QED BY <3>1, <1>1
  <2>8. r[Len(r)] \in ToSet(b)
    <3>1. K \in DOMAIN b /\ b[K] = r[Len(r)]
      <4>1. K \in 1 .. K /\ RegDrop + K = Len(r)
        BY <1>1, <1>4, <2>2
      <4> QED BY <4>1, <2>3, <2>4
    <3> QED BY <3>1, InSet
  <2>9. ~(Len(r) <= RegCap) /\ Len(b) <= RegCap
    BY <1>1, <1>4, <2>2, <2>3
  <2> HIDE DEF K
  <2> QED BY <2>1, <2>6, <2>7, <2>8, <2>9
<1>5. Len(r) <= RegCap \/ Len(r) = RegCap + 1
  <2>1. Len(r) \in Nat /\ RegCap \in Nat
    BY <1>1, <1>2
  <2> QED BY <2>1
<1> QED BY <1>3, <1>4, <1>5

\* When the head of the console goes, its entry goes and the others move down.
LEMMA ShiftedIs ==
  ASSUME NEW r, Dict(r)
  PROVE  /\ Dict(Shifted(r)) /\ Len(Shifted(r)) <= Len(r)
         /\ \A i, m : Points(Shifted(r), i, m) => m \in Nat \ {0} /\ Points(r, i, m + 1)
         /\ \A i, m : Points(r, i, m) /\ m > 1 => Points(Shifted(r), i, m - 1)
<1> DEFINE P == {k \in DOMAIN r : r[k].at > 1}
           kept == Keep(r, P)
           s == [k \in DOMAIN kept |-> [kept[k] EXCEPT !.at = @ - 1]]
<1>1. Shifted(r) = s
  BY DEF Shifted
<1>2. r \in Seq(Entries) /\ P \in SUBSET DOMAIN r
  BY DEF Dict
<1>3. /\ kept \in Seq(Entries) /\ Len(kept) <= Len(r)
      /\ \A n \in DOMAIN kept : Nth(P, n - 1) \in P /\ kept[n] = r[Nth(P, n - 1)]
      /\ \A m, n \in DOMAIN kept : Nth(P, m - 1) = Nth(P, n - 1) => m = n
      /\ \A i \in P : \E n \in DOMAIN kept : kept[n] = r[i]
  <2> HIDE DEF P
  <2> QED BY <1>2, Keeps
<1>4. \A k \in P : r[k] \in Entries /\ r[k].at > 1
  BY <1>2
<1> HIDE DEF P
<1>5. \A n \in DOMAIN kept : kept[n] \in Entries /\ kept[n].at > 1
  BY <1>3, <1>4
<1>6. \A m, n \in DOMAIN kept : kept[m].key = kept[n].key => m = n
  <2> SUFFICES ASSUME NEW m \in DOMAIN kept, NEW n \in DOMAIN kept, kept[m].key = kept[n].key PROVE m = n
    OBVIOUS
  <2>1. Nth(P, m - 1) \in DOMAIN r /\ Nth(P, n - 1) \in DOMAIN r
    BY <1>2, <1>3
  <2>2. r[Nth(P, m - 1)].key = r[Nth(P, n - 1)].key
    BY <1>3
  <2>3. Nth(P, m - 1) = Nth(P, n - 1)
    BY <2>1, <2>2 DEF Dict
  <2> QED BY <2>3, <1>3
<1>7. \A e \in Entries : e.at > 1 =>
        /\ [e EXCEPT !.at = @ - 1] \in Entries
        /\ [e EXCEPT !.at = @ - 1].key = e.key
        /\ [e EXCEPT !.at = @ - 1].at = e.at - 1
        /\ e.at \in Nat
  BY DEF Entries
<1> HIDE DEF kept
<1>8. /\ DOMAIN s = DOMAIN kept /\ DOMAIN kept = 1 .. Len(kept) /\ Len(kept) \in Nat
      /\ \A n \in DOMAIN kept : s[n] \in Entries /\ s[n].key = kept[n].key /\ s[n].at = kept[n].at - 1
                                /\ kept[n].at \in Nat
  <2>1. DOMAIN s = DOMAIN kept /\ DOMAIN kept = 1 .. Len(kept) /\ Len(kept) \in Nat
    BY <1>3
  <2>2. ASSUME NEW n \in DOMAIN kept
        PROVE  s[n] \in Entries /\ s[n].key = kept[n].key /\ s[n].at = kept[n].at - 1 /\ kept[n].at \in Nat
    <3>1. s[n] = [kept[n] EXCEPT !.at = @ - 1]
      OBVIOUS
    <3>2. kept[n] \in Entries /\ kept[n].at > 1
      BY <1>5
    <3> HIDE DEF s
    <3> QED BY <3>1, <3>2, <1>7
  <2> QED BY <2>1, <2>2
<1> HIDE DEF s
<1>9. s \in Seq(Entries) /\ Len(s) = Len(kept)
  <2>1. s = [k \in 1 .. Len(kept) |-> s[k]]
    BY <1>8 DEF s
  <2> QED BY <2>1, <1>8
<1>10. Dict(s)
  BY <1>6, <1>8, <1>9 DEF Dict
<1>11. ASSUME NEW i, NEW m, Points(s, i, m) PROVE m \in Nat \ {0} /\ Points(r, i, m + 1)
  <2>1. PICK n \in DOMAIN s : s[n] = [key |-> i, at |-> m]
    BY <1>11, InSet DEF Points
  <2>2. s[n].key = i /\ s[n].at = m
    BY <2>1
  <2>3. kept[n].key = i /\ kept[n].at = m + 1 /\ m \in Nat \ {0}
    BY <1>5, <1>8, <2>2
  <2>4. kept[n] \in Entries /\ kept[n] = [key |-> kept[n].key, at |-> kept[n].at]
    BY <1>5, <1>8 DEF Entries
  <2>5. kept[n] = [key |-> i, at |-> m + 1]
    BY <2>3, <2>4
  <2>6. kept[n] \in ToSet(r)
    BY <1>2, <1>3, <1>8, InSet
  <2> QED BY <2>3, <2>5, <2>6 DEF Points
<1>12. ASSUME NEW i, NEW m, Points(r, i, m), m > 1 PROVE Points(s, i, m - 1)
  <2> DEFINE e == [key |-> i, at |-> m]
  <2>1. PICK k \in DOMAIN r : r[k] = e
    BY <1>12, InSet DEF Points
  <2>2. k \in P
    BY <2>1, <1>12 DEF P
  <2>3. PICK n \in DOMAIN kept : kept[n] = e
    BY <1>3, <2>1, <2>2
  <2>4. s[n] \in Entries /\ s[n].key = i /\ s[n].at = m - 1
    BY <1>8, <2>3
  <2>5. s[n] = [key |-> i, at |-> m - 1]
    BY <2>4 DEF Entries
  <2> QED BY <1>8, <2>5, InSet DEF Points
<1> QED BY <1>1, <1>3, <1>9, <1>10, <1>11, <1>12

(* ---- the end of an attempt ------------------------------------------------ *)

Said == [status : Statuses, words : Nat, first : BOOLEAN]

\* An id is registered by the first report of a call that has it.
Signed == \A i \in Registered : \E a \in Attempts : id[a] = i /\ said[a] # <<>>

\* Nothing is known of a call before its first report.
Unspoken ==
  \A a \in Attempts :
    /\ id[a] = NoId => said[a] = <<>>
    /\ said[a] = <<>> => heard[a] = <<>> /\ booked[a] = 0

\* The row of an end says how the reports p of a call with the id i came out.
RowTells(i, p, row) ==
  /\ row.who = i
  /\ row.status = "ok" <=> p[1].status = "ok" /\ Overturning(p) = {}
  /\ row.status = "ok" =>
       (row.words = 0 <=> \A k \in DOMAIN p : p[k].status = "ok" => p[k].words = 0)

\* The registry leads to that row.
Home(a) ==
  \E n \in DOMAIN console : Points(registry, id[a], n) /\ RowTells(id[a], said[a], console[n])

\* The verdicts h on the reports p.
Judged(p, h) ==
  \/ Overturning(p) = {} /\ h = <<p[1].status>>
  \/ \E j \in Overturning(p) :
       /\ \A k \in Overturning(p) : j <= k
       /\ h = <<p[1].status, p[j].status>>

Counted(a) ==
  IF said[a][1].status = "blank"
  THEN booked[a] = 0
  ELSE booked[a] = (IF a \in NonUsage THEN 0 ELSE 1) /\ id[a] \notin inflight

Ended(a) == Home(a) /\ Counted(a) /\ (a \notin NonUsage => Judged(said[a], heard[a]))

LInv == LedgerTypeOK /\ Signed /\ Unspoken /\ \A a \in Tracked : Ended(a)

LEMMA Bounds ==
  /\ Cap \in Nat \ {0} /\ RegCap \in Nat \ {0}
  /\ NoId \notin Ids
  /\ \A e \in Reports : e \in Said
  BY LedgerAssumption DEF Ids, Said, Statuses

LEMMA ReadIs == \A e \in Said : Read(e) \in Said
  BY DEF Read, Said, Statuses

\* The registry's type as a dict.
LEMMA DictType ==
  ASSUME NEW r
  PROVE  (/\ r \in Seq([key : Ids, at : 1 .. Cap])
          /\ IsInjective([k \in DOMAIN r |-> r[k].key]))
         <=> Dict(r) /\ \A i, n : Points(r, i, n) => n <= Cap
<1> DEFINE E == [key : Ids, at : 1 .. Cap]
           keys == [k \in DOMAIN r |-> r[k].key]
<1>1. Cap \in Nat /\ \A e : e \in E <=> e \in Entries /\ e.at <= Cap
  BY Bounds DEF Entries
<1>2. IsInjective(keys) <=> \A j, k \in DOMAIN r : r[j].key = r[k].key => j = k
  BY DEF IsInjective
<1> HIDE DEF E, keys
<1>3. ASSUME r \in Seq(E), IsInjective(keys) PROVE Dict(r) /\ \A i, n : Points(r, i, n) => n <= Cap
  <2>1. \A k \in DOMAIN r : r[k] \in E
    BY <1>3
  <2>2. r \in Seq(Entries)
    BY <1>1, <1>3, <2>1
  <2>3. ASSUME NEW i, NEW n, Points(r, i, n) PROVE n <= Cap
    <3> DEFINE e == [key |-> i, at |-> n]
    <3>1. e \in E
      BY <2>1, <2>3, InSet DEF Points
    <3>2. e.at = n
      OBVIOUS
    <3> HIDE DEF e
    <3> QED BY <3>1, <3>2, <1>1
  <2> QED BY <1>2, <1>3, <2>2, <2>3 DEF Dict
<1>4. ASSUME Dict(r), \A i, n : Points(r, i, n) => n <= Cap PROVE r \in Seq(E) /\ IsInjective(keys)
  <2>1. \A k \in DOMAIN r : r[k] \in ToSet(r) /\ r[k] \in Entries
    BY <1>4, InSet DEF Dict
  <2>2. \A k \in DOMAIN r : r[k].at <= Cap
    BY <1>4, <2>1, DictIs
  <2>3. \A k \in DOMAIN r : r[k] \in E
    BY <2>1, <2>2, <1>1
  <2>4. r \in Seq(E)
    BY <1>4, <2>3 DEF Dict
  <2> QED BY <1>2, <1>4, <2>4 DEF Dict
<1> QED BY <1>3, <1>4 DEF E, keys

\* One more row, and the head goes when the console is full.
LEMMA TrimmedIs ==
  ASSUME NEW s \in Seq(Rows), Len(s) <= Cap, NEW row \in Rows
  PROVE  /\ Trimmed(Append(s, row)) \in Seq(Rows) /\ Len(Trimmed(Append(s, row))) <= Cap
         /\ Len(s) # Cap => /\ Len(Trimmed(Append(s, row))) = Len(s) + 1
                            /\ Trimmed(Append(s, row))[Len(s) + 1] = row
                            /\ \A n \in 1 .. Len(s) : Trimmed(Append(s, row))[n] = s[n]
         /\ Len(s) = Cap => /\ Len(Trimmed(Append(s, row))) = Cap
                            /\ Trimmed(Append(s, row))[Cap] = row
                            /\ \A n \in 2 .. Cap : Trimmed(Append(s, row))[n - 1] = s[n]
<1> DEFINE t == Trimmed(Append(s, row))
           u == Append(s, row)
           L == Len(s)
<1>1. Cap \in Nat \ {0} /\ L \in Nat
  BY Bounds
<1>2. u \in Seq(Rows) /\ Len(u) = L + 1 /\ u[L + 1] = row /\ \A n \in 1 .. L : u[n] = s[n]
  OBVIOUS
<1> HIDE DEF u
<1>3. CASE L # Cap
  <2>1. ~(Len(u) > Cap)
    BY <1>1, <1>2, <1>3
  <2>2. t = u
    BY <2>1 DEF Trimmed, u
  <2> HIDE DEF t
  <2> QED BY <2>1, <2>2, <1>1, <1>2, <1>3 DEF t
<1>4. CASE L = Cap
  <2>1. t = Tail(u)
    BY <1>1, <1>2, <1>4 DEF Trimmed, u
  <2>2. Len(u) = Cap + 1 /\ u # <<>>
    BY <1>1, <1>2, <1>4
  <2> HIDE DEF t
  <2>3. t \in Seq(Rows) /\ Len(t) = Cap /\ \A n \in 1 .. Cap : t[n] = u[n + 1]
    BY <1>1, <1>2, <2>1, <2>2
  <2>4. t[Cap] = row
    BY <1>1, <1>2, <1>4, <2>3
  <2>5. ASSUME NEW n \in 2 .. Cap PROVE t[n - 1] = s[n]
    <3>1. n - 1 \in 1 .. Cap /\ (n - 1) + 1 = n /\ n \in 1 .. L
      BY <1>1, <1>4
    <3> QED BY <3>1, <1>2, <2>3
  <2> QED BY <2>3, <2>4, <2>5, <1>1, <1>4 DEF t
<1> QED BY <1>3, <1>4

\* What LedgerTypeOK says of the console and the registry.
Shelves ==
  /\ console \in Seq(Rows) /\ Len(console) <= Cap
  /\ Dict(registry) /\ Len(registry) <= RegCap /\ \A i, n : Points(registry, i, n) => n <= Cap
  /\ lost \subseteq Ids

LEMMA ShelvesIs ==
  LedgerTypeOK <=>
    /\ Shelves
    /\ inflight \subseteq Attempts
    /\ id \in [Attempts -> Ids \cup {NoId}]
    /\ booked \in [Attempts -> Nat]
    /\ said \in [Attempts -> Seq(Said)]
    /\ heard \in [Attempts -> Seq(Statuses)]
  BY DictType DEF Shelves, LedgerTypeOK, Said

LEMMA TypeNext ==
  ASSUME Shelves',
         inflight' \subseteq Attempts, id' \in [Attempts -> Ids \cup {NoId}],
         booked' \in [Attempts -> Nat], said' \in [Attempts -> Seq(Said)],
         heard' \in [Attempts -> Seq(Statuses)]
  PROVE  LedgerTypeOK'
  BY DictType DEF Shelves, LedgerTypeOK, Said

LEMMA RegisteredIn == Shelves => Registered \subseteq Ids
  BY AtIs, DictIs DEF Shelves

\* The row an id points to stays, where it is or one further down.
Carried(i) ==
  \A n \in DOMAIN console : Points(registry, i, n) /\ console[n].who = i =>
    \E m \in DOMAIN console' : Points(registry', i, m) /\ console'[m] = console[n]

\* A row of somebody else's.
LEMMA NoteIs ==
  ASSUME Shelves, AppendNote, registry' = registry
  PROVE  /\ Shelves' /\ lost \subseteq lost'
         /\ \A i \in Ids \ lost' : Carried(i)
<1>1. Note \in Rows
  BY DEF Note, Rows
<1>2. console' = Trimmed(Append(console, Note)) /\ console \in Seq(Rows) /\ Len(console) <= Cap
  BY DEF AppendNote, Shelves
<1>3. /\ console' \in Seq(Rows) /\ Len(console') <= Cap
      /\ Len(console) # Cap => /\ Len(console') = Len(console) + 1
                               /\ \A n \in 1 .. Len(console) : console'[n] = console[n]
  BY <1>1, <1>2, TrimmedIs
<1>4. lost' = IF Len(console) = Cap THEN lost \cup Registered ELSE lost
  BY DEF AppendNote
<1>5. lost' \subseteq Ids /\ lost \subseteq lost'
  BY <1>4, RegisteredIn DEF Shelves
<1>6. ASSUME NEW i \in Ids \ lost' PROVE Carried(i)
  <2> SUFFICES ASSUME NEW n \in DOMAIN console, Points(registry, i, n)
               PROVE  \E m \in DOMAIN console' : Points(registry', i, m) /\ console'[m] = console[n]
    BY DEF Carried
  <2>1. i \in Registered
    BY AtIs DEF Shelves
  <2>2. Len(console) # Cap
    BY <1>4, <1>6, <2>1
  <2>3. n \in 1 .. Len(console) /\ Len(console) \in Nat
    BY <1>2
  <2>4. n \in DOMAIN console' /\ console'[n] = console[n]
    BY <1>3, <2>2, <2>3
  <2> QED BY <2>4
<1> QED BY <1>3, <1>5, <1>6 DEF Shelves

\* The first report of an id brings its row and leaves the others theirs.
LEMMA FirstIs ==
  ASSUME Shelves, NEW a \in Attempts, id[a] \in Ids, NEW e \in Said, First(a, e)
  PROVE  /\ Shelves' /\ lost \subseteq lost'
         /\ Registered' \subseteq Registered \cup {id[a]}
         /\ \A i \in Ids \ (lost' \cup {id[a]}) : Carried(i)
         /\ id[a] \notin Registered \cup lost' =>
              \E m \in DOMAIN console' : Points(registry', id[a], m) /\ console'[m] = Row(id[a], e)
<1> DEFINE L    == Len(console)
           x    == id[a]
           row  == Row(x, e)
           reg  == Put(x, L + 1)
           full == L = Cap
           kept == Bounded(reg)
           gone == {entry.key : entry \in ToSet(reg) \ ToSet(kept)}
           head == {entry.key : entry \in {y \in ToSet(kept) : full /\ y.at = 1}}
<1>1. /\ console' = Trimmed(Append(console, row))
      /\ registry' = IF full THEN Shifted(kept) ELSE kept
      /\ lost' = lost \cup gone \cup head
  BY DEF First
<1>2. /\ console \in Seq(Rows) /\ L \in Nat /\ L <= Cap /\ DOMAIN console = 1 .. L
      /\ Dict(registry) /\ Len(registry) <= RegCap /\ lost \subseteq Ids
      /\ Cap \in Nat \ {0} /\ RegCap \in Nat \ {0} /\ L + 1 \in Nat \ {0}
      /\ x \in Ids
  BY Bounds DEF Shelves
<1>3. row \in Rows
  BY <1>2 DEF Row, Rows, Said
<1>4. /\ Dict(reg) /\ Points(reg, x, L + 1)
      /\ \A j, m : j # x => (Points(reg, j, m) <=> Points(registry, j, m))
      /\ x \in Registered => Len(reg) = Len(registry)
      /\ x \notin Registered => Len(reg) = Len(registry) + 1
                                /\ reg[Len(registry) + 1] = [key |-> x, at |-> L + 1]
  <2> HIDE DEF x, L
  <2> QED BY <1>2, PutIs
<1>5. Len(registry) \in Nat /\ Len(reg) <= RegCap + 1
  <2>1. Len(registry) \in Nat
    BY <1>2 DEF Dict
  <2> HIDE DEF reg
  <2>2. Len(reg) = Len(registry) \/ Len(reg) = Len(registry) + 1
    BY <1>4
  <2> QED BY <1>2, <2>1, <2>2
<1>6. /\ Dict(kept) /\ Len(kept) <= RegCap
      /\ ToSet(kept) \subseteq ToSet(reg)
      /\ reg # <<>> => reg[Len(reg)] \in ToSet(kept)
  <2> HIDE DEF reg
  <2> QED BY <1>4, <1>5, BoundedIs
<1>7. /\ \A i, m : Points(kept, i, m) => Points(reg, i, m)
      /\ x \notin Registered => Points(kept, x, L + 1)
  <2> HIDE DEF reg, kept
  <2>1. \A i, m : Points(kept, i, m) => Points(reg, i, m)
    BY <1>6 DEF Points
  <2>2. ASSUME x \notin Registered PROVE Points(kept, x, L + 1)
    <3>1. Len(reg) = Len(registry) + 1 /\ reg[Len(reg)] = [key |-> x, at |-> L + 1]
      BY <1>4, <2>2
    <3>2. reg # <<>>
      BY <3>1, <1>5
    <3> QED BY <3>1, <3>2, <1>6 DEF Points
  <2> QED BY <2>1, <2>2
<1>8. /\ Dict(Shifted(kept)) /\ Len(Shifted(kept)) <= Len(kept)
      /\ \A i, m : Points(Shifted(kept), i, m) => m \in Nat \ {0} /\ Points(kept, i, m + 1)
      /\ \A i, m : Points(kept, i, m) /\ m > 1 => Points(Shifted(kept), i, m - 1)
  <2> HIDE DEF kept
  <2> QED BY <1>6, ShiftedIs
<1>9. \A i, m : Points(reg, i, m) =>
        /\ i = x \/ Points(registry, i, m)
        /\ m <= Cap \/ m = L + 1
        /\ m \in Nat \ {0} /\ i \in Ids
  <2> HIDE DEF reg
  <2> SUFFICES ASSUME NEW i, NEW m, Points(reg, i, m)
               PROVE  /\ i = x \/ Points(registry, i, m)
                      /\ m <= Cap \/ m = L + 1
                      /\ m \in Nat \ {0} /\ i \in Ids
    OBVIOUS
  <2>1. m \in Nat \ {0} /\ i \in Ids
    BY <1>4, DictIs
  <2>2. i = x => m = L + 1
    BY <1>4, DictIs
  <2>3. i # x => Points(registry, i, m) /\ m <= Cap
    BY <1>4 DEF Shelves
  <2> QED BY <2>1, <2>2, <2>3
<1> HIDE DEF reg, kept
<1>10. \A i, m : Points(registry', i, m) => (i = x \/ i \in Registered) /\ m <= Cap
  <2> SUFFICES ASSUME NEW i, NEW m, Points(registry', i, m)
               PROVE  (i = x \/ i \in Registered) /\ m <= Cap
    OBVIOUS
  <2>1. CASE full
    <3>1. m \in Nat \ {0} /\ Points(reg, i, m + 1)
      BY <1>1, <1>7, <1>8, <2>1
    <3>2. i = x \/ i \in Registered
      BY <1>2, <1>9, <3>1, AtIs
    <3>3. m + 1 <= Cap \/ m + 1 = L + 1
      BY <1>9, <3>1
    <3> QED BY <3>1, <3>2, <3>3, <1>2, <2>1
  <2>2. CASE ~full
    <3>1. Points(reg, i, m)
      BY <1>1, <1>7, <2>2
    <3>2. i = x \/ i \in Registered
      BY <1>2, <1>9, <3>1, AtIs
    <3>3. m <= Cap \/ m = L + 1
      BY <1>9, <3>1
    <3>4. L + 1 <= Cap
      <4>1. L \in Nat /\ L <= Cap /\ Cap \in Nat
        BY <1>2
      <4> QED BY <4>1, <2>2
    <3>5. m <= Cap
      BY <3>3, <3>4
    <3> QED BY <3>2, <3>5
  <2> QED BY <2>1, <2>2
<1>11. Dict(registry') /\ Len(registry') <= RegCap
  <2>1. Len(kept) \in Nat
    BY <1>6 DEF Dict
  <2>2. Len(Shifted(kept)) \in Nat
    BY <1>8 DEF Dict
  <2>3. RegCap \in Nat /\ Len(kept) <= RegCap /\ Len(Shifted(kept)) <= Len(kept)
    BY <1>2, <1>6, <1>8
  <2>4. Len(Shifted(kept)) <= RegCap
    BY <2>1, <2>2, <2>3
  <2>5. Dict(kept) /\ Dict(Shifted(kept))
    BY <1>6, <1>8
  <2>6. registry' = Shifted(kept) \/ registry' = kept
    BY <1>1
  <2> QED BY <2>3, <2>4, <2>5, <2>6
<1>12. /\ console' \in Seq(Rows) /\ Len(console') <= Cap
       /\ ~full => /\ Len(console') = L + 1 /\ console'[L + 1] = row
                   /\ \A n \in 1 .. L : console'[n] = console[n]
       /\ full => /\ Len(console') = Cap /\ console'[Cap] = row
                  /\ \A n \in 2 .. Cap : console'[n - 1] = console[n]
  <2> HIDE DEF row
  <2> QED BY <1>1, <1>2, <1>3, TrimmedIs
<1> HIDE DEF row
<1>13. lost' \subseteq Ids /\ lost \subseteq lost'
  <2>1. \A entry \in ToSet(reg) : entry.key \in Ids
    BY <1>4, DictIs DEF Entries
  <2> QED BY <1>1, <1>2, <1>6, <2>1
<1>14. Registered' \subseteq Registered \cup {x}
  <2>1. \A i : i \in Registered' <=> \E n : Points(registry', i, n)
    <3>1. \A e1 \in ToSet(registry') : Points(registry', e1.key, e1.at)
      BY <1>11, DictIs
    <3>2. \A i, n : Points(registry', i, n) => [key |-> i, at |-> n].key = i
      OBVIOUS
    <3> QED BY <3>1, <3>2 DEF Registered, Points
  <2> QED BY <2>1, <1>10
<1>15. ASSUME NEW i, NEW n, Points(registry, i, n), i # x, i \notin lost' PROVE Points(kept, i, n) /\ (full => n > 1)
  <2>1. Points(reg, i, n) /\ n \in Nat \ {0}
    BY <1>2, <1>4, <1>15, DictIs
  <2>2. [key |-> i, at |-> n] \in ToSet(reg) /\ [key |-> i, at |-> n].key = i /\ [key |-> i, at |-> n].at = n
    BY <2>1 DEF Points
  <2>3. [key |-> i, at |-> n] \in ToSet(kept)
    BY <1>1, <1>15, <2>2
  <2>4. full => n # 1
    BY <1>1, <1>15, <2>2, <2>3
  <2> QED BY <2>1, <2>3, <2>4 DEF Points
<1>16. ASSUME NEW i \in Ids \ (lost' \cup {x}) PROVE Carried(i)
  <2> SUFFICES ASSUME NEW n \in DOMAIN console, Points(registry, i, n)
               PROVE  \E m \in DOMAIN console' : Points(registry', i, m) /\ console'[m] = console[n]
    BY DEF Carried
  <2>1. Points(kept, i, n) /\ (full => n > 1) /\ n \in 1 .. L
    BY <1>2, <1>15, <1>16
  <2>2. CASE full
    <3>1. Points(registry', i, n - 1)
      BY <1>1, <1>8, <2>1, <2>2
    <3>2. n \in 2 .. Cap /\ n - 1 \in 1 .. Cap
      BY <1>2, <2>1, <2>2
    <3>3. DOMAIN console' = 1 .. Cap /\ console'[n - 1] = console[n]
      BY <1>12, <2>2, <3>2
    <3> QED BY <3>1, <3>2, <3>3
  <2>3. CASE ~full
    <3>1. Points(registry', i, n)
      BY <1>1, <2>1, <2>3
    <3>2. DOMAIN console' = 1 .. L + 1 /\ console'[n] = console[n]
      BY <1>12, <2>1, <2>3
    <3>3. n \in 1 .. L + 1
      <4>1. L \in Nat
        BY <1>2
      <4> QED BY <4>1, <2>1
    <3> QED BY <3>1, <3>2, <3>3
  <2> QED BY <2>2, <2>3
<1>17. ASSUME x \notin Registered
       PROVE  \E m \in DOMAIN console' : Points(registry', x, m) /\ console'[m] = row
  <2>1. Points(kept, x, L + 1)
    BY <1>7, <1>17
  <2>2. CASE full
    <3>1. L + 1 > 1 /\ (L + 1) - 1 = Cap /\ Cap \in 1 .. Cap
      BY <1>2, <2>2
    <3>2. Points(registry', x, Cap)
      BY <1>1, <1>8, <2>1, <2>2, <3>1
    <3>3. DOMAIN console' = 1 .. Cap /\ console'[Cap] = row
      BY <1>12, <2>2
    <3> QED BY <3>1, <3>2, <3>3
  <2>3. CASE ~full
    <3>1. DOMAIN console' = 1 .. L + 1 /\ console'[L + 1] = row /\ L + 1 \in 1 .. L + 1
      <4>1. L \in Nat
        BY <1>2
      <4>2. L + 1 \in 1 .. L + 1
        BY <4>1
      <4>3. console' \in Seq(Rows) /\ Len(console') = L + 1 /\ console'[L + 1] = row
        BY <1>12, <2>3
      <4>4. DOMAIN console' = 1 .. L + 1
        BY <4>3
      <4> QED BY <4>2, <4>3, <4>4
    <3> QED BY <1>1, <2>1, <2>3, <3>1
  <2> QED BY <2>2, <2>3
<1>18. Shelves'
  BY <1>10, <1>11, <1>12, <1>13 DEF Shelves
<1> QED BY <1>13, <1>14, <1>16, <1>17, <1>18 DEF row

\* Another report of a known id touches that id's row and no other end.
LEMMA AmendIs ==
  ASSUME Shelves, NEW a \in Attempts, id[a] \in Ids, NEW e \in Said, Amend(a, e)
  PROVE  /\ Shelves' /\ lost \subseteq lost' /\ registry' = registry
         /\ \A i \in Ids \ (lost' \cup {id[a]}) : Carried(i)
         /\ \E n \in DOMAIN console :
              /\ Points(registry, id[a], n) /\ DOMAIN console' = DOMAIN console
              /\ IF Corrects(console[n], e) THEN Tell(a, e) ELSE heard' = heard
              /\ console'[n] = IF Corrects(console[n], e) \/ Upgrades(console[n], e)
                               THEN Row(id[a], e) ELSE console[n]
<1> DEFINE x == id[a]
           n == At(x)
           row == console[n]
           new == Row(x, e)
           edit == Corrects(row, e) \/ Upgrades(row, e)
<1>1. /\ x \in Registered /\ n <= Len(console) /\ registry' = registry
      /\ IF Corrects(row, e) THEN Tell(a, e) ELSE heard' = heard
      /\ IF edit THEN /\ console' = [console EXCEPT ![n] = new]
                      /\ lost' = lost \cup ({row.who} \ {x, NoId})
                 ELSE console' = console /\ lost' = lost
  BY DEF Amend, Known
<1>2. /\ console \in Seq(Rows) /\ Len(console) \in Nat /\ Len(console) <= Cap
      /\ DOMAIN console = 1 .. Len(console) /\ lost \subseteq Ids
  BY DEF Shelves
<1>3. Points(registry, x, n) /\ n \in Nat \ {0}
  BY <1>1, AtIs, DictIs DEF Shelves
<1>4. n \in DOMAIN console
  BY <1>1, <1>2, <1>3
<1>5. new \in Rows
  BY DEF new, Row, Rows, Said
<1>6. row \in Rows
  BY <1>2, <1>4
<1> HIDE DEF new, n, edit, row
<1>7. /\ console' \in Seq(Rows) /\ Len(console') = Len(console) /\ DOMAIN console' = DOMAIN console
      /\ console'[n] = IF edit THEN new ELSE row
      /\ \A m \in DOMAIN console : m # n \/ ~edit => console'[m] = console[m]
  <2>1. CASE edit
    <3>1. console' = [console EXCEPT ![n] = new]
      BY <1>1, <2>1
    <3>2. /\ console' \in Seq(Rows) /\ Len(console') = Len(console)
          /\ \A m \in 1 .. Len(console) : console'[m] = IF m = n THEN new ELSE console[m]
      BY <1>2, <1>4, <1>5, <3>1, ExceptSeq
    <3> QED BY <1>2, <1>4, <2>1, <3>2
  <2>2. CASE ~edit
    BY <1>1, <1>2, <1>4, <2>2 DEF row
  <2> QED BY <2>1, <2>2
<1>8. lost' \subseteq Ids /\ lost \subseteq lost'
  BY <1>1, <1>2, <1>6 DEF Rows
<1>9. ASSUME NEW i \in Ids \ (lost' \cup {x}) PROVE Carried(i)
  <2> SUFFICES ASSUME NEW m \in DOMAIN console, Points(registry, i, m), console[m].who = i
               PROVE  console'[m] = console[m]
    BY <1>1, <1>7 DEF Carried
  <2>1. i # NoId
    BY Bounds
  <2>2. m # n \/ ~edit
    BY <1>1, <1>9, <2>1 DEF row
  <2> QED BY <1>7, <2>2
<1>10. Shelves'
  BY <1>1, <1>2, <1>7, <1>8 DEF Shelves
<1> QED BY <1>1, <1>3, <1>4, <1>7, <1>8, <1>9, <1>10 DEF edit, row, new

\* A sequence of one and another element.
LEMMA OneMore ==
  ASSUME NEW S, NEW s \in Seq(S), NEW y \in S, Len(s) = 1
  PROVE  /\ Append(s, y) \in Seq(S) /\ Len(Append(s, y)) = 2
         /\ Append(s, y)[1] = s[1] /\ Append(s, y)[2] = y
<1>1. /\ Append(s, y) \in Seq(S) /\ Len(Append(s, y)) = Len(s) + 1
      /\ \A i \in 1 .. Len(s) : Append(s, y)[i] = s[i]
      /\ Append(s, y)[Len(s) + 1] = y
  BY AppendProperties
<1>2. 1 \in 1 .. Len(s) /\ Len(s) + 1 = 2
  OBVIOUS
<1> QED BY <1>1, <1>2

LEMMA AppendOne ==
  ASSUME NEW x, NEW y
  PROVE  Append(<<x>>, y) = <<x, y>>
<1>1. <<x>> \in Seq({x, y}) /\ <<x, y>> \in Seq({x, y})
  OBVIOUS
<1>2. PICK S : S = {x, y}
  OBVIOUS
<1>3. PICK s \in Seq(S), t \in Seq(S) : s = <<x>> /\ t = <<x, y>>
  BY <1>1, <1>2
<1>4. Len(s) = 1 /\ s[1] = x /\ Len(t) = 2 /\ t[1] = x /\ t[2] = y
  BY <1>3
<1>5. /\ Append(s, y) \in Seq(S) /\ Len(Append(s, y)) = 2
      /\ Append(s, y)[1] = x /\ Append(s, y)[2] = y
  BY <1>2, <1>4, OneMore
<1>6. \A i \in 1 .. Len(t) : t[i] = Append(s, y)[i]
  BY <1>4, <1>5
<1>7. t = Append(s, y)
  BY <1>4, <1>5, <1>6, SeqEqual
<1> QED BY <1>3, <1>7

(* ---- the reports of one call ---------------------------------------------- *)

\* The reports p and one more, e: it overturns what the others have not, or not.
Joins(p, e, q) ==
  /\ q \in Seq(Said) /\ q # <<>> /\ q[1] = p[1]
  /\ Len(q) = Len(p) + 1 /\ q[Len(p) + 1] = e
  /\ \A k \in 1 .. Len(p) : q[k] = p[k]
  /\ Overturning(p) \subseteq 2 .. Len(p)
  /\ \A j \in 1 .. Len(p) : j \in Overturning(q) <=> j \in Overturning(p)
  /\ Overturning(q) \subseteq Overturning(p) \cup {Len(p) + 1}
  /\ Len(p) + 1 \in Overturning(q) <=>
       /\ p[1].status = "ok" /\ e.status # "ok"
       /\ e.status = "gone" =>
            /\ e.words = 0
            /\ \A k \in DOMAIN p : p[k].status = "ok" => p[k].words = 0

LEMMA OverturningGrows ==
  ASSUME NEW p \in Seq(Said), p # <<>>, NEW e \in Said
  PROVE  Joins(p, e, Append(p, e))
<1> DEFINE q == Append(p, e)
           L == Len(p)
<1>1. L \in Nat /\ L >= 1 /\ DOMAIN p = 1 .. L
  <2>1. L \in Nat /\ DOMAIN p = 1 .. L
    OBVIOUS
  <2>2. L # 0
    OBVIOUS
  <2> QED BY <2>1, <2>2
<1>2. /\ q \in Seq(Said) /\ Len(q) = L + 1 /\ q[L + 1] = e
      /\ \A k \in 1 .. L : q[k] = p[k]
  BY <1>1
<1>3. q # <<>> /\ q[1] = p[1]
  BY <1>1, <1>2
<1> HIDE DEF L, q
<1>4. Overturning(p) \subseteq 2 .. L /\ Overturning(q) \subseteq 2 .. (L + 1)
  BY <1>2 DEF Overturning, L
<1>5. ASSUME NEW j \in 2 .. L PROVE j \in Overturning(q) <=> j \in Overturning(p)
  <2>1. j \in 1 .. L /\ j \in 2 .. (L + 1)
    BY <1>1
  <2>2. q[j] = p[j]
    BY <1>2, <2>1
  <2>3. \A k \in 1 .. (j - 1) : q[k] = p[k]
    <3>1. \A k \in 1 .. (j - 1) : k \in 1 .. L
      BY <1>1, <2>1
    <3> QED BY <1>2, <3>1
  <2> QED BY <1>2, <1>3, <2>1, <2>2, <2>3 DEF Overturning, L
<1>6. \A j \in 1 .. L : j \in Overturning(q) <=> j \in Overturning(p)
  <2> SUFFICES ASSUME NEW j \in 1 .. L PROVE j \in Overturning(q) <=> j \in Overturning(p)
    OBVIOUS
  <2>1. CASE j \in 2 .. L
    BY <1>5, <2>1
  <2>2. CASE j = 1
    BY <1>4, <2>2
  <2> QED BY <2>1, <2>2, <1>1
<1>7. Overturning(q) \subseteq Overturning(p) \cup {L + 1}
  <2> SUFFICES ASSUME NEW j \in Overturning(q), j # L + 1 PROVE j \in Overturning(p)
    OBVIOUS
  <2>1. j \in 2 .. L
    BY <1>1, <1>4
  <2> QED BY <1>5, <2>1
<1>8. L + 1 \in Overturning(q) <=>
        /\ p[1].status = "ok" /\ e.status # "ok"
        /\ e.status = "gone" =>
             /\ e.words = 0
             /\ \A k \in 1 .. L : p[k].status = "ok" => p[k].words = 0
  <2>1. L + 1 \in 2 .. Len(q) /\ (L + 1) - 1 = L
    BY <1>1, <1>2
  <2>2. \A k \in 1 .. L : q[k] = p[k]
    BY <1>2
  <2> QED BY <1>2, <1>3, <2>1, <2>2 DEF Overturning
<1> QED BY <1>1, <1>2, <1>3, <1>4, <1>6, <1>7, <1>8 DEF L, q, Joins

\* A first report is a row and a verdict that tell it.
LEMMA FirstTells ==
  ASSUME NEW i, NEW e \in Said, NEW q, q = Append(<<>>, e)
  PROVE  RowTells(i, q, Row(i, e)) /\ Judged(q, Append(<<>>, e.status)) /\ q[1] = e
<1>1. q = <<e>> /\ Append(<<>>, e.status) = <<e.status>>
  OBVIOUS
<1>2. q[1] = e /\ DOMAIN q = {1} /\ Len(q) = 1
  BY <1>1
<1>3. Overturning(q) = {}
  BY <1>2 DEF Overturning
<1>4. e.words \in Nat
  BY DEF Said
<1> QED BY <1>1, <1>2, <1>3, <1>4 DEF RowTells, Row, Judged

\* Whatever log_request does with another report, row and verdict tell it too.
LEMMA AmendTells ==
  ASSUME NEW i, NEW p \in Seq(Said), p # <<>>, NEW e \in Said, NEW q, q = Append(p, e),
         NEW row \in Rows, RowTells(i, p, row)
  PROVE  /\ RowTells(i, q, IF Corrects(row, e) \/ Upgrades(row, e) THEN Row(i, e) ELSE row)
         /\ \A h \in Seq(Statuses) : Judged(p, h) =>
              Judged(q, IF Corrects(row, e) THEN Append(h, e.status) ELSE h)
<1> DEFINE L == Len(p)
           new == IF Corrects(row, e) \/ Upgrades(row, e) THEN Row(i, e) ELSE row
<1>1. /\ q \in Seq(Said) /\ q # <<>> /\ q[1] = p[1]
      /\ Len(q) = L + 1 /\ q[L + 1] = e
      /\ \A k \in 1 .. L : q[k] = p[k]
      /\ Overturning(p) \subseteq 2 .. L
      /\ \A j \in 1 .. L : j \in Overturning(q) <=> j \in Overturning(p)
      /\ Overturning(q) \subseteq Overturning(p) \cup {L + 1}
      /\ L + 1 \in Overturning(q) <=>
           /\ p[1].status = "ok" /\ e.status # "ok"
           /\ e.status = "gone" =>
                /\ e.words = 0
                /\ \A k \in DOMAIN p : p[k].status = "ok" => p[k].words = 0
  <2>1. Joins(p, e, q)
    BY OverturningGrows
  <2> QED BY <2>1 DEF Joins
<1>2. /\ row.who = i
      /\ row.status = "ok" <=> p[1].status = "ok" /\ Overturning(p) = {}
      /\ row.status = "ok" =>
           (row.words = 0 <=> \A k \in DOMAIN p : p[k].status = "ok" => p[k].words = 0)
  BY DEF RowTells
<1>3. e.words \in Nat /\ row.words \in Nat
  BY DEF Said, Rows
<1>4. L \in Nat /\ DOMAIN p = 1 .. L /\ DOMAIN q = 1 .. L + 1
  BY <1>1
<1>5. \A j \in Overturning(p) : j \in 1 .. L /\ j \in Nat /\ j <= L + 1
  BY <1>1, <1>4
<1>6. Row(i, e).who = i /\ Row(i, e).status = e.status /\ Row(i, e).words = e.words
  BY DEF Row
<1> HIDE DEF L
<1>7. CASE row.status # "ok"
  <2>1. ~Corrects(row, e) /\ ~Upgrades(row, e)
    BY <1>7 DEF Corrects, Upgrades
  <2>2. Overturning(q) # {} \/ q[1].status # "ok"
    <3>1. CASE p[1].status # "ok"
      BY <3>1, <1>1
    <3>2. CASE Overturning(p) # {}
      BY <3>2, <1>1, <1>5
    <3> QED BY <3>1, <3>2, <1>2, <1>7
  <2>3. RowTells(i, q, row)
    BY <1>2, <1>7, <2>2 DEF RowTells
  <2>4. ASSUME NEW h \in Seq(Statuses), Judged(p, h) PROVE Judged(q, h)
    <3>1. CASE Overturning(p) = {} /\ h = <<p[1].status>>
      <4>1. p[1].status # "ok"
        BY <1>2, <1>7, <3>1
      <4>2. Overturning(q) = {}
        BY <1>1, <3>1, <4>1
      <4> QED BY <1>1, <3>1, <4>2 DEF Judged
    <3>2. ASSUME NEW j \in Overturning(p), \A k \in Overturning(p) : j <= k,
                 h = <<p[1].status, p[j].status>>
          PROVE  Judged(q, h)
      <4>1. j \in Overturning(q) /\ q[j] = p[j]
        BY <1>1, <1>5
      <4>2. \A k \in Overturning(q) : j <= k
        BY <1>1, <1>5, <3>2
      <4> QED BY <1>1, <3>2, <4>1, <4>2 DEF Judged
    <3> QED BY <2>4, <3>1, <3>2 DEF Judged
  <2> QED BY <2>1, <2>3, <2>4
<1>8. CASE row.status = "ok" /\ Corrects(row, e)
  <2>1. e.status # "ok" /\ p[1].status = "ok" /\ Overturning(p) = {}
    BY <1>2, <1>8 DEF Corrects
  <2>2. e.status = "gone" => row.words = 0 /\ e.words = 0
    BY <1>3, <1>8 DEF Corrects, LateDisconnect
  <2>3. L + 1 \in Overturning(q)
    BY <1>1, <1>2, <1>8, <2>1, <2>2
  <2>4. Overturning(q) = {L + 1}
    BY <1>1, <2>1, <2>3
  <2>5. RowTells(i, q, new)
    <3>1. new = Row(i, e)
      BY <1>8
    <3> HIDE DEF new
    <3> QED BY <3>1, <2>1, <2>4, <1>6 DEF RowTells
  <2>6. ASSUME NEW h \in Seq(Statuses), Judged(p, h) PROVE Judged(q, Append(h, e.status))
    <3>1. h = <<p[1].status>>
      BY <2>1, <2>6 DEF Judged
    <3>2. Append(h, e.status) = <<p[1].status, e.status>>
      BY <3>1, AppendOne
    <3>3. Append(h, e.status) = <<q[1].status, q[L + 1].status>>
      BY <1>1, <3>2
    <3>4. \A k \in Overturning(q) : L + 1 <= k
      BY <1>4, <2>4
    <3> QED BY <2>3, <3>3, <3>4 DEF Judged
  <2> QED BY <1>8, <2>5, <2>6
<1>9. CASE row.status = "ok" /\ ~Corrects(row, e)
  <2>1. p[1].status = "ok" /\ Overturning(p) = {}
    BY <1>2, <1>9
  <2>2. e.status # "ok" => e.status = "gone" /\ (row.words > 0 \/ e.words > 0)
    BY <1>9 DEF Corrects, LateDisconnect
  <2>3. L + 1 \notin Overturning(q)
    <3> SUFFICES ASSUME L + 1 \in Overturning(q) PROVE FALSE
      OBVIOUS
    <3>1. e.status # "ok" /\ (e.status = "gone" => e.words = 0 /\ row.words = 0)
      BY <1>1, <1>2, <1>9
    <3> QED BY <2>2, <3>1, <1>3
  <2>4. Overturning(q) = {}
    BY <1>1, <2>1, <2>3
  <2>5. (\A k \in DOMAIN q : q[k].status = "ok" => q[k].words = 0) <=>
          (row.words = 0 /\ (e.status = "ok" => e.words = 0))
    <3>1. (\A k \in DOMAIN q : q[k].status = "ok" => q[k].words = 0) <=>
            /\ \A k \in DOMAIN p : p[k].status = "ok" => p[k].words = 0
            /\ e.status = "ok" => e.words = 0
      <4>1. \A k \in DOMAIN q : k \in 1 .. L \/ k = L + 1
        BY <1>4
      <4>2. L + 1 \in DOMAIN q /\ \A k \in DOMAIN p : k \in DOMAIN q /\ q[k] = p[k]
        BY <1>1, <1>4
      <4> QED BY <1>1, <1>4, <4>1, <4>2
    <3> QED BY <3>1, <1>2, <1>9
  <2>6. RowTells(i, q, new)
    <3>1. CASE Upgrades(row, e)
      <4>1. new = Row(i, e) /\ e.status = "ok" /\ e.words > row.words
        BY <3>1 DEF Upgrades
      <4>2. e.words # 0
        BY <4>1, <1>3
      <4> HIDE DEF new
      <4> QED BY <4>1, <4>2, <1>1, <1>6, <2>1, <2>4, <2>5 DEF RowTells
    <3>2. CASE ~Upgrades(row, e)
      <4>1. new = row
        BY <1>9, <3>2
      <4>2. e.status = "ok" => ~(e.words > row.words)
        BY <1>9, <3>2 DEF Upgrades
      <4>3. e.status = "ok" /\ row.words = 0 => e.words = 0
        BY <4>2, <1>3
      <4> HIDE DEF new
      <4> QED BY <4>1, <4>3, <1>1, <1>2, <1>9, <2>1, <2>4, <2>5 DEF RowTells
    <3> QED BY <3>1, <3>2
  <2>7. ASSUME NEW h \in Seq(Statuses), Judged(p, h) PROVE Judged(q, h)
    <3>1. h = <<p[1].status>>
      BY <2>1, <2>7 DEF Judged
    <3> QED BY <1>1, <2>4, <3>1 DEF Judged
  <2> QED BY <1>9, <2>6, <2>7
<1> QED BY <1>7, <1>8, <1>9

(* ---- the steps ------------------------------------------------------------ *)

\* A call about which a step says nothing new.
Same(a) ==
  /\ id'[a] = id[a] /\ said'[a] = said[a] /\ heard'[a] = heard[a] /\ booked'[a] = booked[a]
  /\ id[a] \in inflight' => id[a] \in inflight

\* A step gives ids only to calls without one, and forgets no loss.
IdsStay == lost \subseteq lost' /\ \A b \in Attempts : id'[b] = id[b] \/ id[b] = NoId

LEMMA TrackedIs ==
  ASSUME LInv, IdsStay, NEW a \in Tracked', said'[a] = said[a] \/ said[a] # <<>>
  PROVE  /\ a \in Attempts /\ id'[a] = id[a] /\ id[a] \in Ids \ lost'
         /\ said[a] # <<>> /\ a \in Tracked /\ Ended(a)
         /\ \A b \in Attempts \ {a} : id'[b] # id[a]
<1>1. a \in Attempts /\ said'[a] # <<>> /\ id'[a] \notin lost' /\ \A b \in Attempts \ {a} : id'[b] # id'[a]
  BY DEF Tracked
<1>2. said[a] # <<>>
  BY <1>1
<1>3. id[a] # NoId
  BY <1>1, <1>2 DEF LInv, Unspoken
<1>4. id'[a] = id[a] /\ id[a] \in Ids
  BY <1>1, <1>3 DEF LInv, LedgerTypeOK, IdsStay
<1>5. \A b \in Attempts \ {a} : id[b] # id[a]
  BY <1>1, <1>3, <1>4 DEF IdsStay
<1>6. a \in Tracked
  BY <1>1, <1>2, <1>4, <1>5 DEF Tracked, IdsStay
<1>7. Ended(a)
  BY <1>6 DEF LInv
<1> QED BY <1>1, <1>2, <1>4, <1>6, <1>7

LEMMA Stays ==
  ASSUME LInv, IdsStay, NEW a \in Tracked', Same(a), Carried(id[a])
  PROVE  Ended(a)'
<1>1. Ended(a)
  BY TrackedIs DEF Same
<1>2. PICK n \in DOMAIN console : Points(registry, id[a], n) /\ RowTells(id[a], said[a], console[n])
  BY <1>1 DEF Ended, Home
<1>3. PICK m \in DOMAIN console' : Points(registry', id[a], m) /\ console'[m] = console[n]
  BY <1>2 DEF Carried, RowTells
<1>4. id'[a] = id[a] /\ said'[a] = said[a] /\ heard'[a] = heard[a] /\ booked'[a] = booked[a]
      /\ (id[a] \in inflight' => id[a] \in inflight)
  BY DEF Same
<1>5. RowTells(id'[a], said'[a], console'[m]) /\ Points(registry', id'[a], m)
  BY <1>2, <1>3, <1>4
<1>6. Home(a)'
  BY <1>5 DEF Home
<1>7. Counted(a)'
  BY <1>1, <1>4 DEF Ended, Counted
<1>8. a \notin NonUsage => Judged(said'[a], heard'[a])
  BY <1>1, <1>4 DEF Ended
<1> QED BY <1>6, <1>7, <1>8 DEF Ended

\* Signed and Unspoken survive what leaves calls, verdicts and registered ids.
LEMMA SignedStays ==
  ASSUME LInv, IdsStay, Registered' \subseteq Registered, said' = said
  PROVE  Signed'
<1> SUFFICES ASSUME NEW i \in Registered PROVE \E a \in Attempts : id'[a] = i /\ said'[a] # <<>>
  BY DEF Signed
<1>1. PICK a \in Attempts : id[a] = i /\ said[a] # <<>>
  BY DEF LInv, Signed
<1>2. id'[a] = id[a]
  BY <1>1 DEF IdsStay, LInv, Unspoken
<1> QED BY <1>1, <1>2

LEMMA NoSaidNoId == LInv => \A b \in Attempts : id[b] = NoId => said[b] = <<>>
  BY DEF LInv, Unspoken

LEMMA StartStep == ASSUME LInv, NEW b \in Attempts, Start(b) PROVE LInv'
<1>1. /\ id[b] = NoId /\ id' = [id EXCEPT ![b] = b] /\ inflight' = inflight \cup {b}
      /\ AppendNote
      /\ registry' = registry /\ booked' = booked /\ said' = said /\ heard' = heard
  BY DEF Start
<1>2. /\ Shelves /\ inflight \subseteq Attempts /\ id \in [Attempts -> Ids \cup {NoId}]
      /\ booked \in [Attempts -> Nat] /\ said \in [Attempts -> Seq(Said)] /\ heard \in [Attempts -> Seq(Statuses)]
  BY ShelvesIs DEF LInv
<1>3. Shelves' /\ lost \subseteq lost' /\ \A i \in Ids \ lost' : Carried(i)
  BY <1>1, <1>2, NoteIs
<1>4. id' \in [Attempts -> Ids \cup {NoId}] /\ id'[b] = b /\ \A a \in Attempts \ {b} : id'[a] = id[a]
  BY <1>1, <1>2 DEF Ids
<1>5. LedgerTypeOK'
  BY <1>1, <1>2, <1>3, <1>4, TypeNext
<1>6. IdsStay
  BY <1>1, <1>3, <1>4 DEF IdsStay
<1>7. Registered' = Registered
  BY <1>1 DEF Registered
<1>8. Signed'
  BY <1>1, <1>6, <1>7, SignedStays
<1>9. Unspoken'
  BY <1>1, <1>4, <1>6 DEF LInv, Unspoken, IdsStay
<1>10. ASSUME NEW a \in Tracked' PROVE Ended(a)'
  <2>1. /\ a \in Attempts /\ id'[a] = id[a] /\ id[a] \in Ids \ lost' /\ said[a] # <<>>
        /\ \A c \in Attempts \ {a} : id'[c] # id[a]
    BY <1>1, <1>6, TrackedIs
  <2>2. a # b
    BY <1>1, <2>1, NoSaidNoId
  <2>3. id[a] # b
    BY <1>4, <2>1, <2>2
  <2>4. Same(a)
    BY <1>1, <2>1, <2>3 DEF Same
  <2> QED BY <1>3, <1>6, <2>1, <2>4, Stays
<1> QED BY <1>5, <1>8, <1>9, <1>10 DEF LInv

LEMMA RetryStep == ASSUME LInv, NEW b \in Attempts, Retry(b) PROVE LInv'
<1>1. PICK s \in Stamps :
        /\ id[b] = NoId /\ id' = [id EXCEPT ![b] = s]
        /\ console' = console /\ registry' = registry /\ inflight' = inflight
        /\ booked' = booked /\ said' = said /\ heard' = heard /\ lost' = lost
  BY DEF Retry
<1>2. /\ Shelves /\ inflight \subseteq Attempts /\ id \in [Attempts -> Ids \cup {NoId}]
      /\ booked \in [Attempts -> Nat] /\ said \in [Attempts -> Seq(Said)] /\ heard \in [Attempts -> Seq(Statuses)]
  BY ShelvesIs DEF LInv
<1>3. Shelves' /\ \A i : Carried(i)
  BY <1>1, <1>2 DEF Shelves, Carried
<1>4. id' \in [Attempts -> Ids \cup {NoId}] /\ id'[b] = s /\ \A a \in Attempts \ {b} : id'[a] = id[a]
  BY <1>1, <1>2 DEF Ids
<1>5. LedgerTypeOK'
  BY <1>1, <1>2, <1>3, <1>4, TypeNext
<1>6. IdsStay
  BY <1>1, <1>4 DEF IdsStay
<1>7. Registered' = Registered
  BY <1>1 DEF Registered
<1>8. Signed'
  BY <1>1, <1>6, <1>7, SignedStays
<1>9. Unspoken'
  BY <1>1, <1>4, <1>6 DEF LInv, Unspoken, IdsStay
<1>10. ASSUME NEW a \in Tracked' PROVE Ended(a)'
  <2>1. id'[a] = id[a]
    BY <1>1, <1>6, TrackedIs
  <2>2. Same(a)
    BY <1>1, <2>1 DEF Same
  <2> QED BY <1>3, <1>6, <2>2, Stays
<1> QED BY <1>5, <1>8, <1>9, <1>10 DEF LInv

\* The steps of everybody else: rows come and go, calls stay as they are.
LEMMA OthersStep ==
  ASSUME LInv, OtherRow \/ Clear \/ Analyze \/ Prune \/ UNCHANGED ledger
  PROVE  LInv'
<1>1. /\ registry' = registry /\ id' = id /\ booked' = booked /\ said' = said /\ heard' = heard
      /\ inflight' \subseteq inflight
  BY DEF OtherRow, Clear, Analyze, Prune, ledger
<1>2. /\ Shelves /\ inflight \subseteq Attempts /\ id \in [Attempts -> Ids \cup {NoId}]
      /\ booked \in [Attempts -> Nat] /\ said \in [Attempts -> Seq(Said)] /\ heard \in [Attempts -> Seq(Statuses)]
  BY ShelvesIs DEF LInv
<1>3. Shelves' /\ lost \subseteq lost' /\ \A i \in Ids \ lost' : Carried(i)
  <2>1. CASE OtherRow
    BY <1>1, <1>2, <2>1, NoteIs DEF OtherRow
  <2>2. ASSUME console' \in Seq(Rows), Len(console') <= Cap, lost' = lost \cup Registered
        PROVE  Shelves' /\ lost \subseteq lost' /\ \A i \in Ids \ lost' : Carried(i)
    <3>1. lost' \subseteq Ids
      BY <1>2, <2>2, RegisteredIn DEF Shelves
    <3>2. ASSUME NEW i, i \notin lost' PROVE Carried(i)
      <4>1. i \notin Registered
        BY <2>2, <3>2
      <4> QED BY <1>2, <4>1, AtIs DEF Carried, Shelves
    <3> QED BY <1>1, <1>2, <2>2, <3>1, <3>2 DEF Shelves
  <2>3. CASE Clear
    <3>1. console' \in Seq(Rows) /\ Len(console') <= Cap
      BY <2>3, Bounds DEF Clear
    <3> QED BY <2>2, <2>3, <3>1 DEF Clear
  <2>4. CASE Analyze
    <3> DEFINE P == {k \in DOMAIN console : ~IsError(console[k])}
    <3>1. console \in Seq(Rows) /\ Len(console) \in Nat /\ Len(console) <= Cap /\ P \in SUBSET DOMAIN console
      BY <1>2 DEF Shelves
    <3>2. console' = Keep(console, P)
      BY <2>4 DEF Analyze
    <3> HIDE DEF P
    <3>3. Keep(console, P) \in Seq(Rows) /\ Len(Keep(console, P)) <= Len(console)
      BY <3>1, Keeps
    <3>4. console' \in Seq(Rows) /\ Len(console') \in Nat /\ Len(console') <= Len(console)
      BY <3>2, <3>3
    <3>5. Cap \in Nat
      BY Bounds
    <3>6. Len(console') <= Cap
      BY <3>1, <3>4, <3>5
    <3> QED BY <2>2, <2>4, <3>4, <3>6 DEF Analyze
  <2>5. CASE Prune \/ UNCHANGED ledger
    <3>1. console' = console /\ lost' = lost
      BY <2>5 DEF Prune, ledger
    <3> QED BY <1>1, <1>2, <3>1 DEF Shelves, Carried
  <2> QED BY <2>1, <2>3, <2>4, <2>5
<1>4. LedgerTypeOK'
  BY <1>1, <1>2, <1>3, TypeNext
<1>5. IdsStay
  BY <1>1, <1>3 DEF IdsStay
<1>6. Signed'
  <2>1. Registered' = Registered
    BY <1>1 DEF Registered
  <2> QED BY <1>1, <1>5, <2>1, SignedStays
<1>7. Unspoken'
  BY <1>1 DEF LInv, Unspoken
<1>8. ASSUME NEW a \in Tracked' PROVE Ended(a)'
  <2>1. id[a] \in Ids \ lost'
    BY <1>1, <1>5, TrackedIs
  <2>2. Same(a)
    BY <1>1 DEF Same
  <2> QED BY <1>3, <1>5, <2>1, <2>2, Stays
<1> QED BY <1>4, <1>6, <1>7, <1>8 DEF LInv

\* What a report leaves alone whoever made it.
LEMMA LogFrame ==
  ASSUME LInv, NEW b \in Attempts, NEW e \in Said, id' = id, First(b, e) \/ Amend(b, e)
  PROVE  /\ heard' \in [Attempts -> Seq(Statuses)]
         /\ booked' \in [Attempts -> Nat]
         /\ inflight' \subseteq inflight
         /\ \A a \in Attempts \ {b} : heard'[a] = heard[a] /\ booked'[a] = booked[a]
<1>1. heard \in [Attempts -> Seq(Statuses)] /\ booked \in [Attempts -> Nat] /\ e.status \in Statuses
  BY ShelvesIs DEF LInv, Said
<1>2. Tell(b, e) \/ heard' = heard
  BY DEF First, Amend
<1>3. Book(b, e) \/ (booked' = booked /\ inflight' = inflight)
  BY DEF First, Amend
<1>4. heard' \in [Attempts -> Seq(Statuses)] /\ \A a \in Attempts \ {b} : heard'[a] = heard[a]
  <2>1. Append(heard[b], e.status) \in Seq(Statuses)
    BY <1>1, AppendProperties
  <2>2. CASE heard' = [heard EXCEPT ![b] = Append(@, e.status)]
    BY <1>1, <2>1, <2>2
  <2>3. CASE heard' = heard
    BY <1>1, <2>3
  <2> QED BY <1>2, <2>2, <2>3 DEF Tell
<1>5. booked' \in [Attempts -> Nat] /\ inflight' \subseteq inflight
      /\ \A a \in Attempts \ {b} : booked'[a] = booked[a]
  <2>1. booked[b] + 1 \in Nat
    BY <1>1
  <2>2. CASE booked' = [booked EXCEPT ![b] = @ + 1] /\ inflight' = inflight \ {id[b]}
    BY <1>1, <2>1, <2>2
  <2>3. CASE booked' = booked /\ inflight' \subseteq inflight
    BY <1>1, <2>3
  <2> QED BY <1>3, <2>2, <2>3 DEF Book
<1> QED BY <1>4, <1>5

\* The first report of a call whose id is its own ends it.
LEMMA FirstEnds ==
  ASSUME LInv, NEW a \in Attempts, NEW e \in Said, id[a] \in Ids, id' = id,
         said' = [said EXCEPT ![a] = Append(@, e)], First(a, e), a \in Tracked'
  PROVE  Ended(a)'
<1>1. /\ Shelves /\ booked \in [Attempts -> Nat] /\ said \in [Attempts -> Seq(Said)]
      /\ heard \in [Attempts -> Seq(Statuses)]
  BY ShelvesIs DEF LInv
<1>2. lost \subseteq lost' /\ id[a] \notin lost' /\ \A b \in Attempts \ {a} : id[b] # id[a]
  BY <1>1, FirstIs DEF Tracked
<1>3. said[a] = <<>>
  <2> SUFFICES ASSUME said[a] # <<>> PROVE FALSE
    OBVIOUS
  <2>1. a \in Tracked
    BY <1>2 DEF Tracked
  <2>2. PICK n \in DOMAIN console : Points(registry, id[a], n)
    BY <2>1 DEF LInv, Ended, Home
  <2>3. id[a] \in Registered /\ At(id[a]) = n
    BY <1>1, <2>2, AtIs DEF Shelves
  <2>4. n <= Len(console)
    BY <1>1 DEF Shelves
  <2> QED BY <2>3, <2>4 DEF First, Known
<1>4. id[a] \notin Registered
  BY <1>2, <1>3 DEF LInv, Signed
<1>5. PICK m \in DOMAIN console' : Points(registry', id[a], m) /\ console'[m] = Row(id[a], e)
  BY <1>1, <1>2, <1>4, FirstIs
<1>6. said'[a] = Append(<<>>, e)
  BY <1>1, <1>3
<1>7. /\ RowTells(id[a], said'[a], Row(id[a], e))
      /\ Judged(said'[a], Append(<<>>, e.status)) /\ said'[a][1] = e
  BY <1>6, FirstTells
<1>8. Home(a)'
  BY <1>5, <1>7 DEF Home
<1>9. heard[a] = <<>> /\ booked[a] = 0
  BY <1>3 DEF LInv, Unspoken
<1>10. Counted(a)'
  <2>1. CASE e.status = "blank"
    BY <1>7, <1>9, <2>1 DEF First, Book, Counted
  <2>2. CASE e.status # "blank"
    <3>1. /\ booked' = IF a \in NonUsage THEN booked ELSE [booked EXCEPT ![a] = @ + 1]
          /\ inflight' = inflight \ {id[a]}
      BY <2>2 DEF First, Book
    <3>2. booked'[a] = IF a \in NonUsage THEN 0 ELSE 1
      BY <1>1, <1>9, <3>1
    <3> QED BY <1>7, <2>2, <3>1, <3>2 DEF Counted
  <2> QED BY <2>1, <2>2
<1>11. ASSUME a \notin NonUsage PROVE Judged(said'[a], heard'[a])
  <2>1. heard' = [heard EXCEPT ![a] = Append(@, e.status)]
    BY <1>11 DEF First, Tell
  <2>2. heard'[a] = Append(<<>>, e.status)
    BY <1>1, <1>9, <2>1
  <2> QED BY <1>7, <2>2
<1> QED BY <1>8, <1>10, <1>11 DEF Ended

\* Another report of such a call corrects its end or leaves it.
LEMMA AmendEnds ==
  ASSUME LInv, NEW a \in Attempts, NEW e \in Said, id[a] \in Ids, id' = id,
         said' = [said EXCEPT ![a] = Append(@, e)], Amend(a, e), a \in Tracked'
  PROVE  Ended(a)'
<1>1. /\ Shelves /\ said \in [Attempts -> Seq(Said)] /\ heard \in [Attempts -> Seq(Statuses)]
      /\ Dict(registry) /\ console \in Seq(Rows)
  BY ShelvesIs DEF LInv, Shelves
<1>2. lost \subseteq lost' /\ id[a] \notin lost' /\ \A b \in Attempts \ {a} : id[b] # id[a]
  BY <1>1, AmendIs DEF Tracked
<1>3. said[a] # <<>>
  <2>1. id[a] \in Registered
    BY DEF Amend, Known
  <2> QED BY <1>2, <2>1 DEF LInv, Signed
<1>4. Ended(a)
  BY <1>2, <1>3 DEF LInv, Tracked
<1>5. PICK n \in DOMAIN console : Points(registry, id[a], n) /\ RowTells(id[a], said[a], console[n])
  BY <1>4 DEF Ended, Home
<1>6. /\ registry' = registry /\ DOMAIN console' = DOMAIN console
      /\ IF Corrects(console[n], e) THEN Tell(a, e) ELSE heard' = heard
      /\ console'[n] = IF Corrects(console[n], e) \/ Upgrades(console[n], e)
                       THEN Row(id[a], e) ELSE console[n]
  <2>1. PICK m \in DOMAIN console :
          /\ Points(registry, id[a], m) /\ DOMAIN console' = DOMAIN console
          /\ IF Corrects(console[m], e) THEN Tell(a, e) ELSE heard' = heard
          /\ console'[m] = IF Corrects(console[m], e) \/ Upgrades(console[m], e)
                           THEN Row(id[a], e) ELSE console[m]
    BY <1>1, AmendIs
  <2>2. m = n
    BY <1>1, <1>5, <2>1, DictIs
  <2> QED BY <2>1, <2>2 DEF Amend
<1>7. said[a] \in Seq(Said) /\ said'[a] = Append(said[a], e) /\ said'[a][1] = said[a][1]
  <2>1. said[a] \in Seq(Said) /\ said'[a] = Append(said[a], e)
    BY <1>1
  <2>2. Joins(said[a], e, Append(said[a], e))
    BY <1>3, <2>1, OverturningGrows
  <2> QED BY <2>1, <2>2 DEF Joins
<1>8. console[n] \in Rows
  BY <1>1
<1>9. /\ RowTells(id[a], said'[a], console'[n])
      /\ \A h \in Seq(Statuses) : Judged(said[a], h) =>
           Judged(said'[a], IF Corrects(console[n], e) THEN Append(h, e.status) ELSE h)
  <2>1. /\ RowTells(id[a], said'[a],
                    IF Corrects(console[n], e) \/ Upgrades(console[n], e)
                    THEN Row(id[a], e) ELSE console[n])
        /\ \A h \in Seq(Statuses) : Judged(said[a], h) =>
             Judged(said'[a], IF Corrects(console[n], e) THEN Append(h, e.status) ELSE h)
    BY <1>3, <1>5, <1>7, <1>8, AmendTells
  <2> QED BY <1>6, <2>1
<1>10. Home(a)'
  BY <1>5, <1>6, <1>9 DEF Home
<1>11. Counted(a)'
  BY <1>4, <1>7 DEF Amend, Counted, Ended
<1>12. ASSUME a \notin NonUsage PROVE Judged(said'[a], heard'[a])
  <2>1. heard[a] \in Seq(Statuses) /\ Judged(said[a], heard[a])
    BY <1>1, <1>4, <1>12 DEF Ended
  <2>2. heard'[a] = IF Corrects(console[n], e) THEN Append(heard[a], e.status) ELSE heard[a]
    BY <1>1, <1>6, <1>12 DEF Tell
  <2> QED BY <1>9, <2>1, <2>2
<1> QED BY <1>10, <1>11, <1>12 DEF Ended

LEMMA LogStep == ASSUME LInv, NEW b \in Attempts, Log(b) PROVE LInv'
<1>1. PICK report \in Reports :
        /\ id[b] # NoId /\ id' = id
        /\ said' = [said EXCEPT ![b] = Append(@, Read(report))]
        /\ First(b, Read(report)) \/ Amend(b, Read(report))
  BY DEF Log
<1>2. PICK e \in Said : e = Read(report)
  BY Bounds, ReadIs
<1>3. /\ said' = [said EXCEPT ![b] = Append(@, e)]
      /\ First(b, e) \/ Amend(b, e)
  BY <1>1, <1>2
<1>4. /\ Shelves /\ inflight \subseteq Attempts /\ id \in [Attempts -> Ids \cup {NoId}]
      /\ booked \in [Attempts -> Nat] /\ said \in [Attempts -> Seq(Said)] /\ heard \in [Attempts -> Seq(Statuses)]
  BY ShelvesIs DEF LInv
<1>5. id[b] \in Ids
  BY <1>1, <1>4
<1>6. /\ Shelves' /\ lost \subseteq lost' /\ \A i \in Ids \ (lost' \cup {id[b]}) : Carried(i)
      /\ Registered' \subseteq Registered \cup {id[b]}
  <2>1. CASE First(b, e)
    BY <1>4, <1>5, <2>1, FirstIs
  <2>2. CASE Amend(b, e)
    <3>1. /\ Shelves' /\ lost \subseteq lost' /\ registry' = registry
          /\ \A i \in Ids \ (lost' \cup {id[b]}) : Carried(i)
      BY <1>4, <1>5, <2>2, AmendIs
    <3>2. Registered' = Registered
      BY <3>1 DEF Registered
    <3> QED BY <3>1, <3>2
  <2> QED BY <1>3, <2>1, <2>2
<1>7. /\ heard' \in [Attempts -> Seq(Statuses)] /\ booked' \in [Attempts -> Nat]
      /\ inflight' \subseteq inflight
      /\ \A a \in Attempts \ {b} : heard'[a] = heard[a] /\ booked'[a] = booked[a]
  BY <1>1, <1>3, LogFrame
<1>8. /\ said' \in [Attempts -> Seq(Said)] /\ said'[b] = Append(said[b], e) /\ said'[b] # <<>>
      /\ \A a \in Attempts \ {b} : said'[a] = said[a]
  BY <1>3, <1>4
<1>9. LedgerTypeOK'
  BY <1>1, <1>4, <1>6, <1>7, <1>8, TypeNext
<1>10. IdsStay
  BY <1>1, <1>6 DEF IdsStay
<1>11. Signed'
  <2> SUFFICES ASSUME NEW i \in Registered' PROVE \E a \in Attempts : id'[a] = i /\ said'[a] # <<>>
    BY DEF Signed
  <2>1. CASE i = id[b]
    BY <1>1, <1>8, <2>1
  <2>2. CASE i \in Registered
    <3>1. PICK a \in Attempts : id[a] = i /\ said[a] # <<>>
      BY <2>2 DEF LInv, Signed
    <3> QED BY <1>1, <1>8, <3>1
  <2> QED BY <1>6, <2>1, <2>2
<1>12. Unspoken'
  <2> SUFFICES ASSUME NEW a \in Attempts
               PROVE  /\ id'[a] = NoId => said'[a] = <<>>
                      /\ said'[a] = <<>> => heard'[a] = <<>> /\ booked'[a] = 0
    BY DEF Unspoken
  <2>1. CASE a = b
    BY <1>1, <1>8, <2>1
  <2>2. CASE a # b
    BY <1>1, <1>7, <1>8, <2>2 DEF LInv, Unspoken
  <2> QED BY <2>1, <2>2
<1>13. ASSUME NEW a \in Tracked' PROVE Ended(a)'
  <2>1. CASE a = b
    BY <1>1, <1>3, <1>5, <1>13, <2>1, FirstEnds, AmendEnds
  <2>2. CASE a # b
    <3>1. a \in Attempts
      BY DEF Tracked
    <3>2. said'[a] = said[a]
      BY <1>8, <2>2, <3>1
    <3>3. id[a] \in Ids \ lost' /\ \A c \in Attempts \ {a} : id'[c] # id[a]
      BY <1>10, <3>2, TrackedIs
    <3>4. id[a] \in Ids \ (lost' \cup {id[b]})
      BY <1>1, <2>2, <3>3
    <3>5. Same(a)
      BY <1>1, <1>7, <2>2, <3>1, <3>2 DEF Same
    <3> QED BY <1>6, <1>10, <3>4, <3>5, Stays
  <2> QED BY <2>1, <2>2
<1> QED BY <1>9, <1>11, <1>12, <1>13 DEF LInv

LEMMA LedgerInit0 == LedgerInit => LInv
<1> SUFFICES ASSUME LedgerInit PROVE LInv
  OBVIOUS
<1>1. /\ console = <<>> /\ registry = <<>> /\ inflight = {} /\ lost = {}
      /\ id = [a \in Attempts |-> NoId] /\ booked = [a \in Attempts |-> 0]
      /\ said = [a \in Attempts |-> <<>>] /\ heard = [a \in Attempts |-> <<>>]
  BY DEF LedgerInit
<1>2. \A e : e \notin ToSet(registry)
  BY <1>1, InSet
<1>3. Shelves
  <2>1. Dict(registry) /\ Len(registry) = 0 /\ console \in Seq(Rows) /\ Len(console) = 0
    BY <1>1 DEF Dict
  <2>2. \A i, n : ~Points(registry, i, n)
    BY <1>2 DEF Points
  <2> QED BY <1>1, <2>1, <2>2, Bounds DEF Shelves
<1>4. LedgerTypeOK
  BY <1>1, <1>3, ShelvesIs
<1>5. Signed
  BY <1>2 DEF Signed, Registered
<1>6. Unspoken
  BY <1>1 DEF Unspoken
<1>7. Tracked = {}
  BY <1>1 DEF Tracked
<1> QED BY <1>4, <1>5, <1>6, <1>7 DEF LInv

LEMMA LedgerNextInv == LInv /\ [LedgerNext]_ledger => LInv'
<1> SUFFICES ASSUME LInv, [LedgerNext]_ledger PROVE LInv'
  OBVIOUS
<1>1. CASE OtherRow \/ Clear \/ Analyze \/ Prune \/ UNCHANGED ledger
  BY <1>1, OthersStep
<1>2. ASSUME NEW a \in Attempts, Start(a) \/ Retry(a) \/ Log(a) PROVE LInv'
  BY <1>2, StartStep, RetryStep, LogStep
<1> QED BY <1>1, <1>2 DEF LedgerNext

LEMMA LedgerInvariant == LedgerSpec => []LInv
  BY LedgerInit0, LedgerNextInv, PTL DEF LedgerSpec

\* The console and the registry stay within their bounds, whatever these are,
\* and an id has one position.
THEOREM LedgerTypeCorrect == LedgerSpec => []LedgerTypeOK
<1>1. LInv => LedgerTypeOK
  BY DEF LInv
<1> QED BY <1>1, LedgerInvariant, PTL

LEMMA OneAfterOne == ASSUME NEW x, NEW y PROVE <<x>> \o <<y>> = <<x, y>>
<1>1. /\ <<x>> \in Seq({x, y}) /\ <<y>> \in Seq({x, y}) /\ <<x, y>> \in Seq({x, y})
      /\ Len(<<x>>) = 1 /\ Len(<<y>>) = 1 /\ Len(<<x, y>>) = 2
  OBVIOUS
<1>2. <<x>> \o <<y>> = Append(<<x>>, y)
  BY <1>1, AppendIsConcat
<1> QED BY <1>2, AppendOne

\* What LInv says of an end is what OneEnd asks.
LEMMA JudgedOnce ==
  ASSUME NEW p, NEW h, Judged(p, h)
  PROVE  h = <<p[1].status>> \o
             IF Overturning(p) = {} THEN <<>>
             ELSE <<p[CHOOSE j \in Overturning(p) : \A k \in Overturning(p) : j <= k].status>>
<1>1. CASE Overturning(p) = {} /\ h = <<p[1].status>>
  <2>1. <<p[1].status>> \o <<>> = <<p[1].status>>
    OBVIOUS
  <2> QED BY <1>1, <2>1
<1>2. ASSUME NEW j \in Overturning(p), \A k \in Overturning(p) : j <= k,
             h = <<p[1].status, p[j].status>>
      PROVE  h = <<p[1].status>> \o
                 IF Overturning(p) = {} THEN <<>>
                 ELSE <<p[CHOOSE i \in Overturning(p) : \A k \in Overturning(p) : i <= k].status>>
  <2> DEFINE first == CHOOSE i \in Overturning(p) : \A k \in Overturning(p) : i <= k
  <2>1. first \in Overturning(p) /\ \A k \in Overturning(p) : first <= k
    BY <1>2
  <2>2. \A k \in Overturning(p) : k \in Int
    BY DEF Overturning
  <2>3. first = j
    <3> HIDE DEF first
    <3> QED BY <1>2, <2>1, <2>2
  <2>4. <<p[1].status>> \o <<p[j].status>> = <<p[1].status, p[j].status>>
    BY OneAfterOne
  <2> QED BY <1>2, <2>3, <2>4
<1> QED BY <1>1, <1>2 DEF Judged

\* However many finalizers report the end of an attempt, in whatever order and
\* between whatever other rows, trims, clearings and retries, and for every size of
\* console and registry: the judges hear it once, a success is corrected at most
\* once, by its first failure, and it is one usage row.
THEOREM OneEndTheorem == LedgerSpec => []OneEnd
<1>1. LInv => OneEnd
  <2> SUFFICES ASSUME LInv PROVE OneEnd
    OBVIOUS
  <2>1. OneVerdict
    BY JudgedOnce DEF LInv, Ended, OneVerdict
  <2>2. OneBooking
    BY DEF LInv, Ended, Counted, OneBooking
  <2> QED BY <2>1, <2>2 DEF OneEnd
<1> QED BY <1>1, LedgerInvariant, PTL
=============================================================================
