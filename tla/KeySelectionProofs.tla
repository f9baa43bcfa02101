------------------------- MODULE KeySelectionProofs -------------------------
(***************************************************************************)
(* Proofs about KeySelection for any connections, sessions and requests.    *)
(***************************************************************************)
EXTENDS KeySelection, FiniteSetTheorems, SequenceTheorems, TLAPS

(* ---- the affinity store ---------------------------------------------------- *)

Single(st) == \A k, n \in DOMAIN st : st[k].session = st[n].session => k = n
StoreOK(st) == st \in Seq(Entries) /\ Len(st) <= MaxSessions /\ Single(st)

\* What RemoveAt leaves.
LEMMA RemoveAtIs ==
  ASSUME NEW S, NEW st \in Seq(S), NEW n \in DOMAIN st
  PROVE  /\ RemoveAt(st, n) \in Seq(S) /\ Len(RemoveAt(st, n)) = Len(st) - 1
         /\ \A k \in DOMAIN RemoveAt(st, n) : RemoveAt(st, n)[k] = IF k < n THEN st[k] ELSE st[k + 1]
<1>1. n \in 1 .. Len(st) /\ Len(st) \in Nat
  BY SMT
<1>2. SubSeq(st, 1, n - 1) \in Seq(S) /\ Len(SubSeq(st, 1, n - 1)) = n - 1
      /\ \A k \in 1 .. n - 1 : SubSeq(st, 1, n - 1)[k] = st[k]
  BY <1>1, SubSeqProperties
<1>3. SubSeq(st, n + 1, Len(st)) \in Seq(S) /\ Len(SubSeq(st, n + 1, Len(st))) = Len(st) - n
      /\ \A k \in 1 .. Len(st) - n : SubSeq(st, n + 1, Len(st))[k] = st[n + k]
  BY <1>1, SubSeqProperties
<1> DEFINE a == SubSeq(st, 1, n - 1)
           b == SubSeq(st, n + 1, Len(st))
<1>4. RemoveAt(st, n) = a \o b
  BY DEF RemoveAt
<1>5. a \o b \in Seq(S) /\ Len(a \o b) = Len(a) + Len(b)
      /\ \A k \in 1 .. Len(a) + Len(b) : (a \o b)[k] = IF k <= Len(a) THEN a[k] ELSE b[k - Len(a)]
  <2>1. a \in Seq(S) /\ b \in Seq(S)
    BY <1>2, <1>3
  <2> QED BY <2>1, ConcatProperties
<1> HIDE DEF a, b
<1>6. Len(a) = n - 1 /\ Len(b) = Len(st) - n /\ (\A k \in 1 .. n - 1 : a[k] = st[k])
      /\ (\A k \in 1 .. Len(st) - n : b[k] = st[n + k])
  BY <1>2, <1>3 DEF a, b
<1>7. DOMAIN (a \o b) = 1 .. Len(st) - 1
  BY <1>1, <1>5, <1>6
<1>8. ASSUME NEW k \in DOMAIN (a \o b) PROVE (a \o b)[k] = IF k < n THEN st[k] ELSE st[k + 1]
  <2>1. k \in 1 .. Len(st) - 1 /\ k \in Nat
    BY <1>7
  <2>2. CASE k < n
    BY <2>1, <2>2, <1>1, <1>5, <1>6
  <2>3. CASE k >= n
    <3>1. b[k - (n - 1)] = st[n + (k - (n - 1))]
      BY <2>1, <2>3, <1>1, <1>6
    <3>2. (a \o b)[k] = b[k - (n - 1)]
      <4>1. k \in 1 .. Len(a) + Len(b)
        BY <2>1, <1>1, <1>6
      <4>2. ~(k <= Len(a))
        BY <2>1, <2>3, <1>1, <1>6
      <4>3. (a \o b)[k] = b[k - Len(a)]
        BY <4>1, <4>2, <1>5
      <4> QED BY <4>3, <1>6
    <3>3. n + (k - (n - 1)) = k + 1 /\ ~(k < n)
      BY <2>1, <2>3, <1>1
    <3> QED BY <3>1, <3>2, <3>3
  <2> QED BY <2>1, <2>2, <2>3, <1>1
<1> QED BY <1>1, <1>4, <1>5, <1>6, <1>8

\* Releasing a session takes its entry, and nothing but its entry.
LEMMA WithoutIs ==
  ASSUME NEW st, StoreOK(st), NEW s
  PROVE  /\ StoreOK(Without(s, st)) /\ Of(s, Without(s, st)) = {}
         /\ Len(Without(s, st)) = IF Of(s, st) = {} THEN Len(st) ELSE Len(st) - 1
         /\ \A t : t # s => Live(t, Without(s, st)) = Live(t, st)
<1>1. CASE Of(s, st) = {}
  BY <1>1 DEF Without
<1>2. CASE Of(s, st) # {}
  <2> DEFINE n == CHOOSE k \in Of(s, st) : TRUE
             w == RemoveAt(st, n)
  <2>1. n \in DOMAIN st /\ st[n].session = s
    BY <1>2 DEF Of
  <2>2. Without(s, st) = w
    BY <1>2 DEF Without
  <2>3. st \in Seq(Entries) /\ Len(st) \in Nat /\ DOMAIN st = 1 .. Len(st) /\ Single(st)
    BY DEF StoreOK
  <2>4. w \in Seq(Entries) /\ Len(w) = Len(st) - 1
        /\ \A k \in DOMAIN w : w[k] = IF k < n THEN st[k] ELSE st[k + 1]
    BY <2>1, <2>3, RemoveAtIs
  <2> HIDE DEF n, w
  <2>5. DOMAIN w = 1 .. Len(st) - 1
    BY <2>3, <2>4
  <2>6. Single(w)
    BY <2>1, <2>3, <2>4, <2>5, SMTT(30) DEF Single
  <2>7. Of(s, w) = {}
    BY <2>1, <2>3, <2>4, <2>5 DEF Single, Of
  <2>8. ASSUME NEW t, t # s PROVE Live(t, w) = Live(t, st)
    <3>1. ASSUME NEW k \in DOMAIN w, w[k].session = t, w[k].fresh PROVE w[k] \in Live(t, st)
      BY <3>1, <2>1, <2>3, <2>4, <2>5 DEF Live, Of
    <3>2. ASSUME NEW k \in DOMAIN st, st[k].session = t, st[k].fresh PROVE st[k] \in Live(t, w)
      <4>1. k # n
        BY <3>2, <2>1, <2>8
      <4>2. CASE k < n
        BY <4>2, <3>2, <2>1, <2>3, <2>4, <2>5 DEF Live, Of
      <4>3. CASE k > n
        <5>1. k - 1 \in DOMAIN w /\ w[k - 1] = st[k]
          BY <4>3, <3>2, <2>1, <2>3, <2>4, <2>5
        <5> QED BY <5>1, <3>2 DEF Live, Of
      <4> QED BY <4>1, <4>2, <4>3, <3>2, <2>1, <2>3
    <3>3. Live(t, w) = {w[k] : k \in {n1 \in DOMAIN w : w[n1].session = t /\ w[n1].fresh}}
          /\ Live(t, st) = {st[k] : k \in {n1 \in DOMAIN st : st[n1].session = t /\ st[n1].fresh}}
      BY DEF Live, Of
    <3>4. ASSUME NEW e \in Live(t, w) PROVE e \in Live(t, st)
      BY <3>1, <3>3, Zenon
    <3>5. ASSUME NEW e \in Live(t, st) PROVE e \in Live(t, w)
      BY <3>2, <3>3, Zenon
    <3> QED BY <3>4, <3>5
  <2>9. StoreOK(w)
    BY <2>3, <2>4, <2>6, KeyAssumption DEF StoreOK
  <2> QED BY <1>2, <2>2, <2>4, <2>7, <2>8, <2>9, Zenon
<1> QED BY <1>1, <1>2

\* An entry put at the recent end of a store without one of its session.
LEMMA PushIs ==
  ASSUME NEW w \in Seq(Entries), Single(w), NEW e \in Entries, Of(e.session, w) = {}
  PROVE  LET p == Append(w, e)
         IN  /\ p \in Seq(Entries) /\ Len(p) = Len(w) + 1 /\ Single(p)
             /\ Live(e.session, p) = IF e.fresh THEN {e} ELSE {}
             /\ \A t : t # e.session => Live(t, p) = Live(t, w)
<1> DEFINE p == Append(w, e)
<1>1. p \in Seq(Entries) /\ Len(p) = Len(w) + 1 /\ Len(w) \in Nat
      /\ DOMAIN p = 1 .. Len(w) + 1 /\ DOMAIN w = 1 .. Len(w)
      /\ p[Len(w) + 1] = e /\ \A k \in 1 .. Len(w) : p[k] = w[k]
  BY AppendProperties
<1> HIDE DEF p
<1>2. \A k \in 1 .. Len(w) : w[k].session # e.session
  BY <1>1 DEF Of
<1>3. Single(p)
  BY <1>1, <1>2 DEF Single
<1>4. ASSUME NEW t
      PROVE  /\ Live(t, p) = {p[k] : k \in {n \in DOMAIN p : p[n].session = t /\ p[n].fresh}}
             /\ Live(t, w) = {w[k] : k \in {n \in DOMAIN w : w[n].session = t /\ w[n].fresh}}
  BY DEF Live, Of
<1>5. Live(e.session, p) = IF e.fresh THEN {e} ELSE {}
  <2>1. \A k \in DOMAIN p : p[k].session = e.session => k = Len(w) + 1
    BY <1>1, <1>2
  <2>2. Len(w) + 1 \in DOMAIN p
    BY <1>1
  <2>3. ASSUME NEW x \in Live(e.session, p) PROVE x = e /\ e.fresh
    <3>1. PICK k \in DOMAIN p : x = p[k] /\ p[k].session = e.session /\ p[k].fresh
      BY <1>4
    <3> QED BY <3>1, <2>1, <1>1
  <2>4. e.fresh => e \in Live(e.session, p)
    BY <2>2, <1>1, <1>4
  <2> QED BY <2>3, <2>4
<1>6. ASSUME NEW t, t # e.session PROVE Live(t, p) = Live(t, w)
  <2>1. ASSUME NEW x \in Live(t, p) PROVE x \in Live(t, w)
    <3>1. PICK k \in DOMAIN p : x = p[k] /\ p[k].session = t /\ p[k].fresh
      BY <1>4
    <3>2. k \in DOMAIN w /\ p[k] = w[k]
      BY <3>1, <1>1, <1>6
    <3> QED BY <3>1, <3>2, <1>4
  <2>2. ASSUME NEW x \in Live(t, w) PROVE x \in Live(t, p)
    <3>1. PICK k \in DOMAIN w : x = w[k] /\ w[k].session = t /\ w[k].fresh
      BY <1>4
    <3>2. k \in DOMAIN p /\ p[k] = w[k]
      BY <3>1, <1>1
    <3> QED BY <3>1, <3>2, <1>4
  <2> QED BY <2>1, <2>2
<1> QED BY <1>1, <1>3, <1>5, <1>6 DEF p

\* What the eviction of the oldest entry leaves.
LEMMA TailIs ==
  ASSUME NEW st \in Seq(Entries), Single(st), st # <<>>
  PROVE  /\ Tail(st) \in Seq(Entries) /\ Len(Tail(st)) = Len(st) - 1 /\ Single(Tail(st))
         /\ \A t : t # st[1].session => Live(t, Tail(st)) = Live(t, st)
<1> DEFINE w == Tail(st)
<1>1. w \in Seq(Entries) /\ Len(w) = Len(st) - 1 /\ Len(st) \in Nat /\ Len(st) > 0
      /\ DOMAIN st = 1 .. Len(st) /\ DOMAIN w = 1 .. Len(st) - 1
      /\ \A k \in 1 .. Len(st) - 1 : w[k] = st[k + 1]
  BY HeadTailProperties, EmptySeq
<1> HIDE DEF w
<1>2. Single(w)
  BY <1>1, SMTT(30) DEF Single
<1>3. ASSUME NEW t
      PROVE  /\ Live(t, w) = {w[k] : k \in {n \in DOMAIN w : w[n].session = t /\ w[n].fresh}}
             /\ Live(t, st) = {st[k] : k \in {n \in DOMAIN st : st[n].session = t /\ st[n].fresh}}
  BY DEF Live, Of
<1>4. ASSUME NEW t, t # st[1].session PROVE Live(t, w) = Live(t, st)
  <2>1. ASSUME NEW x \in Live(t, w) PROVE x \in Live(t, st)
    <3>1. PICK k \in DOMAIN w : x = w[k] /\ w[k].session = t /\ w[k].fresh
      BY <1>3
    <3>2. k + 1 \in DOMAIN st /\ st[k + 1] = w[k]
      BY <3>1, <1>1
    <3> QED BY <3>1, <3>2, <1>3
  <2>2. ASSUME NEW x \in Live(t, st) PROVE x \in Live(t, w)
    <3>1. PICK k \in DOMAIN st : x = st[k] /\ st[k].session = t /\ st[k].fresh
      BY <1>3
    <3>2. k # 1 /\ k \in 1 .. Len(st)
      BY <3>1, <1>1, <1>4
    <3>3. k - 1 \in DOMAIN w /\ w[k - 1] = st[k]
      BY <3>2, <1>1
    <3> QED BY <3>1, <3>3, <1>3
  <2> QED BY <2>1, <2>2
<1> QED BY <1>1, <1>2, <1>4 DEF w

\* The live entry of a session is the only one, and an entry of its own.
LEMMA LiveIs ==
  ASSUME NEW st, StoreOK(st), NEW s, Live(s, st) # {}
  PROVE  LET e == CHOOSE x \in Live(s, st) : TRUE
         IN  /\ e \in Entries /\ e.session = s /\ e.fresh /\ Live(s, st) = {e}
             /\ Of(s, st) # {}
<1> DEFINE e == CHOOSE x \in Live(s, st) : TRUE
<1>1. e \in Live(s, st)
  OBVIOUS
<1>2. PICK k \in DOMAIN st : st[k].session = s /\ st[k].fresh /\ e = st[k]
  BY <1>1 DEF Live, Of
<1>3. st[k] \in Entries
  BY <1>2, ElementOfSeq DEF StoreOK
<1>4. Live(s, st) = {e}
  BY <1>1, <1>2 DEF Live, Of, StoreOK, Single
<1> QED BY <1>2, <1>3, <1>4 DEF Of

\* A lookup keeps every live binding.
LEMMA LookedIs ==
  ASSUME NEW st, StoreOK(st), NEW s
  PROVE  StoreOK(Looked(s, st)) /\ \A t : Live(t, Looked(s, st)) = Live(t, st)
<1>1. /\ StoreOK(Without(s, st)) /\ Of(s, Without(s, st)) = {}
      /\ Len(Without(s, st)) = IF Of(s, st) = {} THEN Len(st) ELSE Len(st) - 1
      /\ \A t : t # s => Live(t, Without(s, st)) = Live(t, st)
  BY WithoutIs
<1>2. CASE Live(s, st) = {}
  <2>1. Looked(s, st) = Without(s, st)
    BY <1>2 DEF Looked
  <2>2. Live(s, Without(s, st)) = {}
    BY <1>1 DEF Live
  <2> QED BY <2>1, <2>2, <1>1, <1>2
<1>3. CASE Live(s, st) # {}
  <2> DEFINE e == CHOOSE x \in Live(s, st) : TRUE
  <2>1. e \in Entries /\ e.session = s /\ e.fresh /\ Live(s, st) = {e} /\ Of(s, st) # {}
    BY <1>3, LiveIs
  <2>2. Looked(s, st) = Append(Without(s, st), e)
    BY <1>3 DEF Looked
  <2> HIDE DEF e
  <2>3. /\ Looked(s, st) \in Seq(Entries) /\ Len(Looked(s, st)) = Len(Without(s, st)) + 1
        /\ Single(Looked(s, st)) /\ Live(s, Looked(s, st)) = {e}
        /\ \A t : t # s => Live(t, Looked(s, st)) = Live(t, Without(s, st))
    <3>1. Without(s, st) \in Seq(Entries) /\ Single(Without(s, st)) /\ Of(e.session, Without(s, st)) = {}
      BY <1>1, <2>1 DEF StoreOK
    <3>2. LET p == Append(Without(s, st), e)
          IN  /\ p \in Seq(Entries) /\ Len(p) = Len(Without(s, st)) + 1 /\ Single(p)
              /\ Live(e.session, p) = IF e.fresh THEN {e} ELSE {}
              /\ \A t : t # e.session => Live(t, p) = Live(t, Without(s, st))
      BY <3>1, <2>1, PushIs
    <3> QED BY <3>2, <2>1, <2>2
  <2>4. Len(Looked(s, st)) <= MaxSessions
    BY <2>1, <2>3, <1>1, LenProperties, KeyAssumption DEF StoreOK
  <2> QED BY <2>1, <2>3, <2>4, <1>1 DEF StoreOK
<1> QED BY <1>2, <1>3

\* A bind gives the session its account, and costs another session its own only
\* when a newcomer meets a full store.
LEMMA BindIs ==
  ASSUME NEW st, StoreOK(st), NEW s \in Sessions, NEW i \in Positions
  PROVE  /\ StoreOK(Bind(s, i, st))
         /\ (Of(s, st) # {} \/ Len(st) < MaxSessions) =>
              \A t : t # s => Live(t, Bind(s, i, st)) = Live(t, st)
<1> DEFINE e == [session |-> s, index |-> i, fresh |-> TRUE]
           w == Without(s, st)
           new == Append(w, e)
<1>1. /\ StoreOK(w) /\ Of(s, w) = {}
      /\ Len(w) = IF Of(s, st) = {} THEN Len(st) ELSE Len(st) - 1
      /\ \A t : t # s => Live(t, w) = Live(t, st)
  BY WithoutIs
<1>2. e \in Entries /\ e.session = s
  BY DEF Entries
<1>3. Bind(s, i, st) = IF Len(new) > MaxSessions THEN Tail(new) ELSE new
  BY DEF Bind
<1> HIDE DEF e, w
<1>4. /\ new \in Seq(Entries) /\ Len(new) = Len(w) + 1 /\ Single(new)
      /\ \A t : t # s => Live(t, new) = Live(t, w)
  BY <1>1, <1>2, PushIs DEF StoreOK
<1>5. Len(w) \in Nat /\ Len(w) <= MaxSessions /\ Len(st) \in Nat /\ Len(st) <= MaxSessions
      /\ MaxSessions \in Nat
  BY <1>1, LenProperties, KeyAssumption DEF StoreOK
<1>6. new # <<>> 
  BY <1>4, <1>5, EmptySeq
<1> HIDE DEF new
<1>7. CASE Len(new) > MaxSessions
  <2>1. Tail(new) \in Seq(Entries) /\ Len(Tail(new)) = Len(new) - 1 /\ Single(Tail(new))
    BY <1>4, <1>6, TailIs
  <2>2. Of(s, st) = {} /\ Len(st) = MaxSessions
    BY <1>1, <1>4, <1>5, <1>7
  <2> QED BY <2>1, <2>2, <1>3, <1>4, <1>5, <1>7 DEF StoreOK
<1>8. CASE ~(Len(new) > MaxSessions)
  BY <1>1, <1>3, <1>4, <1>5, <1>8 DEF StoreOK
<1> QED BY <1>7, <1>8

(* ---- the filters ------------------------------------------------------------ *)

\* Counting from 0 in the order of the list, there is a k-th of P for every k
\* below its size: the number of those before it is one-to-one and onto.
LEMMA NthIs ==
  ASSUME NEW P \in SUBSET Positions, NEW k \in 0 .. Cardinality(P) - 1
  PROVE  Nth(P, k) \in P
<1> DEFINE Before(i) == {j \in P : j < i}
           N == Cardinality(P)
           f == [i \in P |-> Cardinality(Before(i))]
<1>1. IsFiniteSet(P) /\ P \subseteq Nat /\ N \in Nat
  BY KeyAssumption, FS_Subset, FS_CardinalityType
<1>2. ASSUME NEW i \in P PROVE IsFiniteSet(Before(i)) /\ f[i] \in 0 .. N - 1
  <2>1. Before(i) \subseteq P /\ i \notin Before(i)
    BY <1>1
  <2>2. IsFiniteSet(Before(i)) /\ Cardinality(Before(i)) <= N /\ Cardinality(Before(i)) # N
    BY <2>1, <1>1, FS_Subset
  <2>3. Cardinality(Before(i)) \in Nat
    BY <2>2, FS_CardinalityType
  <2> QED BY <2>2, <2>3, <1>1
<1>3. ASSUME NEW i \in P, NEW j \in P, i < j PROVE f[i] < f[j]
  <2>1. Before(i) \subseteq Before(j) /\ i \in Before(j) /\ i \notin Before(i)
    <3>1. i \in Nat /\ j \in Nat /\ \A l \in P : l \in Nat
      BY <1>1
    <3>2. \A l \in P : l < i => l < j
      BY <3>1, <1>3
    <3>3. ~(i < i)
      BY <3>1
    <3> QED BY <3>2, <3>3, <1>3, Zenon
  <2>2. IsFiniteSet(Before(j)) /\ f[i] \in Nat /\ f[j] \in Nat
    BY <1>1, <1>2
  <2>3. Cardinality(Before(i)) <= Cardinality(Before(j)) /\ Cardinality(Before(i)) # Cardinality(Before(j))
    BY <2>1, <2>2, FS_Subset
  <2> QED BY <2>2, <2>3
<1>4. f \in Injection(P, 0 .. N - 1)
  <2>1. f \in [P -> 0 .. N - 1]
    BY <1>2
  <2>2. ASSUME NEW i \in P, NEW j \in P, f[i] = f[j] PROVE i = j
    <3>1. f[i] \in Nat /\ f[j] \in Nat /\ i \in Nat /\ j \in Nat
      BY <1>1, <1>2
    <3>2. ~(i < j) /\ ~(j < i)
      BY <3>1, <2>2, <1>3
    <3> QED BY <3>1, <3>2
  <2> HIDE DEF f
  <2> QED BY <2>1, <2>2 DEF Injection, IsInjective
<1>5. IsFiniteSet(0 .. N - 1) /\ Cardinality(0 .. N - 1) = N
  BY <1>1, FS_Interval
<1>6. f \in Surjection(P, 0 .. N - 1)
  BY <1>4, <1>5, FS_Injection
<1>7. \E i \in P : f[i] = k
  <2> HIDE DEF f
  <2> QED BY <1>6 DEF Surjection
<1> QED BY <1>7 DEF Nth

\* The cursor, however far it has run, points at one of P.
LEMMA TurnIs ==
  ASSUME NEW P \in SUBSET Positions, P # {}, NEW n \in Nat
  PROVE  Turn(P, n) \in P /\ Nth(P, 0) \in P
<1>1. IsFiniteSet(P) /\ Cardinality(P) \in Nat /\ Cardinality(P) # 0
  BY KeyAssumption, FS_Subset, FS_CardinalityType, FS_EmptySet
<1>2. n % Cardinality(P) \in 0 .. Cardinality(P) - 1 /\ 0 \in 0 .. Cardinality(P) - 1
  BY <1>1
<1> QED BY <1>2, NthIs DEF Turn

\* Each filter hands on a part of what it was given, and something of something.
LEMMA FiltersNest ==
  ASSUME NEW q \in Passes
  PROVE  /\ Well(q) \subseteq Pool(q) /\ Pool(q) \subseteq Unbroken(q)
         /\ Unbroken(q) \subseteq Eligible(q) /\ Eligible(q) \subseteq Positions
         /\ Eligible(q) = IF Usable(q, q.tried) = {} THEN Usable(q, {}) ELSE Usable(q, q.tried)
<1>1. q.model \in Models
  BY DEF Passes
<1>2. \A T : Usable(q, T) \subseteq Positions
  BY <1>1, KeyAssumption DEF Usable
<1> QED BY <1>2 DEF Well, Pool, Unbroken, Eligible, OrAll, Closed

\* The chain of filters at work: of the keys a request may use it hands out one
\* of the best.
LEMMA PoolIsBest ==
  ASSUME NEW q \in Passes, NEW i \in Pool(q), Well(q) # {} => i \in Well(q), NEW j \in Eligible(q)
  PROVE  Rank(q, i) >= Rank(q, j)
<1> USE DEF OrAll
<1>1. CASE Closed(q.model, Eligible(q)) = {}
  <2>1. Unbroken(q) = Eligible(q)
    BY <1>1 DEF Unbroken
  <2>2. i \in Eligible(q)
    BY <2>1 DEF Pool
  <2>3. <<q.model, i>> \in open /\ <<q.model, j>> \in open
    BY <1>1, <2>2 DEF Closed
  <2> QED BY <2>3 DEF Rank
<1>2. CASE Closed(q.model, Eligible(q)) # {}
  <2>1. Unbroken(q) = Closed(q.model, Eligible(q))
    BY <1>2 DEF Unbroken
  <2>2. i \in Unbroken(q) /\ <<q.model, i>> \notin open
    BY <2>1 DEF Pool, Closed
  <2>3. CASE Unbroken(q) \ out = {}
    <3>1. j \in out \/ <<q.model, j>> \in open
      BY <2>1, <2>3 DEF Closed
    <3> QED BY <2>2, <3>1 DEF Rank
  <2>4. CASE Unbroken(q) \ out # {}
    BY <2>2, <2>4 DEF Rank, Pool
  <2> QED BY <2>3, <2>4
<1> QED BY <1>1, <1>2

(* ---- a pick ------------------------------------------------------------------ *)

\* A request that is not idle is a pass with all its fields.
LEMMA PassIs ==
  ASSUME TypeOK, NEW r \in Requests
  PROVE  /\ req[r].state # "idle" => req[r] \in Passes
         /\ req[r] \in Passes => req[r].state \in {"begun", "sent", "failed"}
<1>1. req[r] \in Passes \/ req[r] = Idle
  BY DEF TypeOK
<1>2. req[r] \in Passes => req[r].state \in {"begun", "sent", "failed"}
  BY DEF Passes
<1> QED BY <1>1, <1>2 DEF Idle

LEMMA StoreIs ==
  ASSUME TypeOK
  PROVE  StoreOK(store)
BY DEF TypeOK, StoreOK, Single

\* What a request that goes out changes.
Sent(q, i) == [q EXCEPT !.state = "sent", !.at = i, !.tries = @ + 1]

LEMMA SendIs ==
  ASSUME TypeOK, NEW r \in Requests, req[r].state = "begun",
         NEW i \in Positions, NEW st, StoreOK(st), NEW new \in BOOLEAN, Send(r, i, st, new)
  PROVE  /\ TypeOK'
         /\ req'[r] = Sent(req[r], i)
         /\ \A p \in Requests \ {r} : req'[p] = req[p]
         /\ store' = st
<1> DEFINE q == req[r]
           next == [q EXCEPT !.state = "sent", !.at = i, !.tries = @ + 1]
<1>1. q \in Passes
  BY PassIs
<1>2. req' = [req EXCEPT ![r] = next]
  BY DEF Send
<1>3. next \in Passes
  <2>1. q.tries + 1 \in Nat
    BY <1>1 DEF Passes
  <2>2. ASSUME NEW n \in Nat PROVE [q EXCEPT !.state = "sent", !.at = i, !.tries = n] \in Passes
    BY <1>1 DEF Passes
  <2> QED BY <2>1, <2>2
<1>4. req' \in [Requests -> Passes \cup {Idle}] /\ req'[r] = next
      /\ \A p \in Requests \ {r} : req'[p] = req[p]
  BY <1>2, <1>3 DEF TypeOK
<1>5. cursor' \in 0 .. Cycle - 1
  BY KeyAssumption DEF TypeOK, Send
<1>6. turn' \in [Models -> 0 .. Cycle - 1]
  <2>1. \A n \in 0 .. Cycle - 1 : (n + 1) % Cycle \in 0 .. Cycle - 1
    BY KeyAssumption
  <2>2. turn' = turn \/ turn' = [turn EXCEPT ![q.model] = (turn[q.model] + 1) % Cycle]
    BY DEF Send
  <2>3. q.model \in Models
    BY <1>1 DEF Passes
  <2>4. turn \in [Models -> 0 .. Cycle - 1] /\ turn[q.model] \in 0 .. Cycle - 1
    BY <2>3 DEF TypeOK
  <2>5. (turn[q.model] + 1) % Cycle \in 0 .. Cycle - 1
    BY <2>1, <2>4
  <2> QED BY <2>2, <2>4, <2>5
<1>7. store' = st
  BY DEF Send
<1>8. mode' = mode /\ conf' = conf /\ out' = out /\ open' = open /\ saves' = saves
  BY DEF Send
<1> HIDE DEF next
<1>9. TypeOK'
  BY <1>4, <1>5, <1>6, <1>7, <1>8 DEF TypeOK, StoreOK, Single
<1> QED BY <1>4, <1>7, <1>9 DEF next, Sent

\* What the quota filter leaves of the store.
LEMMA StoreAtPickIs ==
  ASSUME TypeOK, NEW q \in Passes
  PROVE  /\ StoreOK(StoreAtPick(q))
         /\ \/ StoreAtPick(q) = store
            \/ /\ Live(q.session, StoreAtPick(q)) = {} /\ Of(q.session, store) # {}
               /\ Len(StoreAtPick(q)) = Len(store) - 1
         /\ \A t : t # q.session => Live(t, StoreAtPick(q)) = Live(t, store)
         /\ BoundAtPick(q) \in Positions => StoreAtPick(q) = store
<1>1. StoreOK(store)
  BY StoreIs
<1>2. CASE StoreAtPick(q) = store
  BY <1>1, <1>2
<1>3. CASE StoreAtPick(q) # store
  <2>1. StoreAtPick(q) = Without(q.session, store) /\ Bound(q.session, store) \in Unbroken(q)
    BY <1>3 DEF StoreAtPick
  <2>2. Bound(q.session, store) # None
    BY <2>1, FiltersNest, KeyAssumption DEF None
  <2>3. Of(q.session, store) # {}
    BY <2>2, <1>1, LiveIs DEF Bound
  <2>4. StoreOK(StoreAtPick(q)) /\ Of(q.session, StoreAtPick(q)) = {}
        /\ Len(StoreAtPick(q)) = Len(store) - 1
        /\ \A t : t # q.session => Live(t, StoreAtPick(q)) = Live(t, store)
    BY <1>1, <2>1, <2>3, WithoutIs
  <2>5. Live(q.session, StoreAtPick(q)) = {}
    BY <2>4 DEF Live
  <2>6. BoundAtPick(q) \notin Positions
    BY <2>5, KeyAssumption DEF BoundAtPick, Bound, None
  <2> QED BY <2>3, <2>4, <2>5, <2>6
<1> QED BY <1>2, <1>3

\* A binding that a request may use, neither open nor exhausted, comes through
\* all the filters.
LEMMA BoundComesThrough ==
  ASSUME NEW q \in Passes, Bound(q.session, store) \in Eligible(q),
         Rank(q, Bound(q.session, store)) = 2
  PROVE  BoundAtPick(q) = Bound(q.session, store) /\ BoundAtPick(q) \in Well(q)
<1> DEFINE i == Bound(q.session, store)
<1>1. <<q.model, i>> \notin open /\ i \notin out
  BY DEF Rank
<1>2. i \in Closed(q.model, Eligible(q))
  BY <1>1 DEF Closed
<1>3. i \in Unbroken(q) \ out
  BY <1>1, <1>2 DEF Unbroken, OrAll
<1>4. i \in Pool(q)
  BY <1>3 DEF Pool, OrAll
<1>5. i \in Well(q)
  BY <1>1, <1>4 DEF Well, Closed
<1>6. StoreAtPick(q) = store
  BY <1>1 DEF StoreAtPick
<1> QED BY <1>5, <1>6 DEF BoundAtPick

\* What every pick has in common: where it sends the request, and what it does to
\* the bindings.
Moves(q, st) ==
  /\ \A t : t # q.session =>
       \/ Live(t, st) = Live(t, store)
       \/ Of(q.session, store) = {} /\ Len(store) = MaxSessions
  /\ Live(q.session, st) = Live(q.session, store) \/ BoundAtPick(q) \notin Well(q)

LEMMA PickSends ==
  ASSUME TypeOK, NEW r \in Requests, Pick(r)
  PROVE  /\ req[r].state = "begun" /\ req[r] \in Passes
         /\ \E i \in Pool(req[r]), new \in BOOLEAN : \E st :
              /\ Send(r, i, st, new) /\ StoreOK(st)
              /\ Well(req[r]) # {} => i \in Well(req[r])
              /\ mode.sticky /\ BoundAtPick(req[r]) \in Well(req[r]) => i = BoundAtPick(req[r])
              /\ mode.sticky => Moves(req[r], st)
              /\ ~mode.sticky => st = store
<1> DEFINE q == req[r]
<1>1. q.state = "begun"
  BY DEF Pick, PickFree, PickBound, PickNew, PickOpen
<1>2. q \in Passes
  BY <1>1, PassIs
<1> HIDE DEF q
<1>3. /\ Well(q) \subseteq Pool(q) /\ Pool(q) \subseteq Positions
  BY <1>2, FiltersNest
<1>4. /\ StoreOK(store) /\ StoreOK(StoreAtPick(q))
      /\ \A t : t # q.session => Live(t, StoreAtPick(q)) = Live(t, store)
      /\ BoundAtPick(q) \in Positions => StoreAtPick(q) = store
      /\ \/ StoreAtPick(q) = store
         \/ Of(q.session, store) # {} /\ Len(StoreAtPick(q)) = Len(store) - 1
  BY <1>2, StoreIs, StoreAtPickIs
<1> DEFINE Goal(i, st, new) ==
              /\ Send(r, i, st, new) /\ StoreOK(st)
              /\ Well(q) # {} => i \in Well(q)
              /\ mode.sticky /\ BoundAtPick(q) \in Well(q) => i = BoundAtPick(q)
              /\ mode.sticky => Moves(q, st)
              /\ ~mode.sticky => st = store
<1> SUFFICES \E i \in Pool(q), new \in BOOLEAN : \E st : Goal(i, st, new)
  BY <1>1, <1>2 DEF q
<1> HIDE DEF Goal
<1>5. CASE PickFree(r)
  <2>1. PICK i \in Pool(q) :
           /\ Well(q) # {} => i = IF mode.rotate THEN Turn(Well(q), turn[q.model]) ELSE Nth(Well(q), 0)
           /\ Send(r, i, store, FALSE)
    BY <1>5 DEF PickFree, q
  <2>2. ~mode.sticky
    BY <1>5 DEF PickFree
  <2>3. turn[q.model] \in Nat
    BY <1>2, KeyAssumption DEF TypeOK, Passes
  <2>4. Well(q) # {} => i \in Well(q)
    BY <2>1, <2>3, <1>3, TurnIs
  <2>5. Goal(i, store, FALSE)
    BY <2>1, <2>2, <2>4, <1>4 DEF Goal
  <2> QED BY <2>5
<1>6. CASE PickBound(r)
  <2> DEFINE i == BoundAtPick(q)
             st == Looked(q.session, StoreAtPick(q))
  <2>1. mode.sticky /\ i \in Well(q) /\ Send(r, i, st, FALSE)
    BY <1>6 DEF PickBound, q
  <2>2. StoreAtPick(q) = store
    BY <2>1, <1>3, <1>4
  <2>3. StoreOK(st) /\ \A t : Live(t, st) = Live(t, store)
    BY <2>2, <1>4, LookedIs
  <2> HIDE DEF i, st
  <2>4. Moves(q, st)
    BY <2>3 DEF Moves
  <2>5. Goal(i, st, FALSE)
    BY <2>1, <2>3, <2>4 DEF i, Goal
  <2> QED BY <2>1, <2>5, <1>3
<1>7. CASE PickNew(r)
  <2> DEFINE unbound == mode.rotate /\ BoundAtPick(q) = None
             i == IF unbound THEN Turn(Well(q), cursor) ELSE Nth(Well(q), 0)
             st == Bind(q.session, i, StoreAtPick(q))
  <2>1. mode.sticky /\ Well(q) # {} /\ BoundAtPick(q) \notin Well(q) /\ Send(r, i, st, unbound)
    BY <1>7 DEF PickNew, q
  <2>2. i \in Well(q)
    <3>1. cursor \in Nat
      BY KeyAssumption DEF TypeOK
    <3> QED BY <3>1, <2>1, <1>3, TurnIs
  <2>3. q.session \in Sessions /\ i \in Positions
    BY <2>2, <1>2, <1>3 DEF Passes
  <2>4. unbound \in BOOLEAN
    BY DEF TypeOK
  <2> HIDE DEF i, unbound
  <2>5. /\ StoreOK(st)
        /\ (Of(q.session, StoreAtPick(q)) # {} \/ Len(StoreAtPick(q)) < MaxSessions) =>
             \A t : t # q.session => Live(t, st) = Live(t, StoreAtPick(q))
    BY <2>3, <1>4, BindIs
  <2> HIDE DEF st
  <2>6. Len(store) \in Nat /\ Len(store) <= MaxSessions /\ MaxSessions \in Nat
    BY <1>4, LenProperties, KeyAssumption DEF StoreOK
  <2>7. \/ Of(q.session, store) = {} /\ Len(store) = MaxSessions
        \/ Of(q.session, StoreAtPick(q)) # {} \/ Len(StoreAtPick(q)) < MaxSessions
    BY <2>6, <1>4
  <2>8. Moves(q, st)
    BY <2>1, <2>5, <2>7, <1>4 DEF Moves
  <2>9. Goal(i, st, unbound)
    BY <2>1, <2>2, <2>5, <2>8 DEF Goal
  <2> QED BY <2>2, <2>4, <2>9, <1>3
<1>8. CASE PickOpen(r)
  <2>1. PICK i \in Pool(q) :
           Send(r, i, IF BoundAtPick(q) \in Pool(q) THEN Without(q.session, store)
                      ELSE Looked(q.session, StoreAtPick(q)), FALSE)
    BY <1>8 DEF PickOpen, q
  <2>2. mode.sticky /\ Well(q) = {}
    BY <1>8 DEF PickOpen, q
  <2> DEFINE st == IF BoundAtPick(q) \in Pool(q) THEN Without(q.session, store)
                   ELSE Looked(q.session, StoreAtPick(q))
  <2>3. StoreOK(st) /\ \A t : t # q.session => Live(t, st) = Live(t, store)
    BY <1>4, WithoutIs, LookedIs
  <2>4. Moves(q, st)
    BY <2>2, <2>3 DEF Moves
  <2>5. Goal(i, st, FALSE)
    BY <2>1, <2>2, <2>3, <2>4 DEF Goal
  <2> QED BY <2>5
<1> QED BY <1>5, <1>6, <1>7, <1>8 DEF Pick

(* ---- the tries of a request --------------------------------------------------- *)

\* A request has failed once for each key it has tried; only when no key was left
\* untried does it go out on one of them again.
TriesOK(q) ==
  /\ q.state \in {"begun", "failed"} => q.tries <= Cardinality(q.tried)
  /\ q.state = "sent" =>
       /\ q.at \in Positions /\ q.tries <= Cardinality(q.tried) + 1
       /\ q.at \in q.tried => Usable(q, q.tried) = {}

IInv == TypeOK /\ \A r \in Requests : req[r] \in Passes => TriesOK(req[r])

LEMMA Sizes ==
  ASSUME NEW T \in SUBSET Positions
  PROVE  /\ IsFiniteSet(T) /\ Cardinality(T) \in Nat /\ Cardinality(Positions) \in Nat
         /\ Cardinality(T) <= Cardinality(Positions)
BY KeyAssumption, FS_Subset, FS_CardinalityType

LEMMA InitIInv == Init => IInv
<1> SUFFICES ASSUME Init PROVE IInv
  OBVIOUS
<1>1. \A r \in Requests : req[r] = Idle /\ req[r] \notin Passes
  BY DEF Init, Idle, Passes
<1>2. store = <<>> /\ store \in Seq(Entries) /\ Len(store) = 0 /\ DOMAIN store = {}
  BY EmptySeq DEF Init
<1>3. 0 \in 0 .. Cycle - 1 /\ 0 \in 0 .. MaxSaves /\ 0 <= MaxSessions
  BY KeyAssumption
<1> QED BY <1>1, <1>2, <1>3 DEF Init, IInv, TypeOK

\* A step that puts x in the place of one request and leaves the others alone.
LEMMA ReplaceIs ==
  ASSUME IInv, NEW r \in Requests, NEW x \in Passes, TriesOK(x), req' = [req EXCEPT ![r] = x]
  PROVE  /\ req' \in [Requests -> Passes \cup {Idle}]
         /\ \A p \in Requests : req'[p] \in Passes => TriesOK(req'[p])
<1>1. req \in [Requests -> Passes \cup {Idle}]
  BY DEF IInv, TypeOK
<1> QED BY <1>1 DEF IInv

\* A step that ends one request.
LEMMA DropIs ==
  ASSUME IInv, NEW r \in Requests, req' = [req EXCEPT ![r] = Idle]
  PROVE  /\ req' \in [Requests -> Passes \cup {Idle}]
         /\ \A p \in Requests : req'[p] \in Passes => TriesOK(req'[p])
<1>1. req \in [Requests -> Passes \cup {Idle}]
  BY DEF IInv, TypeOK
<1>2. Idle \notin Passes
  BY DEF Idle, Passes
<1> QED BY <1>1, <1>2 DEF IInv

LEMMA BeginStep ==
  ASSUME IInv, NEW r \in Requests, Begin(r)
  PROVE  IInv'
<1>1. PICK s \in Sessions, m \in Models :
        req' = [req EXCEPT ![r] = [state |-> "begun", session |-> s, model |-> m, snap |-> conf,
                                   tried |-> {}, at |-> None, tries |-> 0]]
  BY DEF Begin
<1> DEFINE x == [state |-> "begun", session |-> s, model |-> m, snap |-> conf,
                 tried |-> {}, at |-> None, tries |-> 0]
<1>2. x \in Passes
  BY DEF Passes, IInv, TypeOK
<1>3. TriesOK(x)
  BY FS_EmptySet DEF TriesOK
<1> HIDE DEF x
<1>4. req' \in [Requests -> Passes \cup {Idle}]
      /\ \A p \in Requests : req'[p] \in Passes => TriesOK(req'[p])
  <2>1. req' = [req EXCEPT ![r] = x]
    BY <1>1 DEF x
  <2> QED BY <2>1, <1>2, <1>3, ReplaceIs
<1> QED BY <1>4 DEF Begin, IInv, TypeOK

LEMMA AgainStep ==
  ASSUME IInv, NEW r \in Requests, Again(r)
  PROVE  IInv'
<1> DEFINE q == req[r]
           x == [q EXCEPT !.state = "begun", !.snap = conf]
<1>1. q \in Passes /\ q.state = "failed" /\ TriesOK(q)
  BY PassIs DEF Again, IInv
<1>2. x \in Passes
  BY <1>1 DEF Passes, IInv, TypeOK
<1>3. x.state = "begun" /\ x.tries = q.tries /\ x.tried = q.tried
  BY <1>1 DEF Passes
<1>4. TriesOK(x)
  BY <1>1, <1>3 DEF TriesOK
<1>5. req' = [req EXCEPT ![r] = x]
  BY DEF Again
<1> HIDE DEF x
<1>6. req' \in [Requests -> Passes \cup {Idle}]
      /\ \A p \in Requests : req'[p] \in Passes => TriesOK(req'[p])
  BY <1>2, <1>4, <1>5, ReplaceIs
<1> QED BY <1>6 DEF Again, IInv, TypeOK

LEMMA PickStep ==
  ASSUME IInv, NEW r \in Requests, Pick(r)
  PROVE  IInv'
<1> DEFINE q == req[r]
           n == req'[r]
<1>1. q.state = "begun" /\ q \in Passes /\ TypeOK /\ TriesOK(q)
  BY PickSends DEF IInv
<1>2. PICK i \in Pool(q), new \in BOOLEAN : \E st : Send(r, i, st, new) /\ StoreOK(st)
  BY PickSends DEF IInv
<1>3. Pool(q) \subseteq Eligible(q) /\ Eligible(q) \subseteq Positions
      /\ Eligible(q) = IF Usable(q, q.tried) = {} THEN Usable(q, {}) ELSE Usable(q, q.tried)
  BY <1>1, FiltersNest
<1>4. /\ TypeOK' /\ n = Sent(q, i)
      /\ \A p \in Requests \ {r} : req'[p] = req[p]
  <2>1. PICK st : Send(r, i, st, new) /\ StoreOK(st)
    BY <1>2
  <2>2. i \in Positions
    BY <1>3
  <2>3. TypeOK /\ r \in Requests /\ req[r].state = "begun"
    BY <1>1
  <2> QED BY <2>1, <2>2, <2>3, SendIs
<1>5. n.state = "sent" /\ n.at = i /\ n.tries = q.tries + 1 /\ n.tried = q.tried
      /\ n.snap = q.snap /\ n.model = q.model
  BY <1>1, <1>4 DEF Passes, Sent
<1>6. i \in q.tried => Usable(n, n.tried) = {}
  <2>1. i \in q.tried => i \notin Usable(q, q.tried)
    BY DEF Usable
  <2>2. Usable(n, n.tried) = Usable(q, q.tried)
    BY <1>5 DEF Usable
  <2> QED BY <2>1, <2>2, <1>3
<1>7. n.tries <= Cardinality(n.tried) + 1
  <2>1. q.tries \in Nat /\ q.tried \in SUBSET Positions
    BY <1>1 DEF Passes
  <2>2. q.tries <= Cardinality(q.tried) /\ Cardinality(q.tried) \in Nat
    BY <1>1, <2>1, Sizes DEF TriesOK
  <2> QED BY <2>1, <2>2, <1>5
<1>8. TriesOK(n)
  BY <1>3, <1>5, <1>6, <1>7 DEF TriesOK
<1> QED BY <1>4, <1>8 DEF IInv

LEMMA FailStep ==
  ASSUME IInv, NEW r \in Requests, Fail(r)
  PROVE  IInv'
<1> DEFINE q == req[r]
           x == [q EXCEPT !.state = "failed", !.tried = @ \cup {q.at}, !.at = None]
<1>1. q \in Passes /\ q.state = "sent" /\ TriesOK(q)
  BY PassIs DEF Fail, IInv
<1>2. q.at \in Positions /\ q.tried \in SUBSET Positions /\ q.tries \in Nat
      /\ q.tries <= Cardinality(q.tried) + 1 /\ (q.at \in q.tried => Usable(q, q.tried) = {})
  BY <1>1 DEF TriesOK, Passes
<1>3. \/ req' = [req EXCEPT ![r] = Idle]
      \/ Usable(q, q.tried \cup {q.at}) # {} /\ req' = [req EXCEPT ![r] = x]
  <2>1. \/ req' = [req EXCEPT ![r] = Idle]
        \/ /\ Usable(q, q.tried \cup {q.at}) # {}
           /\ req' = [req EXCEPT ![r].state = "failed", ![r].tried = @ \cup {q.at}, ![r].at = None]
    BY Zenon DEF Fail
  <2>2. [req EXCEPT ![r].state = "failed", ![r].tried = @ \cup {q.at}, ![r].at = None]
          = [req EXCEPT ![r] = x]
    BY DEF IInv, TypeOK
  <2> QED BY <2>1, <2>2, Zenon
<1>4. x \in Passes
  BY <1>1, <1>2 DEF Passes
<1>5. x.state = "failed" /\ x.tries = q.tries /\ x.tried = q.tried \cup {q.at}
  BY <1>1 DEF Passes
<1>6. Usable(q, q.tried \cup {q.at}) # {} => TriesOK(x)
  <2> SUFFICES ASSUME Usable(q, q.tried \cup {q.at}) # {} PROVE q.tries <= Cardinality(x.tried)
    BY <1>5 DEF TriesOK
  <2>1. Usable(q, q.tried) # {}
    BY DEF Usable
  <2>2. q.at \notin q.tried
    BY <2>1, <1>2
  <2>3. IsFiniteSet(q.tried)
    BY <1>2, Sizes
  <2>4. Cardinality(q.tried \cup {q.at}) = Cardinality(q.tried) + 1
    BY <2>2, <2>3, FS_AddElement
  <2> QED BY <2>4, <1>2, <1>5
<1> HIDE DEF x
<1>7. req' \in [Requests -> Passes \cup {Idle}]
      /\ \A p \in Requests : req'[p] \in Passes => TriesOK(req'[p])
  <2>1. CASE req' = [req EXCEPT ![r] = Idle]
    BY <2>1, DropIs
  <2>2. CASE Usable(q, q.tried \cup {q.at}) # {} /\ req' = [req EXCEPT ![r] = x]
    BY <2>2, <1>4, <1>6, ReplaceIs
  <2> QED BY <2>1, <2>2, <1>3
<1>8. out' \subseteq Positions /\ open' \subseteq Models \X Positions
  BY <1>1, <1>2 DEF Fail, Headers, IInv, TypeOK, Passes
<1>9. StoreOK(store')
  BY StoreIs, WithoutIs DEF Fail, IInv
<1> QED BY <1>7, <1>8, <1>9 DEF Fail, IInv, TypeOK, StoreOK, Single

\* A request ends without another try.
LEMMA EndStep ==
  ASSUME IInv, NEW r \in Requests, NoKey(r) \/ Answer(r)
  PROVE  IInv'
<1>1. req' = [req EXCEPT ![r] = Idle]
  BY DEF NoKey, Answer
<1>2. req' \in [Requests -> Passes \cup {Idle}]
      /\ \A p \in Requests : req'[p] \in Passes => TriesOK(req'[p])
  BY <1>1, DropIs
<1>3. out' \subseteq Positions /\ open' \subseteq open
  <2>1. CASE NoKey(r)
    BY <2>1 DEF NoKey, IInv, TypeOK
  <2>2. CASE Answer(r)
    <3>1. req[r].state = "sent" /\ req[r] \in Passes
      BY <2>2, PassIs DEF Answer, IInv
    <3>2. req[r].at \in Positions
      BY <3>1 DEF IInv, TriesOK
    <3> QED BY <2>2, <3>2 DEF Answer, Headers, IInv, TypeOK
  <2> QED BY <2>1, <2>2
<1> QED BY <1>2, <1>3 DEF NoKey, Answer, IInv, TypeOK

LEMMA SaveStep ==
  ASSUME IInv, Save
  PROVE  IInv'
<1>1. conf \in [Positions -> [who : Accounts, enabled : BOOLEAN]]
      /\ \A i, j \in Positions : conf[i].who = conf[j].who => i = j
  BY DEF IInv, TypeOK, Confs
<1>2. conf' \in Confs
  <2>1. CASE \E i, j \in Positions : i # j /\ conf' = [conf EXCEPT ![i] = conf[j], ![j] = conf[i]]
    BY <2>1, <1>1 DEF Confs
  <2>2. CASE \E i \in Positions : conf' = [conf EXCEPT ![i].enabled = ~@]
    <3>1. PICK i \in Positions : conf' = [conf EXCEPT ![i].enabled = ~@]
      BY <2>2
    <3>2. conf' \in [Positions -> [who : Accounts, enabled : BOOLEAN]]
      BY <3>1, <1>1
    <3>3. \A j \in Positions : conf'[j].who = conf[j].who
      BY <3>1, <1>1
    <3> QED BY <3>2, <3>3, <1>1 DEF Confs
  <2> QED BY <2>1, <2>2 DEF Save
<1>3. out' \subseteq Positions
  BY DEF Save, Moved
<1>4. StoreOK(store')
  BY EmptySeq, KeyAssumption DEF Save, StoreOK, Single
<1>5. cursor' \in 0 .. Cycle - 1 /\ turn' \in [Models -> 0 .. Cycle - 1]
  BY KeyAssumption DEF Save
<1>6. saves' \in 0 .. MaxSaves
  BY KeyAssumption DEF Save, IInv, TypeOK
<1>7. mode' = mode /\ open' = open /\ req' = req
  BY DEF Save
<1>8. TypeOK'
  BY <1>2, <1>3, <1>4, <1>5, <1>6, <1>7 DEF IInv, TypeOK, StoreOK, Single
<1>9. \A r \in Requests : req'[r] \in Passes => TriesOK(req'[r])
  BY <1>7 DEF IInv
<1> QED BY <1>8, <1>9 DEF IInv

\* The clock and the provider.
LEMMA OutsideStep ==
  ASSUME IInv, Age \/ Recover \/ QuotaMoves
  PROVE  IInv'
<1>1. req' = req
  BY DEF Age, Recover, QuotaMoves
<1>2. CASE Age
  <2>1. PICK k \in DOMAIN store : store' = [store EXCEPT ![k].fresh = FALSE]
    BY <1>2 DEF Age
  <2>2. store \in Seq(Entries) /\ store[k] \in Entries
    BY ElementOfSeq DEF IInv, TypeOK
  <2>3. [store[k] EXCEPT !.fresh = FALSE] \in Entries
    BY <2>2 DEF Entries
  <2>4. store' \in Seq(Entries) /\ Len(store') = Len(store) /\ DOMAIN store' = DOMAIN store
    BY <2>1, <2>2, <2>3, ExceptSeq
  <2>5. \A n \in DOMAIN store : store'[n].session = store[n].session
    BY <2>1, <2>2 DEF Entries
  <2> QED BY <2>4, <2>5, <1>1, <1>2 DEF Age, IInv, TypeOK
<1>3. CASE Recover \/ QuotaMoves
  BY <1>1, <1>3 DEF Recover, QuotaMoves, Headers, IInv, TypeOK
<1> QED BY <1>2, <1>3

LEMMA StepIInv == IInv /\ [Next]_vars => IInv'
<1> SUFFICES ASSUME IInv, [Next]_vars PROVE IInv'
  OBVIOUS
<1>1. CASE UNCHANGED vars
  BY <1>1 DEF vars, IInv, TypeOK, TriesOK, Usable
<1>2. CASE \E r \in Requests : Begin(r)
  BY <1>2, BeginStep
<1>3. CASE \E r \in Requests : Again(r)
  BY <1>3, AgainStep
<1>4. CASE \E r \in Requests : NoKey(r) \/ Answer(r)
  BY <1>4, EndStep
<1>5. CASE \E r \in Requests : Pick(r)
  BY <1>5, PickStep
<1>6. CASE \E r \in Requests : Fail(r)
  BY <1>6, FailStep
<1>7. CASE Save
  BY <1>7, SaveStep
<1>8. CASE Age \/ Recover \/ QuotaMoves
  BY <1>8, OutsideStep
<1> QED BY <1>1, <1>2, <1>3, <1>4, <1>5, <1>6, <1>7, <1>8 DEF Next

\* Every variable stays in its type, the affinity store within its capacity.
THEOREM TypeCorrect == Spec => []TypeOK
<1>1. IInv => TypeOK
  BY DEF IInv
<1> QED BY <1>1, InitIInv, StepIInv, PTL DEF Spec

\* The failover of a leaf stops: _mark_conn_failed_for_retry never sends a request
\* out more often than once per key and once more.
THEOREM TriesTheorem == Spec => []TriesAreBounded
<1>1. IInv => TriesAreBounded
  <2> SUFFICES ASSUME IInv, NEW r \in Requests, req[r].state # "idle"
               PROVE  req[r].tries <= Cardinality(Positions) + 1
    BY DEF TriesAreBounded
  <2>1. req[r] \in Passes /\ req[r].state \in {"begun", "sent", "failed"} /\ TriesOK(req[r])
    BY PassIs DEF IInv
  <2>2. req[r].tried \in SUBSET Positions /\ req[r].tries \in Nat
    BY <2>1 DEF Passes
  <2>3. Cardinality(req[r].tried) \in Nat /\ Cardinality(Positions) \in Nat
        /\ Cardinality(req[r].tried) <= Cardinality(Positions)
    BY <2>2, Sizes
  <2> QED BY <2>1, <2>2, <2>3 DEF TriesOK
<1> QED BY <1>1, InitIInv, StepIInv, PTL DEF Spec

(* ---- the choice of a key ------------------------------------------------------ *)

\* Only a pick sends a request that has begun.
LEMMA OnlyPicksSend ==
  ASSUME TypeOK, NEW r \in Requests, [Next]_vars, req[r].state = "begun", req'[r].state = "sent"
  PROVE  Pick(r)
<1>1. req \in [Requests -> Passes \cup {Idle}]
  BY DEF TypeOK
<1>2. req' # req
  OBVIOUS
<1>3. PICK p \in Requests : Begin(p) \/ Again(p) \/ NoKey(p) \/ Pick(p) \/ Answer(p) \/ Fail(p)
  BY <1>2 DEF Next, vars, Save, Age, Recover, QuotaMoves
<1>4. CASE Begin(p)
  BY <1>1, <1>4 DEF Begin
<1>5. CASE Again(p)
  BY <1>1, <1>5 DEF Again
<1>6. CASE NoKey(p) \/ Answer(p) \/ Fail(p)
  <2>1. \A x : req' = [req EXCEPT ![p] = x] => p = r /\ x = req'[r]
    BY <1>1
  <2>2. ~(req' = [req EXCEPT ![p] = Idle])
    BY <2>1 DEF Idle
  <2>3. req[p].state = "sent" /\ req' = [req EXCEPT ![p].state = "failed",
                                            ![p].tried = @ \cup {req[p].at}, ![p].at = None]
    BY <1>6, <2>2, Zenon DEF NoKey, Answer, Fail
  <2>4. p # r
    BY <2>3
  <2>5. req'[r] = req[r]
    BY <2>3, <2>4, <1>1
  <2> QED BY <2>5
<1>7. CASE Pick(p)
  <2>1. PICK i \in Pool(req[p]), new \in BOOLEAN : \E st : Send(p, i, st, new)
    BY <1>7, PickSends
  <2>2. p # r => req'[r] = req[r]
    BY <2>1, <1>1 DEF Send
  <2> QED BY <2>2, <1>7
<1> QED BY <1>3, <1>4, <1>5, <1>6, <1>7

\* The filters of _pick_connection and the affinity hook together choose the best
\* key there is, the session's own if it is among the best.
THEOREM BestTheorem == Spec => PickIsBest
<1>1. TypeOK /\ [Next]_vars => [\A r \in Requests : GoesOut(r) => BestKey(r)]_vars
  <2> SUFFICES ASSUME TypeOK, [Next]_vars, NEW r \in Requests, GoesOut(r)
               PROVE  BestKey(r)
    OBVIOUS
  <2> DEFINE q == req[r]
             mine == Bound(q.session, store)
  <2>1. Pick(r)
    BY OnlyPicksSend DEF GoesOut
  <2>2. q \in Passes
    BY <2>1, PickSends
  <2>3. PICK i \in Pool(q), new \in BOOLEAN :
          \E st : /\ Send(r, i, st, new) /\ StoreOK(st)
                  /\ Well(q) # {} => i \in Well(q)
                  /\ mode.sticky /\ BoundAtPick(q) \in Well(q) => i = BoundAtPick(q)
    BY <2>1, PickSends
  <2>4. Pool(q) \subseteq Eligible(q) /\ Eligible(q) \subseteq Positions
    BY <2>2, FiltersNest
  <2>5. req'[r] = Sent(q, i)
    <3>1. PICK st : Send(r, i, st, new) /\ StoreOK(st)
      BY <2>3
    <3>2. i \in Positions
      BY <2>4
    <3>3. TypeOK /\ r \in Requests /\ req[r].state = "begun"
      BY DEF GoesOut
    <3> QED BY <3>1, <3>2, <3>3, SendIs
  <2>6. req'[r].at = i
    BY <2>2, <2>5 DEF Sent, Passes
  <2>7. \A j \in Eligible(q) : Rank(q, i) >= Rank(q, j)
    BY <2>2, <2>3, PoolIsBest
  <2>8. (mode.sticky /\ mine \in Eligible(q) /\ Rank(q, mine) = 2) => i = mine
    <3> HIDE DEF q
    <3> SUFFICES ASSUME mode.sticky, mine \in Eligible(q), Rank(q, mine) = 2 PROVE i = mine
      OBVIOUS
    <3>1. BoundAtPick(q) = mine /\ BoundAtPick(q) \in Well(q)
      BY <2>2, BoundComesThrough
    <3> QED BY <3>1, <2>3
  <2> QED BY <2>4, <2>6, <2>7, <2>8 DEF BestKey
<1> QED BY <1>1, TypeCorrect, PTL DEF Spec, PickIsBest

LEMMA BoundIs ==
  ASSUME NEW s, NEW a, NEW b, Live(s, a) = Live(s, b)
  PROVE  Bound(s, a) = Bound(s, b)
BY DEF Bound

\* The release of a failed request touches its own session alone.
LEMMA FailMoves ==
  ASSUME TypeOK, NEW r \in Requests, Fail(r), NEW s, Bound(s, store') # Bound(s, store)
  PROVE  Cause(s)
<1>1. req[r].state = "sent"
  BY DEF Fail
<1>2. req[r].session = s
  <2>1. store' = store \/ store' = Without(req[r].session, store)
    BY DEF Fail
  <2>2. \A t : t # req[r].session => Live(t, Without(req[r].session, store)) = Live(t, store)
    BY StoreIs, WithoutIs
  <2>3. req[r].session # s => Live(s, store') = Live(s, store)
    BY <2>1, <2>2
  <2> QED BY <2>3, BoundIs
<1>3. req'[r] # req[r]
  <2>1. req \in [Requests -> Passes \cup {Idle}] /\ req[r] \in Passes
    BY <1>1, PassIs DEF TypeOK
  <2>2. req' = [req EXCEPT ![r] = Idle]
        \/ req' = [req EXCEPT ![r].state = "failed", ![r].tried = @ \cup {req[r].at}, ![r].at = None]
    BY Zenon DEF Fail
  <2>3. req'[r].state \in {"idle", "failed"}
    BY <2>1, <2>2 DEF Idle, Passes
  <2> QED BY <1>1, <2>3
<1> QED BY <1>1, <1>2, <1>3 DEF Cause

LEMMA PickMoves ==
  ASSUME TypeOK, NEW r \in Requests, Pick(r), NEW s, Bound(s, store') # Bound(s, store)
  PROVE  Cause(s)
<1> DEFINE q == req[r]
<1>1. q.state = "begun" /\ q \in Passes
  BY PickSends
<1>2. PICK i \in Pool(q), new \in BOOLEAN :
        \E st : /\ Send(r, i, st, new) /\ StoreOK(st)
                /\ mode.sticky => Moves(q, st)
                /\ ~mode.sticky => st = store
  BY PickSends
<1>3. PICK st : /\ Send(r, i, st, new) /\ StoreOK(st)
                /\ mode.sticky => Moves(q, st)
                /\ ~mode.sticky => st = store
  BY <1>2
<1>4. i \in Positions
  BY <1>1, FiltersNest
<1>5. store' = st /\ req'[r] = Sent(q, i)
  BY <1>1, <1>3, <1>4, SendIs
<1>6. req'[r].state = "sent"
  BY <1>1, <1>5 DEF Sent, Passes
<1>7. Live(s, st) # Live(s, store)
  BY <1>5, BoundIs
<1>8. Moves(q, st)
  BY <1>3, <1>7
<1>9. CASE q.session = s
  <2>1. BoundAtPick(q) \notin Well(q)
    BY <1>7, <1>8, <1>9 DEF Moves
  <2>2. Unwell(q)
    <3>1. Bound(q.session, store) \in Eligible(q) => Rank(q, Bound(q.session, store)) # 2
      BY <2>1, <1>1, BoundComesThrough
    <3> QED BY <3>1 DEF Unwell, Rank
  <2> QED BY <2>2, <1>1, <1>6, <1>9 DEF Cause, GoesOut
<1>10. CASE q.session # s
  <2>1. Of(q.session, store) = {} /\ Len(store) = MaxSessions
    BY <1>7, <1>8, <1>10 DEF Moves
  <2>2. Newcomer(q)
    BY <2>1 DEF Newcomer, Bound, Live
  <2> QED BY <2>2, <1>1, <1>6, <1>10 DEF Cause, GoesOut
<1> QED BY <1>9, <1>10

\* bind, release and the eviction of AffinityStore move no session but the one at
\* hand, unless a newcomer needs the room.
THEOREM BindingTheorem == Spec => BindingMovesForCause
<1>1. TypeOK /\ [Next]_vars => [\A s \in Sessions : Rebound(s) => Cause(s)]_vars
  <2> SUFFICES ASSUME TypeOK, [Next]_vars, NEW s \in Sessions, Bound(s, store') # Bound(s, store)
               PROVE  Cause(s)
    BY DEF Rebound
  <2>1. store' # store
    OBVIOUS
  <2>2. CASE Save
    <3>1. saves' # saves
      BY <2>2 DEF Save, TypeOK
    <3> QED BY <3>1 DEF Cause
  <2>3. CASE Age
    BY <2>3 DEF Age, Cause
  <2>4. CASE \E r \in Requests : Fail(r)
    BY <2>4, FailMoves
  <2>5. CASE \E r \in Requests : Pick(r)
    BY <2>5, PickMoves
  <2> QED BY <2>1, <2>2, <2>3, <2>4, <2>5 DEF Next, vars, Begin, Again, NoKey, Answer, Recover, QuotaMoves
<1> QED BY <1>1, TypeCorrect, PTL DEF Spec, BindingMovesForCause
=============================================================================
