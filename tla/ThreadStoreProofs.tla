-------------------------- MODULE ThreadStoreProofs -------------------------
(***************************************************************************)
(* Proofs about ThreadStore for every set of turns and ids, every capacity, *)
(* expiry and depth.                                                       *)
(***************************************************************************)
EXTENDS ThreadStore, TLAPS, FiniteSetTheorems

\* What a put leaves in the store: old entries as they were, and the new one.
LEMMA PutKeeps ==
  ASSUME TypeOK, NEW id \in Ids, NEW turn \in Turns, NEW prev \in Ids \cup {NoId},
         Put(id, turn, prev)
  PROVE  /\ entries' = [k \in DOMAIN entries' |-> entries'[k]]
         /\ DOMAIN entries' \subseteq DOMAIN entries \cup {id}
         /\ id \in DOMAIN entries'
         /\ \A k \in DOMAIN entries' :
              entries'[k] = IF k = id THEN [ts |-> now, items |-> turn, prev |-> prev]
                                      ELSE entries[k]
         /\ older' \subseteq (DOMAIN entries') \X (DOMAIN entries')
         /\ lastSweep' \in {now, lastSweep}
<1> DEFINE live == {k \in DOMAIN entries \ {id} : SweepDue => ~Expired(k)}
           kept == {k \in live : Cardinality(MoreRecent(k, live)) < MaxThreads - 1}
<1>1. /\ entries' = [k \in kept \cup {id} |->
                       IF k = id THEN [ts |-> now, items |-> turn, prev |-> prev]
                                 ELSE entries[k]]
      /\ older' = Among(kept) \cup (kept \X {id})
      /\ lastSweep' = IF SweepDue THEN now ELSE lastSweep
  BY DEF Put
<1>2. kept \subseteq DOMAIN entries
  OBVIOUS
<1> HIDE DEF kept
<1>3. DOMAIN entries' = kept \cup {id}
  BY <1>1
<1>4. older' \subseteq (kept \cup {id}) \X (kept \cup {id})
  BY <1>1 DEF Among
<1> QED
  BY <1>1, <1>2, <1>3, <1>4

LEMMA PutType ==
  ASSUME TypeOK, NEW id \in Ids, NEW turn \in Turns, NEW prev \in Ids \cup {NoId},
         Put(id, turn, prev), now' = now
  PROVE  /\ DOMAIN entries' \subseteq Ids
         /\ \A k \in DOMAIN entries' : entries'[k] \in Entry
         /\ older' \subseteq (DOMAIN entries') \X (DOMAIN entries')
         /\ lastSweep' \in 0 .. now
<1>1. [ts |-> now, items |-> turn, prev |-> prev] \in Entry
  BY DEF TypeOK, Entry
<1>2. now \in Nat /\ lastSweep \in 0 .. now
  BY ThreadStoreAssumption DEF TypeOK
<1>3. /\ DOMAIN entries' \subseteq DOMAIN entries \cup {id}
      /\ \A k \in DOMAIN entries' :
           entries'[k] = IF k = id THEN [ts |-> now, items |-> turn, prev |-> prev]
                                   ELSE entries[k]
      /\ older' \subseteq (DOMAIN entries') \X (DOMAIN entries')
      /\ lastSweep' \in {now, lastSweep}
  BY PutKeeps
<1>4. DOMAIN entries \subseteq Ids /\ \A k \in DOMAIN entries : entries[k] \in Entry
  BY DEF TypeOK
<1>5. \A k \in DOMAIN entries' : entries'[k] \in Entry
  BY <1>1, <1>3, <1>4
<1>6. lastSweep' \in 0 .. now
  BY <1>2, <1>3
<1> QED
  BY <1>3, <1>4, <1>5, <1>6

LEMMA TouchKeeps ==
  ASSUME TypeOK, NEW id \in Ids, Touch(id)
  PROVE  /\ DOMAIN entries' \subseteq DOMAIN entries
         /\ \A k \in DOMAIN entries' : entries'[k] = entries[k]
         /\ older' \subseteq (DOMAIN entries') \X (DOMAIN entries')
         /\ lastSweep' = lastSweep
<1> DEFINE others == DOMAIN entries \ {id}
           left == IF Hit(id) THEN DOMAIN entries ELSE others
<1>1. /\ entries' = [k \in left |-> entries[k]]
      /\ older' = Among(others) \cup (IF Hit(id) THEN others \X {id} ELSE {})
      /\ lastSweep' = lastSweep
  BY DEF Touch
<1>2. /\ left \subseteq DOMAIN entries /\ others \subseteq left
      /\ Hit(id) => id \in left
  BY DEF Hit
<1> HIDE DEF left, others
<1>3. DOMAIN entries' = left
  BY <1>1
<1> QED
  BY <1>1, <1>2, <1>3 DEF Among

LEMMA InitType == Init => TypeOK
<1>1. ASSUME NEW S PROVE <<>> \in Seq(S)
  OBVIOUS
<1> QED
  BY <1>1, ThreadStoreAssumption DEF Init, TypeOK, Phases

LEMMA NextType == TypeOK /\ [Next]_vars => TypeOK'
<1> SUFFICES ASSUME TypeOK, [Next]_vars PROVE TypeOK'
  OBVIOUS
<1> USE ThreadStoreAssumption
<1>1. CASE UNCHANGED vars
  BY <1>1 DEF TypeOK, vars, store
<1>2. CASE Tick
  BY <1>2 DEF Tick, TypeOK, store, Entry
<1>3. ASSUME NEW t \in Turns, Arrive(t) PROVE TypeOK'
  BY <1>3 DEF Arrive, TypeOK, store, Phases
<1>4. ASSUME NEW t \in Turns, WalkStep(t) PROVE TypeOK'
  <2>1. cur[t] \in Ids
    BY <1>4 DEF WalkStep, WalkGoesOn, TypeOK
  <2>2. Touch(cur[t])
    BY <1>4 DEF WalkStep
  <2>3. /\ DOMAIN entries' \subseteq DOMAIN entries
        /\ \A k \in DOMAIN entries' : entries'[k] = entries[k]
        /\ older' \subseteq (DOMAIN entries') \X (DOMAIN entries')
        /\ lastSweep' = lastSweep
    BY <2>1, <2>2, TouchKeeps
  <2>4. Hit(cur[t]) => entries[cur[t]] \in Entry
    BY DEF Hit, TypeOK
  <2>5. Hit(cur[t]) => /\ entries[cur[t]].items \in Turns
                       /\ entries[cur[t]].prev \in Ids \cup {NoId}
    BY <2>4 DEF Entry
  <2>6. chunks' \in [Turns -> Seq(Turns)] /\ cur' \in [Turns -> Ids \cup {NoId}]
    <3>1. CASE Hit(cur[t])
      <4> DEFINE turn == entries[cur[t]].items
      <4>0. chunks[t] \in Seq(Turns) /\ turn \in Turns
        BY <2>5, <3>1 DEF TypeOK
      <4>2. /\ chunks' = [chunks EXCEPT ![t] = Append(chunks[t], turn)]
            /\ cur' = [cur EXCEPT ![t] = entries[cur[t]].prev]
        BY <1>4, <3>1 DEF WalkStep
      <4> HIDE DEF turn
      <4>1. Append(chunks[t], turn) \in Seq(Turns)
        BY <4>0
      <4>3. chunks' \in [Turns -> Seq(Turns)]
        BY <4>1, <4>2 DEF TypeOK
      <4>4. cur' \in [Turns -> Ids \cup {NoId}]
        BY <4>2, <2>5, <3>1 DEF TypeOK
      <4> QED
        BY <4>3, <4>4
    <3>2. CASE ~Hit(cur[t])
      BY <1>4, <3>2 DEF WalkStep, TypeOK
    <3> QED
      BY <3>1, <3>2
  <2>7. /\ pc' \in [Turns -> Phases]
        /\ seen' \in [Turns -> SUBSET Ids]
        /\ now' = now /\ cited' = cited /\ given' = given
        /\ \A u \in Turns : pc'[u] = "stream" => given'[u] # NoId
    BY <1>4, <2>1 DEF WalkStep, TypeOK, Phases
  <2> QED
    BY <2>3, <2>6, <2>7 DEF TypeOK, Entry
<1>5. ASSUME NEW t \in Turns, WalkEnds(t) PROVE TypeOK'
  BY <1>5 DEF WalkEnds, TypeOK, store, Phases
<1>6. ASSUME NEW t \in Turns, AnswerJson(t) PROVE TypeOK'
  <2>1. PICK id \in Ids : /\ given' = [given EXCEPT ![t] = id]
                          /\ Put(id, t, cited[t]) \/ UNCHANGED store
    BY <1>6 DEF AnswerJson
  <2>2. cited[t] \in Ids \cup {NoId} /\ now' = now
    BY <1>6 DEF AnswerJson, TypeOK
  <2>3. /\ DOMAIN entries' \subseteq Ids
        /\ \A k \in DOMAIN entries' : entries'[k] \in Entry
        /\ older' \subseteq (DOMAIN entries') \X (DOMAIN entries')
        /\ lastSweep' \in 0 .. now
    <3>1. CASE Put(id, t, cited[t])
      BY <3>1, <2>2, PutType
    <3>2. CASE UNCHANGED store
      BY <3>2 DEF store, TypeOK
    <3> QED
      BY <2>1, <3>1, <3>2
  <2>4. /\ given' \in [Turns -> Ids \cup {NoId}]
        /\ pc' = [pc EXCEPT ![t] = "over"]
        /\ UNCHANGED <<now, cited, cur, chunks, seen>>
    BY <1>6, <2>1 DEF AnswerJson, TypeOK
  <2>5. /\ pc' \in [Turns -> Phases]
        /\ \A u \in Turns : pc'[u] = "stream" => given'[u] # NoId
    BY <2>1, <2>4 DEF TypeOK, Phases
  <2>6. \A k \in DOMAIN entries' : entries'[k] \in Entry'
    BY <2>3 DEF Entry
  <2>7. now' \in 0 .. MaxNow /\ lastSweep' \in 0 .. now'
    BY <2>3, <2>4 DEF TypeOK
  <2>8. pc' \in [Turns -> Phases']
    BY <2>5 DEF Phases
  <2>9. /\ cited' \in [Turns -> Ids \cup {NoId}]
        /\ cur' \in [Turns -> Ids \cup {NoId}]
        /\ chunks' \in [Turns -> Seq(Turns)]
        /\ seen' \in [Turns -> SUBSET Ids]
    BY <2>4 DEF TypeOK
  <2> QED
    BY <2>3, <2>4, <2>5, <2>6, <2>7, <2>8, <2>9 DEF TypeOK
<1>7. ASSUME NEW t \in Turns, AnswerStream(t) PROVE TypeOK'
  BY <1>7 DEF AnswerStream, TypeOK, store, Phases
<1>8. ASSUME NEW t \in Turns, StreamEnds(t) PROVE TypeOK'
  <2>1. given[t] \in Ids /\ cited[t] \in Ids \cup {NoId} /\ now' = now
    BY <1>8 DEF StreamEnds, TypeOK
  <2>2. /\ DOMAIN entries' \subseteq Ids
        /\ \A k \in DOMAIN entries' : entries'[k] \in Entry
        /\ older' \subseteq (DOMAIN entries') \X (DOMAIN entries')
        /\ lastSweep' \in 0 .. now
    <3>1. CASE Put(given[t], t, cited[t])
      BY <3>1, <2>1, PutType
    <3>2. CASE UNCHANGED store
      BY <3>2 DEF store, TypeOK
    <3> QED
      BY <1>8, <3>1, <3>2 DEF StreamEnds
  <2> QED
    BY <1>8, <2>2 DEF StreamEnds, TypeOK, Phases
<1>9. ASSUME NEW t \in Turns, NotCaptured(t) PROVE TypeOK'
  BY <1>9 DEF NotCaptured, TypeOK, store, Phases
<1>10. CASE Over
  BY <1>10, <1>1 DEF Over
<1> QED
  BY <1>1, <1>2, <1>3, <1>4, <1>5, <1>6, <1>7, <1>8, <1>9, <1>10
     DEF Next, Turn, Walk

\* Every state of the program has the declared types, and the recency order
\* speaks only of what the store holds.
THEOREM TypeCorrect == Spec => []TypeOK
<1> QED
  BY InitType, NextType, PTL DEF Spec

\* The turn that put an entry is over, was answered under the entry's id and
\* cited the entry's predecessor.
EntriesTrue ==
  \A id \in DOMAIN entries :
    /\ pc[entries[id].items] = "over"
    /\ given[entries[id].items] = id
    /\ cited[entries[id].items] = entries[id].prev

\* Where a walk stands: it has visited the ids of what it collected, and looks
\* up next what its oldest turn, or the walking turn itself, cited.
WalkTrue(t) ==
  /\ pc[t] = "new" => chunks[t] = <<>>
  /\ \A i \in DOMAIN chunks[t] :
       /\ pc[chunks[t][i]] = "over"
       /\ given[chunks[t][i]] \in seen[t]
  /\ pc[t] = "walk" =>
       cur[t] = IF chunks[t] = <<>> THEN cited[t] ELSE cited[chunks[t][Len(chunks[t])]]

Distinct(t) == \A i, j \in DOMAIN chunks[t] : chunks[t][i] = chunks[t][j] => i = j

IInv == TypeOK /\ EntriesTrue /\ \A t \in Turns : WalkTrue(t) /\ Lineage(t) /\ Distinct(t)

\* A turn that is over stays as it is.
Settled ==
  \A t \in Turns : pc[t] = "over" =>
    pc'[t] = "over" /\ given'[t] = given[t] /\ cited'[t] = cited[t]

LEMMA EntriesFrame ==
  ASSUME IInv, Settled,
         DOMAIN entries' \subseteq DOMAIN entries,
         \A k \in DOMAIN entries' : entries'[k] = entries[k]
  PROVE  EntriesTrue'
<1>1. \A id \in DOMAIN entries : entries[id].items \in Turns
  BY DEF IInv, TypeOK, Entry
<1> QED
  BY <1>1 DEF IInv, EntriesTrue, Settled

LEMMA EntriesPut ==
  ASSUME IInv, Settled, NEW id \in Ids, NEW t \in Turns, pc[t] # "over",
         Put(id, t, cited[t]),
         pc'[t] = "over", given'[t] = id, cited'[t] = cited[t]
  PROVE  EntriesTrue'
<1>1. \A k \in DOMAIN entries : entries[k].items \in Turns
  BY DEF IInv, TypeOK, Entry
<1>2. cited[t] \in Ids \cup {NoId} /\ TypeOK
  BY DEF IInv, TypeOK
<1>3. /\ DOMAIN entries' \subseteq DOMAIN entries \cup {id}
      /\ \A k \in DOMAIN entries' :
           entries'[k] = IF k = id THEN [ts |-> now, items |-> t, prev |-> cited[t]]
                                   ELSE entries[k]
  BY <1>2, PutKeeps
<1>4. ASSUME NEW k \in DOMAIN entries', k # id
      PROVE  /\ pc'[entries'[k].items] = "over"
             /\ given'[entries'[k].items] = k
             /\ cited'[entries'[k].items] = entries'[k].prev
  <2>1. k \in DOMAIN entries /\ entries'[k] = entries[k]
    BY <1>3, <1>4
  <2> QED
    BY <2>1, <1>1 DEF IInv, EntriesTrue, Settled
<1>5. ASSUME id \in DOMAIN entries'
      PROVE  /\ pc'[entries'[id].items] = "over"
             /\ given'[entries'[id].items] = id
             /\ cited'[entries'[id].items] = entries'[id].prev
  BY <1>3, <1>5
<1> QED
  BY <1>4, <1>5 DEF EntriesTrue

\* A step that leaves what is collected alone keeps the invariant's other parts.
LEMMA Frame ==
  ASSUME IInv, TypeOK', EntriesTrue', Settled,
         chunks' = chunks, seen' = seen,
         \A t \in Turns : pc'[t] = "walk" /\ pc[t] = "walk" =>
           cur'[t] = cur[t] /\ cited'[t] = cited[t],
         \A t \in Turns : pc'[t] = "walk" /\ pc[t] # "walk" =>
           pc[t] = "new" /\ cur'[t] = cited'[t],
         \A t \in Turns : pc'[t] = "new" => pc[t] = "new",
         \A t \in Turns : pc[t] # "new" => cited'[t] = cited[t]
  PROVE  IInv'
<1>1. \A t \in Turns : chunks[t] \in Seq(Turns)
  BY DEF IInv, TypeOK
<1>2. ASSUME NEW t \in Turns PROVE WalkTrue(t)' /\ Lineage(t)' /\ Distinct(t)'
  <2>1. \A i \in DOMAIN chunks[t] : chunks[t][i] \in Turns
    BY <1>1
  <2>2. WalkTrue(t) /\ Lineage(t) /\ Distinct(t)
    BY DEF IInv
  <2>3. \A i \in DOMAIN chunks[t] :
           /\ pc'[chunks[t][i]] = "over"
           /\ given'[chunks[t][i]] = given[chunks[t][i]]
           /\ cited'[chunks[t][i]] = cited[chunks[t][i]]
    BY <2>1, <2>2 DEF WalkTrue, Settled
  <2>4. \A i \in DOMAIN chunks[t] : i # 1 => i - 1 \in DOMAIN chunks[t]
    BY <1>1
  <2>5. chunks[t] # <<>> => Len(chunks[t]) \in DOMAIN chunks[t]
    BY <1>1
  <2>6. pc[t] = "new" => chunks[t] = <<>> /\ DOMAIN chunks[t] = {}
    BY <1>1, <2>2 DEF WalkTrue
  <2>7. WalkTrue(t)'
    BY <2>2, <2>3, <2>5, <2>6 DEF WalkTrue
  <2>8. Lineage(t)'
    BY <2>2, <2>3, <2>4, <2>6 DEF Lineage
  <2>9. Distinct(t)'
    BY <2>2 DEF Distinct
  <2> QED
    BY <2>7, <2>8, <2>9
<1> QED
  BY <1>2 DEF IInv

\* One lookup of a walk that finds its link.
LEMMA Found ==
  ASSUME IInv, TypeOK', NEW t \in Turns, WalkStep(t), Hit(cur[t])
  PROVE  WalkTrue(t)' /\ Lineage(t)' /\ Distinct(t)'
<1> DEFINE n == Len(chunks[t])
           turn == entries[cur[t]].items
<1>1. /\ chunks[t] \in Seq(Turns) /\ n \in Nat /\ DOMAIN chunks[t] = 1 .. n
      /\ turn \in Turns
  BY DEF IInv, TypeOK, Hit, Entry
<1>2. /\ pc[turn] = "over" /\ given[turn] = cur[t]
      /\ cited[turn] = entries[cur[t]].prev
  BY DEF IInv, EntriesTrue, Hit
<1>3. /\ pc[t] = "walk" /\ cur[t] \notin seen[t] /\ cur[t] # NoId
      /\ seen' = [seen EXCEPT ![t] = seen[t] \cup {cur[t]}]
      /\ chunks' = [chunks EXCEPT ![t] = Append(chunks[t], turn)]
      /\ cur' = [cur EXCEPT ![t] = entries[cur[t]].prev]
      /\ pc' = pc /\ cited' = cited /\ given' = given
  BY DEF WalkStep, WalkGoesOn
<1>4. WalkTrue(t) /\ Lineage(t) /\ Distinct(t)
  BY DEF IInv
<1> HIDE DEF n, turn
<1>5. /\ chunks'[t] = Append(chunks[t], turn)
      /\ seen'[t] = seen[t] \cup {cur[t]}
      /\ cur'[t] = entries[cur[t]].prev
  BY <1>3 DEF IInv, TypeOK
<1>6. /\ DOMAIN chunks'[t] = 1 .. n + 1 /\ Len(chunks'[t]) = n + 1
      /\ \A i \in 1 .. n : chunks'[t][i] = chunks[t][i]
      /\ chunks'[t][n + 1] = turn
      /\ chunks'[t] # <<>>
      /\ chunks[t] = <<>> <=> n = 0
  BY <1>1, <1>5 DEF n
<1>7. \A i \in 1 .. n : /\ pc[chunks[t][i]] = "over"
                        /\ given[chunks[t][i]] \in seen[t]
  BY <1>1, <1>4 DEF WalkTrue
<1>8. cur[t] = IF n = 0 THEN cited[t] ELSE cited[chunks[t][n]]
  BY <1>3, <1>4, <1>6 DEF WalkTrue, n
<1>9. WalkTrue(t)'
  <2>1. \A i \in 1 .. n + 1 : /\ pc[chunks'[t][i]] = "over"
                              /\ given[chunks'[t][i]] \in seen'[t]
    <3> TAKE i \in 1 .. n + 1
    <3>1. CASE i = n + 1
      BY <3>1, <1>2, <1>5, <1>6
    <3>2. CASE i \in 1 .. n
      BY <3>2, <1>5, <1>6, <1>7
    <3> QED
      BY <3>1, <3>2, <1>1
  <2> QED
    BY <2>1, <1>2, <1>3, <1>5, <1>6 DEF WalkTrue
<1>10. Lineage(t)'
  <2>0. SUFFICES \A i \in 1 .. n + 1 :
                  given'[chunks'[t][i]] =
                    IF i = 1 THEN cited'[t] ELSE cited'[chunks'[t][i - 1]]
    BY <1>6 DEF Lineage
  <2>3. given' = given /\ cited' = cited
    BY <1>3
  <2> SUFFICES ASSUME NEW i \in 1 .. n + 1
               PROVE  given[chunks'[t][i]] =
                        IF i = 1 THEN cited[t] ELSE cited[chunks'[t][i - 1]]
    BY <2>3, Zenon
  <2>1. CASE i = n + 1
    <3>1. n # 0 => n \in 1 .. n
      BY <1>1
    <3> QED
      BY <2>1, <3>1, <1>1, <1>2, <1>6, <1>8
  <2>2. CASE i \in 1 .. n
    <3>1. i # 1 => i - 1 \in 1 .. n
      BY <2>2, <1>1
    <3> QED
      BY <2>2, <3>1, <1>1, <1>4, <1>6 DEF Lineage
  <2> QED
    BY <2>1, <2>2, <1>1
<1>11. Distinct(t)'
  <2>1. \A i \in 1 .. n : chunks[t][i] # turn
    BY <1>2, <1>3, <1>7
  <2> QED
    <3>1. SUFFICES ASSUME NEW i \in 1 .. n + 1, NEW j \in 1 .. n + 1,
                          chunks'[t][i] = chunks'[t][j]
                   PROVE  i = j
      BY <1>6 DEF Distinct
    <3>2. CASE i \in 1 .. n /\ j \in 1 .. n
      BY <3>1, <3>2, <1>1, <1>4, <1>6 DEF Distinct
    <3>3. CASE i = n + 1 \/ j = n + 1
      BY <2>1, <3>1, <3>3, <1>1, <1>6
    <3> QED
      BY <3>2, <3>3, <1>1
<1> QED
  BY <1>9, <1>10, <1>11

LEMMA InitLineage == Init => IInv
<1> SUFFICES ASSUME Init PROVE IInv
  OBVIOUS
<1>1. TypeOK
  BY InitType
<1>2. EntriesTrue
  BY DEF Init, EntriesTrue
<1>3. ASSUME NEW t \in Turns PROVE WalkTrue(t) /\ Lineage(t) /\ Distinct(t)
  <2>1. chunks[t] = <<>> /\ DOMAIN chunks[t] = {} /\ pc[t] = "new"
    BY DEF Init
  <2> QED
    BY <2>1 DEF WalkTrue, Lineage, Distinct
<1> QED
  BY <1>1, <1>2, <1>3 DEF IInv

LEMMA NextLineage == IInv /\ [Next]_vars => IInv'
<1> SUFFICES ASSUME IInv, [Next]_vars PROVE IInv'
  OBVIOUS
<1>0. TypeOK /\ TypeOK'
  BY NextType DEF IInv
<1>1. CASE UNCHANGED vars
  <2>1. Settled
    BY <1>1 DEF Settled, vars
  <2>2. EntriesTrue'
    BY <1>1, <2>1, EntriesFrame DEF vars, store
  <2> QED
    BY <1>0, <1>1, <2>1, <2>2, Frame DEF vars
<1>2. CASE Tick
  <2>1. Settled
    BY <1>2 DEF Settled, Tick
  <2>2. EntriesTrue'
    BY <1>2, <2>1, EntriesFrame DEF Tick, store
  <2> QED
    BY <1>0, <1>2, <2>1, <2>2, Frame DEF Tick
<1>3. ASSUME NEW t \in Turns, Arrive(t) PROVE IInv'
  <2>1. PICK prev : /\ cited' = [cited EXCEPT ![t] = prev]
                    /\ cur' = [cur EXCEPT ![t] = prev]
    BY <1>3 DEF Arrive
  <2>2. /\ pc[t] = "new" /\ pc' = [pc EXCEPT ![t] = "walk"]
        /\ UNCHANGED <<now, store, chunks, seen, given>>
    BY <1>3 DEF Arrive
  <2>3. Settled
    BY <1>0, <2>1, <2>2 DEF Settled, TypeOK
  <2>4. EntriesTrue'
    BY <2>2, <2>3, EntriesFrame DEF store
  <2> QED
    BY <1>0, <2>1, <2>2, <2>3, <2>4, Frame DEF TypeOK
<1>4. ASSUME NEW t \in Turns, WalkStep(t) PROVE IInv'
  <2>1. /\ cur[t] \in Ids /\ Touch(cur[t])
        /\ cited' = cited /\ given' = given /\ pc[t] = "walk"
    BY <1>0, <1>4 DEF WalkStep, WalkGoesOn, TypeOK
  <2>2. /\ DOMAIN entries' \subseteq DOMAIN entries
        /\ \A k \in DOMAIN entries' : entries'[k] = entries[k]
    BY <1>0, <2>1, TouchKeeps
  <2>3. Settled
    BY <1>0, <1>4, <2>1 DEF Settled, WalkStep, TypeOK
  <2>4. EntriesTrue'
    BY <2>2, <2>3, EntriesFrame
  <2>5. ASSUME NEW u \in Turns, u # t
        PROVE  WalkTrue(u)' /\ Lineage(u)' /\ Distinct(u)'
    <3>1. /\ chunks'[u] = chunks[u] /\ seen'[u] = seen[u]
          /\ cur'[u] = cur[u] /\ pc'[u] = pc[u]
      BY <1>0, <1>4, <2>5 DEF WalkStep, TypeOK
    <3>2. \A i \in DOMAIN chunks[u] : chunks[u][i] \in Turns
      BY <1>0 DEF TypeOK
    <3>3. WalkTrue(u) /\ Lineage(u) /\ Distinct(u)
      BY DEF IInv
    <3>4. WalkTrue(u)'
      BY <3>1, <3>2, <3>3, <2>1, <2>3 DEF WalkTrue, Settled
    <3> QED
      BY <3>1, <3>3, <3>4, <2>1 DEF Lineage, Distinct
  <2>6. WalkTrue(t)' /\ Lineage(t)' /\ Distinct(t)'
    <3>1. CASE Hit(cur[t])
      BY <1>0, <1>4, <3>1, Found
    <3>2. CASE ~Hit(cur[t])
      <4>1. /\ chunks' = chunks /\ pc' = [pc EXCEPT ![t] = "answer"]
            /\ seen' = [seen EXCEPT ![t] = seen[t] \cup {cur[t]}]
        BY <1>4, <3>2 DEF WalkStep
      <4>2. pc'[t] = "answer" /\ seen[t] \subseteq seen'[t]
        BY <1>0, <4>1 DEF TypeOK
      <4>3. \A i \in DOMAIN chunks[t] : chunks[t][i] \in Turns
        BY <1>0 DEF TypeOK
      <4>4. WalkTrue(t) /\ Lineage(t) /\ Distinct(t)
        BY DEF IInv
      <4>5. WalkTrue(t)'
        BY <4>1, <4>2, <4>3, <4>4, <2>1, <2>3 DEF WalkTrue, Settled
      <4> QED
        BY <4>1, <4>4, <4>5, <2>1 DEF Lineage, Distinct
    <3> QED
      BY <3>1, <3>2
  <2> QED
    BY <1>0, <2>4, <2>5, <2>6 DEF IInv
<1>5. ASSUME NEW t \in Turns, WalkEnds(t) PROVE IInv'
  <2>1. /\ pc[t] = "walk" /\ pc' = [pc EXCEPT ![t] = "answer"]
        /\ UNCHANGED <<now, store, cited, cur, chunks, seen, given>>
    BY <1>5 DEF WalkEnds
  <2>2. Settled
    BY <1>0, <2>1 DEF Settled, TypeOK
  <2>3. EntriesTrue'
    BY <2>1, <2>2, EntriesFrame DEF store
  <2> QED
    BY <1>0, <2>1, <2>2, <2>3, Frame DEF TypeOK
<1>6. ASSUME NEW t \in Turns, AnswerJson(t) PROVE IInv'
  <2>1. PICK id \in Ids : /\ given' = [given EXCEPT ![t] = id]
                          /\ Put(id, t, cited[t]) \/ UNCHANGED store
    BY <1>6 DEF AnswerJson
  <2>2. /\ pc[t] = "answer" /\ pc' = [pc EXCEPT ![t] = "over"]
        /\ UNCHANGED <<now, cited, cur, chunks, seen>>
    BY <1>6 DEF AnswerJson
  <2>3. Settled
    BY <1>0, <2>1, <2>2 DEF Settled, TypeOK
  <2>4. pc'[t] = "over" /\ given'[t] = id /\ cited'[t] = cited[t]
    BY <1>0, <2>1, <2>2 DEF TypeOK
  <2>5. EntriesTrue'
    <3>1. CASE Put(id, t, cited[t])
      BY <3>1, <2>2, <2>3, <2>4, EntriesPut
    <3>2. CASE UNCHANGED store
      BY <3>2, <2>3, EntriesFrame DEF store
    <3> QED
      BY <2>1, <3>1, <3>2
  <2> QED
    BY <1>0, <2>2, <2>3, <2>5, Frame DEF TypeOK
<1>7. ASSUME NEW t \in Turns, AnswerStream(t) PROVE IInv'
  <2>1. /\ pc[t] = "answer" /\ pc' = [pc EXCEPT ![t] = "stream"]
        /\ UNCHANGED <<now, store, cited, cur, chunks, seen>>
        /\ \E id \in Ids : given' = [given EXCEPT ![t] = id]
    BY <1>7 DEF AnswerStream
  <2>2. Settled
    BY <1>0, <2>1 DEF Settled, TypeOK
  <2>3. EntriesTrue'
    BY <2>1, <2>2, EntriesFrame DEF store
  <2> QED
    BY <1>0, <2>1, <2>2, <2>3, Frame DEF TypeOK
<1>8. ASSUME NEW t \in Turns, StreamEnds(t) PROVE IInv'
  <2>1. /\ pc[t] = "stream" /\ pc' = [pc EXCEPT ![t] = "over"]
        /\ UNCHANGED <<now, cited, cur, chunks, seen, given>>
        /\ Put(given[t], t, cited[t]) \/ UNCHANGED store
    BY <1>8 DEF StreamEnds
  <2>2. Settled
    BY <1>0, <2>1 DEF Settled, TypeOK
  <2>3. /\ given[t] \in Ids /\ pc'[t] = "over" /\ given'[t] = given[t]
        /\ cited'[t] = cited[t]
    BY <1>0, <2>1 DEF TypeOK
  <2>4. EntriesTrue'
    <3>1. CASE Put(given[t], t, cited[t])
      BY <3>1, <2>1, <2>2, <2>3, EntriesPut
    <3>2. CASE UNCHANGED store
      BY <3>2, <2>2, EntriesFrame DEF store
    <3> QED
      BY <2>1, <3>1, <3>2
  <2> QED
    BY <1>0, <2>1, <2>2, <2>4, Frame DEF TypeOK
<1>9. ASSUME NEW t \in Turns, NotCaptured(t) PROVE IInv'
  <2>1. /\ pc[t] \in {"walk", "answer", "stream"} /\ pc' = [pc EXCEPT ![t] = "over"]
        /\ UNCHANGED <<now, store, cited, cur, chunks, seen, given>>
    BY <1>9 DEF NotCaptured
  <2>2. Settled
    BY <1>0, <2>1 DEF Settled, TypeOK
  <2>3. EntriesTrue'
    BY <2>1, <2>2, EntriesFrame DEF store
  <2> QED
    BY <1>0, <2>1, <2>2, <2>3, Frame DEF TypeOK
<1>10. CASE Over
  BY <1>10, <1>1 DEF Over
<1> QED
  BY <1>1, <1>2, <1>3, <1>4, <1>5, <1>6, <1>7, <1>8, <1>9, <1>10
     DEF Next, Turn, Walk

\* The items stitched in front of a turn are consecutive answers of one
\* conversation, none of them twice, whatever the store loses meanwhile.
THEOREM LineageTheorem == Spec => []ChainIsLineage
<1>1. IInv => ChainIsLineage
  BY DEF IInv, ChainIsLineage, Distinct
<1> QED
  BY <1>1, InitLineage, NextLineage, PTL DEF Spec

(* ---- room ----------------------------------------------------------------- *)

\* R puts the elements of S in one strict order.
Orders(R, S) ==
  /\ \A a \in S : <<a, a>> \notin R
  /\ \A a, b \in S : a # b => <<a, b>> \in R \/ <<b, a>> \in R
  /\ \A a, b, c \in S : <<a, b>> \in R /\ <<b, c>> \in R => <<a, c>> \in R

\* What the dict's order of insertion and the bound on its size come to.
StoreInOrder ==
  /\ IsFiniteSet(DOMAIN entries) /\ Cardinality(DOMAIN entries) <= MaxThreads
  /\ Orders(older, DOMAIN entries)

RInv == TypeOK /\ StoreInOrder

\* Of two entries the one used earlier has the other, and all that the other
\* has, among the more recent ones.
LEMMA FewerMoreRecent ==
  ASSUME NEW S, IsFiniteSet(S), Orders(older, S),
         NEW a \in S, NEW b \in S, <<a, b>> \in older
  PROVE  Cardinality(MoreRecent(b, S)) < Cardinality(MoreRecent(a, S))
<1>1. /\ MoreRecent(a, S) \in SUBSET S /\ MoreRecent(b, S) \in SUBSET MoreRecent(a, S)
      /\ b \in MoreRecent(a, S) /\ b \notin MoreRecent(b, S)
  BY DEF Orders, MoreRecent
<1>2. IsFiniteSet(MoreRecent(a, S))
  BY <1>1, FS_Subset
<1>3. IsFiniteSet(MoreRecent(b, S)) /\ Cardinality(MoreRecent(b, S)) <= Cardinality(MoreRecent(a, S))
      /\ Cardinality(MoreRecent(b, S)) # Cardinality(MoreRecent(a, S))
  BY <1>1, <1>2, FS_Subset
<1>4. Cardinality(MoreRecent(a, S)) \in Nat /\ Cardinality(MoreRecent(b, S)) \in Nat
  BY <1>2, <1>3, FS_CardinalityType
<1> QED
  BY <1>3, <1>4

\* Those with fewer than n entries more recent than themselves are at most n,
\* and exactly n when that leaves anybody out.
LEMMA MostRecent ==
  ASSUME NEW S, IsFiniteSet(S), Orders(older, S), NEW n \in Nat,
         NEW kept, kept = {k \in S : Cardinality(MoreRecent(k, S)) < n}
  PROVE  /\ IsFiniteSet(kept) /\ Cardinality(kept) <= n
         /\ kept # S => Cardinality(kept) = n
         /\ \A k \in S : Cardinality(MoreRecent(k, S)) \in 0 .. Cardinality(S) - 1
<1> DEFINE N == Cardinality(S)
           rank == [k \in S |-> Cardinality(MoreRecent(k, S))]
           low  == [k \in kept |-> rank[k]]
<1>1. N \in Nat
  BY FS_CardinalityType
<1>2. ASSUME NEW k \in S PROVE rank[k] \in 0 .. N - 1
  <2>1. MoreRecent(k, S) \in SUBSET S /\ k \notin MoreRecent(k, S)
    BY DEF MoreRecent, Orders
  <2>2. IsFiniteSet(MoreRecent(k, S)) /\ Cardinality(MoreRecent(k, S)) <= N
        /\ Cardinality(MoreRecent(k, S)) # N
    BY <2>1, FS_Subset
  <2>3. Cardinality(MoreRecent(k, S)) \in Nat
    BY <2>2, FS_CardinalityType
  <2> QED
    BY <2>2, <2>3, <1>1
<1>3. ASSUME NEW j \in S, NEW k \in S, rank[j] = rank[k] PROVE j = k
  <2>1. rank[j] \in Nat /\ rank[k] \in Nat
    BY <1>2
  <2>2. <<j, k>> \notin older /\ <<k, j>> \notin older
    BY <2>1, <1>3, FewerMoreRecent
  <2> QED
    BY <2>2 DEF Orders
<1>4. rank \in Injection(S, 0 .. N - 1)
  <2>1. rank \in [S -> 0 .. N - 1]
    BY <1>2
  <2> HIDE DEF rank
  <2> QED
    BY <2>1, <1>3 DEF Injection, IsInjective
<1>5. IsFiniteSet(0 .. N - 1) /\ Cardinality(0 .. N - 1) = N
  BY <1>1, FS_Interval
<1>6. rank \in Surjection(S, 0 .. N - 1)
  BY <1>4, <1>5, FS_Injection
<1>7. kept \subseteq S /\ \A k \in S : k \in kept <=> rank[k] < n
  OBVIOUS
<1> HIDE DEF rank
<1>8. low \in Injection(kept, 0 .. n - 1)
  <2>1. low \in [kept -> 0 .. n - 1]
    BY <1>1, <1>2, <1>7
  <2>2. \A j, k \in kept : low[j] = low[k] => j = k
    BY <1>3, <1>7
  <2> HIDE DEF low
  <2> QED
    BY <2>1, <2>2 DEF Injection, IsInjective
<1>9. IsFiniteSet(0 .. n - 1) /\ Cardinality(0 .. n - 1) = n
  BY FS_Interval
<1>10. /\ IsFiniteSet(kept) /\ Cardinality(kept) <= n
       /\ Cardinality(kept) = n <=> low \in Surjection(kept, 0 .. n - 1)
  <2> HIDE DEF low
  <2> QED
    BY <1>8, <1>9, FS_Injection
<1>11. ASSUME kept # S PROVE Cardinality(kept) = n
  <2>1. PICK x \in S : rank[x] >= n
    BY <1>1, <1>2, <1>7, <1>11
  <2>2. ASSUME NEW i \in 0 .. n - 1 PROVE \E k \in kept : low[k] = i
    <3>1. i \in 0 .. N - 1
      BY <1>1, <1>2, <2>1
    <3>2. \E k \in S : rank[k] = i
      BY <1>6, <3>1 DEF Surjection
    <3> QED
      BY <3>2, <1>7
  <2>3. low \in [kept -> 0 .. n - 1]
    BY <1>8 DEF Injection
  <2>4. low \in Surjection(kept, 0 .. n - 1)
    <3> HIDE DEF low
    <3> QED
      BY <2>2, <2>3 DEF Surjection
  <2> QED
    BY <2>4, <1>10
<1>12. \A k \in S : Cardinality(MoreRecent(k, S)) \in 0 .. N - 1
  BY <1>2 DEF rank
<1> QED
  BY <1>10, <1>11, <1>12

\* The store as a put leaves it, and what it dropped to make room.
LEMMA PutMakesRoom ==
  ASSUME RInv, NEW id \in Ids, NEW turn, NEW prev, Put(id, turn, prev)
  PROVE  /\ StoreInOrder'
         /\ \A x \in DOMAIN entries \ DOMAIN entries' :
              \/ Expired(x)
              \/ /\ Cardinality(DOMAIN entries') = MaxThreads
                 /\ \A k \in MoreRecent(x, DOMAIN entries) : k \in DOMAIN entries' \/ Expired(k)
<1> DEFINE live == {k \in DOMAIN entries \ {id} : SweepDue => ~Expired(k)}
           kept == {k \in live : Cardinality(MoreRecent(k, live)) < MaxThreads - 1}
<1>1. /\ DOMAIN entries' = kept \cup {id}
      /\ older' = Among(kept) \cup (kept \X {id})
  BY DEF Put
<1>2. /\ live \in SUBSET DOMAIN entries /\ id \notin live
      /\ \A k \in DOMAIN entries \ live : k = id \/ Expired(k)
  OBVIOUS
<1>3. MaxThreads \in Nat /\ MaxThreads - 1 \in Nat
  BY ThreadStoreAssumption
<1> HIDE DEF live
<1>4. /\ IsFiniteSet(live) /\ Cardinality(live) <= Cardinality(DOMAIN entries)
      /\ Cardinality(live) \in Nat /\ Cardinality(DOMAIN entries) \in Nat
  BY <1>2, FS_Subset, FS_CardinalityType DEF RInv, StoreInOrder
<1>5. Orders(older, live)
  BY <1>2 DEF RInv, StoreInOrder, Orders
<1>6. kept \subseteq live
  OBVIOUS
<1>7. /\ IsFiniteSet(kept) /\ Cardinality(kept) <= MaxThreads - 1
      /\ kept # live => Cardinality(kept) = MaxThreads - 1
      /\ \A k \in live : Cardinality(MoreRecent(k, live)) \in 0 .. Cardinality(live) - 1
  <2>1. kept = {k \in live : Cardinality(MoreRecent(k, live)) < MaxThreads - 1}
    OBVIOUS
  <2> HIDE DEF kept
  <2> QED
    BY <2>1, <1>3, <1>4, <1>5, MostRecent
<1>8. /\ IsFiniteSet(DOMAIN entries')
      /\ Cardinality(DOMAIN entries') = Cardinality(kept) + 1
      /\ Cardinality(kept) \in Nat
  <2> HIDE DEF kept
  <2> QED
    BY <1>1, <1>2, <1>6, <1>7, FS_AddElement, FS_CardinalityType
<1>9. Orders(older', DOMAIN entries')
  <2> HIDE DEF kept
  <2> QED
    BY <1>1, <1>2, <1>5, <1>6 DEF Orders, Among
<1>10. ASSUME NEW x \in DOMAIN entries \ DOMAIN entries', ~Expired(x)
       PROVE  /\ Cardinality(DOMAIN entries') = MaxThreads
              /\ \A k \in MoreRecent(x, DOMAIN entries) : k \in DOMAIN entries' \/ Expired(k)
  <2>1. x \in live /\ x \notin kept
    <3> HIDE DEF kept
    <3> QED
      BY <1>1, <1>2, <1>10
  <2>2. Cardinality(DOMAIN entries') = MaxThreads
    <3> HIDE DEF kept
    <3> QED
      BY <2>1, <1>3, <1>7, <1>8
  <2>3. ASSUME NEW k \in MoreRecent(x, DOMAIN entries), k \in live PROVE k \in kept
    <3>1. Cardinality(MoreRecent(k, live)) < Cardinality(MoreRecent(x, live))
      BY <2>1, <2>3, <1>4, <1>5, FewerMoreRecent DEF MoreRecent
    <3>2. /\ Cardinality(MoreRecent(x, live)) \in 0 .. Cardinality(live) - 1
          /\ Cardinality(MoreRecent(k, live)) \in 0 .. Cardinality(live) - 1
      BY <1>7, <2>1, <2>3
    <3>3. Cardinality(live) <= MaxThreads
      BY <1>3, <1>4 DEF RInv, StoreInOrder
    <3>4. Cardinality(MoreRecent(k, live)) < MaxThreads - 1
      BY <3>1, <3>2, <3>3, <1>3, <1>4
    <3> QED
      BY <3>4, <2>3
  <2>4. MoreRecent(x, DOMAIN entries) \subseteq DOMAIN entries
    BY DEF MoreRecent
  <2> HIDE DEF kept
  <2> QED
    BY <2>2, <2>3, <2>4, <1>1, <1>2
<1>11. StoreInOrder'
  BY <1>3, <1>7, <1>8, <1>9 DEF StoreInOrder
<1> QED
  BY <1>10, <1>11

\* A lookup reorders the store and drops an expired entry at most.
LEMMA TouchDropsExpired ==
  ASSUME RInv, NEW id, Touch(id)
  PROVE  /\ StoreInOrder'
         /\ \A x \in DOMAIN entries \ DOMAIN entries' : Expired(x)
<1> DEFINE others == DOMAIN entries \ {id}
           left == IF Hit(id) THEN DOMAIN entries ELSE others
<1>1. /\ DOMAIN entries' = left
      /\ older' = Among(others) \cup (IF Hit(id) THEN others \X {id} ELSE {})
  BY DEF Touch
<1>2. /\ left \in SUBSET DOMAIN entries /\ left = others \cup (IF Hit(id) THEN {id} ELSE {})
      /\ \A x \in DOMAIN entries \ left : Expired(x)
  BY DEF Hit
<1>3. Orders(older, DOMAIN entries) /\ others \in SUBSET DOMAIN entries /\ id \notin others
  BY DEF RInv, StoreInOrder
<1> HIDE DEF left, others
<1>4. IsFiniteSet(left) /\ Cardinality(left) <= MaxThreads
  <2>1. IsFiniteSet(left) /\ Cardinality(left) <= Cardinality(DOMAIN entries)
    BY <1>2, FS_Subset DEF RInv, StoreInOrder
  <2>2. Cardinality(left) \in Nat /\ Cardinality(DOMAIN entries) \in Nat
    BY <2>1, FS_CardinalityType DEF RInv, StoreInOrder
  <2> QED
    BY <2>1, <2>2, ThreadStoreAssumption DEF RInv, StoreInOrder
<1>5. Orders(older', left)
  BY <1>1, <1>2, <1>3 DEF Orders, Among
<1> QED
  BY <1>1, <1>2, <1>4, <1>5 DEF StoreInOrder

Evicts ==
  /\ Cardinality(DOMAIN entries') <= MaxThreads
  /\ \A id \in DOMAIN entries \ DOMAIN entries' :
       \/ Expired(id)
       \/ /\ Cardinality(DOMAIN entries') = MaxThreads
          /\ \A k \in MoreRecent(id, DOMAIN entries) : k \in DOMAIN entries' \/ Expired(k)

\* Every step that touches the store touches it by one of the two.
LEMMA StoreSteps ==
  ASSUME TypeOK, [Next]_vars
  PROVE  \/ UNCHANGED store
         \/ \E id \in Ids : Touch(id)
         \/ \E id \in Ids, t \in Turns, prev \in Ids \cup {NoId} : Put(id, t, prev)
<1>1. ASSUME NEW t \in Turns, WalkStep(t) PROVE cur[t] \in Ids
  BY <1>1 DEF WalkStep, WalkGoesOn, TypeOK
<1>2. ASSUME NEW t \in Turns, StreamEnds(t) PROVE given[t] \in Ids /\ cited[t] \in Ids \cup {NoId}
  BY <1>2 DEF StreamEnds, TypeOK
<1>3. ASSUME NEW t \in Turns, AnswerJson(t) PROVE cited[t] \in Ids \cup {NoId}
  BY <1>3 DEF TypeOK
<1>4. CASE Tick \/ Over \/ UNCHANGED vars
  BY <1>4 DEF Tick, Over, vars
<1>5. ASSUME NEW t \in Turns, Turn(t)
      PROVE  \/ UNCHANGED store
             \/ \E id \in Ids : Touch(id)
             \/ \E id \in Ids, u \in Turns, prev \in Ids \cup {NoId} : Put(id, u, prev)
  <2>1. CASE WalkStep(t)
    BY <2>1, <1>1 DEF WalkStep
  <2>2. CASE StreamEnds(t)
    BY <2>2, <1>2 DEF StreamEnds
  <2>3. CASE AnswerJson(t)
    BY <2>3, <1>3 DEF AnswerJson
  <2>4. CASE Arrive(t) \/ WalkEnds(t) \/ AnswerStream(t) \/ NotCaptured(t)
    BY <2>4 DEF Arrive, WalkEnds, AnswerStream, NotCaptured
  <2> QED
    BY <1>5, <2>1, <2>2, <2>3, <2>4 DEF Turn, Walk
<1> QED
  BY <1>4, <1>5 DEF Next

LEMMA RoomStep == ASSUME RInv, [Next]_vars PROVE StoreInOrder' /\ Evicts
<1>1. CASE UNCHANGED store
  <2>1. entries' = entries /\ older' = older
    BY <1>1 DEF store
  <2> QED
    BY <2>1 DEF RInv, StoreInOrder, Evicts
<1>2. ASSUME NEW id \in Ids, Touch(id) PROVE StoreInOrder' /\ Evicts
  BY <1>2, TouchDropsExpired DEF Evicts, StoreInOrder
<1>3. ASSUME NEW id \in Ids, NEW t \in Turns, NEW prev \in Ids \cup {NoId}, Put(id, t, prev)
      PROVE  StoreInOrder' /\ Evicts
  BY <1>3, PutMakesRoom DEF Evicts, StoreInOrder
<1> QED
  BY <1>1, <1>2, <1>3, StoreSteps DEF RInv

\* For every number of turns and ids and every capacity: no interleaving of
\* lookups, answers and re-used ids overfills the store, and only an entry that
\* has expired, or the least recently used one of a full store, is ever dropped.
THEOREM RoomTheorem == Spec => EvictsOnlyForRoom
<1>1. Init => RInv
  <2>1. ASSUME Init PROVE StoreInOrder
    <3>1. DOMAIN entries = {} /\ older = {}
      BY <2>1 DEF Init
    <3> QED
      BY <3>1, FS_EmptySet, ThreadStoreAssumption DEF StoreInOrder, Orders
  <2> QED
    BY <2>1, InitType DEF RInv
<1>2. RInv /\ [Next]_vars => RInv'
  BY RoomStep, NextType DEF RInv
<1>3. RInv /\ [Next]_vars => [Evicts]_vars
  BY RoomStep
<1> QED
  BY <1>1, <1>2, <1>3, PTL DEF Spec, EvictsOnlyForRoom, Evicts
=============================================================================
