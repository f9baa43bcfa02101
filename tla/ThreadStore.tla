---------------------------- MODULE ThreadStore -----------------------------
(***************************************************************************)
(* Conversations threaded by previous_response_id: the bounded, expiring   *)
(* store of earlier answers, the walk that collects a chain of them in     *)
(* front of a new turn, and the capture of an answer on its way out        *)
(* (src/app/middleware/responses_thread_store.py and the /v1/responses     *)
(* endpoint of src/app/main.py).                                           *)
(*                                                                         *)
(* A turn stands for one request and for the output items of its answer.   *)
(* The store takes its lock once per lookup, so other turns put, expire    *)
(* and evict entries between two steps of a walk.                          *)
(***************************************************************************)
EXTENDS Integers, Sequences, FiniteSets

CONSTANTS
  Turns,          \* requests to /v1/responses
  Ids,            \* response ids
  NoId,           \* no previous_response_id
  MaxThreads,     \* entries the store holds
  Ttl,            \* TTL_SECONDS
  SweepInterval,  \* SWEEP_INTERVAL_SECONDS
  MaxChainDepth,  \* MAX_CHAIN_DEPTH
  MaxNow          \* bound: the clock

ASSUME ThreadStoreAssumption ==
  /\ NoId \notin Ids
  /\ MaxThreads \in Nat \ {0} /\ MaxChainDepth \in Nat \ {0}
  /\ Ttl \in Nat \ {0} /\ SweepInterval \in Nat \ {0}
  /\ MaxNow \in Nat

VARIABLES
  now,        \* time.monotonic()
  entries,    \* id -> the entry stored under it
  older,      \* the pairs of ids stored whose first was used before the second
  lastSweep,  \* when expired entries were last dropped
  pc,         \* turn -> "new", "walk", "answer", "stream" or "over"
  cited,      \* turn -> the previous_response_id it was sent with
  cur,        \* turn -> the next id its walk looks up
  chunks,     \* turn -> the turns collected so far, newest first
  seen,       \* turn -> the ids its walk has visited
  given       \* turn -> the id its client was given for the answer, or NoId

store == <<entries, older, lastSweep>>
vars == <<now, store, pc, cited, cur, chunks, seen, given>>

Phases == {"new", "walk", "answer", "stream", "over"}
Entry == [ts : 0 .. MaxNow, items : Turns, prev : Ids \cup {NoId}]

TypeOK ==
  /\ now \in 0 .. MaxNow /\ lastSweep \in 0 .. now
  /\ DOMAIN entries \subseteq Ids
  /\ \A id \in DOMAIN entries : entries[id] \in Entry
  /\ older \subseteq (DOMAIN entries) \X (DOMAIN entries)
  /\ pc \in [Turns -> Phases]
  /\ cited \in [Turns -> Ids \cup {NoId}]
  /\ cur \in [Turns -> Ids \cup {NoId}]
  /\ chunks \in [Turns -> Seq(Turns)]
  /\ seen \in [Turns -> SUBSET Ids]
  /\ given \in [Turns -> Ids \cup {NoId}]
  /\ \A t \in Turns : pc[t] = "stream" => given[t] # NoId

Init ==
  /\ now = 0 /\ lastSweep = 0
  /\ entries = [id \in {} |-> 0] /\ older = {}
  /\ pc = [t \in Turns |-> "new"]
  /\ cited = [t \in Turns |-> NoId] /\ cur = [t \in Turns |-> NoId]
  /\ chunks = [t \in Turns |-> <<>>] /\ seen = [t \in Turns |-> {}]
  /\ given = [t \in Turns |-> NoId]

(* ---- the store -------------------------------------------------------- *)

Expired(id) == now - entries[id].ts > Ttl

Among(S) == older \cap (S \X S)
MoreRecent(k, S) == {j \in S : <<k, j>> \in older}

SweepDue ==
  \/ now - lastSweep >= SweepInterval
  \/ Cardinality(DOMAIN entries) >= MaxThreads

\* Mutant: room is made before the old entry of the id is dropped.
PutEvictsFirst(id, turn, prev) ==
  LET live == {k \in DOMAIN entries : SweepDue => ~Expired(k)}
      kept == {k \in live : Cardinality(MoreRecent(k, live)) < MaxThreads - 1} \ {id}
  IN  /\ entries' = [k \in kept \cup {id} |->
                       IF k = id THEN [ts |-> now, items |-> turn, prev |-> prev]
                                 ELSE entries[k]]
      /\ older' = Among(kept) \cup (kept \X {id})
      /\ lastSweep' = IF SweepDue THEN now ELSE lastSweep

\* A put drops what has expired if a sweep is due, the old entry of the id, and
\* then the least recently used entries until one more fits.
Put(id, turn, prev) ==
  LET live == {k \in DOMAIN entries \ {id} : SweepDue => ~Expired(k)}
      kept == {k \in live : Cardinality(MoreRecent(k, live)) < MaxThreads - 1}
  IN  /\ entries' = [k \in kept \cup {id} |->
                       IF k = id THEN [ts |-> now, items |-> turn, prev |-> prev]
                                 ELSE entries[k]]
      /\ older' = Among(kept) \cup (kept \X {id})
      /\ lastSweep' = IF SweepDue THEN now ELSE lastSweep

Hit(id) == id \in DOMAIN entries /\ ~Expired(id)

\* Mutant: the entry is moved to the end before its age is looked at.
TouchMovesFirst(id) ==
  /\ entries' = [k \in DOMAIN entries \ (IF Hit(id) THEN {} ELSE {id}) |-> entries[k]]
  /\ older' = Among(DOMAIN entries \ {id}) \cup ((DOMAIN entries \ {id}) \X {id})
  /\ UNCHANGED lastSweep

\* A lookup moves a live entry to the end of the order and drops an expired one.
Touch(id) ==
  LET others == DOMAIN entries \ {id}
  IN  /\ entries' = [k \in (IF Hit(id) THEN DOMAIN entries ELSE others) |-> entries[k]]
      /\ older' = Among(others) \cup (IF Hit(id) THEN others \X {id} ELSE {})
      /\ UNCHANGED lastSweep

(* ---- a turn ----------------------------------------------------------- *)

\* A client cites an id it was given, or one from before a restart.  While the
\* feature is off (tools.responses_thread_store.enabled) no citation is read.
Arrive(t) ==
  /\ pc[t] = "new"
  /\ \E prev \in Ids \cup {NoId} :
       /\ cited' = [cited EXCEPT ![t] = prev]
       /\ cur' = [cur EXCEPT ![t] = prev]
  /\ pc' = [pc EXCEPT ![t] = "walk"]
  /\ UNCHANGED <<now, store, chunks, seen, given>>

\* Mutant: no guard against a ring.
WalkGoesOnUnguarded(t) == cur[t] # NoId /\ Len(chunks[t]) < MaxChainDepth

WalkGoesOn(t) ==
  /\ cur[t] # NoId
  /\ cur[t] \notin seen[t]
  /\ Len(chunks[t]) < MaxChainDepth

\* One lookup of collect_chain, under the store's lock.
WalkStep(t) ==
  /\ pc[t] = "walk" /\ WalkGoesOn(t)
  /\ seen' = [seen EXCEPT ![t] = @ \cup {cur[t]}]
  /\ IF Hit(cur[t])
     THEN /\ chunks' = [chunks EXCEPT ![t] = Append(@, entries[cur[t]].items)]
          /\ cur' = [cur EXCEPT ![t] = entries[cur[t]].prev]
          /\ UNCHANGED pc
     ELSE /\ pc' = [pc EXCEPT ![t] = "answer"]
          /\ UNCHANGED <<chunks, cur>>
  /\ Touch(cur[t])
  /\ UNCHANGED <<now, cited, given>>

\* The chain is complete: it goes in front of the input and upstream.
WalkEnds(t) ==
  /\ pc[t] = "walk" /\ ~WalkGoesOn(t)
  /\ pc' = [pc EXCEPT ![t] = "answer"]
  /\ UNCHANGED <<now, store, cited, cur, chunks, seen, given>>

\* A JSON answer gets a fresh id and is stored before the client sees it,
\* unless it has no items.
AnswerJson(t) ==
  /\ pc[t] = "answer"
  /\ \E id \in Ids \ {given[u] : u \in Turns} :
       /\ id \notin DOMAIN entries
       /\ id \notin {cited[u] : u \in Turns}
       /\ given' = [given EXCEPT ![t] = id]
       /\ \/ Put(id, t, cited[t])
          \/ UNCHANGED store
  /\ pc' = [pc EXCEPT ![t] = "over"]
  /\ UNCHANGED <<now, cited, cur, chunks, seen>>

\* The first chunk of a stream shows the client the upstream's own id, which
\* an upstream may have used before.
AnswerStream(t) ==
  /\ pc[t] = "answer"
  /\ \E id \in Ids : given' = [given EXCEPT ![t] = id]
  /\ pc' = [pc EXCEPT ![t] = "stream"]
  /\ UNCHANGED <<now, store, cited, cur, chunks, seen>>

\* The stream ran to its end, with or without items to keep.
StreamEnds(t) ==
  /\ pc[t] = "stream"
  /\ \/ Put(given[t], t, cited[t])
     \/ UNCHANGED store
  /\ pc' = [pc EXCEPT ![t] = "over"]
  /\ UNCHANGED <<now, cited, cur, chunks, seen, given>>

\* A client that hangs up, an upstream error, an answer that is passed through,
\* and one that finds the feature off store nothing.
NotCaptured(t) ==
  /\ pc[t] \in {"walk", "answer", "stream"}
  /\ pc' = [pc EXCEPT ![t] = "over"]
  /\ UNCHANGED <<now, store, cited, cur, chunks, seen, given>>

Tick ==
  /\ now < MaxNow
  /\ now' = now + 1
  /\ UNCHANGED <<store, pc, cited, cur, chunks, seen, given>>

Walk(t) == WalkStep(t) \/ WalkEnds(t)

Turn(t) ==
  \/ Arrive(t) \/ Walk(t) \/ AnswerJson(t) \/ AnswerStream(t)
  \/ StreamEnds(t) \/ NotCaptured(t)

Over == (\A t \in Turns : pc[t] = "over") /\ UNCHANGED vars

Next == Tick \/ Over \/ \E t \in Turns : Turn(t)

Spec == Init /\ [][Next]_vars

(* ---- properties ------------------------------------------------------- *)

\* t's chain so far names, from the newest back, the turns of its own
\* conversation: the first answered under the id that t cites, and each other
\* under the id that the one after it cites.
Lineage(t) ==
  \A i \in DOMAIN chunks[t] :
    given[chunks[t][i]] = IF i = 1 THEN cited[t] ELSE cited[chunks[t][i - 1]]

\* Whatever is put, evicted or expired between two lookups of collect_chain, and
\* although an upstream may use an id again, the items stitched in front of a
\* turn are consecutive answers of one conversation and no answer comes twice.
ChainIsLineage ==
  \A t \in Turns :
    /\ Lineage(t)
    /\ \A i, j \in DOMAIN chunks[t] : chunks[t][i] = chunks[t][j] => i = j

\* The store holds at most MaxThreads entries, and drops one that has not
\* expired only for room: the store is full after the step and keeps every entry
\* used more recently.  In particular storing an answer again evicts nobody.
EvictsOnlyForRoom ==
  [][/\ Cardinality(DOMAIN entries') <= MaxThreads
     /\ \A id \in DOMAIN entries \ DOMAIN entries' :
          \/ Expired(id)
          \/ /\ Cardinality(DOMAIN entries') = MaxThreads
             /\ \A k \in MoreRecent(id, DOMAIN entries) :
                  k \in DOMAIN entries' \/ Expired(k)]_vars
=============================================================================
