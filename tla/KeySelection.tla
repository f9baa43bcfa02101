---------------------------- MODULE KeySelection ----------------------------
(***************************************************************************)
(* Which connection of an OAuth provider a chat request is sent on          *)
(* (src/app/utils/model_resolver.py _pick_connection and its filters,       *)
(* src/app/oauth_antiban.py AffinityStore and apply_affinity), with what    *)
(* moves the state the choice rests on: outcomes, rate-limit headers, the   *)
(* failover to a sibling key, and a save that moves the connections.        *)
(*                                                                         *)
(* Everything is keyed by the position of a connection in the provider's    *)
(* list, while a request picks from the snapshot of the configuration its   *)
(* pass began with.  The breaker is CircuitBreaker's subject: here it is    *)
(* the set of open keys, and where every key is open, in which case it      *)
(* hands over the least recently failed first, any of them may come first.  *)
(***************************************************************************)
EXTENDS Integers, FiniteSets, SequencesExt, Subsequences

CONSTANTS
  Accounts,     \* the connections' identities
  Positions,    \* their indices in the provider's list
  Sessions,     \* session keys
  Models,       \* models of the provider
  Allowed,      \* per model, its connection_indexes (all of them when unset)
  Requests,     \* requests that may be in flight together
  MaxSessions,  \* capacity of the AffinityStore
  Cycle,        \* a multiple of every pool's size: the cursors run modulo it
  MaxSaves      \* bound: saves of the configuration

ASSUME KeyAssumption ==
  /\ IsFiniteSet(Positions) /\ Positions \subseteq Nat
  /\ Allowed \in [Models -> SUBSET Positions]
  /\ MaxSessions \in Nat \ {0} /\ Cycle \in Nat \ {0} /\ MaxSaves \in Nat

VARIABLES
  mode,    \* the antiban switch and the provider's round_robin flag
  conf,    \* the live list: account and enabled flag per position
  out,     \* positions whose quota is known to be 0 % in an open window
  open,    \* <<model, position>>: the breaker is OPEN
  store,   \* AffinityStore._data, the least recently used entry first
  turn,    \* _PROVIDER_RR_STATE, per model
  cursor,  \* _SESSION_RR_CURSOR of the provider
  req,     \* the requests
  saves

vars == <<mode, conf, out, open, store, turn, cursor, req, saves>>

None == -1
Confs == {c \in [Positions -> [who : Accounts, enabled : BOOLEAN]] :
            \A i, j \in Positions : c[i].who = c[j].who => i = j}
Entries == [session : Sessions, index : Positions, fresh : BOOLEAN]
Idle == [state |-> "idle"]
Passes == [state : {"begun", "sent", "failed"}, session : Sessions, model : Models,
           snap : Confs, tried : SUBSET Positions, at : Positions \cup {None},
           tries : Nat]

Init ==
  /\ mode \in [sticky : BOOLEAN, rotate : BOOLEAN]
  /\ conf \in Confs
  /\ out = {} /\ open = {} /\ store = <<>>
  /\ turn = [m \in Models |-> 0] /\ cursor = 0
  /\ req = [r \in Requests |-> Idle] /\ saves = 0

(* ---- AffinityStore ------------------------------------------------------ *)

Of(s, st) == {k \in DOMAIN st : st[k].session = s}

\* pop: the entry of s, if it has one.
Without(s, st) == IF Of(s, st) = {} THEN st ELSE RemoveAt(st, CHOOSE k \in Of(s, st) : TRUE)

\* The live entry of s: none of another session, none that outlived its ttl.
Live(s, st) == {st[k] : k \in {n \in Of(s, st) : st[n].fresh}}

Bound(s, st) == IF Live(s, st) = {} THEN None ELSE (CHOOSE e \in Live(s, st) : TRUE).index

\* lookup moves a live entry to the recent end and drops an expired one.
Looked(s, st) ==
  IF Live(s, st) = {} THEN Without(s, st)
  ELSE Append(Without(s, st), CHOOSE e \in Live(s, st) : TRUE)

\* MUTANT: room is made before the session's own entry is replaced.
BindCrowded(s, i, st) ==
  LET room == IF Len(st) >= MaxSessions THEN Tail(st) ELSE st
  IN  Append(Without(s, room), [session |-> s, index |-> i, fresh |-> TRUE])

\* MUTANT: nothing is evicted.
BindUnbounded(s, i, st) == Append(Without(s, st), [session |-> s, index |-> i, fresh |-> TRUE])

Bind(s, i, st) ==
  LET new == Append(Without(s, st), [session |-> s, index |-> i, fresh |-> TRUE])
  IN  IF Len(new) > MaxSessions THEN Tail(new) ELSE new

(* ---- the filters of _pick_connection -------------------------------------- *)

OrAll(P, Q) == IF P = {} THEN Q ELSE P
Closed(m, P) == {i \in P : <<m, i>> \notin open}

\* Enabled in the pass's snapshot, authorised for the model, not among T.
Usable(q, T) == {i \in Allowed[q.model] \ T : q.snap[i].enabled}

\* The keys not tried yet, or all of them again when none is left.
Eligible(q) == OrAll(Usable(q, q.tried), Usable(q, {}))

\* filter_healthy_connections falls back on what it was given ...
Unbroken(q) == OrAll(Closed(q.model, Eligible(q)), Eligible(q))

\* ... and so does _filter_quota_exhausted_oauth.
Pool(q) == OrAll(Unbroken(q) \ out, Unbroken(q))

\* The quota filter lets go of an account of the session it has left out.
StoreAtPick(q) ==
  IF /\ mode.sticky /\ Unbroken(q) \ out # {}
     /\ Bound(q.session, store) \in Unbroken(q) \cap out
  THEN Without(q.session, store) ELSE store

BoundAtPick(q) == Bound(q.session, StoreAtPick(q))
Well(q) == Closed(q.model, Pool(q))

\* The n-th of P in the order of the list, however often n went round.
Turn(P, n) == Nth(P, n % Cardinality(P))

(* ---- a pass of a request --------------------------------------------------- *)

Begin(r) ==
  /\ req[r].state = "idle"
  /\ \E s \in Sessions, m \in Models :
       req' = [req EXCEPT ![r] = [state |-> "begun", session |-> s, model |-> m, snap |-> conf,
                                  tried |-> {}, at |-> None, tries |-> 0]]
  /\ UNCHANGED <<mode, conf, out, open, store, turn, cursor, saves>>

\* The next pass of a request that changes the key reads the configuration anew.
Again(r) ==
  /\ req[r].state = "failed"
  /\ req' = [req EXCEPT ![r].state = "begun", ![r].snap = conf]
  /\ UNCHANGED <<mode, conf, out, open, store, turn, cursor, saves>>

\* The request goes out on i; the provider's counter moves with every pick.
Send(r, i, st, new) ==
  /\ req' = [req EXCEPT ![r].state = "sent", ![r].at = i, ![r].tries = @ + 1]
  /\ store' = st
  /\ cursor' = IF new THEN (cursor + 1) % Cycle ELSE cursor
  /\ turn' = IF mode.rotate THEN [turn EXCEPT ![req[r].model] = (@ + 1) % Cycle] ELSE turn
  /\ UNCHANGED <<mode, conf, out, open, saves>>

NoKey(r) ==
  /\ req[r].state = "begun" /\ Eligible(req[r]) = {}
  /\ req' = [req EXCEPT ![r] = Idle]
  /\ UNCHANGED <<mode, conf, out, open, store, turn, cursor, saves>>

\* No affinity: the provider's rotation, or the first of the list.
PickFree(r) ==
  LET q == req[r] IN
  /\ q.state = "begun" /\ ~mode.sticky
  /\ \E i \in Pool(q) :
       /\ Well(q) # {} => i = IF mode.rotate THEN Turn(Well(q), turn[q.model]) ELSE Nth(Well(q), 0)
       /\ Send(r, i, store, FALSE)

\* MUTANT: the binding is followed wherever it leads.
PickBoundBlind(r) ==
  LET q == req[r] IN
  /\ q.state = "begun" /\ mode.sticky /\ Eligible(q) # {}
  /\ Bound(q.session, store) # None
  /\ Send(r, Bound(q.session, store), Looked(q.session, store), FALSE)

\* The session's account is in the pool and well.
PickBound(r) ==
  LET q == req[r] IN
  /\ q.state = "begun" /\ mode.sticky
  /\ BoundAtPick(q) \in Well(q)
  /\ Send(r, BoundAtPick(q), Looked(q.session, StoreAtPick(q)), FALSE)

\* It is not, or there is none: bind another.  Only a session without a binding
\* takes its turn among the accounts.
PickNew(r) ==
  LET q == req[r]
      unbound == mode.rotate /\ BoundAtPick(q) = None
      i == IF unbound THEN Turn(Well(q), cursor) ELSE Nth(Well(q), 0)
  IN  /\ q.state = "begun" /\ mode.sticky
      /\ Well(q) # {} /\ BoundAtPick(q) \notin Well(q)
      /\ Send(r, i, Bind(q.session, i, StoreAtPick(q)), unbound)

\* Every key is open: the binding is let go, and the least recently failed
\* key is tried all the same.
PickOpen(r) ==
  LET q == req[r] IN
  /\ q.state = "begun" /\ mode.sticky /\ Well(q) = {}
  /\ \E i \in Pool(q) :
       Send(r, i, IF BoundAtPick(q) \in Pool(q) THEN Without(q.session, store)
                  ELSE Looked(q.session, StoreAtPick(q)), FALSE)

\* _capture_rate_limit_headers, under the index the request went out on.
Headers(i) == out' \in {out, out \cup {i}, out \ {i}}

Answer(r) ==
  /\ req[r].state = "sent"
  /\ Headers(req[r].at)
  /\ open' = open \ {<<req[r].model, req[r].at>>}
  /\ req' = [req EXCEPT ![r] = Idle]
  /\ UNCHANGED <<mode, conf, store, turn, cursor, saves>>

\* MUTANT: the room for another key is counted without the keys tried.
FailUncounted(r) ==
  LET q == req[r]
      room == Usable(q, {}) # {}
  IN  /\ q.state = "sent"
      /\ Headers(q.at)
      /\ open' \in {open, open \cup {<<q.model, q.at>>}}
      /\ store' = IF mode.sticky THEN Without(q.session, store) ELSE store
      /\ \/ req' = [req EXCEPT ![r] = Idle]
         \/ room /\ req' = [req EXCEPT ![r].state = "failed", ![r].tried = @ \cup {q.at}, ![r].at = None]
      /\ UNCHANGED <<mode, conf, turn, cursor, saves>>

\* _mark_conn_failed_for_retry: the key is tried, the session is let go, and the
\* leaf is tried again on a sibling while there is one; an unknown model, or a
\* request without a chain, gives the leaf up at once.
Fail(r) ==
  LET q == req[r]
      room == Usable(q, q.tried \cup {q.at}) # {}
  IN  /\ q.state = "sent"
      /\ Headers(q.at)
      /\ open' \in {open, open \cup {<<q.model, q.at>>}}
      /\ store' = IF mode.sticky THEN Without(q.session, store) ELSE store
      /\ \/ req' = [req EXCEPT ![r] = Idle]
         \/ room /\ req' = [req EXCEPT ![r].state = "failed", ![r].tried = @ \cup {q.at}, ![r].at = None]
      /\ UNCHANGED <<mode, conf, turn, cursor, saves>>

(* ---- the configuration, the clock, the provider ----------------------------- *)

Moved(c) == {j \in Positions : \E i \in out : conf[i].who = c[j].who}

\* update_config: two connections change places, or one is switched on or off.
\* The quota follows the accounts, the breaker's entries stay where they are,
\* and everything sticky is dropped.
Save ==
  /\ saves < MaxSaves
  /\ \/ \E i, j \in Positions : i # j /\ conf' = [conf EXCEPT ![i] = conf[j], ![j] = conf[i]]
     \/ \E i \in Positions : conf' = [conf EXCEPT ![i].enabled = ~@]
  /\ out' = Moved(conf')
  /\ store' = <<>> /\ cursor' = 0 /\ turn' = [m \in Models |-> 0]
  /\ saves' = saves + 1
  /\ UNCHANGED <<mode, open, req>>

\* A binding outlives its ttl.
Age ==
  /\ \E k \in DOMAIN store : store[k].fresh /\ store' = [store EXCEPT ![k].fresh = FALSE]
  /\ UNCHANGED <<mode, conf, out, open, turn, cursor, req, saves>>

\* A cooldown runs out.
Recover ==
  /\ \E k \in open : open' = open \ {k}
  /\ UNCHANGED <<mode, conf, out, store, turn, cursor, req, saves>>

\* A window resets, or the quota poll finds one used up.
QuotaMoves ==
  /\ \E i \in Positions : Headers(i) /\ out' # out
  /\ UNCHANGED <<mode, conf, open, store, turn, cursor, req, saves>>

Pick(r) == PickFree(r) \/ PickBound(r) \/ PickNew(r) \/ PickOpen(r)

Next ==
  \/ \E r \in Requests : Begin(r) \/ Again(r) \/ NoKey(r) \/ Pick(r) \/ Answer(r) \/ Fail(r)
  \/ Save \/ Age \/ Recover \/ QuotaMoves

Spec == Init /\ [][Next]_vars

(* ---- properties --------------------------------------------------------------- *)

\* Every variable stays in its type; the store keeps within its capacity and
\* holds no session twice.
TypeOK ==
  /\ mode \in [sticky : BOOLEAN, rotate : BOOLEAN]
  /\ conf \in Confs /\ out \subseteq Positions /\ open \subseteq Models \X Positions
  /\ store \in Seq(Entries) /\ Len(store) <= MaxSessions
  /\ \A k, n \in DOMAIN store : store[k].session = store[n].session => k = n
  /\ turn \in [Models -> 0 .. Cycle - 1] /\ cursor \in 0 .. Cycle - 1
  /\ req \in [Requests -> Passes \cup {Idle}] /\ saves \in 0 .. MaxSaves

\* However the connections are moved, switched and re-enabled between its passes,
\* a request goes out at most once per key and once more before it gives the leaf
\* up.
TriesAreBounded ==
  \A r \in Requests : req[r].state # "idle" => req[r].tries <= Cardinality(Positions) + 1

\* What a key is worth to a request, worst to best.
Rank(q, i) == IF <<q.model, i>> \in open THEN 0 ELSE IF i \in out THEN 1 ELSE 2

GoesOut(r) == req[r].state = "begun" /\ req'[r].state = "sent"

\* Of the key a request goes out on.
BestKey(r) ==
  LET q == req[r]
      i == req'[r].at
      mine == Bound(q.session, store)
  IN  /\ i \in Eligible(q)
      /\ \A j \in Eligible(q) : Rank(q, i) >= Rank(q, j)
      /\ (mode.sticky /\ mine \in Eligible(q) /\ Rank(q, mine) = 2) => i = mine

\* The four filters together: a request goes out on a key its snapshot allows, an
\* untried one while there is one, and no other of these is better: an open key
\* only when all are, an exhausted one only when every closed one is; and of the
\* best, on its session's account if that is among them.
PickIsBest == [][\A r \in Requests : GoesOut(r) => BestKey(r)]_vars

\* Why a session may lose its account: a save, its age, a failure of a request of
\* its own, an account that a request of its own cannot use as well as another, or
\* a newcomer while the store is full.
Unwell(q) == Bound(q.session, store) \notin Eligible(q) \/ Rank(q, Bound(q.session, store)) < 2
Newcomer(q) == Bound(q.session, store) = None /\ Len(store) = MaxSessions
Cause(s) ==
  \/ saves' # saves
  \/ \E k \in DOMAIN store : store[k].fresh /\ store' = [store EXCEPT ![k].fresh = FALSE]
  \/ \E r \in Requests :
       \/ req[r].state = "sent" /\ req'[r] # req[r] /\ req[r].session = s
       \/ GoesOut(r) /\ IF req[r].session = s THEN Unwell(req[r]) ELSE Newcomer(req[r])

Rebound(s) == Bound(s, store) # None /\ Bound(s, store') # Bound(s, store)

\* A session changes its account for a cause only: whatever else happens, the
\* affinity store keeps a session on the account it is bound to.
BindingMovesForCause == [][\A s \in Sessions : Rebound(s) => Cause(s)]_vars
=============================================================================
