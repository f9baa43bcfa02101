---------------------------- MODULE ComboFallback ----------------------------
(***************************************************************************)
(* One chat request travelling through a fallback combo: the chain of      *)
(* leaves, the rotation over a leaf's connections, the nested calls of      *)
(* _process_chat_completion, and the exceptions that unwind through them    *)
(* when a pass over the chain is exhausted (src/app/main.py and             *)
(* src/app/routing/combo_resolver.py).                                      *)
(*                                                                          *)
(* The Python call stack is the sequence "frames": one record for every     *)
(* pass of _process_chat_completion_pass that is still waiting for a nested *)
(* one.  Its mode says where the nested call was made from, because that    *)
(* decides which except clause sees a _ComboWrapRestart:                    *)
(*   "dial"     the top frame, which is dialling its leaf;                  *)
(*   "try"      inside the try of the probe stage (or of the JSON lane);    *)
(*   "handler"  inside that try's except clause;                            *)
(*   "gen"      inside the generator of a stream already answered with 200, *)
(*              whose callers have all returned.                            *)
(* Two lanes of the function are modelled: "stream" (OpenAI and Anthropic   *)
(* streams, which probe the status before they answer) and "json".          *)
(***************************************************************************)
EXTENDS Integers, Sequences, FiniteSets, SequencesExt, Subsequences

CONSTANTS
  Leaves,         \* the (model, provider) pairs of the combo
  Providers,
  ProviderOf,     \* [Leaves -> Providers]
  Conns,          \* [Leaves -> set of eligible enabled connection indexes]
  Base,           \* the combo's configured chain, a sequence of leaves
  RetrySettings,  \* the values settings.combo_infinite_retry may have
  Lanes,          \* the lanes a request may take
  MaxDials,       \* bound: upstream calls within one pass
  MaxRestarts,    \* bound: passes after the first
  MaxChanges      \* bound: bans, lifts and removals while the request runs,
                  \* for either value of the setting

ASSUME ComboAssumption ==
  /\ ProviderOf \in [Leaves -> Providers]
  /\ Leaves \cap Providers = {}
  /\ Conns \in [Leaves -> (SUBSET Nat) \ {{}}]
  /\ \A l \in Leaves : IsFiniteSet(Conns[l])
  /\ Base \in Seq(Leaves) /\ ToSet(Base) = Leaves /\ Leaves # {}
  /\ RetrySettings \subseteq BOOLEAN /\ RetrySettings # {}
  /\ Lanes \subseteq {"stream", "json"} /\ Lanes # {}
  /\ MaxDials \in Nat /\ MaxRestarts \in Nat /\ MaxChanges \in [BOOLEAN -> Nat]

VARIABLES
  lane,      \* "stream" or "json", fixed by the request
  infinite,  \* settings.combo_infinite_retry, as the request reads it
  status,    \* leaf -> "ok", "timed" or "disabled" (bans), or "removed"
  frames,    \* the stack of passes, the innermost last
  pc,        \* "enter", "dial", "redial", "stream", "raise" or "over"
  state,     \* the _retry_state a call enters with, or a sentinel carries
  wall,      \* request.state.bsl_chain_wall_start is set
  outcome,   \* what the client got
  dials,     \* upstream calls in the current pass
  restarts,  \* sleeps between passes
  dialled,   \* history: leaf -> connections dialled in the current pass
  unwell,    \* history: leaves that were ever banned or removed
  unknown,   \* history: leaves that answered "no such model"
  walled,    \* history: a leaf answered with a terminal relay wall
  expired,   \* history: a clock cut a pass short
  changes    \* bans, lifts and removals so far

vars == <<lane, infinite, status, frames, pc, state, wall, outcome, dials, restarts,
          dialled, unwell, unknown, walled, expired, changes>>
history == <<dialled, unwell, unknown, walled, expired>>

(* ---- chains ----------------------------------------------------------- *)

MaxOf(S) == CHOOSE m \in S : \A n \in S : n <= m
MinOf(S) == CHOOSE m \in S : \A n \in S : m <= n
Least(m, n) == IF m <= n THEN m ELSE n
Most(m, n) == IF m <= n THEN n ELSE m

Widest(chain) == MaxOf({Cardinality(Conns[chain[i]]) : i \in DOMAIN chain})

\* How often a chain of n leaves is repeated, the widest having that many keys.
Repeats(n, widest) == Least(Least(Most(2, widest), 6), Most(2, 24 \div n))

Expanded(chain) ==
  LET n == Len(chain)
  IN  [i \in 1 .. n * Repeats(n, Widest(chain)) |-> chain[((i - 1) % n) + 1]]

Configured == Keep(Base, {i \in DOMAIN Base : status[Base[i]] # "removed"})

Resolved ==
  LET healthy == Keep(Base, {i \in DOMAIN Base : status[Base[i]] = "ok"})
  IN  IF healthy # <<>> THEN healthy ELSE Configured

(* ---- retry states ----------------------------------------------------- *)

NoneTried == [w \in Leaves \cup Providers |-> {}]
Unset == [chain |-> <<>>, pos |-> 1, tried |-> NoneTried, fresh |-> TRUE]

LeafOf(s) == s.chain[s.pos]
TriedOn(s, l) == IF s.tried[l] # {} THEN s.tried[l] ELSE s.tried[ProviderOf[l]]
Untried(s, l) == Conns[l] \ TriedOn(s, l)

\* advance_combo_retry skips removed leaves, and banned ones unless this
\* request has dialled some of the leaf's keys and not yet all of them.
Skipped(s, p) ==
  LET l == s.chain[p]
  IN  \/ status[l] = "removed"
      \/ status[l] # "ok" /\ (TriedOn(s, l) = {} \/ Untried(s, l) = {})

\* MUTANT: the advance starts after the entry it was handed.
LandingsPast(s) == {p \in s.pos + 1 .. Len(s.chain) : ~Skipped(s, p)}

Landings(s) == {p \in s.pos .. Len(s.chain) : ~Skipped(s, p)}

\* The ban check that follows the chain override.
BanBlocks(s, healthySibling) ==
  LET l == LeafOf(s)
  IN  \/ status[l] = "disabled"
      \/ status[l] = "timed" /\ ~ IF TriedOn(s, l) # {}
                                  THEN Untried(s, l) # {}
                                  ELSE healthySibling /\ Cardinality(Conns[l]) > 1

\* resolve_active_connection without the tried keys; when none is left it is
\* asked again without the filter.
Picks(s) ==
  LET l == LeafOf(s) IN IF Untried(s, l) # {} THEN Untried(s, l) ELSE Conns[l]

HasNext(f) == f.s.pos < Len(f.s.chain)
HasSibling(f) == Untried(f.s, LeafOf(f.s)) \ {f.key} # {}

\* MUTANT: the tried keys of the caller are not carried over.
NextStateForgets(f, modelUnknown) ==
  LET l     == LeafOf(f.s)
      stays == ~modelUnknown /\ Conns[l] \ {f.key} # {}
  IN  [chain  |-> f.s.chain,
       pos    |-> IF stays THEN f.s.pos ELSE f.s.pos + 1,
       tried  |-> [NoneTried EXCEPT ![l] = {f.key}],
       fresh  |-> FALSE]

\* The state a failed frame hands to the nested pass: same entry while the
\* leaf has an untried key, the next entry otherwise.
NextState(f, modelUnknown) ==
  LET l     == LeafOf(f.s)
      mine  == TriedOn(f.s, l) \cup {f.key}
      stays == ~modelUnknown /\ Conns[l] \ mine # {}
  IN  [chain  |-> f.s.chain,
       pos    |-> IF stays THEN f.s.pos ELSE f.s.pos + 1,
       tried  |-> [f.s.tried EXCEPT ![l] = mine,
                                    ![ProviderOf[l]] = IF stays THEN mine ELSE {}],
       fresh  |-> FALSE]

\* _combo_restart_or_give_up: the state of the next pass.
WrapState(s) ==
  [chain  |-> IF Configured # <<>> THEN Expanded(Resolved) ELSE s.chain,
   pos    |-> 1,
   tried  |-> NoneTried,
   fresh  |-> FALSE]

(* ---- results of a pass ------------------------------------------------ *)

Top == Last(frames)

\* A response travels up through every waiting caller and ends the request.
Answer(what) ==
  /\ outcome' = what /\ pc' = "over"
  /\ frames' = <<>> /\ state' = Unset
  /\ UNCHANGED <<lane, infinite, status, wall, restarts, unwell, changes>>

\* The top frame is left by a sentinel that carries the next pass.
Throw(s) ==
  /\ frames' = Front(frames) /\ state' = WrapState(s) /\ pc' = "raise"
  /\ wall' = FALSE
  /\ UNCHANGED <<lane, infinite, status, outcome, restarts, unwell, changes>>

\* Sleep the backoff of the pass boundary and enter the next pass.
Restart(fs, s) ==
  /\ restarts < MaxRestarts
  /\ restarts' = restarts + 1
  /\ dials' = 0 /\ dialled' = [l \in Leaves |-> {}]
  /\ frames' = fs /\ state' = s /\ pc' = "enter"
  /\ UNCHANGED <<lane, infinite, status, outcome, unwell, unknown, walled, changes>>

Dial(k, out) ==
  LET l == LeafOf(Top.s)
  IN  /\ dials < MaxDials
      /\ dials' = dials + 1
      /\ dialled' = [dialled EXCEPT ![l] = @ \cup {k}]
      /\ unknown' = IF out = "unknown" THEN unknown \cup {l} ELSE unknown
      /\ walled' = (walled \/ out = "wall")
      /\ UNCHANGED expired

(* ---- entering a pass -------------------------------------------------- *)

Init ==
  /\ lane \in Lanes /\ infinite \in RetrySettings
  /\ status = [l \in Leaves |-> "ok"]
  /\ frames = <<>> /\ pc = "enter" /\ state = Unset
  /\ wall = FALSE /\ outcome = "none"
  /\ dials = 0 /\ restarts = 0
  /\ dialled = [l \in Leaves |-> {}] /\ unwell = {} /\ unknown = {}
  /\ walled = FALSE /\ expired = FALSE
  /\ changes = 0

\* The chain a call works on: its own expansion when it is the original
\* request, the snapshot of its caller otherwise.
Opened == IF state.fresh THEN [state EXCEPT !.chain = Expanded(Resolved)] ELSE state

EnterAnswered(what) ==
  /\ pc = "enter" /\ Answer(what) /\ UNCHANGED <<dials, history>>

EnterEmpty == Configured = <<>> /\ EnterAnswered("unavailable")

\* No entry is left to land on, or the wall clock of the request ran out.
EnterExhausted ==
  /\ pc = "enter" /\ ~state.fresh /\ Configured # <<>>
  /\ wall \/ Landings(state) = {}
  /\ expired' = (expired \/ Landings(state) # {})
  /\ UNCHANGED <<dials, dialled, unwell, unknown, walled>>
  /\ IF infinite
     THEN /\ pc' = "raise" /\ state' = WrapState(state) /\ wall' = FALSE
          /\ UNCHANGED <<lane, infinite, status, frames, outcome, restarts, changes>>
     ELSE Answer("error")

EnterLeaf ==
  /\ pc = "enter" /\ Configured # <<>>
  /\ state.fresh \/ Landings(state) # {}
  /\ \E healthySibling \in BOOLEAN :
       LET s == IF state.fresh THEN Opened
                ELSE [state EXCEPT !.pos = MinOf(Landings(state))]
       IN IF BanBlocks(s, healthySibling)
          THEN EnterAnswered("banned")
          ELSE /\ frames' = Append(frames, [s |-> s, key |-> 0, mode |-> "dial"])
               /\ pc' = "dial" /\ state' = Unset
               /\ wall' = (wall \/ (state.fresh /\ Len(s.chain) > Len(Resolved)))
               /\ UNCHANGED <<lane, infinite, status, outcome, dials, restarts,
                              history, changes>>

(* ---- dialling the leaf ------------------------------------------------ *)

\* frames with the picked key written into the top one.
Picked(k) == [frames EXCEPT ![Len(frames)].key = k]

\* MUTANT: the callers of a stream stay on the stack.
StreamingOverCallers(fs) == [fs EXCEPT ![Len(fs)].mode = "gen"]

\* Status 200.  A stream's response returns through every caller up to the
\* last generator; from there on the generator of this frame runs.
Streaming(fs) ==
  LET gens == Keep(fs, {i \in 1 .. Len(fs) - 1 : fs[i].mode = "gen"})
  IN  Append(gens, [Last(fs) EXCEPT !.mode = "gen"])

DialOk ==
  /\ pc = "dial"
  /\ \E k \in Picks(Top.s) :
       /\ Dial(k, "ok")
       /\ IF lane = "json"
          THEN Answer("served")
          ELSE /\ frames' = Streaming(Picked(k)) /\ pc' = "stream"
               /\ UNCHANGED <<lane, infinite, status, state, wall, outcome, restarts,
                              unwell, changes>>

\* The frame as its handlers see it once the key is picked.
Caller(k) == [Top EXCEPT !.key = k]
Advances(f) == HasNext(f) \/ HasSibling(f)

NestFrom(f, mode, s) ==
  /\ frames' = Append(Front(frames), [f EXCEPT !.mode = mode])
  /\ state' = s /\ pc' = "enter"
  /\ UNCHANGED <<lane, infinite, status, wall, outcome, restarts, unwell, changes>>

\* MUTANT: a terminal wall is retried like any other status.
NeverFinal(out) == FALSE

\* The JSON lane surfaces a terminal relay wall at once.
Final(out) == lane = "json" /\ out = "wall"

\* A status other than 200; "unknown" is a 404 that names the model, "wall" a
\* terminal relay wall.  Exhausted in the stream lane, the sentinel is raised
\* inside the probe's own try, whose handler finds nothing left either and
\* raises it anew.
DialRefused ==
  /\ pc = "dial"
  /\ \E k \in Picks(Top.s), out \in {"http", "unknown", "wall"} :
       LET f == Caller(k)
       IN  /\ Dial(k, out)
           /\ \/ Final(out) /\ Answer("wall")
              \/ /\ ~Final(out) /\ Advances(f)
                 /\ NestFrom(f, "try", NextState(f, out = "unknown"))
              \/ /\ lane = "json" /\ ~Final(out) /\ ~Advances(f) /\ Answer("error")
              \/ /\ lane = "stream" /\ ~Advances(f)
                 /\ IF infinite /\ out # "wall" THEN Throw(f.s)
                    ELSE Answer(IF out = "wall" THEN "wall" ELSE "error")

\* A transport error.  Without never-stop retry the exhausted stream lane
\* falls through to a generator that dials once more; in the JSON lane the
\* sentinel raised here meets the except clause of the enclosing try, which
\* answers with its text.
DialBroken ==
  /\ pc = "dial"
  /\ \E k \in Picks(Top.s) :
       LET f == Caller(k)
       IN  /\ Dial(k, "net")
           /\ \/ /\ Advances(f)
                 /\ NestFrom(f, IF lane = "json" THEN "try" ELSE "handler",
                             NextState(f, FALSE))
              \/ /\ ~Advances(f) /\ lane = "json"
                 /\ Answer(IF infinite THEN "sentinel" ELSE "error")
              \/ /\ ~Advances(f) /\ lane = "stream" /\ infinite /\ Throw(f.s)
              \/ /\ ~Advances(f) /\ lane = "stream" /\ ~infinite
                 /\ frames' = Streaming(Picked(k)) /\ pc' = "redial"
                 /\ UNCHANGED <<lane, infinite, status, state, wall, outcome, restarts,
                                unwell, changes>>

(* ---- the stream after its 200 ----------------------------------------- *)

\* MUTANT: the generator sends it until it gets a stream.
RedialAgain ==
  /\ pc = "redial"
  /\ \E out \in {"ok", "http"} :
       /\ Dial(Top.key, out)
       /\ pc' = IF out = "ok" THEN "stream" ELSE "redial"
       /\ UNCHANGED <<lane, infinite, status, frames, state, wall, outcome, restarts, unwell, changes>>

\* The generator of a frame whose probe broke sends the request itself.
Redial ==
  /\ pc = "redial"
  /\ \E out \in {"ok", "http"} :
       /\ Dial(Top.key, out)
       /\ IF out = "ok"
          THEN /\ pc' = "stream"
               /\ UNCHANGED <<lane, infinite, status, frames, state, wall, outcome, restarts, unwell, changes>>
          ELSE Answer("error")

\* The first content byte reaches the client: nothing falls back after it.
StreamEmits ==
  /\ pc = "stream" /\ Answer("served") /\ UNCHANGED <<dials, history>>

\* The stream dies before content.  A silent death (200 and no token) looks
\* only for a next entry; a mid-stream transport death also for a sibling key.
StreamFallsBack(silent) == HasNext(Top) \/ (~silent /\ HasSibling(Top))

StreamDies ==
  /\ pc = "stream"
  /\ \E silent \in BOOLEAN :
       StreamFallsBack(silent) /\ NestFrom(Top, "gen", NextState(Top, FALSE))
  /\ UNCHANGED <<dials, history>>

\* It dies with nothing to fall back to, or after its entry's budget.
\* _raise_combo_wrap carries the next pass to this frame's own catcher, or
\* returns to the terminal frames; a silent death past its budget goes there
\* directly.
StreamGivesUp ==
  /\ pc = "stream"
  /\ \E silent, inBudget \in BOOLEAN :
       /\ ~(StreamFallsBack(silent) /\ inBudget)
       /\ IF infinite /\ ~(silent /\ StreamFallsBack(silent))
          THEN Restart(frames, WrapState(Top.s)) /\ wall' = FALSE
          ELSE Answer("error") /\ UNCHANGED <<dials, dialled>>
       /\ expired' = (expired \/ ~inBudget)
       /\ UNCHANGED <<unwell, unknown, walled>>

(* ---- the sentinel unwinds --------------------------------------------- *)

\* No pass is waiting: the root loop sleeps and dispatches the next pass.
RootRestarts ==
  /\ pc = "raise" /\ frames = <<>>
  /\ Restart(<<>>, state) /\ UNCHANGED <<wall, expired>>

\* The except clause around a nested call takes the sentinel for a failure of
\* its own leaf: it marks its key, dials on if it can, or wraps anew (in the
\* JSON lane only once its per-entry budget is gone; it answers otherwise).
HandlerCatches ==
  /\ pc = "raise" /\ frames # <<>> /\ Top.mode = "try"
  /\ UNCHANGED <<dials, history>>
  /\ \E inBudget \in BOOLEAN :
       \/ Advances(Top) /\ inBudget /\ NestFrom(Top, "handler", NextState(Top, FALSE))
       \/ ~(Advances(Top) /\ inBudget) /\ (lane = "stream" \/ ~inBudget) /\ Throw(Top.s)
       \/ ~Advances(Top) /\ inBudget /\ lane = "json" /\ Answer("sentinel")

\* A call made from an except clause has no handler left in its frame.
HandlerPasses ==
  /\ pc = "raise" /\ frames # <<>> /\ Top.mode = "handler"
  /\ frames' = Front(frames)
  /\ UNCHANGED <<lane, infinite, status, pc, state, wall, outcome, dials, restarts,
                 history, changes>>

\* The catcher of a generator loops when its pass was the original request,
\* and re-raises otherwise; above the outermost generator there is only the
\* server.
GeneratorCatches ==
  /\ pc = "raise" /\ frames # <<>> /\ Top.mode = "gen"
  /\ IF Top.s.fresh THEN Restart(frames, state) /\ UNCHANGED <<wall, expired>>
     ELSE /\ UNCHANGED <<dials, history>>
          /\ IF Len(frames) = 1 THEN Answer("sentinel")
             ELSE /\ frames' = Front(frames)
                  /\ UNCHANGED <<lane, infinite, status, pc, state, wall, outcome, restarts, unwell, changes>>

(* ---- the environment -------------------------------------------------- *)

\* Other requests ban a leaf or the ban ends; an admin edits the combo.
StatusChanges ==
  /\ pc # "over" /\ changes < MaxChanges[infinite] /\ changes' = changes + 1
  /\ \E l \in Leaves, to \in {"ok", "timed", "disabled", "removed"} :
       /\ status[l] # to
       /\ status' = [status EXCEPT ![l] = to]
       /\ unwell' = unwell \cup {l}
  /\ UNCHANGED <<lane, infinite, frames, pc, state, wall, outcome, dials, restarts,
                 dialled, unknown, walled, expired>>

\* The client hangs up; CancelledError passes every except clause above.
Disconnect ==
  /\ pc # "over" /\ Answer("gone") /\ UNCHANGED <<dials, history>>

Over == pc = "over" /\ UNCHANGED vars

Step ==
  \/ EnterEmpty \/ EnterExhausted \/ EnterLeaf
  \/ DialOk \/ DialRefused \/ DialBroken \/ Redial
  \/ StreamEmits \/ StreamDies \/ StreamGivesUp
  \/ RootRestarts \/ HandlerCatches \/ HandlerPasses \/ GeneratorCatches

Next == Step \/ StatusChanges \/ Disconnect \/ Over

Spec == Init /\ [][Next]_vars

\* The event loop resumes a request whose upstream answers or times out:
\* every await of the lane is bounded by a timeout.  With never-stop retry a
\* request may sleep and dial for ever; nothing is assumed of it.
FairSpec == Spec /\ WF_vars(~infinite /\ Step)

(* ---- properties ------------------------------------------------------- *)

RetryStates ==
  [chain : Seq(Leaves), pos : Nat \ {0},
   tried : [Leaves \cup Providers -> SUBSET Nat], fresh : BOOLEAN]
Frames == [s : RetryStates, key : Nat, mode : {"dial", "try", "handler", "gen"}]
Outcomes == {"none", "served", "error", "wall", "banned", "unavailable", "sentinel", "gone"}

\* Type invariant; only the top frame dials, and only "gen" frames lie below a
\* generator that is running.
TypeOK ==
  /\ lane \in Lanes /\ infinite \in RetrySettings
  /\ status \in [Leaves -> {"ok", "timed", "disabled", "removed"}]
  /\ frames \in Seq(Frames)
  /\ pc \in {"enter", "dial", "redial", "stream", "raise", "over"}
  /\ state \in RetryStates
  /\ wall \in BOOLEAN /\ outcome \in Outcomes
  /\ dials \in 0 .. MaxDials /\ restarts \in 0 .. MaxRestarts
  /\ dialled \in [Leaves -> SUBSET Nat]
  /\ unwell \subseteq Leaves /\ unknown \subseteq Leaves
  /\ walled \in BOOLEAN /\ expired \in BOOLEAN /\ changes \in 0 .. MaxChanges[infinite]
  /\ pc = "dial" => frames # <<>> /\ Top.mode = "dial"
  /\ pc \in {"stream", "redial"} => \A i \in DOMAIN frames : frames[i].mode = "gen"

\* What one pass may cost: every entry of the chain once, however many leaves were
\* left out of it when it was expanded, and once more for every further key of a
\* leaf (and one call of a generator whose probe broke).
Longest == MaxOf({n * Repeats(n, Widest(Base)) : n \in 1 .. Len(Base)})
Keys == UNION {{l} \X Conns[l] : l \in Leaves}
ExtraKeys == Cardinality(Keys) - Cardinality(Leaves)
PassBound == Longest + ExtraKeys + 1

\* _process_chat_completion: "Chain-advance nesting remains bounded by the
\* (finite) expanded chain length", "exactly ONE pass", and "Stack depth is O(1)
\* in pass count".
PassIsShort == dials <= PassBound /\ Len(frames) <= PassBound

\* With never-stop retry off a pass over the chain makes at most one upstream call
\* per entry and key, and no more calls than that wait for one another.
PassIsBounded == ~infinite => PassIsShort

\* The keys a leaf has behind it: dialled on it, or on a leaf of its provider that
\* was banned or removed, whose tried keys the next leaf takes over.
Behind(l, calls) ==
  calls[l] \cup UNION {calls[m] : m \in {m \in unwell : ProviderOf[m] = ProviderOf[l]}}

Finished(l, calls) ==
  calls[l] # {} /\ (l \in unknown' \/ Conns[l] \subseteq Behind(l, calls))

\* A pass is given up (an error, a leaked sentinel, or the sleep before the
\* next pass) only after every leaf that was never banned or removed has been
\* dialled, and has no key left unless it denied knowing the model; the wall clock
\* excuses (combo_resolver.advance_combo_retry, _mark_conn_failed_for_retry).
PassIsComplete ==
  [][/\ restarts' > restarts =>
          expired' \/ \A l \in Leaves \ unwell : Finished(l, dialled)
     /\ outcome' \in {"error", "sentinel"} /\ outcome = "none" =>
          expired' \/ \A l \in Leaves \ unwell : Finished(l, dialled')]_vars

\* In the JSON lane nothing is dialled after a terminal relay wall
\* (_raise_combo_wrap: "must never be wrapped/retried - surface once and stop").
WallIsFinal == [][lane = "json" /\ walled => dials' = dials]_vars

\* With never-stop retry off every request is answered (a chain whose leaves all
\* fail terminates).
RequestEnds == <>(infinite \/ pc = "over")

\* _ComboWrapRestart: "Never reaches a client: every raise site is matched by
\* a catcher on the dispatch path".
SentinelContained == outcome # "sentinel"
=============================================================================
