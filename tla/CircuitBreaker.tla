--------------------------- MODULE CircuitBreaker ---------------------------
(***************************************************************************)
(* The per-connection circuit breaker of app/circuit_breaker.py, for one   *)
(* provider.  Requests in flight pick a key through                        *)
(* filter_healthy_connections and report what became of it through         *)
(* record_outcome, possibly much later: a report may describe a dispatch   *)
(* made before the breaker tripped, before an administrator re-armed the   *)
(* key, or before the settings changed.                                    *)
(*                                                                         *)
(* The source stores absolute times.  The model stores, per key, the time  *)
(* left until open_until (`wait') and, per model, the order of the last    *)
(* failures, which is all that is_open and the fall-back sort look at.     *)
(***************************************************************************)
EXTENDS Integers, FiniteSets

CONSTANTS
    Conns,            \* indices into the provider's connections list
    Models,           \* models served by the provider
    RoundRobin,       \* the provider's round_robin flag
    Attempts,         \* slots for upstream attempts in flight
    Thresholds,       \* the values failure_threshold may be set to
    RecoveryTimeout,  \* recovery_timeout
    Resets,           \* explicit reset hints a 429 body may carry
    MaxCooldown,      \* the cap on an explicit reset (18000 s in the source)
    MaxFailures       \* bound: consecutive_failures saturates here

ASSUME ConnsAssumption == Conns \subseteq Nat /\ IsFiniteSet(Conns)
ASSUME RoundRobinAssumption == RoundRobin \in BOOLEAN
ASSUME ThresholdsAssumption ==
    /\ Thresholds \subseteq 1..MaxFailures
    /\ Thresholds # {}
ASSUME TimesAssumption ==
    /\ RecoveryTimeout \in Nat
    /\ MaxCooldown \in Nat
    /\ RecoveryTimeout <= MaxCooldown
    /\ Resets \subseteq Nat
ASSUME FailuresAssumption == MaxFailures \in Nat \ {0}

Keys == Models \X Conns

States == {"CLOSED", "OPEN", "HALF_OPEN"}

\* What _classify_for_breaker distinguishes.  "fault" stands for
\* server_error, timeout, network and unknown_error.
Classes == {"success", "neutral", "rate_limit", "auth", "fault"}

Entry == [state : States, failures : 0..MaxFailures, wait : 0..MaxCooldown]

NoAttempt == [key |-> <<>>, probe |-> FALSE]

VARIABLES
    breaker,       \* CircuitBreaker.state, a fresh entry standing for an absent one
    failedBefore,  \* <<k, l>>: the last failure of k precedes the last failure of l
    dim,           \* CircuitBreaker.dim, its key set
    settings,      \* the circuit_breaker section of the live config
    armed,         \* connections whose `enabled' flag is set in the config
    attempt        \* upstream attempts in flight

vars == <<breaker, failedBefore, dim, settings, armed, attempt>>

-----------------------------------------------------------------------------
(* One entry.                                                              *)

FreshEntry == [state |-> "CLOSED", failures |-> 0, wait |-> 0]

\* is_open answers True: skip this key.
Blocked(e) == e.state = "OPEN" /\ e.wait > 0

\* Mutants of the definition after them: the cooldown is not looked at; being
\* skipped starts the longest cooldown.
LapseAtOnce(e) == IF e.state = "OPEN" THEN [e EXCEPT !.state = "HALF_OPEN"] ELSE e
LapseRenews(e) ==
    CASE Blocked(e) -> [e EXCEPT !.wait = MaxCooldown]
      [] e.state = "OPEN" /\ e.wait = 0 -> [e EXCEPT !.state = "HALF_OPEN"]
      [] OTHER -> e

\* The side effect of is_open: an elapsed cooldown turns OPEN into HALF_OPEN.
Lapse(e) ==
    IF e.state = "OPEN" /\ e.wait = 0 THEN [e EXCEPT !.state = "HALF_OPEN"] ELSE e

Bump(n) == IF n < MaxFailures THEN n + 1 ELSE n

Trip(e, cooldown) ==
    [state |-> "OPEN", failures |-> Bump(e.failures), wait |-> cooldown]

\* Mutant: the cap is forgotten.
CooldownUncapped(class, reset) ==
    IF class = "rate_limit" /\ reset > RecoveryTimeout THEN reset ELSE RecoveryTimeout

\* An explicit reset counts only for a rate limit, only when it is longer
\* than recovery_timeout, and up to the cap.
Cooldown(class, reset) ==
    IF class = "rate_limit" /\ reset > RecoveryTimeout
    THEN IF reset < MaxCooldown THEN reset ELSE MaxCooldown
    ELSE RecoveryTimeout

\* Mutant: off by one at the threshold.
FaultLate(e, threshold) ==
    IF e.state = "HALF_OPEN" \/ (e.state = "CLOSED" /\ e.failures >= threshold)
    THEN Trip(e, RecoveryTimeout)
    ELSE [e EXCEPT !.failures = Bump(@)]

\* A server error, timeout or network fault.
Fault(e, threshold) ==
    IF \/ e.state = "HALF_OPEN"
       \/ e.state = "CLOSED" /\ Bump(e.failures) >= threshold
    THEN Trip(e, RecoveryTimeout)
    ELSE [e EXCEPT !.failures = Bump(@)]

Recorded(e, class, reset, threshold) ==
    CASE class = "success" -> [e EXCEPT !.state = "CLOSED", !.failures = 0]
      [] class \in {"rate_limit", "auth"} -> Trip(e, Cooldown(class, reset))
      [] class = "fault" -> Fault(e, threshold)
      [] class = "neutral" -> e

-----------------------------------------------------------------------------
(* Selection.                                                              *)

InUse(a) == attempt[a] # NoAttempt

\* Mutant: the probing keys are skipped, not the open ones.
HealthySkipsProbes(m, pool) == {c \in pool : breaker[<<m, c>>].state # "HALF_OPEN"}

\* filter_healthy_connections: the keys not blocked, or the whole pool when
\* every one of them is.
Healthy(m, pool) == {c \in pool : ~Blocked(breaker[<<m, c>>])}

Candidates(m, pool) ==
    IF ~settings.enabled \/ Healthy(m, pool) = {} THEN pool ELSE Healthy(m, pool)

\* The fall-back list starts with the least recently failed keys.
LeastRecentlyFailed(m, pool) ==
    {c \in pool : \A d \in pool : <<<<m, d>>, <<m, c>>>> \notin failedBefore}

\* Every key of the pool is asked is_open, which lets elapsed ones lapse.
Filtered(m, pool) ==
    [k \in Keys |->
        IF settings.enabled /\ k[1] = m /\ k[2] \in pool
        THEN Lapse(breaker[k]) ELSE breaker[k]]

-----------------------------------------------------------------------------
Init ==
    /\ breaker = [k \in Keys |-> FreshEntry]
    /\ failedBefore = {}
    /\ dim = {}
    /\ settings \in [enabled : BOOLEAN, threshold : Thresholds]
    /\ armed = Conns
    /\ attempt = [a \in Attempts |-> NoAttempt]

\* A request is dispatched on one of the keys the filter leaves.  With the
\* pool entirely blocked the list is sorted, and its head is taken unless the
\* provider rotates.
Dispatch(a, m) ==
    /\ ~InUse(a)
    /\ armed # {}
    /\ \E c \in Candidates(m, armed) :
        /\ (settings.enabled /\ Healthy(m, armed) = {} /\ ~RoundRobin)
              => c \in LeastRecentlyFailed(m, armed)
        /\ breaker' = Filtered(m, armed)
        /\ attempt' = [attempt EXCEPT ![a] =
              [key |-> <<m, c>>, probe |-> breaker'[<<m, c>>].state = "HALF_OPEN"]]
    /\ UNCHANGED <<failedBefore, dim, settings, armed>>

\* is_open asked without a dispatch: the ban check looking for a healthy
\* sibling, or the affinity filter looking at a bound account.
Peek(k) ==
    /\ settings.enabled
    /\ breaker' = [breaker EXCEPT ![k] = Lapse(@)]
    /\ UNCHANGED <<failedBefore, dim, settings, armed, attempt>>

\* record_outcome for key k, whose entry becomes e.
Outcome(k, class, e) ==
    IF ~settings.enabled \/ class = "neutral"
    THEN UNCHANGED <<breaker, failedBefore, dim>>
    ELSE /\ breaker' = [breaker EXCEPT ![k] = e]
         /\ dim' = CASE class = "success" -> dim \ {k[2]}
                     [] class \in {"rate_limit", "auth"} -> dim \cup {k[2]}
                     [] OTHER -> dim
         /\ failedBefore' =
                IF class = "success" THEN failedBefore
                ELSE {p \in failedBefore : p[1] # k}
                     \cup {<<l, k>> : l \in ({k[1]} \X Conns) \ {k}}

\* A provisional 200 is reported while the attempt goes on: an image task that
\* is accepted and polled afterwards, a stream logged before it is cut.
Provisional(a) ==
    /\ InUse(a)
    /\ LET k == attempt[a].key
       IN Outcome(k, "success", Recorded(breaker[k], "success", 0, settings.threshold))
    /\ UNCHANGED <<settings, armed, attempt>>

\* log_request reports the end of an attempt.
Finish(a, class, reset) ==
    /\ InUse(a)
    /\ LET k == attempt[a].key
       IN Outcome(k, class, Recorded(breaker[k], class, reset, settings.threshold))
    /\ attempt' = [attempt EXCEPT ![a] = NoAttempt]
    /\ UNCHANGED <<settings, armed>>

\* An attempt fails before its headers and the request can go on with a sibling
\* key or the next leaf: log_request reports the failure, and then
\* _mark_conn_failed_for_retry reports it again.
FailOver(a, class, reset) ==
    /\ InUse(a)
    /\ class # "success"
    /\ LET k == attempt[a].key
           Again(e) == Recorded(e, class, reset, settings.threshold)
       IN Outcome(k, class, Again(Again(breaker[k])))
    /\ attempt' = [attempt EXCEPT ![a] = NoAttempt]
    /\ UNCHANGED <<settings, armed>>

\* reset_all: the administrator closes every entry; last_failure_time stays.
ResetAll ==
    /\ breaker' = [k \in Keys |-> FreshEntry]
    /\ dim' = {}
    /\ UNCHANGED <<failedBefore, settings, armed, attempt>>

\* Mutant: the entries are forgotten, the dim is not.
ResetConnectionKeepsDim(c) ==
    /\ breaker' = [k \in Keys |-> IF k[2] = c THEN FreshEntry ELSE breaker[k]]
    /\ failedBefore' = {p \in failedBefore : p[1][2] # c /\ p[2][2] # c}
    /\ UNCHANGED <<dim, settings, armed, attempt>>

\* reset_connection: every entry of one connection is forgotten.
ResetConnection(c) ==
    /\ breaker' = [k \in Keys |-> IF k[2] = c THEN FreshEntry ELSE breaker[k]]
    /\ failedBefore' = {p \in failedBefore : p[1][2] # c /\ p[2][2] # c}
    /\ dim' = dim \ {c}
    /\ UNCHANGED <<settings, armed, attempt>>

\* The administrator flips the `enabled' flag of one connection.
Toggle(c) ==
    /\ armed' = IF c \in armed THEN armed \ {c} ELSE armed \cup {c}
    /\ UNCHANGED <<breaker, failedBefore, dim, settings, attempt>>

\* reconfigure: new settings, the accumulated health is kept.
Reconfigure(enabled, threshold) ==
    /\ settings' = [enabled |-> enabled, threshold |-> threshold]
    /\ settings' # settings
    /\ UNCHANGED <<breaker, failedBefore, dim, armed, attempt>>

\* A second passes.
Tick ==
    /\ \E k \in Keys : breaker[k].wait > 0
    /\ breaker' = [k \in Keys |->
            [breaker[k] EXCEPT !.wait = IF @ > 0 THEN @ - 1 ELSE 0]]
    /\ UNCHANGED <<failedBefore, dim, settings, armed, attempt>>

\* The process restarts: init_breaker starts from nothing.
Restart ==
    /\ breaker' = [k \in Keys |-> FreshEntry]
    /\ failedBefore' = {}
    /\ dim' = {}
    /\ attempt' = [a \in Attempts |-> NoAttempt]
    /\ UNCHANGED <<settings, armed>>

Next ==
    \/ \E a \in Attempts, m \in Models : Dispatch(a, m)
    \/ \E k \in Keys : Peek(k)
    \/ \E a \in Attempts, class \in Classes, reset \in Resets :
          Finish(a, class, reset) \/ FailOver(a, class, reset)
    \/ \E a \in Attempts : Provisional(a)
    \/ ResetAll
    \/ \E c \in Conns : ResetConnection(c) \/ Toggle(c)
    \/ \E enabled \in BOOLEAN, threshold \in Thresholds :
          Reconfigure(enabled, threshold)
    \/ Tick
    \/ Restart

Spec == Init /\ [][Next]_vars

\* Only time is fair: nobody owes the router a request or an answer.
FairSpec == Spec /\ WF_vars(Tick)

-----------------------------------------------------------------------------
TypeOK ==
    /\ breaker \in [Keys -> Entry]
    /\ failedBefore \subseteq Keys \X Keys
    /\ dim \subseteq Conns
    /\ settings \in [enabled : BOOLEAN, threshold : Thresholds]
    /\ armed \subseteq Conns
    /\ attempt \in [Attempts -> [key : Keys, probe : BOOLEAN] \cup {NoAttempt}]

\* The streak counter and the state of a key agree whatever the order in which
\* late reports, resets and new settings arrive: a CLOSED key has fewer
\* consecutive failures than the largest threshold that may be in force (no
\* failing key keeps its traffic for ever), a key taken out of CLOSED has failed
\* since its last success, and a probing key has no cooldown left.
EntryConsistent(e) ==
    /\ e.state = "CLOSED" => \E t \in Thresholds : e.failures < t
    /\ e.state # "CLOSED" => e.failures > 0
    /\ e.state = "HALF_OPEN" => e.wait = 0

StreakMatchesState == \A k \in Keys : EntryConsistent(breaker[k])

\* `dim' is kept apart from the entries (a row is dimmed per connection, health
\* is kept per model and connection), so nothing ties the two together but the
\* order of the updates: a dimmed row always has a tripped entry behind it.
DimHasTrippedKey ==
    \A c \in dim : \E m \in Models : breaker[<<m, c>>].state # "CLOSED"

\* A request lands on a key that is serving its cooldown only when every armed
\* key of the provider is.
BlockedOnlyWhenAllBlocked ==
    [][\A a \in Attempts :
          (~InUse(a) /\ attempt'[a] # NoAttempt /\ settings.enabled
             /\ Blocked(breaker[attempt'[a].key]))
          => \A c \in armed : Blocked(breaker[<<attempt'[a].key[1], c>>])]_vars

\* A cooldown is never cut short by the breaker itself: a key serving one is
\* unblocked only by the clock running out, or with its streak cleared (a reported
\* success, an administrator's reset, a restart).
CooldownHolds ==
    [][\A k \in Keys : Blocked(breaker[k]) /\ ~Blocked(breaker'[k]) =>
          \/ breaker[k].wait = 1 /\ breaker'[k].wait = 0 /\ breaker'[k].state = "OPEN"
          \/ breaker'[k].failures = 0]_vars

\* A blocked key is not blocked for ever behind the back of the traffic: it comes
\* out of its cooldown, or a request is tried on it.
NoKeyIsStarved ==
    \A k \in Keys : Blocked(breaker[k]) ~>
        (~Blocked(breaker[k]) \/ \E a \in Attempts : attempt[a].key = k)

\* "HALF_OPEN -- recovery probe in-flight; one request allowed to test".
SingleProbe ==
    \A k \in Keys : breaker[k].state = "HALF_OPEN" =>
        \A a, b \in Attempts :
            (attempt[a].key = k /\ attempt[a].probe
             /\ attempt[b].key = k /\ attempt[b].probe) => a = b
=============================================================================
