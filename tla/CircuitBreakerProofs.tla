------------------------ MODULE CircuitBreakerProofs ------------------------
(***************************************************************************)
(* Proofs about CircuitBreaker for every set of connections, models and    *)
(* attempts, every threshold and every cooldown.                           *)
(***************************************************************************)
EXTENDS CircuitBreaker, TLAPS

\* What one recorded outcome, elapsed cooldown or tick does to one entry.
Sound(e) == e \in Entry /\ EntryConsistent(e)

LEMMA PositiveThreshold == \E t \in Thresholds : 0 < t
<1>1. PICK t : t \in Thresholds
  BY ThresholdsAssumption
<1>2. t \in 1..MaxFailures
  BY <1>1, ThresholdsAssumption
<1>3. 0 < t
  BY <1>2, FailuresAssumption
<1> QED
  BY <1>1, <1>3

LEMMA FreshSound == Sound(FreshEntry)
<1>1. \E t \in Thresholds : 0 < t
  BY PositiveThreshold
<1>2. FreshEntry \in Entry
  BY TimesAssumption, FailuresAssumption DEF FreshEntry, Entry, States
<1>3. EntryConsistent(FreshEntry)
  BY <1>1 DEF FreshEntry, EntryConsistent
<1> QED
  BY <1>2, <1>3 DEF Sound

LEMMA LapseSound ==
  ASSUME NEW e, Sound(e)
  PROVE  Sound(Lapse(e)) /\ (e.state # "CLOSED" => Lapse(e).state # "CLOSED")
  BY DEF Sound, Lapse, Entry, States, EntryConsistent

LEMMA BumpType ==
  ASSUME NEW n \in 0..MaxFailures
  PROVE  Bump(n) \in 1..MaxFailures
  BY FailuresAssumption DEF Bump

LEMMA CooldownType ==
  ASSUME NEW class, NEW reset \in Nat
  PROVE  Cooldown(class, reset) \in 0..MaxCooldown
  BY TimesAssumption DEF Cooldown

LEMMA TripSound ==
  ASSUME NEW e, Sound(e), NEW cooldown \in 0..MaxCooldown
  PROVE  Sound(Trip(e, cooldown)) /\ Trip(e, cooldown).state = "OPEN"
<1>1. Bump(e.failures) \in 1..MaxFailures
  BY BumpType DEF Sound, Entry
<1> QED
  BY <1>1, FailuresAssumption DEF Sound, Trip, Entry, States, EntryConsistent

\* f is what recording an outcome of this class may make of entry e.
RecordedWell(e, class, f) ==
    /\ Sound(f)
    /\ class # "success" /\ e.state # "CLOSED" => f.state # "CLOSED"
    /\ class \in {"rate_limit", "auth"} => f.state = "OPEN"

LEMMA RecordedSound ==
  ASSUME NEW e, Sound(e), NEW class \in Classes, NEW reset \in Nat,
         NEW t \in Thresholds
  PROVE  RecordedWell(e, class, Recorded(e, class, reset, t))
<1> DEFINE f == Recorded(e, class, reset, t)
<1>1. CASE class = "success"
  <2>1. f = [e EXCEPT !.state = "CLOSED", !.failures = 0]
    BY <1>1 DEF Recorded
  <2>2. f \in Entry
    <3>1. e \in Entry /\ "CLOSED" \in States /\ 0 \in 0..MaxFailures
      BY FailuresAssumption DEF Sound, States
    <3> QED
      BY <2>1, <3>1 DEF Entry
  <2>3. f.state = "CLOSED" /\ f.failures = 0
    BY <2>1 DEF Sound, Entry
  <2>4. EntryConsistent(f)
    BY <2>3, PositiveThreshold DEF EntryConsistent
  <2> QED
    BY <1>1, <2>2, <2>4 DEF RecordedWell, Sound
<1>2. CASE class \in {"rate_limit", "auth"}
  <2>1. Recorded(e, class, reset, t) = Trip(e, Cooldown(class, reset))
    BY <1>2 DEF Recorded
  <2> QED
    BY <2>1, <1>2, TripSound, CooldownType DEF RecordedWell
<1>3. CASE class = "fault"
  <2>1. Recorded(e, class, reset, t) = Fault(e, t)
    BY <1>3 DEF Recorded
  <2>2. RecoveryTimeout \in 0..MaxCooldown
    BY TimesAssumption
  <2>3. CASE \/ e.state = "HALF_OPEN"
             \/ e.state = "CLOSED" /\ Bump(e.failures) >= t
    <3>1. Fault(e, t) = Trip(e, RecoveryTimeout)
      BY <2>3 DEF Fault
    <3> QED
      BY <3>1, <2>1, <2>2, <1>3, TripSound DEF RecordedWell
  <2>4. CASE ~(\/ e.state = "HALF_OPEN"
               \/ e.state = "CLOSED" /\ Bump(e.failures) >= t)
    <3>1. Fault(e, t) = [e EXCEPT !.failures = Bump(@)]
      BY <2>4 DEF Fault
    <3>2. Bump(e.failures) \in 1..MaxFailures
      BY BumpType DEF Sound, Entry
    <3>3. Fault(e, t) \in Entry
      BY <3>1, <3>2 DEF Sound, Entry
    <3>4. EntryConsistent(Fault(e, t))
      BY <3>1, <3>2, <2>4, ThresholdsAssumption, FailuresAssumption
         DEF Sound, Entry, States, EntryConsistent
    <3> QED
      BY <3>1, <3>3, <3>4, <2>1, <1>3 DEF RecordedWell, Sound, Entry
  <2> QED
    BY <2>3, <2>4
<1>4. CASE class = "neutral"
  BY <1>4 DEF Recorded, RecordedWell
<1> QED
  BY <1>1, <1>2, <1>3, <1>4 DEF Classes

-----------------------------------------------------------------------------
(* The inductive invariant.  The three parts need each other: a dimmed     *)
(* connection stays explained because recording a failure never closes a   *)
(* tripped entry, which is a fact about well-formed, consistent entries.   *)

IInv == TypeOK /\ StreakMatchesState /\ DimHasTrippedKey

AllSound(b) == b \in [Keys -> Entry] /\ \A k \in Keys : Sound(b[k])

LEMMA InvSound == IInv <=> /\ AllSound(breaker)
                           /\ TypeOK
                           /\ DimHasTrippedKey
  BY DEF IInv, AllSound, Sound, TypeOK, StreakMatchesState

LEMMA InitInv == Init => IInv
<1> SUFFICES ASSUME Init PROVE IInv
  OBVIOUS
<1>1. AllSound(breaker)
  BY FreshSound DEF Init, AllSound, Sound
<1>2. TypeOK
  BY <1>1 DEF Init, TypeOK, AllSound
<1>3. DimHasTrippedKey
  BY DEF Init, DimHasTrippedKey
<1> QED
  BY <1>1, <1>2, <1>3, InvSound

\* An outcome of a well-formed key keeps the three parts.
LEMMA OutcomeInv ==
  ASSUME IInv, NEW k \in Keys, NEW class \in Classes, NEW e,
         RecordedWell(breaker[k], class, e), Outcome(k, class, e)
  PROVE  /\ AllSound(breaker')
         /\ failedBefore' \subseteq Keys \X Keys
         /\ dim' \subseteq Conns
         /\ DimHasTrippedKey'
<1>0. /\ AllSound(breaker)
      /\ failedBefore \subseteq Keys \X Keys
      /\ dim \subseteq Conns
      /\ DimHasTrippedKey
  BY InvSound DEF TypeOK
<1>1. CASE ~settings.enabled \/ class = "neutral"
  <2>1. UNCHANGED <<breaker, failedBefore, dim>>
    BY <1>1 DEF Outcome
  <2> QED
    BY <2>1, <1>0 DEF DimHasTrippedKey
<1>2. CASE ~(~settings.enabled \/ class = "neutral")
  <2>1. breaker' = [breaker EXCEPT ![k] = e]
    BY <1>2 DEF Outcome
  <2>2. dim' = CASE class = "success" -> dim \ {k[2]}
                 [] class \in {"rate_limit", "auth"} -> dim \cup {k[2]}
                 [] OTHER -> dim
    BY <1>2 DEF Outcome
  <2>3. k[1] \in Models /\ k[2] \in Conns /\ k = <<k[1], k[2]>>
    BY DEF Keys
  <2>4. AllSound(breaker')
    BY <2>1, <1>0 DEF AllSound, Sound, RecordedWell
  <2>5. failedBefore' \subseteq Keys \X Keys
    BY <1>2, <1>0, <2>3 DEF Outcome, Keys
  <2>6. dim' \subseteq Conns
    BY <2>2, <2>3, <1>0
  <2>7. ASSUME NEW c \in dim'
        PROVE  \E m \in Models : breaker'[<<m, c>>].state # "CLOSED"
    <3>1. CASE c \in dim /\ ~(class = "success" /\ c = k[2])
      <4>1. PICK m \in Models : breaker[<<m, c>>].state # "CLOSED"
        BY <3>1, <1>0 DEF DimHasTrippedKey
      <4>2. c \in Conns /\ <<m, c>> \in Keys
        BY <3>1, <1>0 DEF Keys
      <4>3. CASE <<m, c>> = k
        <5>1. class # "success"
          BY <4>3, <3>1
        <5>2. breaker'[<<m, c>>] = e
          BY <4>2, <4>3, <2>1, <1>0 DEF AllSound
        <5> QED
          BY <5>1, <5>2, <4>1, <4>3 DEF RecordedWell
      <4>4. CASE <<m, c>> # k
        BY <4>4, <4>1, <4>2, <2>1, <1>0 DEF AllSound
      <4> QED
        BY <4>3, <4>4
    <3>2. CASE ~(c \in dim /\ ~(class = "success" /\ c = k[2]))
      <4>1. class \in {"rate_limit", "auth"} /\ c = k[2]
        BY <3>2, <2>2, <2>7
      <4>2. breaker'[k] = e /\ e.state = "OPEN"
        BY <4>1, <2>1, <1>0 DEF AllSound, RecordedWell
      <4> QED
        BY <4>1, <4>2, <2>3
    <3> QED
      BY <3>1, <3>2
  <2>8. DimHasTrippedKey'
    BY <2>7 DEF DimHasTrippedKey
  <2> QED
    BY <2>4, <2>5, <2>6, <2>8
<1> QED
  BY <1>1, <1>2

\* When no entry is closed and no row dimmed, the rows stay explained.
LEMMA DimKept ==
  ASSUME IInv, dim' \subseteq dim,
         \A k \in Keys : k[2] \in dim' /\ breaker[k].state # "CLOSED"
                             => breaker'[k].state # "CLOSED"
  PROVE  DimHasTrippedKey'
<1>1. ASSUME NEW c \in dim'
      PROVE  \E m \in Models : breaker'[<<m, c>>].state # "CLOSED"
  <2>1. PICK m \in Models : breaker[<<m, c>>].state # "CLOSED"
    BY <1>1 DEF IInv, DimHasTrippedKey
  <2>2. <<m, c>> \in Keys
    BY <1>1 DEF IInv, TypeOK, Keys
  <2> QED
    BY <2>1, <2>2, <1>1
<1> QED
  BY <1>1 DEF DimHasTrippedKey

LEMMA AttemptKey ==
  ASSUME TypeOK, NEW a \in Attempts, InUse(a)
  PROVE  attempt[a].key \in Keys
  BY DEF TypeOK, InUse

LEMMA StepInv == IInv /\ [Next]_vars => IInv'
<1> SUFFICES ASSUME IInv, [Next]_vars
             PROVE  IInv'
  OBVIOUS
<1>0. /\ TypeOK
      /\ AllSound(breaker)
      /\ DimHasTrippedKey
  BY InvSound
<1> DEFINE Good == AllSound(breaker') /\ TypeOK' /\ DimHasTrippedKey'
<1>1. ASSUME NEW a \in Attempts, NEW m \in Models, Dispatch(a, m)
      PROVE  Good
  <2>1. breaker' = Filtered(m, armed) /\ UNCHANGED <<failedBefore, dim, settings, armed>>
    BY <1>1 DEF Dispatch
  <2>2. \A k \in Keys : \/ breaker'[k] = breaker[k]
                        \/ breaker'[k] = Lapse(breaker[k])
    BY <2>1 DEF Filtered
  <2>3. AllSound(breaker')
    <3>1. \A k \in Keys : Sound(breaker'[k])
      BY <2>2, <1>0, LapseSound DEF AllSound
    <3> QED
      BY <3>1, <2>1 DEF AllSound, Sound, Filtered
  <2>4. attempt' \in [Attempts -> [key : Keys, probe : BOOLEAN] \cup {NoAttempt}]
    <3>1. PICK c \in Candidates(m, armed) :
             attempt' = [attempt EXCEPT ![a] =
               [key |-> <<m, c>>, probe |-> breaker'[<<m, c>>].state = "HALF_OPEN"]]
      BY <1>1 DEF Dispatch
    <3>2. <<m, c>> \in Keys
      BY <3>1, <1>0 DEF Candidates, Healthy, TypeOK, Keys
    <3> QED
      BY <3>1, <3>2, <1>0 DEF TypeOK
  <2>5. DimHasTrippedKey'
    <3>1. \A k \in Keys : breaker[k].state # "CLOSED" => breaker'[k].state # "CLOSED"
      BY <2>2, <1>0, LapseSound DEF AllSound
    <3> QED
      BY <3>1, <2>1, DimKept
  <2> QED
    BY <2>1, <2>3, <2>4, <2>5, <1>0 DEF TypeOK, AllSound
<1>2. ASSUME NEW k \in Keys, Peek(k)
      PROVE  Good
  <2>1. /\ breaker' = [breaker EXCEPT ![k] = Lapse(breaker[k])]
        /\ UNCHANGED <<failedBefore, dim, settings, armed, attempt>>
    BY <1>2 DEF Peek
  <2>2. \A l \in Keys : Sound(breaker'[l])
                        /\ (breaker[l].state # "CLOSED" => breaker'[l].state # "CLOSED")
    BY <2>1, <1>0, LapseSound DEF AllSound
  <2>3. AllSound(breaker')
    BY <2>1, <2>2, <1>0 DEF AllSound, Sound
  <2>4. DimHasTrippedKey'
    BY <2>1, <2>2, DimKept
  <2> QED
    BY <2>1, <2>3, <2>4, <1>0 DEF TypeOK, AllSound
<1>3. ASSUME NEW a \in Attempts, NEW class \in Classes, NEW reset \in Resets,
             Finish(a, class, reset)
      PROVE  Good
  <2> DEFINE k == attempt[a].key
             e == Recorded(breaker[k], class, reset, settings.threshold)
  <2>1. k \in Keys /\ settings.threshold \in Thresholds /\ reset \in Nat
    BY <1>3, <1>0, AttemptKey, TimesAssumption DEF Finish, TypeOK
  <2>2. RecordedWell(breaker[k], class, e)
    BY <2>1, <1>0, RecordedSound DEF AllSound
  <2>3. Outcome(k, class, e)
    BY <1>3 DEF Finish
  <2>4. /\ attempt' = [attempt EXCEPT ![a] = NoAttempt]
        /\ UNCHANGED <<settings, armed>>
    BY <1>3 DEF Finish
  <2> HIDE DEF k, e
  <2> QED
    BY <2>1, <2>2, <2>3, <2>4, <1>0, OutcomeInv DEF TypeOK, AllSound
<1>4. ASSUME NEW a \in Attempts, NEW class \in Classes, NEW reset \in Resets,
             FailOver(a, class, reset)
      PROVE  Good
  <2> DEFINE k == attempt[a].key
             f == Recorded(breaker[k], class, reset, settings.threshold)
             e == Recorded(f, class, reset, settings.threshold)
  <2>1. k \in Keys /\ settings.threshold \in Thresholds /\ reset \in Nat
    BY <1>4, <1>0, AttemptKey, TimesAssumption DEF FailOver, TypeOK
  <2>2. RecordedWell(breaker[k], class, f)
    BY <2>1, <1>0, RecordedSound DEF AllSound
  <2>3. RecordedWell(f, class, e)
    BY <2>1, <2>2, RecordedSound DEF RecordedWell
  <2>4. RecordedWell(breaker[k], class, e)
    BY <2>2, <2>3 DEF RecordedWell
  <2>5. Outcome(k, class, e)
    BY <1>4 DEF FailOver
  <2>6. /\ attempt' = [attempt EXCEPT ![a] = NoAttempt]
        /\ UNCHANGED <<settings, armed>>
    BY <1>4 DEF FailOver
  <2> HIDE DEF k, e, f
  <2> QED
    BY <2>1, <2>4, <2>5, <2>6, <1>0, OutcomeInv DEF TypeOK, AllSound
<1>5. ASSUME NEW a \in Attempts, Provisional(a)
      PROVE  Good
  <2> DEFINE k == attempt[a].key
             e == Recorded(breaker[k], "success", 0, settings.threshold)
  <2>1. k \in Keys /\ settings.threshold \in Thresholds
    BY <1>5, <1>0, AttemptKey DEF Provisional, TypeOK
  <2>2. "success" \in Classes
    BY DEF Classes
  <2>3. RecordedWell(breaker[k], "success", e)
    BY <2>1, <2>2, <1>0, RecordedSound DEF AllSound
  <2>4. Outcome(k, "success", e)
    BY <1>5 DEF Provisional
  <2>5. UNCHANGED <<settings, armed, attempt>>
    BY <1>5 DEF Provisional
  <2> HIDE DEF k, e
  <2> QED
    BY <2>1, <2>2, <2>3, <2>4, <2>5, <1>0, OutcomeInv DEF TypeOK, AllSound
<1>6. ASSUME ResetAll
       PROVE  Good
  <2>1. \A k \in Keys : breaker'[k] = FreshEntry
    BY <1>6 DEF ResetAll
  <2>2. AllSound(breaker')
    BY <1>6, FreshSound DEF ResetAll, AllSound, Sound
  <2> QED
    BY <2>2, <1>6, <1>0 DEF ResetAll, TypeOK, AllSound, DimHasTrippedKey
<1>7. ASSUME NEW c \in Conns, ResetConnection(c)
      PROVE  Good
  <2>1. \A k \in Keys : breaker'[k] = IF k[2] = c THEN FreshEntry ELSE breaker[k]
    BY <1>7 DEF ResetConnection
  <2>2. \A k \in Keys : Sound(breaker'[k])
    BY <2>1, <1>0, FreshSound DEF AllSound
  <2>3. AllSound(breaker')
    BY <1>7, <2>2 DEF ResetConnection, AllSound, Sound
  <2>4. dim' \subseteq dim /\ c \notin dim'
    BY <1>7 DEF ResetConnection
  <2>5. DimHasTrippedKey'
    BY <2>1, <2>4, DimKept
  <2> QED
    BY <2>3, <2>4, <2>5, <1>7, <1>0 DEF ResetConnection, TypeOK, AllSound
<1>8. ASSUME NEW c \in Conns, Toggle(c)
      PROVE  Good
  BY <1>8, <1>0 DEF Toggle, TypeOK, AllSound, DimHasTrippedKey
<1>9. ASSUME NEW enabled \in BOOLEAN, NEW threshold \in Thresholds,
             Reconfigure(enabled, threshold)
      PROVE  Good
  BY <1>9, <1>0 DEF Reconfigure, TypeOK, AllSound, DimHasTrippedKey
<1>10. ASSUME Tick
       PROVE  Good
  <2>1. breaker' = [k \in Keys |->
            [breaker[k] EXCEPT !.wait = IF @ > 0 THEN @ - 1 ELSE 0]]
    BY <1>10 DEF Tick
  <2>2. \A k \in Keys : /\ Sound(breaker'[k])
                        /\ breaker'[k].state = breaker[k].state
    BY <2>1, <1>0, TimesAssumption DEF AllSound, Sound, Entry, EntryConsistent
  <2>3. AllSound(breaker')
    BY <2>1, <2>2 DEF AllSound, Sound
  <2>4. UNCHANGED <<failedBefore, dim, settings, armed, attempt>>
    BY <1>10 DEF Tick
  <2>5. DimHasTrippedKey'
    BY <2>2, <2>4, DimKept
  <2> QED
    BY <2>3, <2>4, <2>5, <1>0 DEF TypeOK, AllSound
<1>11. ASSUME Restart
       PROVE  Good
  <2>1. AllSound(breaker')
    BY <1>11, FreshSound DEF Restart, AllSound, Sound
  <2> QED
    BY <2>1, <1>11, <1>0 DEF Restart, TypeOK, AllSound, DimHasTrippedKey
<1>12. ASSUME UNCHANGED vars
       PROVE  Good
  BY <1>12, <1>0 DEF vars, TypeOK, AllSound, DimHasTrippedKey
<1>13. Good
  BY <1>1, <1>2, <1>3, <1>4, <1>5, <1>6, <1>7, <1>8, <1>9, <1>10, <1>11, <1>12
     DEF Next
<1> QED
  BY <1>13 DEF IInv, AllSound, Sound, StreakMatchesState

-----------------------------------------------------------------------------
\* Every reachable state is well formed: in particular no cooldown exceeds the
\* cap, whatever a 429 body announces.
THEOREM TypeCorrect == Spec => []TypeOK
<1>1. IInv => TypeOK
  BY DEF IInv
<1> QED
  BY <1>1, InitInv, StepInv, PTL DEF Spec

\* A closed key never has as many consecutive failures as the largest threshold,
\* a tripped key has failed since its last success, a probing one has no
\* cooldown left.
THEOREM StreakTheorem == Spec => []StreakMatchesState
<1>1. IInv => StreakMatchesState
  BY DEF IInv
<1> QED
  BY <1>1, InitInv, StepInv, PTL DEF Spec

\* A dimmed row always has a tripped entry behind it.
THEOREM DimTheorem == Spec => []DimHasTrippedKey
<1>1. IInv => DimHasTrippedKey
  BY DEF IInv
<1> QED
  BY <1>1, InitInv, StepInv, PTL DEF Spec
-----------------------------------------------------------------------------
(* The action properties.                                                  *)

Skips ==
    \A a \in Attempts :
        (~InUse(a) /\ attempt'[a] # NoAttempt /\ settings.enabled
           /\ Blocked(breaker[attempt'[a].key]))
        => \A c \in armed : Blocked(breaker[<<attempt'[a].key[1], c>>])

\* Only a dispatch fills a slot.
LEMMA DispatchFills ==
  ASSUME TypeOK, Next, NEW a \in Attempts, ~InUse(a), attempt'[a] # NoAttempt
  PROVE  \E m \in Models : Dispatch(a, m)
<1>1. ASSUME NEW b \in Attempts, NEW m \in Models, Dispatch(b, m)
      PROVE  a = b
  BY <1>1 DEF Dispatch, InUse, TypeOK
<1>2. ASSUME \/ \E b \in Attempts, class \in Classes, reset \in Resets :
                  Finish(b, class, reset) \/ FailOver(b, class, reset)
             \/ Restart
      PROVE  FALSE
  BY <1>2 DEF Finish, FailOver, Restart, InUse, TypeOK
<1>3. ASSUME attempt' = attempt
      PROVE  FALSE
  BY <1>3 DEF InUse
<1>4. \/ \E b \in Attempts, m \in Models : Dispatch(b, m)
      \/ \E b \in Attempts, class \in Classes, reset \in Resets :
            Finish(b, class, reset) \/ FailOver(b, class, reset)
      \/ Restart
      \/ attempt' = attempt
  BY DEF Next, Peek, Provisional, ResetAll, ResetConnection, Toggle, Reconfigure, Tick
<1> QED
  BY <1>1, <1>2, <1>3, <1>4

\* A request lands on a key that serves its cooldown only when every armed key
\* of the provider does, for every set of keys and models.
THEOREM BlockedTheorem == Spec => BlockedOnlyWhenAllBlocked
<1>1. ASSUME TypeOK, Next, NEW a \in Attempts, ~InUse(a), attempt'[a] # NoAttempt,
             settings.enabled, Blocked(breaker[attempt'[a].key]), NEW d \in armed
      PROVE  Blocked(breaker[<<attempt'[a].key[1], d>>])
  <2>1. PICK m \in Models : Dispatch(a, m)
    BY <1>1, DispatchFills
  <2>2. PICK c \in Candidates(m, armed) : attempt'[a].key = <<m, c>>
    BY <2>1, <1>1 DEF Dispatch, TypeOK
  <2>3. Healthy(m, armed) = {}
    BY <2>2, <1>1 DEF Candidates, Healthy
  <2> QED
    BY <2>2, <2>3, <1>1 DEF Healthy
<1>2. TypeOK /\ [Next]_vars => [Skips]_vars
  BY <1>1 DEF Skips
<1> QED
  BY <1>2, TypeCorrect, PTL DEF Spec, BlockedOnlyWhenAllBlocked, Skips

\* e blocks, and f, its successor, blocks too or may stop for a good reason.
Released(e, f) ==
    Blocked(e) /\ ~Blocked(f) =>
        \/ e.wait = 1 /\ f.wait = 0 /\ f.state = "OPEN"
        \/ f.failures = 0

Holds == \A k \in Keys : Released(breaker[k], breaker'[k])

LEMMA RecordedHolds ==
  ASSUME RecoveryTimeout > 0, NEW e \in Entry, Blocked(e), NEW class \in Classes \ {"success"},
         NEW reset \in Nat, NEW t \in Thresholds
  PROVE  /\ Recorded(e, class, reset, t) \in Entry
         /\ Blocked(Recorded(e, class, reset, t))
<1> DEFINE f == Recorded(e, class, reset, t)
<1>1. Bump(e.failures) \in 0..MaxFailures /\ Bump(e.failures) \in 1..MaxFailures
  BY BumpType DEF Entry
<1>2. CASE class \in {"rate_limit", "auth"}
  <2>1. f = Trip(e, Cooldown(class, reset))
    BY <1>2 DEF Recorded
  <2>2. Cooldown(class, reset) \in 0..MaxCooldown /\ Cooldown(class, reset) > 0
    BY CooldownType, TimesAssumption DEF Cooldown
  <2> QED
    BY <2>1, <2>2, <1>1 DEF Trip, Blocked, Entry, States
<1>3. CASE class = "fault"
  <2>1. f = [e EXCEPT !.failures = Bump(e.failures)]
    BY <1>3 DEF Recorded, Fault, Blocked
  <2> QED
    BY <2>1, <1>1 DEF Blocked, Entry
<1>4. CASE class = "neutral"
  BY <1>4 DEF Recorded
<1> QED
  BY <1>2, <1>3, <1>4 DEF Classes

\* The breaker never cuts a cooldown short: a blocked key is unblocked by the
\* clock, or with its streak cleared.  (A recovery_timeout of 0 would let a late
\* report of another failure end the cooldown a 429 announced.)
THEOREM CooldownTheorem == ASSUME RecoveryTimeout > 0 PROVE Spec => CooldownHolds
<1>1. ASSUME IInv, Next, NEW k \in Keys, Blocked(breaker[k]), ~Blocked(breaker'[k])
      PROVE  Released(breaker[k], breaker'[k])
  <2>0. AllSound(breaker) /\ TypeOK /\ breaker[k] \in Entry
    BY <1>1, InvSound DEF AllSound, Sound
  <2>1. Lapse(breaker[k]) = breaker[k]
    BY <1>1, <2>0 DEF Lapse, Blocked, Entry
  <2>2. ASSUME \/ \E a \in Attempts, m \in Models : Dispatch(a, m)
               \/ \E l \in Keys : Peek(l)
        PROVE  breaker'[k] = breaker[k]
    BY <2>0, <2>1, <2>2 DEF Dispatch, Filtered, Peek, AllSound
  <2>3. ASSUME NEW l \in Keys, NEW class \in Classes, NEW e, Outcome(l, class, e),
               e.failures = 0 \/ Blocked(e) \/ l # k
        PROVE  Released(breaker[k], breaker'[k])
    <3>1. breaker' = breaker \/ breaker' = [breaker EXCEPT ![l] = e]
      BY <2>3 DEF Outcome
    <3>2. breaker'[k] = breaker[k] \/ (l = k /\ breaker'[k] = e)
      BY <3>1, <2>0 DEF AllSound
    <3> QED
      BY <3>2, <2>3, <1>1 DEF Released
  <2>4. ASSUME NEW a \in Attempts, NEW class \in Classes, NEW reset \in Resets,
               Finish(a, class, reset) \/ FailOver(a, class, reset)
        PROVE  Released(breaker[k], breaker'[k])
    <3> DEFINE l == attempt[a].key
               e == Recorded(breaker[l], class, reset, settings.threshold)
               g == Recorded(e, class, reset, settings.threshold)
    <3>1. l \in Keys /\ settings.threshold \in Thresholds /\ reset \in Nat
      BY <2>4, <2>0, AttemptKey, TimesAssumption DEF Finish, FailOver, TypeOK
    <3>2. \/ Outcome(l, class, e)
          \/ class # "success" /\ Outcome(l, class, g)
      BY <2>4 DEF Finish, FailOver
    <3>3. CASE class = "success"
      <4>1. e.failures = 0
        BY <3>3, <3>1, <2>0 DEF Recorded, AllSound, Sound, Entry
      <4> QED
        BY <4>1, <3>1, <3>2, <3>3, <2>3
    <3>4. CASE class # "success"
      <4>1. l = k => e \in Entry /\ Blocked(e)
        BY <3>1, <3>4, <2>0, <1>1, RecordedHolds
      <4>2. l = k => Blocked(g)
        BY <4>1, <3>1, <3>4, RecordedHolds
      <4> HIDE DEF l, e, g
      <4> QED
        BY <4>1, <4>2, <3>1, <3>2, <2>3
    <3> QED
      BY <3>3, <3>4
  <2>5. ASSUME NEW a \in Attempts, Provisional(a)
        PROVE  Released(breaker[k], breaker'[k])
    <3> DEFINE l == attempt[a].key
               e == Recorded(breaker[l], "success", 0, settings.threshold)
    <3>1. l \in Keys /\ Outcome(l, "success", e) /\ "success" \in Classes
      BY <2>5, <2>0, AttemptKey DEF Provisional, Classes
    <3>2. e.failures = 0
      BY <3>1, <2>0 DEF Recorded, AllSound, Sound, Entry
    <3> HIDE DEF l, e
    <3> QED
      BY <3>1, <3>2, <2>3
  <2>6. ASSUME ResetAll \/ Restart \/ \E c \in Conns : ResetConnection(c)
        PROVE  breaker'[k].failures = 0 \/ breaker'[k] = breaker[k]
    BY <2>6, <2>0 DEF ResetAll, Restart, ResetConnection, FreshEntry, AllSound
  <2>7. ASSUME Tick
        PROVE  Released(breaker[k], breaker'[k])
    <3>1. breaker'[k] = [breaker[k] EXCEPT !.wait = breaker[k].wait - 1]
      BY <2>7, <1>1 DEF Tick, Blocked
    <3> QED
      BY <3>1, <2>0, <1>1, TimesAssumption DEF Released, Blocked, Entry
  <2>8. ASSUME UNCHANGED breaker
        PROVE  FALSE
    BY <2>8, <1>1
  <2> QED
    BY <1>1, <2>2, <2>4, <2>5, <2>6, <2>7, <2>8 DEF Next, Toggle, Reconfigure, Released
<1>2. IInv /\ [Next]_vars => [Holds]_vars
  BY <1>1 DEF Holds, Released
<1> QED
  BY <1>2, InitInv, StepInv, PTL DEF Spec, CooldownHolds, Holds, Released
=============================================================================
