----------------------- MODULE ErrorPreventionProofs -----------------------
(***************************************************************************)
(* Theorems about ErrorPrevention, for every set of leaves, error types    *)
(* and attempts, every threshold and every duration.                       *)
(***************************************************************************)
EXTENDS ErrorPrevention, TLAPS

\* An entry that is well formed and whose ban fits its rung.
Sound(e, t) == e \in Entry /\ OnLadder(e, t)

SoundState(s) == s \in [Keys -> Entry] /\ \A k \in Keys : OnLadder(s[k], k[2])

IInv == TypeOK /\ LadderConsistent

USE ThresholdAssumption, DurationsAssumption, ChoicesAssumption

-----------------------------------------------------------------------------
(* What each operator does to one entry.                                   *)

LEMMA FreshSound == ASSUME NEW t \in Types PROVE Sound(FreshEntry, t)
BY DEF Sound, FreshEntry, Entry, OnLadder, Bans, Timed

LEMMA ClearedSound ==
    ASSUME NEW t \in Types, NEW e, Sound(e, t)
    PROVE  Sound(Cleared(e), t)
<1> DEFINE f == Cleared(e)
<1>1. f \in Entry /\ f.ban = "none" /\ f.left = 0
  BY DEF Sound, Cleared, Entry, Bans, Timed
<1>2. OnLadder(f, t)
  BY <1>1 DEF OnLadder, Timed
<1> QED
  BY <1>1, <1>2 DEF Sound

LEMMA ResetSound ==
    ASSUME NEW t \in Types, NEW e, Sound(e, t)
    PROVE  Sound([e EXCEPT !.streak = 0], t)
BY DEF Sound, Entry, OnLadder, Bans, Timed

LEMMA SparedSound ==
    ASSUME NEW t \in Types, NEW e, Sound(e, t)
    PROVE  Sound(Spared(e), t)
BY ResetSound, ClearedSound DEF Spared

LEMMA RelievedSound ==
    ASSUME NEW t \in Types, NEW e, Sound(e, t)
    PROVE  Sound(Relieved(e), t)
BY ResetSound, ClearedSound DEF Relieved

LEMMA AgedSound ==
    ASSUME NEW t \in Types, NEW e, Sound(e, t)
    PROVE  Sound([e EXCEPT !.left = Aged(@)], t)
BY DEF Sound, Aged, Entry, OnLadder, Bans, Timed

\* A strike below the threshold.
LEMMA BenchedSound ==
    ASSUME NEW t \in Types, NEW e, Sound(e, t), ~Strikes(e)
    PROVE  Sound(Benched(e, t), t)
<1>1. Cooldown[t] \in Nat
  OBVIOUS
<1>2. e.streak + 1 \in 0..(Threshold - 1)
  BY DEF Sound, Entry, Strikes
<1>3. CASE Outranks(e, t)
  BY <1>1, <1>2, <1>3 DEF Sound, Benched, Entry, OnLadder, Bans, Timed
<1>4. CASE ~Outranks(e, t)
  <2> DEFINE f == Benched(e, t)
  <2>1. f \in Entry /\ f.ban = "softban" /\ f.left = Cooldown[t]
    BY <1>1, <1>2, <1>4 DEF Sound, Benched, Entry, Bans, Timed
  <2>2. OnLadder(f, t)
    BY <1>1, <2>1 DEF OnLadder
  <2> QED
    BY <2>1, <2>2 DEF Sound
<1> QED
  BY <1>3, <1>4

\* The strike that reaches it.
LEMMA EscalatedSound ==
    ASSUME NEW t \in Types, NEW e, Sound(e, t), NEW autoDisable \in BOOLEAN
    PROVE  Sound(Escalated(e, autoDisable), t)
<1>1. e.rung \in 0..2
  BY DEF Sound, Entry
<1>2. CASE e.rung = 0
  BY <1>2 DEF Sound, Escalated, Entry, OnLadder, Bans, Timed
<1>3. CASE e.rung = 1
  BY <1>3 DEF Sound, Escalated, Entry, OnLadder, Bans, Timed
<1>4. CASE e.rung = 2
  BY <1>4 DEF Sound, Escalated, Entry, OnLadder, Bans, Timed
<1> QED
  BY <1>1, <1>2, <1>3, <1>4

-----------------------------------------------------------------------------
(* Lifted to the whole state.                                              *)

LEMMA SoundStateEntries ==
    ASSUME NEW s PROVE
    SoundState(s) <=> /\ s = [k \in Keys |-> s[k]]
                      /\ \A k \in Keys : Sound(s[k], k[2])
BY DEF SoundState, Sound

LEMMA KeysHaveTypes == \A k \in Keys : k[1] \in Leaves /\ k[2] \in Types
BY DEF Keys

LEMMA IInvParts ==
    IInv <=> /\ SoundState(state) /\ SoundState(disk.state)
             /\ off \subseteq Leaves
             /\ settings \in [enabled : BOOLEAN, autoDisable : AutoDisable]
             /\ disk \in [state : [Keys -> Entry], off : SUBSET Leaves]
             /\ sidecar \in [Keys -> Nat]
             /\ attempt \in [Attempts -> [leaf : Leaves, benched : BOOLEAN] \cup {Idle}]
             /\ reply \in {"none", "lifted"}
<1>1. disk \in [state : [Keys -> Entry], off : SUBSET Leaves]
        => disk.state \in [Keys -> Entry]
  OBVIOUS
<1> QED
  BY <1>1 DEF IInv, TypeOK, LadderConsistent, SoundState

-----------------------------------------------------------------------------
(* Every step keeps the invariant.                                         *)

LEMMA BansCheckedSound ==
    ASSUME IInv, NEW l \in Leaves, BansChecked(l, state')
    PROVE  SoundState(state')
<1>1. SoundState(state)
  BY IInvParts
<1>2. PICK seen \in SUBSET {t \in Types : Lapsed(state[<<l, t>>])} :
        state' = [k \in Keys |->
                    IF settings.enabled /\ k[1] = l /\ k[2] \in seen
                    THEN Cleared(state[k]) ELSE state[k]]
  BY DEF BansChecked
<1>3. ASSUME NEW k \in Keys PROVE Sound(state'[k], k[2])
  BY <1>1, <1>2, <1>3, ClearedSound, KeysHaveTypes, SoundStateEntries
<1>4. state' = [k \in Keys |-> state'[k]]
  BY <1>2
<1> QED
  BY <1>3, <1>4, SoundStateEntries

LEMMA FailureSound ==
    ASSUME IInv, NEW k \in Keys, NEW ok \in BOOLEAN, Failure(k, ok)
    PROVE  /\ SoundState(state') /\ SoundState(disk'.state)
           /\ off' \subseteq Leaves
           /\ disk' \in [state : [Keys -> Entry], off : SUBSET Leaves]
           /\ sidecar' \in [Keys -> Nat]
<1>1. /\ SoundState(state) /\ SoundState(disk.state) /\ off \subseteq Leaves
      /\ disk \in [state : [Keys -> Entry], off : SUBSET Leaves]
      /\ sidecar \in [Keys -> Nat] /\ settings.autoDisable \in BOOLEAN
  BY IInvParts
<1>2. CASE ~settings.enabled
  BY <1>1, <1>2 DEF Failure
<1>3. CASE settings.enabled
  <2> DEFINE e == state[k]
             new == IF Strikes(e) THEN Escalated(e, settings.autoDisable)
                                  ELSE Benched(e, k[2])
  <2>1. Sound(e, k[2]) /\ k[1] \in Leaves /\ k[2] \in Types
    BY <1>1, SoundStateEntries, KeysHaveTypes
  <2>2. Sound(new, k[2])
    BY <1>1, <2>1, BenchedSound, EscalatedSound
  <2>3. state' = [state EXCEPT ![k] = new]
    BY <1>3 DEF Failure
  <2>4. SoundState(state')
    BY <1>1, <2>2, <2>3 DEF SoundState, Sound
  <2>5. off' \subseteq Leaves
    BY <1>1, <1>3, <2>1 DEF Failure
  <2>6. disk' = disk \/ disk' = [state |-> state', off |-> off']
    BY <1>3 DEF Failure, Persisted, Live
  <2>7. disk' \in [state : [Keys -> Entry], off : SUBSET Leaves] /\ SoundState(disk'.state)
    BY <1>1, <2>4, <2>5, <2>6 DEF SoundState
  <2>8. Cooldown[k[2]] \in Nat
    BY <2>1
  <2>9. sidecar' \in [Keys -> Nat]
    BY <1>1, <1>3, <2>8 DEF Failure
  <2> QED
    BY <2>4, <2>5, <2>7, <2>9
<1> QED
  BY <1>2, <1>3

\* What a step has to show: the parts it may disturb are sound again.
LEMMA IInvNext ==
    ASSUME SoundState(state'), SoundState(disk'.state),
           off' \subseteq Leaves,
           settings' \in [enabled : BOOLEAN, autoDisable : AutoDisable],
           disk' \in [state : [Keys -> Entry], off : SUBSET Leaves],
           sidecar' \in [Keys -> Nat],
           attempt' \in [Attempts -> [leaf : Leaves, benched : BOOLEAN] \cup {Idle}],
           reply' \in {"none", "lifted"}
    PROVE  IInv'
BY DEF IInv, TypeOK, LadderConsistent, SoundState

LEMMA TrafficInv == ASSUME IInv, Traffic, reply' = "none" PROVE IInv'
<1> USE IInvParts, IInvNext
<1>1. ASSUME NEW a \in Attempts, NEW l \in Leaves, Dispatch(a, l)
      PROVE  IInv'
  <2>1. SoundState(state')
    BY <1>1, BansCheckedSound DEF Dispatch
  <2> QED
    BY <1>1, <2>1 DEF Dispatch
<1>2. ASSUME NEW l \in Leaves, Peek(l) PROVE IInv'
  <2>1. SoundState(state')
    BY <1>2, BansCheckedSound DEF Peek
  <2> QED
    BY <1>2, <2>1 DEF Peek
<1>3. ASSUME NEW a \in Attempts, NEW t \in Types, NEW ok \in WriteOutcomes,
             Bench(a, t, ok) \/ Fail(a, t, ok)
      PROVE  IInv'
  <2> DEFINE k == <<attempt[a].leaf, t>>
  <2>1. ok \in BOOLEAN
    BY DEF WriteOutcomes
  <2>2. attempt[a] # Idle /\ Failure(k, ok) /\ UNCHANGED settings
    BY <1>3 DEF Bench, Fail
  <2>3. k \in Keys
    BY <2>2 DEF Keys
  <2>4. attempt' \in [Attempts -> [leaf : Leaves, benched : BOOLEAN] \cup {Idle}]
    <3>1. attempt[a] \in [leaf : Leaves, benched : BOOLEAN]
      BY <2>2
    <3>2. CASE Fail(a, t, ok)
      BY <3>2 DEF Fail
    <3>3. CASE Bench(a, t, ok)
      <4>1. [attempt[a] EXCEPT !.benched = TRUE] \in [leaf : Leaves, benched : BOOLEAN]
        BY <3>1
      <4>2. attempt' = [attempt EXCEPT ![a] = [attempt[a] EXCEPT !.benched = TRUE]]
        BY <3>3 DEF Bench
      <4> QED
        BY <4>1, <4>2
    <3> QED
      BY <1>3, <3>2, <3>3
  <2> QED
    BY <2>1, <2>2, <2>3, <2>4, FailureSound
<1>4. ASSUME NEW a \in Attempts, Succeed(a) PROVE IInv'
  <2> DEFINE l == attempt[a].leaf
  <2>1. ASSUME NEW k \in Keys PROVE Sound(state'[k], k[2])
    BY <1>4, <2>1, RelievedSound, KeysHaveTypes, SoundStateEntries DEF Succeed, Success
  <2>2. SoundState(state')
    BY <1>4, <2>1, SoundStateEntries DEF Succeed, Success
  <2> QED
    BY <1>4, <2>2 DEF Succeed, Success
<1>5. ASSUME NEW a \in Attempts, Discount(a) PROVE IInv'
  BY <1>5 DEF Discount
<1> QED
  BY <1>1, <1>2, <1>3, <1>4, <1>5 DEF Traffic, Report

LEMMA LiftAllInv == ASSUME IInv, NEW ok \in BOOLEAN, LiftAll(ok) PROVE IInv'
<1> USE IInvParts, IInvNext
<1>1. CASE UNCHANGED <<state, off, disk>>
  BY <1>1 DEF LiftAll
<1>2. CASE ~UNCHANGED <<state, off, disk>>
  <2> DEFINE lifted == [k \in Keys |-> IF state[k].ban = "disabled" THEN FreshEntry
                                       ELSE Spared(state[k])]
  <2>1. /\ state' = lifted /\ off' = off \ SelfDisabled
        /\ disk' = [state |-> state', off |-> off']
        /\ UNCHANGED <<settings, sidecar, attempt>> /\ reply' = "lifted"
    BY <1>2 DEF LiftAll, Persisted, Live
  <2>2. ASSUME NEW k \in Keys PROVE Sound(lifted[k], k[2])
    BY <2>2, FreshSound, SparedSound, KeysHaveTypes, SoundStateEntries
  <2>3. SoundState(state')
    BY <2>1, <2>2, SoundStateEntries
  <2> HIDE DEF lifted
  <2>4. disk' \in [state : [Keys -> Entry], off : SUBSET Leaves] /\ SoundState(disk'.state)
    BY <2>1, <2>3 DEF SoundState
  <2> QED
    BY <2>1, <2>3, <2>4
<1> QED
  BY <1>1, <1>2

LEMMA AdminInv == ASSUME IInv, Admin, reply' = "none" PROVE IInv'
<1> USE IInvParts, IInvNext
<1>1. CASE ClearTempBans
  <2>1. ASSUME NEW k \in Keys PROVE Sound(state'[k], k[2])
    BY <1>1, <2>1, SparedSound, KeysHaveTypes, SoundStateEntries DEF ClearTempBans
  <2>2. SoundState(state')
    BY <1>1, <2>1, SoundStateEntries DEF ClearTempBans
  <2> QED
    BY <1>1, <2>2 DEF ClearTempBans
<1>2. ASSUME NEW l \in Leaves, NEW ok \in WriteOutcomes, EnableModel(l, ok)
      PROVE  IInv'
  <2>1. CASE ~ok
    BY <1>2, <2>1 DEF EnableModel
  <2>2. CASE ok
    <3>1. /\ state' = [k \in Keys |-> IF k[1] = l THEN FreshEntry ELSE state[k]]
          /\ off' = off \ {l}
          /\ disk' = [state |-> state', off |-> off']
          /\ UNCHANGED <<settings, sidecar, attempt>>
      BY <1>2, <2>2 DEF EnableModel, Persisted, Live
    <3>2. ASSUME NEW k \in Keys PROVE Sound(state'[k], k[2])
      BY <3>1, <3>2, FreshSound, KeysHaveTypes, SoundStateEntries
    <3>3. SoundState(state')
      BY <3>1, <3>2, SoundStateEntries
    <3>4. disk' \in [state : [Keys -> Entry], off : SUBSET Leaves] /\ SoundState(disk'.state)
      BY <3>1, <3>3 DEF SoundState
    <3> QED
      BY <3>1, <3>3, <3>4
  <2> QED
    BY <2>1, <2>2
<1>3. ASSUME NEW flags \in SUBSET Leaves,
             NEW new \in [enabled : BOOLEAN, autoDisable : AutoDisable],
             SaveConfig(flags, new)
      PROVE  IInv'
  <2>1. disk' = [state |-> state', off |-> off'] /\ off' = flags /\ state' = state
    BY <1>3 DEF SaveConfig, Persisted, Live
  <2>2. disk' \in [state : [Keys -> Entry], off : SUBSET Leaves] /\ SoundState(disk'.state)
    BY <2>1 DEF SoundState
  <2> QED
    BY <1>3, <2>1, <2>2 DEF SaveConfig
<1> QED
  BY <1>1, <1>2, <1>3 DEF Admin

LEMMA TickInv == ASSUME IInv, Tick, reply' = "none" PROVE IInv'
<1> USE IInvParts, IInvNext
<1>1. ASSUME NEW s, SoundState(s) PROVE SoundState(AgedEntries(s))
  <2>1. ASSUME NEW k \in Keys PROVE Sound(AgedEntries(s)[k], k[2])
    BY <1>1, <2>1, AgedSound, KeysHaveTypes, SoundStateEntries DEF AgedEntries
  <2> QED
    BY <2>1, SoundStateEntries DEF AgedEntries
<1>2. SoundState(state') /\ disk' = [disk EXCEPT !.state = AgedEntries(disk.state)]
  BY <1>1 DEF Tick
<1>3. disk' \in [state : [Keys -> Entry], off : SUBSET Leaves] /\ SoundState(disk'.state)
  <2>1. SoundState(AgedEntries(disk.state))
    BY <1>1
  <2>2. disk'.state = AgedEntries(disk.state)
    BY <1>2
  <2> QED
    BY <1>2, <2>1, <2>2 DEF SoundState
<1>4. sidecar' \in [Keys -> Nat]
  BY DEF Tick, Aged
<1> QED
  BY <1>2, <1>3, <1>4 DEF Tick

LEMMA RestartInv == ASSUME IInv, Restart, reply' = "none" PROVE IInv'
<1> USE IInvParts, IInvNext
<1>1. SoundState(state') /\ off' \subseteq Leaves
  BY DEF Restart
<1> QED
  BY <1>1 DEF Restart

LEMMA StepInv == IInv /\ [Next]_vars => IInv'
<1> SUFFICES ASSUME IInv, [Next]_vars PROVE IInv'
  OBVIOUS
<1>1. CASE UNCHANGED vars
  BY <1>1 DEF vars, IInv, TypeOK, LadderConsistent
<1>2. CASE Next
  <2>1. ASSUME NEW ok \in WriteOutcomes, LiftAll(ok) PROVE IInv'
    BY <2>1, LiftAllInv DEF WriteOutcomes
  <2> QED
    BY <1>2, <2>1, TrafficInv, AdminInv, TickInv, RestartInv DEF Next
<1> QED
  BY <1>1, <1>2

LEMMA InitInv == Init => IInv
<1> SUFFICES ASSUME Init PROVE IInv
  OBVIOUS
<1>1. SoundState(state)
  BY FreshSound, KeysHaveTypes, SoundStateEntries DEF Init
<1>2. disk.state = state /\ disk \in [state : [Keys -> Entry], off : SUBSET Leaves]
  BY <1>1 DEF Init, Live, SoundState
<1> QED
  BY <1>1, <1>2, IInvParts DEF Init

LEMMA InductiveInvariant == Spec => []IInv
BY InitInv, StepInv, PTL DEF Spec

(* The ban ladder is well formed in every reachable state: streaks stay below *)
(* consecutive_threshold, rungs below three, whatever is reported when, and   *)
(* also in what config.yaml says after failed writes and restarts.            *)
THEOREM TypeCorrect == Spec => []TypeOK
<1>1. IInv => TypeOK
  BY DEF IInv
<1> QED
  BY <1>1, InductiveInvariant, PTL

(* record_error and the administrator's operations keep every ban in step     *)
(* with the rung it was earned on.                                            *)
THEOREM LadderTheorem == Spec => []LadderConsistent
<1>1. IInv => LadderConsistent
  BY DEF IInv
<1> QED
  BY <1>1, InductiveInvariant, PTL

-----------------------------------------------------------------------------
(* Self-disabled models.                                                   *)

\* No entry of `new' is disabled that was not in `old', and conversely.
NoneDisabled(old, new) ==
    \A k \in Keys : new[k].ban = "disabled" => old[k].ban = "disabled"
NoneEnabled(old, new) ==
    \A k \in Keys : old[k].ban = "disabled" => new[k].ban = "disabled"

Strict == DiskMayFail = FALSE /\ AutoDisable = {TRUE}

LEMMA BansCheckedKeepsDisabled ==
    ASSUME IInv, NEW l \in Leaves, BansChecked(l, state')
    PROVE  NoneDisabled(state, state') /\ NoneEnabled(state, state')
<1>1. PICK seen \in SUBSET {t \in Types : Lapsed(state[<<l, t>>])} :
        state' = [k \in Keys |->
                    IF settings.enabled /\ k[1] = l /\ k[2] \in seen
                    THEN Cleared(state[k]) ELSE state[k]]
  BY DEF BansChecked
<1>2. ASSUME NEW k \in Keys, k[1] = l, k[2] \in seen
      PROVE  state[k].ban # "disabled" /\ Cleared(state[k]).ban # "disabled"
  <2>1. Lapsed(state[k])
    BY <1>2 DEF Keys
  <2>2. state[k] \in Entry
    BY <1>2 DEF IInv, TypeOK
  <2> QED
    BY <2>1, <2>2 DEF Lapsed, Timed, Cleared, Entry
<1> QED
  BY <1>1, <1>2 DEF NoneDisabled, NoneEnabled

\* A strike disables nothing without writing it down, and enables nothing.
LEMMA FailureDisabled ==
    ASSUME Strict, IInv, NEW k \in Keys, Failure(k, TRUE)
    PROVE  /\ \/ disk'.state = state'
              \/ disk' = disk /\ NoneDisabled(state, state')
           /\ NoneEnabled(state, state')
<1>1. state \in [Keys -> Entry] /\ settings.autoDisable = TRUE /\ OnLadder(state[k], k[2])
  BY DEF IInv, TypeOK, LadderConsistent, Strict
<1>2. CASE ~settings.enabled
  BY <1>2 DEF Failure, NoneDisabled, NoneEnabled
<1>3. CASE settings.enabled /\ Strikes(state[k])
  <2>1. /\ state' = [state EXCEPT ![k] = Escalated(state[k], TRUE)]
        /\ disk' = [state |-> state', off |-> off']
    BY <1>1, <1>3 DEF Failure, Persisted, Live
  <2>2. state[k].ban = "disabled" => Escalated(state[k], TRUE).ban = "disabled"
    BY <1>1 DEF OnLadder, Escalated
  <2> QED
    BY <1>1, <2>1, <2>2 DEF NoneEnabled
<1>4. CASE settings.enabled /\ ~Strikes(state[k])
  <2>1. state' = [state EXCEPT ![k] = Benched(state[k], k[2])] /\ disk' = disk
    BY <1>4 DEF Failure
  <2>2. Benched(state[k], k[2]).ban = "disabled" <=> state[k].ban = "disabled"
    <3>1. state[k] \in Entry
      BY <1>1
    <3> QED
      BY <3>1 DEF Benched, Outranks, Entry
  <2> QED
    BY <1>1, <2>1, <2>2 DEF NoneDisabled, NoneEnabled
<1> QED
  BY <1>2, <1>3, <1>4

LEMMA SparedDisabled ==
    ASSUME NEW e \in Entry PROVE Spared(e).ban = "disabled" <=> e.ban = "disabled"
BY DEF Spared, Cleared, Entry, Timed

LEMMA RelievedDisabled ==
    ASSUME NEW e \in Entry PROVE Relieved(e).ban = "disabled" <=> e.ban = "disabled"
BY DEF Relieved, Cleared, Entry

LEMMA AgedDisabled ==
    ASSUME NEW e \in Entry
    PROVE  [e EXCEPT !.left = Aged(@)].ban = e.ban
BY DEF Entry

\* How a step treats the copy on disk: it is the new live state, or it stays
\* (but for the passing of time) and nothing gets disabled in memory.
Tracked == \/ disk'.state = state'
           \/ NoneEnabled(disk.state, disk'.state) /\ NoneDisabled(state, state')

ByHand == \E l \in Leaves, ok \in BOOLEAN : LiftAll(ok) \/ EnableModel(l, ok)

LEMMA EntriesTyped ==
    ASSUME IInv, NEW k \in Keys PROVE state[k] \in Entry /\ disk.state[k] \in Entry
BY DEF IInv, TypeOK

LEMMA ReportDisabled ==
    ASSUME Strict, IInv, Report PROVE Tracked /\ NoneEnabled(state, state')
<1>1. ASSUME NEW a \in Attempts, NEW t \in Types, NEW ok \in WriteOutcomes,
             Bench(a, t, ok) \/ Fail(a, t, ok)
      PROVE  Tracked /\ NoneEnabled(state, state')
  <2> DEFINE k == <<attempt[a].leaf, t>>
  <2>1. ok = TRUE /\ Failure(k, TRUE)
    BY <1>1 DEF WriteOutcomes, Strict, Bench, Fail
  <2>2. k \in Keys
    BY <1>1 DEF Bench, Fail, IInv, TypeOK, Keys
  <2> QED
    BY <2>1, <2>2, FailureDisabled DEF Tracked, NoneEnabled
<1>2. ASSUME NEW a \in Attempts, Succeed(a)
      PROVE  Tracked /\ NoneEnabled(state, state')
  <2>1. disk' = disk /\ \A k \in Keys : state'[k] = state[k] \/ state'[k] = Relieved(state[k])
    BY <1>2 DEF Succeed, Success
  <2> QED
    BY <2>1, EntriesTyped, RelievedDisabled DEF Tracked, NoneEnabled, NoneDisabled
<1>3. ASSUME NEW a \in Attempts, Discount(a)
      PROVE  Tracked /\ NoneEnabled(state, state')
  BY <1>3 DEF Discount, Tracked, NoneEnabled, NoneDisabled
<1> QED
  BY <1>1, <1>2, <1>3 DEF Report

LEMMA NextDisabled ==
    ASSUME Strict, IInv, DisabledIsOnDisk, Next
    PROVE  Tracked /\ (NoneEnabled(state, state') \/ ByHand)
<1>1. CASE Traffic
  <2>1. ASSUME NEW l \in Leaves, BansChecked(l, state'), UNCHANGED disk
        PROVE  Tracked /\ NoneEnabled(state, state')
    BY <2>1, BansCheckedKeepsDisabled DEF Tracked, NoneEnabled
  <2> QED
    BY <1>1, <2>1, ReportDisabled DEF Traffic, Dispatch, Peek
<1>2. CASE ClearTempBans
  <2>1. disk' = disk /\ \A k \in Keys : state'[k] = Spared(state[k])
    BY <1>2 DEF ClearTempBans
  <2> QED
    BY <2>1, EntriesTyped, SparedDisabled DEF Tracked, NoneEnabled, NoneDisabled
<1>3. ASSUME NEW l \in Leaves, NEW ok \in WriteOutcomes, EnableModel(l, ok)
      PROVE  Tracked /\ ByHand
  <2>1. ok \in BOOLEAN
    BY DEF WriteOutcomes
  <2>2. disk' = [state |-> state', off |-> off'] \/ UNCHANGED <<state, disk>>
    BY <1>3 DEF EnableModel, Persisted, Live
  <2> QED
    BY <1>3, <2>1, <2>2 DEF Tracked, NoneEnabled, NoneDisabled, ByHand
<1>4. ASSUME NEW ok \in WriteOutcomes, LiftAll(ok)
      PROVE  Tracked /\ (NoneEnabled(state, state') \/ ByHand)
  <2>1. ok \in BOOLEAN
    BY DEF WriteOutcomes
  <2>2. CASE UNCHANGED <<state, off, disk>>
    BY <2>2 DEF Tracked, NoneEnabled, NoneDisabled
  <2>3. CASE ~UNCHANGED <<state, off, disk>>
    <3>1. disk' = [state |-> state', off |-> off'] /\ SelfDisabled # {}
      BY <1>4, <2>3 DEF LiftAll, Persisted, Live
    <3>2. Leaves # {}
      BY <3>1 DEF SelfDisabled
    <3> QED
      BY <1>4, <2>1, <3>1, <3>2 DEF Tracked, ByHand
  <2> QED
    BY <2>2, <2>3
<1>5. ASSUME NEW flags \in SUBSET Leaves,
             NEW new \in [enabled : BOOLEAN, autoDisable : AutoDisable],
             SaveConfig(flags, new)
      PROVE  Tracked /\ NoneEnabled(state, state')
  <2>1. disk' = [state |-> state', off |-> off'] /\ state' = state
    BY <1>5 DEF SaveConfig, Persisted, Live
  <2> QED
    BY <2>1 DEF Tracked, NoneEnabled
<1>6. CASE Tick
  <2>1. \A k \in Keys : /\ state'[k] = [state[k] EXCEPT !.left = Aged(@)]
                        /\ disk'.state[k] = [disk.state[k] EXCEPT !.left = Aged(@)]
    BY <1>6 DEF Tick, AgedEntries, IInv, TypeOK
  <2> QED
    BY <2>1, EntriesTyped, AgedDisabled DEF Tracked, NoneEnabled, NoneDisabled
<1>7. CASE Restart
  BY <1>7 DEF Restart, Tracked, NoneEnabled, DisabledIsOnDisk
<1> QED
  BY <1>1, <1>2, <1>3, <1>4, <1>5, <1>6, <1>7 DEF Next, Admin

(* With config writes that succeed and disable_after_longban on, a            *)
(* self-disabled entry is always disabled in config.yaml too, so no crash     *)
(* between a strike and a restart re-enables the model.                       *)
THEOREM DisabledOnDiskTheorem == ASSUME Strict PROVE Spec => []DisabledIsOnDisk
<1>1. Init => DisabledIsOnDisk
  BY DEF Init, DisabledIsOnDisk, Live
<1>2. IInv /\ DisabledIsOnDisk /\ [Next]_vars => DisabledIsOnDisk'
  <2>1. ASSUME UNCHANGED vars, DisabledIsOnDisk PROVE DisabledIsOnDisk'
    BY <2>1 DEF vars, DisabledIsOnDisk
  <2>2. ASSUME IInv, DisabledIsOnDisk, Next PROVE DisabledIsOnDisk'
    BY <2>2, NextDisabled DEF Tracked, NoneEnabled, NoneDisabled, DisabledIsOnDisk
  <2> QED
    BY <2>1, <2>2
<1> QED
  BY <1>1, <1>2, InductiveInvariant, PTL DEF Spec

(* Under the same assumptions, only the administrator's lift-all-bans and     *)
(* enable-model take the ban of a self-disabled model away.                   *)
THEOREM DisabledStaysTheorem == ASSUME Strict PROVE Spec => DisabledStays
<1>1. IInv /\ DisabledIsOnDisk /\ [Next]_vars
        => [\A k \in Keys : state[k].ban = "disabled" /\ state'[k].ban # "disabled" =>
               \E l \in Leaves, ok \in BOOLEAN : LiftAll(ok) \/ EnableModel(l, ok)]_vars
  BY NextDisabled DEF NoneEnabled, ByHand
<1> QED
  BY <1>1, InductiveInvariant, DisabledOnDiskTheorem, PTL DEF Spec, DisabledStays

(* Durations in ascending order.                                              *)
Ordered == (\A t \in Types : Cooldown[t] <= SoftBan) /\ SoftBan <= LongBan

LEMMA StrikeStrengthens ==
    ASSUME Strict, Ordered, NEW t \in Types, NEW e, Sound(e, t)
    PROVE  AtLeast(IF Strikes(e) THEN Escalated(e, TRUE) ELSE Benched(e, t), e)
<1>1. /\ e \in Entry /\ OnLadder(e, t) /\ Cooldown[t] \in Nat
      /\ Cooldown[t] <= SoftBan /\ SoftBan <= LongBan
  BY DEF Sound, Ordered
<1>2. CASE Strikes(e)
  <2>1. CASE e.rung = 0
    <3>1. e.ban # "disabled" /\ (e.ban \in Timed => e.left <= SoftBan)
      BY <1>1, <2>1 DEF OnLadder, Entry
    <3> QED
      BY <1>1, <1>2, <2>1, <3>1 DEF AtLeast, Active, Escalated, Timed
  <2>2. CASE e.rung = 1
    <3>1. e.ban # "disabled" /\ e.left <= LongBan
      BY <1>1, <2>2 DEF OnLadder, Entry
    <3> QED
      BY <1>1, <1>2, <2>2, <3>1 DEF AtLeast, Active, Escalated, Timed
  <2>3. CASE e.rung = 2
    BY <1>1, <1>2, <2>3 DEF AtLeast, Escalated
  <2>4. e.rung = 0 \/ e.rung = 1 \/ e.rung = 2
    BY <1>1 DEF Entry
  <2> QED
    BY <2>1, <2>2, <2>3, <2>4
<1>3. CASE ~Strikes(e)
  <2>1. CASE Outranks(e, t)
    BY <1>1, <1>3, <2>1 DEF AtLeast, Active, Benched, Entry, Timed
  <2>2. CASE ~Outranks(e, t)
    <3>1. Benched(e, t).ban = "softban" /\ Benched(e, t).left = Cooldown[t]
      BY <1>1, <2>2 DEF Benched, Entry
    <3>2. e.ban \in Timed => e.left <= Cooldown[t]
      BY <1>1, <2>2 DEF Outranks, Entry
    <3> QED
      BY <1>3, <2>2, <3>1, <3>2 DEF AtLeast, Active, Outranks, Timed
  <2> QED
    BY <2>1, <2>2
<1> QED
  BY <1>2, <1>3

(* With durations in ascending order, writes that succeed and                 *)
(* disable_after_longban on, a failure that record_error sees late never      *)
(* weakens the ban in force.                                                  *)
THEOREM StrengthenTheorem == ASSUME Strict, Ordered PROVE Spec => FailuresOnlyStrengthen
<1>1. ASSUME IInv, NEW k \in Keys, NEW ok \in BOOLEAN, Failure(k, ok),
             NEW l \in Keys
      PROVE  AtLeast(state'[l], state[l])
  <2>1. Sound(state[k], k[2]) /\ state \in [Keys -> Entry] /\ k[2] \in Types
    BY <1>1, IInvParts, SoundStateEntries, KeysHaveTypes DEF SoundState
  <2>2. settings.autoDisable = TRUE
    BY <1>1 DEF IInv, TypeOK, Strict
  <2>3. \/ state' = state
        \/ state' = [state EXCEPT ![k] = IF Strikes(state[k]) THEN Escalated(state[k], TRUE)
                                         ELSE Benched(state[k], k[2])]
    BY <1>1, <2>2 DEF Failure
  <2>4. AtLeast(state[l], state[l])
    BY <2>1 DEF AtLeast, Active, Entry
  <2> QED
    BY <2>1, <2>3, <2>4, StrikeStrengthens
<1>2. ASSUME IInv, NEW a \in Attempts, NEW t \in Types, NEW ok \in BOOLEAN,
             Fail(a, t, ok) \/ Bench(a, t, ok), NEW l \in Keys
      PROVE  AtLeast(state'[l], state[l])
  <2>1. <<attempt[a].leaf, t>> \in Keys /\ Failure(<<attempt[a].leaf, t>>, ok)
    BY <1>2 DEF Fail, Bench, IInv, TypeOK, Keys
  <2> QED
    BY <1>1, <1>2, <2>1
<1>3. IInv => [\A a \in Attempts, t \in Types, ok \in BOOLEAN :
                  Fail(a, t, ok) \/ Bench(a, t, ok)
                      => \A k \in Keys : AtLeast(state'[k], state[k])]_vars
  BY <1>2
<1> QED
  BY <1>3, InductiveInvariant, PTL DEF FailuresOnlyStrengthen
=============================================================================
