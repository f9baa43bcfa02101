-------------------------- MODULE ErrorPrevention --------------------------
(***************************************************************************)
(* The self-healing ban ladder of app/error_prevention.py.  Every upstream *)
(* failure of a leaf (a model of a provider) counts a strike against the   *)
(* leaf and the type of the error; strikes below the threshold bench the   *)
(* leaf for a short cooldown, and each time the threshold is reached the   *)
(* leaf climbs a rung: softban, longban, then disabled until an            *)
(* administrator re-enables it.                                            *)
(*                                                                         *)
(* Reports come from requests that chose the leaf before the ban landed,   *)
(* so they may arrive under an active ban.  Ladder bans are written to     *)
(* config.yaml, cooldowns to a sidecar file, and the process may be        *)
(* restarted at any moment.  As in CircuitBreaker, the model stores the    *)
(* time left until ban_until, here for the file copies too.                *)
(***************************************************************************)
EXTENDS Integers

CONSTANTS
    Leaves,          \* provider/model pairs
    Types,           \* the error types that start a streak
    MultiKey,        \* leaves whose provider has another key to rotate to
    Attempts,        \* slots for upstream attempts in flight
    Threshold,       \* consecutive_threshold
    Cooldown,        \* per type, the immediate cooldown
    SoftBan,         \* softban_duration_minutes
    LongBan,         \* longban_duration_minutes
    AutoDisable,     \* the values disable_after_longban may be set to
    DiskMayFail      \* whether a write of config.yaml may fail

ASSUME ThresholdAssumption == Threshold \in Nat \ {0}
ASSUME DurationsAssumption ==
    /\ Cooldown \in [Types -> Nat]
    /\ SoftBan \in Nat
    /\ LongBan \in Nat
ASSUME ChoicesAssumption ==
    /\ MultiKey \subseteq Leaves
    /\ AutoDisable \subseteq BOOLEAN
    /\ AutoDisable # {}
    /\ DiskMayFail \in BOOLEAN

Keys == Leaves \X Types

Timed == {"softban", "longban"}
Bans == Timed \cup {"none", "disabled"}

Entry == [streak : 0..(Threshold - 1), ban : Bans, left : Nat, rung : 0..2]

FreshEntry == [streak |-> 0, ban |-> "none", left |-> 0, rung |-> 0]

Idle == [leaf |-> "none", benched |-> FALSE]

VARIABLES
    state,     \* error_prevention_state of the live config
    off,       \* models whose `enabled' flag is False in the live config
    settings,  \* the error_prevention section of the live config
    disk,      \* what config.yaml says of `state' and `off'
    sidecar,   \* time left of the last cooldown written to aep_runtime.json
    attempt,   \* upstream attempts in flight
    reply      \* what the last step told the administrator

vars == <<state, off, settings, disk, sidecar, attempt, reply>>

Live == [state |-> state, off |-> off]

-----------------------------------------------------------------------------
(* Bans.                                                                   *)

Active(e) == e.ban = "disabled" \/ (e.ban \in Timed /\ e.left > 0)

Lapsed(e) == e.ban \in Timed /\ e.left = 0

Cleared(e) == [e EXCEPT !.ban = "none", !.left = 0]

ActiveTypes(l) == {t \in Types : Active(state[<<l, t>>])}

Banned(l) == settings.enabled /\ ActiveTypes(l) # {}

\* is_banned walks the leaf's entries in the order they were created, clears
\* the lapsed ones it meets and stops at the first active one.
BansChecked(l, new) ==
    \E seen \in SUBSET {t \in Types : Lapsed(state[<<l, t>>])} :
        /\ ActiveTypes(l) = {} => seen = {t \in Types : Lapsed(state[<<l, t>>])}
        /\ new = [k \in Keys |->
                    IF settings.enabled /\ k[1] = l /\ k[2] \in seen
                    THEN Cleared(state[k]) ELSE state[k]]

-----------------------------------------------------------------------------
(* record_error.                                                           *)

\* A ban in force that a cooldown of type t would weaken.
Outranks(e, t) == e.ban = "disabled" \/ (e.ban \in Timed /\ e.left > Cooldown[t])

\* Mutant: a cooldown replaces whatever ban is in force.
BenchedUnguarded(e, t) ==
    [e EXCEPT !.streak = @ + 1, !.ban = "softban", !.left = Cooldown[t]]

\* Below the threshold: a cooldown at once, unless a stronger ban is in force;
\* the streak grows in both cases.
Benched(e, t) ==
    IF Outranks(e, t)
    THEN [e EXCEPT !.streak = @ + 1]
    ELSE [e EXCEPT !.streak = @ + 1, !.ban = "softban", !.left = Cooldown[t]]

\* Mutant: the rung is not remembered after a softban.
EscalatedForgetful(e, autoDisable) ==
    CASE e.rung = 0 -> [streak |-> 0, ban |-> "softban", left |-> SoftBan, rung |-> 0]
      [] e.rung = 1 -> [streak |-> 0, ban |-> "longban", left |-> LongBan, rung |-> 2]
      [] e.rung = 2 -> [streak |-> 0, ban |-> IF autoDisable THEN "disabled" ELSE "none",
                        left |-> 0, rung |-> 2]

\* Mutant: a strike that earns a ban leaves the streak where it is.
EscalatedKeepsStreak(e, autoDisable) ==
    CASE e.rung = 0 -> [e EXCEPT !.streak = @ + 1, !.ban = "softban", !.left = SoftBan, !.rung = 1]
      [] e.rung = 1 -> [e EXCEPT !.streak = @ + 1, !.ban = "longban", !.left = LongBan, !.rung = 2]
      [] e.rung = 2 -> [e EXCEPT !.streak = @ + 1, !.ban = "disabled", !.left = 0]

\* At the threshold: the next rung.
Escalated(e, autoDisable) ==
    CASE e.rung = 0 -> [streak |-> 0, ban |-> "softban", left |-> SoftBan, rung |-> 1]
      [] e.rung = 1 -> [streak |-> 0, ban |-> "longban", left |-> LongBan, rung |-> 2]
      [] e.rung = 2 -> [streak |-> 0, ban |-> IF autoDisable THEN "disabled" ELSE "none",
                        left |-> 0, rung |-> 2]

Strikes(e) == e.streak + 1 >= Threshold

\* Mutant: ladder bans stay in memory.
PersistedNever(ok) == disk' = disk

\* The whole live state is written, or the write fails and is only logged.
Persisted(ok) == disk' = IF ok THEN Live' ELSE disk

WriteOutcomes == IF DiskMayFail THEN BOOLEAN ELSE {TRUE}

\* record_outcome for a failure of type k[2]: the strike, the flag of a model
\* that gets disabled, and the file the ban is kept in.
Failure(k, ok) ==
    IF ~settings.enabled THEN UNCHANGED <<state, off, disk, sidecar>>
    ELSE LET e == state[k]
             new == IF Strikes(e) THEN Escalated(e, settings.autoDisable)
                                  ELSE Benched(e, k[2])
         IN /\ state' = [state EXCEPT ![k] = new]
            /\ off' = IF Strikes(e) /\ new.ban = "disabled" THEN off \cup {k[1]} ELSE off
            /\ IF Strikes(e)
               THEN Persisted(ok) /\ UNCHANGED sidecar
               ELSE /\ sidecar' = IF Outranks(e, k[2]) THEN sidecar
                                  ELSE [sidecar EXCEPT ![k] = Cooldown[k[2]]]
                    /\ UNCHANGED disk

\* record_success: every streak of the leaf ends, and softbans with it.
Relieved(e) ==
    IF e.ban = "softban" THEN Cleared([e EXCEPT !.streak = 0]) ELSE [e EXCEPT !.streak = 0]

Success(l) ==
    /\ state' = [k \in Keys |-> IF settings.enabled /\ k[1] = l
                                THEN Relieved(state[k]) ELSE state[k]]
    /\ UNCHANGED <<off, disk, sidecar>>

-----------------------------------------------------------------------------
Init ==
    /\ state = [k \in Keys |-> FreshEntry]
    /\ off = {}
    /\ settings \in [enabled : {TRUE}, autoDisable : AutoDisable]
    /\ disk = Live
    /\ sidecar = [k \in Keys |-> 0]
    /\ attempt = [a \in Attempts |-> Idle]
    /\ reply = "none"

\* An attempt starts on a leaf the ban check lets through: no ban is active, or
\* the ban it meets first is a timed one and the provider has another key.
Dispatch(a, l) ==
    /\ attempt[a] = Idle
    /\ \/ ~Banned(l)
       \/ l \in MultiKey /\ \E t \in ActiveTypes(l) : state[<<l, t>>].ban \in Timed
    /\ BansChecked(l, state')
    /\ attempt' = [attempt EXCEPT ![a] = [leaf |-> l, benched |-> FALSE]]
    /\ UNCHANGED <<off, settings, disk, sidecar>>

\* The ban check of a request that is turned away, or that goes to another leaf.
Peek(l) ==
    /\ BansChecked(l, state')
    /\ UNCHANGED <<off, settings, disk, sidecar, attempt>>

\* bench_leaf: a stream dies; its failure is recorded while the attempt is still
\* being wound up, and log_request will report the attempt again.
Bench(a, t, ok) ==
    /\ attempt[a] # Idle
    /\ ~attempt[a].benched
    /\ Failure(<<attempt[a].leaf, t>>, ok)
    /\ attempt' = [attempt EXCEPT ![a].benched = TRUE]
    /\ UNCHANGED settings

Fail(a, t, ok) ==
    /\ attempt[a] # Idle
    /\ Failure(<<attempt[a].leaf, t>>, ok)
    /\ attempt' = [attempt EXCEPT ![a] = Idle]
    /\ UNCHANGED settings

\* A success, or an error after the upstream had delivered tokens.
Succeed(a) ==
    /\ attempt[a] # Idle
    /\ Success(attempt[a].leaf)
    /\ attempt' = [attempt EXCEPT ![a] = Idle]
    /\ UNCHANGED settings

\* A client payload error or a client that went away says nothing of the leaf.
Discount(a) ==
    /\ attempt[a] # Idle
    /\ attempt' = [attempt EXCEPT ![a] = Idle]
    /\ UNCHANGED <<state, off, settings, disk, sidecar>>

-----------------------------------------------------------------------------
(* The administrator.                                                      *)

\* Mutant: lifting the temporary bans lifts every ban.
SparedAll(e) == Cleared([e EXCEPT !.streak = 0])

Spared(e) == IF e.ban \in Timed THEN Cleared([e EXCEPT !.streak = 0]) ELSE e

\* clear_temp_bans_with_count on the live state; no file is written.
ClearTempBans ==
    /\ state' = [k \in Keys |-> Spared(state[k])]
    /\ UNCHANGED <<off, settings, disk, sidecar, attempt>>

SelfDisabled == {l \in Leaves : \E t \in Types : state[<<l, t>>].ban = "disabled"}

\* /api/error-prevention/lift-all-bans works on a deep copy of the config and
\* commits it only when a disabled model was re-enabled; it answers with the
\* number of bans it cleared on the copy.
LiftAll(ok) ==
    LET lifted == [k \in Keys |-> IF state[k].ban = "disabled" THEN FreshEntry
                                  ELSE Spared(state[k])]
    IN /\ reply' = "lifted"
       /\ IF SelfDisabled \cap off # {} /\ ok
          THEN /\ state' = lifted
               /\ off' = off \ SelfDisabled
               /\ Persisted(TRUE)
          ELSE UNCHANGED <<state, off, disk>>
       /\ UNCHANGED <<settings, sidecar, attempt>>

\* manually_enable_model: every entry of the model starts afresh.
EnableModel(l, ok) ==
    /\ IF ok
       THEN /\ state' = [k \in Keys |-> IF k[1] = l THEN FreshEntry ELSE state[k]]
            /\ off' = off \ {l}
            /\ Persisted(TRUE)
       ELSE UNCHANGED <<state, off, disk>>
    /\ UNCHANGED <<settings, sidecar, attempt>>

\* The dashboard saves its config: model flags and settings change, the live ban
\* state is carried over, everything is written.
SaveConfig(flags, new) ==
    /\ off' = flags
    /\ settings' = new
    /\ UNCHANGED state
    /\ Persisted(TRUE)
    /\ <<off', settings', disk'>> # <<off, settings, disk>>
    /\ UNCHANGED <<sidecar, attempt>>

-----------------------------------------------------------------------------
Aged(n) == IF n > 0 THEN n - 1 ELSE 0

AgedEntries(s) == [k \in Keys |-> [s[k] EXCEPT !.left = Aged(@)]]

\* Some ban or cooldown still has time to run.
Running ==
    \E k \in Keys : state[k].left > 0 \/ disk.state[k].left > 0 \/ sidecar[k] > 0

Tick ==
    /\ Running
    /\ state' = AgedEntries(state)
    /\ disk' = [disk EXCEPT !.state = AgedEntries(@)]
    /\ sidecar' = [k \in Keys |-> Aged(sidecar[k])]
    /\ UNCHANGED <<off, settings, attempt>>

\* Mutant: the file keeps how long a ban is, not when it ends.
Renewed(e) ==
    [e EXCEPT !.left = CASE e.ban = "softban" -> SoftBan
                         [] e.ban = "longban" -> LongBan
                         [] OTHER -> @]
RestartRenews ==
    /\ state' = [k \in Keys |-> Renewed(disk.state[k])]
    /\ off' = disk.off
    /\ attempt' = [a \in Attempts |-> Idle]
    /\ UNCHANGED <<settings, disk, sidecar>>

\* The process dies and starts again from config.yaml.  lifespan takes its
\* `config' before load_config replaces the live one, so what load_runtime_bans
\* merges from the sidecar goes into an object nobody reads any more.
Restart ==
    /\ state' = disk.state
    /\ off' = disk.off
    /\ attempt' = [a \in Attempts |-> Idle]
    /\ UNCHANGED <<settings, disk, sidecar>>

Report ==
    \/ \E a \in Attempts, t \in Types, ok \in WriteOutcomes :
          Bench(a, t, ok) \/ Fail(a, t, ok)
    \/ \E a \in Attempts : Succeed(a) \/ Discount(a)

Traffic ==
    \/ \E a \in Attempts, l \in Leaves : Dispatch(a, l)
    \/ \E l \in Leaves : Peek(l)
    \/ Report

Admin ==
    \/ ClearTempBans
    \/ \E l \in Leaves, ok \in WriteOutcomes : EnableModel(l, ok)
    \/ \E flags \in SUBSET Leaves, new \in [enabled : BOOLEAN, autoDisable : AutoDisable] :
          SaveConfig(flags, new)

Next ==
    \/ Traffic /\ reply' = "none"
    \/ Admin /\ reply' = "none"
    \/ Tick /\ reply' = "none"
    \/ Restart /\ reply' = "none"
    \/ \E ok \in WriteOutcomes : LiftAll(ok)

Spec == Init /\ [][Next]_vars

\* Only time is fair.
FairSpec == Spec /\ WF_vars(Tick /\ reply' = "none")

-----------------------------------------------------------------------------
TypeOK ==
    /\ state \in [Keys -> Entry]
    /\ off \subseteq Leaves
    /\ settings \in [enabled : BOOLEAN, autoDisable : AutoDisable]
    /\ disk \in [state : [Keys -> Entry], off : SUBSET Leaves]
    /\ sidecar \in [Keys -> Nat]
    /\ attempt \in [Attempts -> [leaf : Leaves, benched : BOOLEAN] \cup {Idle}]
    /\ reply \in {"none", "lifted"}

\* The ban of an entry and its place on the ladder agree, in memory and on disk:
\* only the top rung gives longbans and disables, a ban longer than the type's
\* cooldown was earned on the ladder, and below the top rung no ban outlasts both
\* the cooldown and the softban.
OnLadder(e, t) ==
    /\ e.ban \in {"longban", "disabled"} => e.rung = 2
    /\ e.ban \in Timed /\ e.left > Cooldown[t] => e.rung > 0
    /\ e.rung < 2 => e.left <= SoftBan \/ e.left <= Cooldown[t]

LadderConsistent ==
    \A k \in Keys : OnLadder(state[k], k[2]) /\ OnLadder(disk.state[k], k[2])

\* When writes succeed, a disabled entry is also disabled in config.yaml: no
\* crash brings a self-disabled model back.
DisabledIsOnDisk ==
    \A k \in Keys : state[k].ban = "disabled" => disk.state[k].ban = "disabled"

\* A self-disabled model comes back only by the administrator's hand: no report,
\* save, check, restart or passing of time lifts the ban.
DisabledStays ==
    [][\A k \in Keys : state[k].ban = "disabled" /\ state'[k].ban # "disabled" =>
          \E l \in Leaves, ok \in BOOLEAN : LiftAll(ok) \/ EnableModel(l, ok)]_vars

\* A late failure never weakens a ban in force: an entry that is disabled stays
\* so, and one that has time to run keeps at least that time.
AtLeast(new, old) ==
    \/ new.ban = "disabled"
    \/ ~Active(old)
    \/ old.ban \in Timed /\ new.ban \in Timed /\ new.left >= old.left

FailuresOnlyStrengthen ==
    [][\A a \in Attempts, t \in Types, ok \in BOOLEAN :
          Fail(a, t, ok) \/ Bench(a, t, ok)
              => \A k \in Keys : AtLeast(state'[k], state[k])]_vars

\* A timed ban of a single-key leaf ends although late failures extend it, and
\* failures of two types could take turns at it for ever: new attempts are kept
\* off the leaf, so the failures run out, and a restart does not start the ban
\* again.
TimedBansEnd ==
    \A l \in Leaves \ MultiKey :
        Banned(l) ~> (~Banned(l) \/ l \in SelfDisabled)

\* "Full ban lift: clear temp/soft/long bans and re-enable models that were
\* disabled": once the administrator is told so, no ban is in force.
LiftAllLifts == reply = "lifted" => \A k \in Keys : ~Active(state[k])
=============================================================================
