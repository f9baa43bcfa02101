----------------------------- MODULE Supervision ----------------------------
(***************************************************************************)
(* The processes around the router: supervisors that spawn, watch and       *)
(* replace a serving child, the instance lock and the port the children     *)
(* compete for, and the endpoints that restart or stop the router           *)
(* (src/app/watchdog.py, src/app/dualstack_serve.py and the restart and     *)
(* shutdown endpoints of src/app/main.py).                                  *)
(*                                                                         *)
(* Processes are numbered in the order they are started; 0 stands for no    *)
(* process, as it does in the lock file.  A process that serves goes        *)
(*   claim -> stamp -> bind -> serve,  or  claim -> look -> break -> claim, *)
(* and one that supervises  gate -> boot -> watch -> respawn -> reboot ->   *)
(* watch.  Probes and time-outs are steps of their own, without durations.  *)
(***************************************************************************)
EXTENDS Integers, FiniteSets

CONSTANTS
  MaxPids,       \* bound: processes ever started
  MaxFailures,   \* MAX_CONSECUTIVE_FAILURES
  MaxRestarts,   \* MAX_RESTARTS_PER_WINDOW
  MaxFaults,     \* bound: crashes, freezes, signals and kills
  MaxRequests,   \* bound: launches and restarts
  UnlinkOpen,    \* POSIX: a file that another process has open can be unlinked
  Paces          \* the paces of the machine to consider, see "slow"

ASSUME SupervisionAssumption ==
  /\ MaxPids \in Nat \ {0} /\ MaxFailures \in Nat \ {0} /\ MaxRestarts \in Nat \ {0}
  /\ MaxFaults \in Nat /\ MaxRequests \in Nat
  /\ UnlinkOpen \in BOOLEAN /\ Paces \subseteq BOOLEAN

Pids == 1 .. MaxPids
NoPid == 0
NoLock == [by |-> NoPid, pid |-> NoPid]

VARIABLES
  pc,         \* what each process is doing
  exit,       \* how it ended: "clean", "crash", "returned", "killed"
  child,      \* supervisor -> its child process
  successor,  \* BSL_INTENDED_SUCCESSOR in the process's environment
  lock,       \* the lock file: who created it and the pid written in it
  port,       \* the process whose listening socket is bound
  ok,         \* server -> "loading", "up" or "frozen": does /health answer?
  failures,   \* supervisor -> consecutive_failures
  restarts,   \* supervisor -> restarts in the window
  signalled,  \* supervisor -> shutting_down
  batch,      \* the restart script: the supervisor it is to kill, or none
  slow,       \* a start may outlast the deadlines of those who wait for it
  ended,      \* history: a person, a return of server.run or a failing spawn has
              \* ended somebody's supervision
  faults, requests

server == <<lock, port, ok>>
watching == <<failures, restarts, signalled>>
bounds == <<slow, ended, faults, requests>>
vars == <<pc, exit, child, successor, server, watching, batch, bounds>>

Supervising == {"boot", "watch", "respawn", "reboot"}
Serving == {"claim", "stamp", "look", "break", "bind", "serve", "handover", "release"}
Phases == {"unborn", "gate", "gone"} \cup Supervising \cup Serving
Exits == {"none", "clean", "crash", "returned", "killed"}
NoBatch == [due |-> FALSE, tree |-> NoPid]

TypeOK ==
  /\ pc \in [Pids -> Phases] /\ exit \in [Pids -> Exits]
  /\ child \in [Pids -> Pids \cup {NoPid}] /\ successor \in [Pids -> BOOLEAN]
  /\ lock \in [by : Pids \cup {NoPid}, pid : Pids \cup {NoPid}]
  /\ port \in Pids \cup {NoPid} /\ ok \in [Pids -> {"loading", "up", "frozen"}]
  /\ failures \in [Pids -> 0 .. MaxFailures]
  /\ restarts \in [Pids -> 0 .. MaxRestarts]
  /\ signalled \in [Pids -> BOOLEAN]
  /\ batch \in [due : BOOLEAN, tree : Pids \cup {NoPid}]
  /\ slow \in Paces /\ ended \in BOOLEAN /\ faults \in 0 .. MaxFaults /\ requests \in 0 .. MaxRequests
  \* the socket belongs to a process that serves, and only to one
  /\ \A p \in Pids : pc[p] \in {"serve", "handover"} <=> port = p

Init ==
  /\ pc = [p \in Pids |-> IF p = 1 THEN "gate" ELSE "unborn"]
  /\ exit = [p \in Pids |-> "none"] /\ child = [p \in Pids |-> NoPid]
  /\ successor = [p \in Pids |-> FALSE]
  /\ lock = NoLock /\ port = NoPid /\ ok = [p \in Pids |-> "loading"]
  /\ failures = [p \in Pids |-> 0] /\ restarts = [p \in Pids |-> 0]
  /\ signalled = [p \in Pids |-> FALSE]
  /\ batch = NoBatch
  /\ slow \in Paces /\ ended = FALSE /\ faults = 0 /\ requests = 0

Alive(p) == p \in Pids /\ pc[p] \notin {"unborn", "gone"}
Healthy == port # NoPid /\ ok[port] = "up"

\* The next process to be started, with what it does first.
IsNext(q) == q \in Pids /\ pc[q] = "unborn" /\ \A r \in 1 .. q - 1 : pc[r] # "unborn"
Exhausted == \A p \in Pids : pc[p] # "unborn"

Fault == faults < MaxFaults /\ faults' = faults + 1 /\ UNCHANGED <<slow, ended, requests>>
Ending == faults < MaxFaults /\ faults' = faults + 1 /\ ended' = TRUE /\ UNCHANGED <<slow, requests>>
Request ==
  requests < MaxRequests /\ requests' = requests + 1 /\ UNCHANGED <<slow, ended, faults>>

\* A process that is gone has closed its socket.
Freed(dead) == IF port \in dead THEN NoPid ELSE port

(* ---- a process that serves -------------------------------------------- *)

Goes(p, from, to) == pc[p] = from /\ pc' = [pc EXCEPT ![p] = to]

Ends(p, how) ==
  /\ pc' = [pc EXCEPT ![p] = "gone"] /\ exit' = [exit EXCEPT ![p] = how]
  /\ port' = Freed({p})

\* Mutant: a lock file that is already there counts as acquired.
ClaimExisting(p) ==
  /\ Goes(p, "claim", "stamp")
  /\ lock' = IF lock = NoLock THEN [by |-> p, pid |-> NoPid] ELSE lock
  /\ UNCHANGED <<exit, child, successor, port, ok, watching, batch, bounds>>

\* acquire_instance_lock: O_CREAT|O_EXCL, and in a second step the pid.
Claim(p) ==
  /\ IF lock = NoLock
     THEN Goes(p, "claim", "stamp") /\ lock' = [by |-> p, pid |-> NoPid]
     ELSE Goes(p, "claim", "look") /\ UNCHANGED lock
  /\ UNCHANGED <<exit, child, successor, port, ok, watching, batch, bounds>>

Stamp(p) ==
  /\ Goes(p, "stamp", "bind")
  /\ lock' = IF lock.by = p THEN [lock EXCEPT !.pid = p] ELSE lock
  /\ successor' = [successor EXCEPT ![p] = FALSE]
  /\ UNCHANGED <<exit, child, port, ok, watching, batch, bounds>>

LookStale(p) ==
  /\ ~Alive(lock.pid)
  /\ Goes(p, "look", "break")
  /\ UNCHANGED <<exit, child, successor, server, watching, batch, bounds>>

\* The holder lives: the duplicate of a healthy router stands down.
LookStandsDown(p) ==
  /\ pc[p] = "look" /\ Alive(lock.pid)
  /\ \/ Healthy /\ ~successor[p]
     \/ Healthy /\ successor[p]   \* the deadline passed
     \/ ~Healthy /\ slow          \* the deadline passed
  /\ Ends(p, "clean")
  /\ UNCHANGED <<child, successor, lock, ok, watching, batch, bounds>>

LookWaits(p) ==
  /\ Alive(lock.pid) /\ ~(Healthy /\ ~successor[p])
  /\ Goes(p, "look", "claim")
  /\ UNCHANGED <<exit, child, successor, server, watching, batch, bounds>>

Unlinkable == UnlinkOpen \/ lock.by = NoPid \/ pc[lock.by] # "stamp"

\* The stale lock is removed by its path, whatever is there by now.
Break(p) ==
  /\ Goes(p, "break", "claim")
  /\ lock' = IF Unlinkable THEN NoLock ELSE lock
  /\ UNCHANGED <<exit, child, successor, port, ok, watching, batch, bounds>>

\* Mutant: SO_REUSEADDR semantics of Windows, a second bind succeeds.
BindAnyway(p) ==
  /\ Goes(p, "bind", "serve") /\ port' = p
  /\ UNCHANGED <<exit, child, successor, lock, ok, watching, batch, bounds>>

Bind(p) ==
  /\ port = NoPid
  /\ Goes(p, "bind", "serve") /\ port' = p
  /\ UNCHANGED <<exit, child, successor, lock, ok, watching, batch, bounds>>

\* The port stayed busy for the whole bind retry.
BindGivesUp(p) ==
  /\ pc[p] = "bind" /\ port # NoPid
  /\ Ends(p, "crash")
  /\ UNCHANGED <<child, successor, lock, ok, watching, batch, bounds>>

\* The application is loaded, or the accept guard has re-armed the listener.
ComesUp(p) ==
  /\ pc[p] = "serve" /\ ok[p] # "up"
  /\ ok' = [ok EXCEPT ![p] = "up"]
  /\ UNCHANGED <<pc, exit, child, successor, lock, port, watching, batch, bounds>>

\* _self_health_watchdog: os._exit(3) without any clean-up.
SelfKill(p) ==
  /\ pc[p] = "serve"
  /\ ok[p] = "frozen" \/ (slow /\ ok[p] = "loading")
  /\ Ends(p, "crash")
  /\ UNCHANGED <<child, successor, lock, ok, watching, batch, bounds>>

\* main's finally: the lock file is unlinked by its path, then the process ends.
Release(p) ==
  /\ pc[p] = "release"
  /\ lock' = NoLock
  /\ pc' = [pc EXCEPT ![p] = "gone"]
  /\ UNCHANGED <<exit, child, successor, port, ok, watching, batch, bounds>>

\* The end of restart_server's thread: os._exit(0).
Leave(p) ==
  /\ pc[p] = "handover"
  /\ Ends(p, "clean")
  /\ UNCHANGED <<child, successor, lock, ok, watching, batch, bounds>>

(* ---- what happens to it ----------------------------------------------- *)

Freeze(p) ==
  /\ pc[p] = "serve" /\ ok[p] = "up" /\ Fault
  /\ ok' = [ok EXCEPT ![p] = "frozen"]
  /\ UNCHANGED <<pc, exit, child, successor, lock, port, watching, batch>>

Crash(p) ==
  /\ pc[p] \in Serving /\ Fault
  /\ Ends(p, "crash")
  /\ UNCHANGED <<child, successor, lock, ok, watching, batch>>

\* server.run returns (main then exits with 0) or raises.
RunEnds(p) ==
  /\ pc[p] = "serve"
  /\ pc' = [pc EXCEPT ![p] = "release"] /\ port' = NoPid
  /\ \/ Fault /\ exit' = [exit EXCEPT ![p] = "crash"]
     \/ Ending /\ exit' = [exit EXCEPT ![p] = "clean"]
  /\ UNCHANGED <<child, successor, lock, ok, watching, batch>>

\* POST /api/version/restart: a successor is started, then the process leaves.
Handover(p) ==
  /\ pc[p] = "serve" /\ ok[p] = "up" /\ Request
  /\ \E q \in Pids :
       /\ IsNext(q)
       /\ pc' = [pc EXCEPT ![p] = "handover", ![q] = "gate"]
       /\ successor' = [successor EXCEPT ![q] = TRUE]
  /\ UNCHANGED <<exit, child, server, watching, batch>>

Parents(p) == {s \in Pids : child[s] = p /\ Alive(s)}

\* POST /api/system/restart: the process leaves a script behind and exits.
SystemRestart(p) ==
  /\ pc[p] = "serve" /\ ok[p] = "up" /\ ~batch.due /\ Request
  /\ batch' = [due |-> TRUE,
               tree |-> IF Parents(p) = {} THEN NoPid ELSE CHOOSE s \in Parents(p) : TRUE]
  /\ Ends(p, "clean")
  /\ UNCHANGED <<child, successor, lock, ok, watching>>

\* The script kills what is left of the tree, deletes the lock and starts anew.
RunBatch ==
  /\ batch.due
  /\ \E q \in Pids :
       LET tree == {p \in {batch.tree} : Alive(p)}
           dead == tree \cup {c \in {child[p] : p \in tree} : Alive(c)}
       IN  /\ IsNext(q)
           /\ pc' = [p \in Pids |-> IF p = q THEN "gate"
                                    ELSE IF p \in dead THEN "gone" ELSE pc[p]]
           /\ exit' = [p \in Pids |-> IF p \in dead THEN "killed" ELSE exit[p]]
           /\ port' = Freed(dead)
           /\ successor' = [successor EXCEPT ![q] = TRUE]
  /\ lock' = NoLock /\ batch' = NoBatch
  /\ UNCHANGED <<child, ok, watching, bounds>>

\* POST /api/system/shutdown; the script that kills the tree finds its parent
\* standing down on the clean exit.
Shutdown(p) ==
  /\ pc[p] = "serve" /\ ok[p] = "up"
  /\ Ends(p, "clean")
  /\ ended' = TRUE
  /\ UNCHANGED <<child, successor, lock, ok, watching, batch, slow, faults, requests>>

(* ---- a supervisor ----------------------------------------------------- *)

Launch(p) ==
  /\ IsNext(p) /\ Request
  /\ pc' = [pc EXCEPT ![p] = "gate"]
  /\ UNCHANGED <<exit, child, successor, server, watching, batch>>

\* The single-instance pre-gate of main.
GateStandsDown(p) ==
  /\ pc[p] = "gate" /\ ~successor[p] /\ Healthy
  /\ Ends(p, "returned")
  /\ UNCHANGED <<child, successor, lock, ok, watching, batch, bounds>>

\* _spawn_child copies the supervisor's environment.
Spawn(p, from, to) ==
  /\ pc[p] = from
  /\ \E q \in Pids :
       /\ IsNext(q)
       /\ pc' = [pc EXCEPT ![p] = to, ![q] = "claim"]
       /\ child' = [child EXCEPT ![p] = q]
       /\ successor' = [successor EXCEPT ![q] = successor[p]]
  /\ UNCHANGED <<exit, server, watching, batch, bounds>>

GateOpens(p) == (successor[p] \/ ~Healthy) /\ Spawn(p, "gate", "boot")

\* An error of Popen reaches main's except clause, which serves unsupervised.
SpawnFails(p) ==
  /\ pc[p] \in {"gate", "respawn"} /\ Ending
  /\ pc' = [pc EXCEPT ![p] = "claim"]
  /\ UNCHANGED <<exit, child, successor, server, watching, batch>>

\* _wait_for_port looks at the port, not at who has it.
BootGate(p) ==
  /\ pc[p] \in {"boot", "reboot"}
  /\ port # NoPid \/ ~Alive(child[p]) \/ slow
  /\ pc' = [pc EXCEPT ![p] = "watch"]
  /\ UNCHANGED <<exit, child, successor, server, watching, batch, bounds>>

\* A child is terminated: uvicorn may still run its finally clause.
Killed(p, c, to) ==
  /\ pc' = [pc EXCEPT ![p] = to, ![c] = "gone"]
  /\ port' = Freed({c})
  /\ \/ UNCHANGED lock
     \/ pc[c] = "serve" /\ lock' = NoLock

\* Mutant: the supervisor that gives up leaves its last child running.
GiveUpLeavesChild(p) ==
  /\ pc' = [pc EXCEPT ![p] = "gone"] /\ exit' = [exit EXCEPT ![p] = "returned"]
  /\ UNCHANGED <<lock, port, failures, restarts>>

GiveUp(p) ==
  /\ Killed(p, child[p], "gone")
  /\ exit' = [exit EXCEPT ![p] = "returned",
                          ![child[p]] = IF Alive(child[p]) THEN "killed" ELSE @]
  /\ UNCHANGED <<failures, restarts>>

\* The restart path, for a crash or a freeze; some restarts have left the window.
Replace(p) ==
  \E recent \in 0 .. restarts[p] :
    IF recent >= MaxRestarts
    THEN GiveUp(p)
    ELSE /\ Killed(p, child[p], "respawn")
         /\ exit' = [exit EXCEPT ![child[p]] = IF Alive(child[p]) THEN "killed" ELSE @]
         /\ restarts' = [restarts EXCEPT ![p] = recent + 1]
         /\ failures' = [failures EXCEPT ![p] = 0]

StandDown(p) ==
  /\ pc' = [pc EXCEPT ![p] = "gone"] /\ exit' = [exit EXCEPT ![p] = "returned"]
  /\ UNCHANGED <<lock, port, failures, restarts>>

Watching(p) ==
  /\ pc[p] = "watch" /\ ~signalled[p]
  /\ UNCHANGED <<child, successor, ok, signalled, batch, bounds>>

\* Mutant: the watch ends when the child has ended, however it ended.
AnyExit(p) == pc[child[p]] = "gone"

CleanExit(p) == pc[child[p]] = "gone" /\ exit[child[p]] = "clean"

WatchClean(p) == Watching(p) /\ CleanExit(p) /\ StandDown(p)

WatchCrash(p) == Watching(p) /\ ~Alive(child[p]) /\ ~CleanExit(p) /\ Replace(p)

WatchHealthy(p) ==
  /\ Watching(p) /\ Alive(child[p]) /\ Healthy
  /\ failures' = [failures EXCEPT ![p] = 0]
  /\ UNCHANGED <<pc, exit, lock, port, restarts>>

Starting(p) ==
  pc[p] \in {"claim", "stamp", "look", "break", "bind"} \/ ok[p] = "loading"

WatchSilent(p) ==
  /\ Watching(p) /\ Alive(child[p]) /\ ~Healthy
  /\ \/ /\ failures[p] + 1 < MaxFailures
        /\ failures' = [failures EXCEPT ![p] = @ + 1]
        /\ UNCHANGED <<pc, exit, lock, port, restarts>>
     \/ /\ failures[p] + 1 >= MaxFailures /\ (slow \/ ~Starting(child[p]))
        /\ Replace(p)

Respawn(p) == Spawn(p, "respawn", "reboot")

\* A signal ends the watch loop; before the handlers are installed, the process.
Signal(p) ==
  /\ Ending
  /\ IF pc[p] \in {"gate", "boot"}
     THEN /\ pc' = [pc EXCEPT ![p] = "gone"] /\ exit' = [exit EXCEPT ![p] = "killed"]
          /\ UNCHANGED signalled
     ELSE /\ pc[p] \in Supervising /\ ~signalled[p]
          /\ signalled' = [signalled EXCEPT ![p] = TRUE]
          /\ UNCHANGED <<pc, exit>>
  /\ UNCHANGED <<child, successor, server, failures, restarts, batch>>

KillSupervisor(p) ==
  /\ pc[p] \in Supervising /\ Ending
  /\ pc' = [pc EXCEPT ![p] = "gone"] /\ exit' = [exit EXCEPT ![p] = "killed"]
  /\ UNCHANGED <<child, successor, server, watching, batch>>

\* The clean shutdown path of run_supervised.
Obey(p) ==
  /\ pc[p] = "watch" /\ signalled[p]
  /\ GiveUp(p)
  /\ UNCHANGED <<child, successor, ok, signalled, batch, bounds>>

(* ---- the system ------------------------------------------------------- *)

Server(p) ==
  \/ Claim(p) \/ Stamp(p) \/ LookStale(p) \/ LookStandsDown(p) \/ LookWaits(p)
  \/ Break(p) \/ Bind(p) \/ BindGivesUp(p) \/ ComesUp(p) \/ SelfKill(p)
  \/ Release(p) \/ Leave(p)

Supervisor(p) ==
  \/ GateStandsDown(p) \/ GateOpens(p) \/ BootGate(p)
  \/ WatchClean(p) \/ WatchCrash(p) \/ WatchSilent(p) \/ WatchHealthy(p)
  \/ Respawn(p) \/ Obey(p)

World(p) ==
  \/ Freeze(p) \/ Crash(p) \/ RunEnds(p) \/ SpawnFails(p) \/ Signal(p) \/ KillSupervisor(p)
  \/ Handover(p) \/ SystemRestart(p) \/ Shutdown(p) \/ Launch(p)

\* Nobody is left, or the bound on processes is reached.
Over == (Exhausted \/ \A p \in Pids : ~Alive(p)) /\ UNCHANGED vars

Next ==
  \/ \E p \in Pids : Server(p) \/ Supervisor(p) \/ World(p)
  \/ RunBatch
  \/ Over

Spec == Init /\ [][Next]_vars

\* Processes are scheduled and every wait at the lock has a deadline.  A loop that
\* only waits may go on for as long as what it waits for does not happen.
FairSpec ==
  /\ Spec /\ WF_vars(RunBatch)
  /\ \A p \in Pids : /\ WF_vars(Server(p)) /\ WF_vars(Supervisor(p))
                     /\ SF_vars(LookStandsDown(p))

(* ---- properties ------------------------------------------------------- *)

\* A router process is accounted for as long as its supervisor was not killed:
\* it is the one its supervisor watches.  In particular a supervisor that gives
\* up, stands down or obeys a signal leaves no child behind.
Accounted ==
  \A s \in Pids : child[s] # NoPid /\ Alive(child[s]) /\ exit[s] # "killed" => Alive(s)

\* While nobody launches or restarts the router by hand, the process that serves
\* is the one named in the lock file, through crashes and replacements.
SoleServerHoldsLock ==
  requests = 0 => \A p \in Pids : pc[p] = "serve" => lock.pid = p

\* As long as somebody supervises, the router comes back: it answers again,
\* unless supervision has been ended or the crash-loop cap is reached.
ServiceReturns ==
  (~slow /\ \E s \in Pids : pc[s] \in Supervising)
    ~> Healthy \/ ended \/ Exhausted \/ \E s \in Pids : restarts[s] = MaxRestarts

\* "Exactly ONE serving process may bind this port."
OneLockOwner ==
  \A p, q \in Pids :
    pc[p] \in {"bind", "serve"} /\ pc[q] \in {"bind", "serve"} => p = q
=============================================================================
