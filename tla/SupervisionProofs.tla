-------------------------- MODULE SupervisionProofs -------------------------
(***************************************************************************)
(* Proofs about Supervision for any number of processes, any caps and any   *)
(* number of faults and requests.                                           *)
(***************************************************************************)
EXTENDS Supervision, TLAPS

\* A child was started after its supervisor's gate, by nobody else than its
\* supervisor, and is dead when the supervisor replaces it or serves instead.
Lineage ==
  \A s \in Pids :
    /\ child[s] # NoPid => pc[child[s]] # "unborn" /\ child[s] # s
    /\ pc[s] \in {"unborn", "gate"} => child[s] = NoPid
    /\ pc[s] \in Serving \cup {"respawn"} => ~Alive(child[s])

\* The inductive invariant: a supervisor ends in many places, and each of them
\* leaves no child only because of what Lineage says of the place.
IInv == TypeOK /\ Lineage /\ Accounted

\* 0 is nobody's process number.
LEMMA NoPidIsNone == NoPid \notin Pids
  BY SupervisionAssumption DEF NoPid, Pids

\* Every step keeps the types, and the socket with the process that serves.
LEMMA TypeStep ==
  ASSUME TypeOK, [Next]_vars
  PROVE  TypeOK'
<1> USE SupervisionAssumption, NoPidIsNone DEF TypeOK, Phases, Exits, Supervising, Serving, NoBatch, NoLock, server, watching, bounds
<1>1. ASSUME NEW p \in Pids, Claim(p) PROVE TypeOK'
  BY <1>1 DEF Claim, Goes
<1>2. ASSUME NEW p \in Pids, Stamp(p) PROVE TypeOK'
  BY <1>2 DEF Stamp, Goes
<1>3. ASSUME NEW p \in Pids, LookStale(p) PROVE TypeOK'
  BY <1>3 DEF LookStale, Goes
<1>4. ASSUME NEW p \in Pids, LookStandsDown(p) PROVE TypeOK'
  BY <1>4 DEF LookStandsDown, Ends, Freed
<1>5. ASSUME NEW p \in Pids, LookWaits(p) PROVE TypeOK'
  BY <1>5 DEF LookWaits, Goes
<1>6. ASSUME NEW p \in Pids, Break(p) PROVE TypeOK'
  BY <1>6 DEF Break, Goes
<1>7. ASSUME NEW p \in Pids, Bind(p) PROVE TypeOK'
  BY <1>7 DEF Bind, Goes
<1>8. ASSUME NEW p \in Pids, BindGivesUp(p) PROVE TypeOK'
  BY <1>8 DEF BindGivesUp, Ends, Freed
<1>9. ASSUME NEW p \in Pids, ComesUp(p) PROVE TypeOK'
  BY <1>9 DEF ComesUp
<1>10. ASSUME NEW p \in Pids, SelfKill(p) PROVE TypeOK'
  BY <1>10 DEF SelfKill, Ends, Freed
<1>11. ASSUME NEW p \in Pids, Release(p) PROVE TypeOK'
  BY <1>11 DEF Release
<1>12. ASSUME NEW p \in Pids, Leave(p) PROVE TypeOK'
  BY <1>12 DEF Leave, Ends, Freed
<1>13. ASSUME NEW p \in Pids, Freeze(p) PROVE TypeOK'
  BY <1>13 DEF Freeze, Fault
<1>14. ASSUME NEW p \in Pids, Crash(p) PROVE TypeOK'
  BY <1>14 DEF Crash, Ends, Freed, Fault
<1>15. ASSUME NEW p \in Pids, RunEnds(p) PROVE TypeOK'
  <2>1. faults' \in 0 .. MaxFaults /\ ended' \in BOOLEAN /\ UNCHANGED <<slow, requests>>
    <3>1. CASE Fault
      BY <3>1 DEF Fault
    <3>2. CASE Ending
      BY <3>2 DEF Ending
    <3> QED
      BY <1>15, <3>1, <3>2 DEF RunEnds
  <2>2. /\ pc[p] = "serve" /\ pc' = [pc EXCEPT ![p] = "release"] /\ port' = NoPid
        /\ exit' \in {[exit EXCEPT ![p] = "crash"], [exit EXCEPT ![p] = "clean"]}
        /\ UNCHANGED <<child, successor, lock, ok, watching, batch>>
    BY <1>15 DEF RunEnds
  <2> QED
    BY <2>1, <2>2
<1>16. ASSUME NEW p \in Pids, Handover(p) PROVE TypeOK'
  BY <1>16 DEF Handover, IsNext, Request
<1>17. ASSUME NEW p \in Pids, SystemRestart(p) PROVE TypeOK'
  <2>1. batch' \in [due : BOOLEAN, tree : Pids \cup {NoPid}]
    BY <1>17 DEF SystemRestart, Parents
  <2> QED
    BY <1>17, <2>1 DEF SystemRestart, Ends, Freed, Request
<1>18. ASSUME NEW p \in Pids, Shutdown(p) PROVE TypeOK'
  BY <1>18 DEF Shutdown, Ends, Freed
<1>19. ASSUME NEW p \in Pids, Launch(p) PROVE TypeOK'
  BY <1>19 DEF Launch, IsNext, Request
<1>20. ASSUME NEW p \in Pids, GateStandsDown(p) PROVE TypeOK'
  BY <1>20 DEF GateStandsDown, Ends, Freed
<1>21. ASSUME NEW p \in Pids, GateOpens(p) PROVE TypeOK'
  BY <1>21 DEF GateOpens, Spawn, IsNext
<1>22. ASSUME NEW p \in Pids, SpawnFails(p) PROVE TypeOK'
  BY <1>22 DEF SpawnFails, Ending
<1>23. ASSUME NEW p \in Pids, BootGate(p) PROVE TypeOK'
  BY <1>23 DEF BootGate
<1>24. ASSUME NEW p \in Pids, WatchClean(p) PROVE TypeOK'
  BY <1>24 DEF WatchClean, Watching, StandDown, CleanExit
<1>25. ASSUME NEW p \in Pids, WatchCrash(p) PROVE TypeOK'
  BY <1>25 DEF WatchCrash, Watching, CleanExit, Replace, GiveUp, Killed, Freed
<1>26. ASSUME NEW p \in Pids, WatchHealthy(p) PROVE TypeOK'
  BY <1>26 DEF WatchHealthy, Watching
<1>27. ASSUME NEW p \in Pids, WatchSilent(p) PROVE TypeOK'
  BY <1>27 DEF WatchSilent, Watching, Replace, GiveUp, Killed, Freed
<1>28. ASSUME NEW p \in Pids, Respawn(p) PROVE TypeOK'
  BY <1>28 DEF Respawn, Spawn, IsNext
<1>29. ASSUME NEW p \in Pids, Signal(p) PROVE TypeOK'
  <2>1. faults' \in 0 .. MaxFaults /\ ended' \in BOOLEAN /\ UNCHANGED <<slow, requests>>
    BY <1>29 DEF Signal, Ending
  <2>2. UNCHANGED <<child, successor, server, failures, restarts, batch>>
    BY <1>29 DEF Signal
  <2>3. CASE pc[p] \in {"gate", "boot"}
    BY <1>29, <2>1, <2>2, <2>3 DEF Signal
  <2>4. CASE pc[p] \notin {"gate", "boot"}
    BY <1>29, <2>1, <2>2, <2>4 DEF Signal
  <2> QED
    BY <2>3, <2>4
<1>30. ASSUME NEW p \in Pids, KillSupervisor(p) PROVE TypeOK'
  BY <1>30 DEF KillSupervisor, Ending
<1>31. ASSUME NEW p \in Pids, Obey(p) PROVE TypeOK'
  <2>1. /\ UNCHANGED <<child, successor, ok, signalled, batch, bounds, failures, restarts>>
        /\ pc' = [pc EXCEPT ![p] = "gone", ![child[p]] = "gone"]
        /\ pc[p] = "watch"
        /\ port' = Freed({child[p]})
        /\ lock' \in {lock, NoLock}
    BY <1>31 DEF Obey, GiveUp, Killed
  <2>2. exit' \in [Pids -> Exits]
    BY <1>31 DEF Obey, GiveUp
  <2>3. pc' \in [Pids -> Phases]
    BY <2>1
  <2>6. lock' \in [by : Pids \cup {NoPid}, pid : Pids \cup {NoPid}]
    BY <2>1
  <2>4. \A q \in Pids : pc'[q] \in {"serve", "handover"} <=> port' = q
    BY <2>1 DEF Freed
  <2>5. port' \in Pids \cup {NoPid}
    BY <2>1 DEF Freed
  <2> QED
    BY <2>1, <2>2, <2>3, <2>4, <2>5, <2>6
<1>32. CASE RunBatch
  BY <1>32 DEF RunBatch, IsNext, Freed, Alive
<1>33. CASE UNCHANGED vars
  BY <1>33 DEF vars
<1> QED
  BY <1>1, <1>2, <1>3, <1>4, <1>5, <1>6, <1>7, <1>8, <1>9, <1>10, <1>11, <1>12, <1>13, <1>14, <1>15, <1>16, <1>17, <1>18, <1>19, <1>20, <1>21, <1>22, <1>23, <1>24, <1>25, <1>26, <1>27, <1>28, <1>29, <1>30, <1>31, <1>32, <1>33
     DEF Next, Server, Supervisor, World, Over

\* Every step keeps the lineages, whoever starts, ends or replaces a process.
LEMMA LineageStep ==
  ASSUME TypeOK, Lineage, Accounted, [Next]_vars
  PROVE  Lineage' /\ Accounted'
<1> USE NoPidIsNone DEF TypeOK, Lineage, Accounted, Alive, Phases, Exits, Supervising, Serving, NoBatch, NoLock, server, watching, bounds
<1>1. ASSUME NEW p \in Pids, Claim(p) PROVE Lineage' /\ Accounted'
  BY <1>1 DEF Claim, Goes
<1>2. ASSUME NEW p \in Pids, Stamp(p) PROVE Lineage' /\ Accounted'
  BY <1>2 DEF Stamp, Goes
<1>3. ASSUME NEW p \in Pids, LookStale(p) PROVE Lineage' /\ Accounted'
  BY <1>3 DEF LookStale, Goes
<1>4. ASSUME NEW p \in Pids, LookStandsDown(p) PROVE Lineage' /\ Accounted'
  BY <1>4 DEF LookStandsDown, Ends, Freed
<1>5. ASSUME NEW p \in Pids, LookWaits(p) PROVE Lineage' /\ Accounted'
  BY <1>5 DEF LookWaits, Goes
<1>6. ASSUME NEW p \in Pids, Break(p) PROVE Lineage' /\ Accounted'
  BY <1>6 DEF Break, Goes
<1>7. ASSUME NEW p \in Pids, Bind(p) PROVE Lineage' /\ Accounted'
  BY <1>7 DEF Bind, Goes
<1>8. ASSUME NEW p \in Pids, BindGivesUp(p) PROVE Lineage' /\ Accounted'
  BY <1>8 DEF BindGivesUp, Ends, Freed
<1>9. ASSUME NEW p \in Pids, ComesUp(p) PROVE Lineage' /\ Accounted'
  BY <1>9 DEF ComesUp
<1>10. ASSUME NEW p \in Pids, SelfKill(p) PROVE Lineage' /\ Accounted'
  BY <1>10 DEF SelfKill, Ends, Freed
<1>11. ASSUME NEW p \in Pids, Release(p) PROVE Lineage' /\ Accounted'
  BY <1>11 DEF Release
<1>12. ASSUME NEW p \in Pids, Leave(p) PROVE Lineage' /\ Accounted'
  BY <1>12 DEF Leave, Ends, Freed
<1>13. ASSUME NEW p \in Pids, Freeze(p) PROVE Lineage' /\ Accounted'
  BY <1>13 DEF Freeze, Fault
<1>14. ASSUME NEW p \in Pids, Crash(p) PROVE Lineage' /\ Accounted'
  BY <1>14 DEF Crash, Ends, Freed, Fault
<1>15. ASSUME NEW p \in Pids, RunEnds(p) PROVE Lineage' /\ Accounted'
  BY <1>15 DEF RunEnds, Fault, Ending
<1>16. ASSUME NEW p \in Pids, Handover(p) PROVE Lineage' /\ Accounted'
  BY <1>16 DEF Handover, IsNext, Request
<1>17. ASSUME NEW p \in Pids, SystemRestart(p) PROVE Lineage' /\ Accounted'
  BY <1>17 DEF SystemRestart, Ends, Freed, Request
<1>18. ASSUME NEW p \in Pids, Shutdown(p) PROVE Lineage' /\ Accounted'
  BY <1>18 DEF Shutdown, Ends, Freed
<1>19. ASSUME NEW p \in Pids, Launch(p) PROVE Lineage' /\ Accounted'
  BY <1>19 DEF Launch, IsNext, Request
<1>20. ASSUME NEW p \in Pids, GateStandsDown(p) PROVE Lineage' /\ Accounted'
  BY <1>20 DEF GateStandsDown, Ends, Freed
<1>21. ASSUME NEW p \in Pids, GateOpens(p) PROVE Lineage' /\ Accounted'
  BY <1>21 DEF GateOpens, Spawn, IsNext
<1>22. ASSUME NEW p \in Pids, SpawnFails(p) PROVE Lineage' /\ Accounted'
  BY <1>22 DEF SpawnFails, Ending
<1>23. ASSUME NEW p \in Pids, BootGate(p) PROVE Lineage' /\ Accounted'
  BY <1>23 DEF BootGate
<1>24. ASSUME NEW p \in Pids, WatchClean(p) PROVE Lineage' /\ Accounted'
  BY <1>24 DEF WatchClean, Watching, StandDown, CleanExit
<1>25. ASSUME NEW p \in Pids, WatchCrash(p) PROVE Lineage' /\ Accounted'
  BY <1>25 DEF WatchCrash, Watching, CleanExit, Replace, GiveUp, Killed, Freed
<1>26. ASSUME NEW p \in Pids, WatchHealthy(p) PROVE Lineage' /\ Accounted'
  BY <1>26 DEF WatchHealthy, Watching
<1>27. ASSUME NEW p \in Pids, WatchSilent(p) PROVE Lineage' /\ Accounted'
  BY <1>27 DEF WatchSilent, Watching, Replace, GiveUp, Killed, Freed
<1>28. ASSUME NEW p \in Pids, Respawn(p) PROVE Lineage' /\ Accounted'
  BY <1>28 DEF Respawn, Spawn, IsNext
<1>29. ASSUME NEW p \in Pids, Signal(p) PROVE Lineage' /\ Accounted'
  BY <1>29 DEF Signal, Ending
<1>30. ASSUME NEW p \in Pids, KillSupervisor(p) PROVE Lineage' /\ Accounted'
  BY <1>30 DEF KillSupervisor, Ending
<1>31. ASSUME NEW p \in Pids, Obey(p) PROVE Lineage' /\ Accounted'
  BY <1>31 DEF Obey, GiveUp, Killed, Freed
<1>32. CASE RunBatch
  BY <1>32 DEF RunBatch, IsNext, Freed, Alive
<1>33. CASE UNCHANGED vars
  BY <1>33 DEF vars
<1> QED
  BY <1>1, <1>2, <1>3, <1>4, <1>5, <1>6, <1>7, <1>8, <1>9, <1>10, <1>11, <1>12, <1>13, <1>14, <1>15, <1>16, <1>17, <1>18, <1>19, <1>20, <1>21, <1>22, <1>23, <1>24, <1>25, <1>26, <1>27, <1>28, <1>29, <1>30, <1>31, <1>32, <1>33
     DEF Next, Server, Supervisor, World, Over

\* Before anybody launches or restarts the router there is one lineage: process 1
\* and its child, and whichever of them serves found the lock free.
OneLineage ==
  requests = 0 =>
    /\ ~batch.due
    /\ \A p \in Pids : Alive(p) => p = 1 \/ p = child[1]
    /\ \A p \in Pids : child[p] # NoPid \/ pc[p] \in Supervising \cup {"gate"} => p = 1
    /\ \A p \in Pids : pc[p] = "stamp" => lock.by = p
    /\ \A p \in Pids : pc[p] \in {"bind", "serve"} => lock.pid = p

\* Every step of an undisturbed lineage keeps it one.
LEMMA OneLineageStep ==
  ASSUME TypeOK, Lineage, OneLineage, [Next]_vars
  PROVE  OneLineage'
<1> 1 \in Pids
  BY SupervisionAssumption DEF Pids
<1> USE NoPidIsNone DEF TypeOK, Lineage, OneLineage, Alive, Supervising, Serving, NoLock, server, watching, bounds
<1>1. ASSUME NEW p \in Pids, Claim(p) PROVE OneLineage'
  BY <1>1 DEF Claim, Goes
<1>2. ASSUME NEW p \in Pids, Stamp(p) PROVE OneLineage'
  BY <1>2 DEF Stamp, Goes
<1>3. ASSUME NEW p \in Pids, LookStale(p) PROVE OneLineage'
  BY <1>3 DEF LookStale, Goes
<1>4. ASSUME NEW p \in Pids, LookStandsDown(p) PROVE OneLineage'
  BY <1>4 DEF LookStandsDown, Ends
<1>5. ASSUME NEW p \in Pids, LookWaits(p) PROVE OneLineage'
  BY <1>5 DEF LookWaits, Goes
<1>6. ASSUME NEW p \in Pids, Break(p) PROVE OneLineage'
  BY <1>6 DEF Break, Goes
<1>7. ASSUME NEW p \in Pids, Bind(p) PROVE OneLineage'
  BY <1>7 DEF Bind, Goes
<1>8. ASSUME NEW p \in Pids, BindGivesUp(p) PROVE OneLineage'
  BY <1>8 DEF BindGivesUp, Ends
<1>9. ASSUME NEW p \in Pids, ComesUp(p) PROVE OneLineage'
  BY <1>9 DEF ComesUp
<1>10. ASSUME NEW p \in Pids, SelfKill(p) PROVE OneLineage'
  BY <1>10 DEF SelfKill, Ends
<1>11. ASSUME NEW p \in Pids, Release(p) PROVE OneLineage'
  BY <1>11 DEF Release
<1>12. ASSUME NEW p \in Pids, Leave(p) PROVE OneLineage'
  BY <1>12 DEF Leave, Ends
<1>13. ASSUME NEW p \in Pids, Freeze(p) PROVE OneLineage'
  BY <1>13 DEF Freeze, Fault
<1>14. ASSUME NEW p \in Pids, Crash(p) PROVE OneLineage'
  BY <1>14 DEF Crash, Ends, Fault
<1>15. ASSUME NEW p \in Pids, RunEnds(p) PROVE OneLineage'
  BY <1>15 DEF RunEnds, Fault, Ending
<1>16. ASSUME NEW p \in Pids, Handover(p) PROVE OneLineage'
  BY <1>16 DEF Handover, Request
<1>17. ASSUME NEW p \in Pids, SystemRestart(p) PROVE OneLineage'
  BY <1>17 DEF SystemRestart, Request
<1>18. ASSUME NEW p \in Pids, Shutdown(p) PROVE OneLineage'
  BY <1>18 DEF Shutdown, Ends
<1>19. ASSUME NEW p \in Pids, Launch(p) PROVE OneLineage'
  BY <1>19 DEF Launch, Request
<1>20. ASSUME NEW p \in Pids, GateStandsDown(p) PROVE OneLineage'
  BY <1>20 DEF GateStandsDown, Ends
<1>21. ASSUME NEW p \in Pids, GateOpens(p) PROVE OneLineage'
  BY <1>21 DEF GateOpens, Spawn, IsNext
<1>22. ASSUME NEW p \in Pids, SpawnFails(p) PROVE OneLineage'
  BY <1>22 DEF SpawnFails, Ending
<1>23. ASSUME NEW p \in Pids, BootGate(p) PROVE OneLineage'
  BY <1>23 DEF BootGate
<1>24. ASSUME NEW p \in Pids, WatchClean(p) PROVE OneLineage'
  BY <1>24 DEF WatchClean, Watching, StandDown, CleanExit
<1>25. ASSUME NEW p \in Pids, WatchCrash(p) PROVE OneLineage'
  BY <1>25 DEF WatchCrash, Watching, CleanExit, Replace, GiveUp, Killed
<1>26. ASSUME NEW p \in Pids, WatchHealthy(p) PROVE OneLineage'
  BY <1>26 DEF WatchHealthy, Watching
<1>27. ASSUME NEW p \in Pids, WatchSilent(p) PROVE OneLineage'
  BY <1>27 DEF WatchSilent, Watching, Replace, GiveUp, Killed
<1>28. ASSUME NEW p \in Pids, Respawn(p) PROVE OneLineage'
  BY <1>28 DEF Respawn, Spawn, IsNext
<1>29. ASSUME NEW p \in Pids, Signal(p) PROVE OneLineage'
  BY <1>29 DEF Signal, Ending
<1>30. ASSUME NEW p \in Pids, KillSupervisor(p) PROVE OneLineage'
  BY <1>30 DEF KillSupervisor, Ending
<1>31. ASSUME NEW p \in Pids, Obey(p) PROVE OneLineage'
  BY <1>31 DEF Obey, GiveUp, Killed
<1>32. CASE RunBatch
  BY <1>32 DEF RunBatch
<1>33. CASE UNCHANGED vars
  BY <1>33 DEF vars
<1> QED
  BY <1>1, <1>2, <1>3, <1>4, <1>5, <1>6, <1>7, <1>8, <1>9, <1>10, <1>11, <1>12, <1>13, <1>14, <1>15, <1>16, <1>17, <1>18, <1>19, <1>20, <1>21, <1>22, <1>23, <1>24, <1>25, <1>26, <1>27, <1>28, <1>29, <1>30, <1>31, <1>32, <1>33
     DEF Next, Server, Supervisor, World, Over

LEMMA InitInv == Init => IInv
<1> USE SupervisionAssumption, NoPidIsNone
<1> SUFFICES ASSUME Init PROVE IInv
  OBVIOUS
<1>1. TypeOK
  <2>1. NoLock \in [by : Pids \cup {NoPid}, pid : Pids \cup {NoPid}]
    BY DEF NoLock
  <2>2. NoBatch \in [due : BOOLEAN, tree : Pids \cup {NoPid}]
    BY DEF NoBatch
  <2>3. /\ pc \in [Pids -> Phases] /\ exit \in [Pids -> Exits]
        /\ child \in [Pids -> Pids \cup {NoPid}] /\ successor \in [Pids -> BOOLEAN]
        /\ ok \in [Pids -> {"loading", "up", "frozen"}]
    BY DEF Init, Phases, Exits
  <2>4. /\ failures \in [Pids -> 0 .. MaxFailures] /\ restarts \in [Pids -> 0 .. MaxRestarts]
        /\ signalled \in [Pids -> BOOLEAN]
    BY DEF Init
  <2>5. slow \in Paces /\ ended \in BOOLEAN
    BY Zenon DEF Init
  <2>8. faults \in 0 .. MaxFaults /\ requests \in 0 .. MaxRequests
    BY DEF Init
  <2>6. \A p \in Pids : pc[p] \in {"serve", "handover"} <=> port = p
    BY DEF Init
  <2>7. lock = NoLock /\ batch = NoBatch /\ port = NoPid
    BY DEF Init
  <2> QED
    BY <2>1, <2>2, <2>3, <2>4, <2>5, <2>6, <2>7, <2>8 DEF TypeOK
<1>2. Lineage /\ Accounted
  BY DEF Init, Lineage, Accounted, Serving, Alive
<1> QED
  BY <1>1, <1>2 DEF IInv

\* Every reachable state is well typed and the listening socket belongs to the
\* one process that serves.
THEOREM TypeCorrect == Spec => []TypeOK
<1>1. Init => TypeOK
  BY InitInv DEF IInv
<1>2. TypeOK /\ [Next]_vars => TypeOK'
  BY TypeStep
<1> QED
  BY <1>1, <1>2, PTL DEF Spec

\* No router process outlives the supervisor that started it, unless somebody
\* killed that supervisor: giving up, standing down, obeying a signal and
\* serving in the child's place leave nobody behind.
THEOREM AccountedTheorem == Spec => []Accounted
<1>1. IInv /\ [Next]_vars => IInv'
  BY TypeStep, LineageStep DEF IInv
<1>2. IInv => Accounted
  BY DEF IInv
<1> QED
  BY InitInv, <1>1, <1>2, PTL DEF Spec

\* In an undisturbed lineage the process that serves is the one the lock names.
THEOREM SoleTheorem == Spec => []SoleServerHoldsLock
<1>1. Init => OneLineage
  BY SupervisionAssumption DEF Init, OneLineage, NoBatch, Alive, Supervising, NoPid, Pids
<1>2. IInv /\ OneLineage /\ [Next]_vars => (IInv /\ OneLineage)'
  BY TypeStep, LineageStep, OneLineageStep DEF IInv
<1>3. OneLineage => SoleServerHoldsLock
  BY DEF OneLineage, SoleServerHoldsLock
<1> QED
  BY InitInv, <1>1, <1>2, <1>3, PTL DEF Spec
=============================================================================
