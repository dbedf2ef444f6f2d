------------------------- MODULE DeviceManagerProofs -------------------------
(***************************************************************************)
(* Proofs about iptsd-runner, for every number of devices, pids and slots, *)
(* every length of the kill loop and every bound of the environment.       *)
(***************************************************************************)
EXTENDS DeviceManager, FiniteSetTheorems, TLAPS

\* init finishes only reloads that were requested.
ReloadPending == modules = "reloading" => reloads > 0

-----------------------------------------------------------------------------
(* Type correctness.                                                       *)

LEMMA InitType == Init => TypeOK /\ ReloadPending
<1>. SUFFICES ASSUME Init PROVE TypeOK /\ ReloadPending
  OBVIOUS
<1>1. RunnerType
  <2>1. should_stop \in BOOLEAN /\ has_module \in BOOLEAN /\ reload_on_resume \in BOOLEAN
    BY ConstantAssumption, Zenon DEF Init
  <2>2. slot \in [Slots -> [pid : Pids \cup {NoPid}, path : Devices \cup {NoDevice}]]
    BY DEF Init, Free
  <2>. QED
    BY <2>1, <2>2, ConstantAssumption DEF Init, RunnerType, PCs, Startup
<1>2. KernelType
  BY ConstantAssumption DEF Init, KernelType, NoProc, ProcStates, DevStates
<1>3. ModelType
  BY DEF Init, ModelType
<1>4. ReloadPending
  BY DEF Init, ReloadPending
<1>. QED
  BY <1>1, <1>2, <1>3, <1>4 DEF TypeOK

\* SIGTERM, whatever comes of it, changes the state of children only among

\* the states of a live child.
LEMMA TerminateType ==
    ASSUME proc \in [Pids -> [st : ProcStates, dev : Devices \cup {NoDevice}]],
           NEW P \in SUBSET Pids,
           Terminate(P)
    PROVE  /\ proc' \in [Pids -> [st : ProcStates, dev : Devices \cup {NoDevice}]]
           /\ \A p \in Pids : /\ proc'[p].dev = proc[p].dev
                              /\ proc'[p].st = "none" <=> proc[p].st = "none"
                              /\ proc'[p].st = "killed" <=> proc[p].st = "killed"
                              /\ proc'[p].st = "zombie" <=> proc[p].st = "zombie"
<1>1. PICK out \in [P -> ProcStates] :
        /\ \A p \in P : out[p] \in TermOutcomes(proc[p].st)
        /\ proc' = [p \in Pids |-> IF p \in P THEN [proc[p] EXCEPT !.st = out[p]] ELSE proc[p]]
  BY DEF Terminate
<1>2. proc' \in [Pids -> [st : ProcStates, dev : Devices \cup {NoDevice}]]
  BY <1>1
<1>3. ASSUME NEW p \in Pids
      PROVE  /\ proc'[p].dev = proc[p].dev
             /\ proc'[p].st = "none" <=> proc[p].st = "none"
             /\ proc'[p].st = "killed" <=> proc[p].st = "killed"
             /\ proc'[p].st = "zombie" <=> proc[p].st = "zombie"
  <2>1. CASE p \notin P
    BY <1>1, <2>1
  <2>2. CASE p \in P
    <3>1. proc'[p] = [proc[p] EXCEPT !.st = out[p]]
      BY <1>1, <2>2
    <3>2. out[p] \in TermOutcomes(proc[p].st) /\ proc[p].st \in ProcStates
      BY <1>1, <2>2
    <3>. QED
      BY <3>1, <3>2, <2>2 DEF TermOutcomes, ProcStates
  <2>. QED
    BY <2>1, <2>2
<1>. QED
  BY <1>2, <1>3

LEMMA TypeStep ==
    ASSUME TypeOK, ReloadPending, [Next]_vars
    PROVE  TypeOK' /\ ReloadPending'
<1>. USE ConstantAssumption
     DEF TypeOK, RunnerType, KernelType, ModelType, ReloadPending, Goto, vars, runnerVars,
         kernelVars, modelVars, table, settings, iteration, nodes, events, budgets
<1>1. CASE InstallHandler
  BY <1>1 DEF InstallHandler, PCs, Startup, Kill, Scan
<1>2. CASE PublishManager
  BY <1>2 DEF PublishManager, PCs, Startup, Kill, Scan
<1>3. CASE DmInitReset
  <2>1. should_stop' \in BOOLEAN /\ has_module' \in BOOLEAN /\ reload_on_resume' \in BOOLEAN
    BY <1>3, Zenon DEF DmInitReset
  <2>2. slot' \in [Slots -> [pid : Pids \cup {NoPid}, path : Devices \cup {NoDevice}]]
    BY <1>3 DEF DmInitReset, Free
  <2>. QED
    BY <1>3, <2>1, <2>2 DEF DmInitReset, PCs, Startup
<1>4. CASE DmInitWatch
  BY <1>4 DEF DmInitWatch, PCs, Startup, Kill, Scan
<1>5. CASE DmInitFail
  BY <1>5 DEF DmInitFail, PCs, Startup, Kill, Scan
<1>6. CASE ScanMark
  <2>1. proc' \in [Pids -> [st : ProcStates, dev : Devices \cup {NoDevice}]]
    <3>1. CASE Active(cursor) /\ dev[slot[cursor].path] = "absent"
      <4>1. {slot[cursor].pid} \in SUBSET Pids
        BY <1>6, <3>1 DEF ScanMark, Active, Slots
      <4>. QED
        BY <1>6, <3>1, <4>1, TerminateType DEF ScanMark
    <3>2. CASE ~(Active(cursor) /\ dev[slot[cursor].path] = "absent")
      BY <1>6, <3>2 DEF ScanMark
    <3>. QED
      BY <3>1, <3>2
  <2>2. cursor' \in 1..(IPTSD_MAX_INSTANCES + 1)
    BY <1>6 DEF ScanMark
  <2>. QED
    BY <1>6, <2>1, <2>2 DEF ScanMark
<1>7. CASE ScanOpen
  BY <1>7 DEF ScanOpen, ScanReturn, PCs, Startup, Kill, Scan
<1>8. CASE ScanEnd
  BY <1>8 DEF ScanEnd, ScanReturn, PCs, Startup, Kill, Scan
<1>9. CASE LoopHead
  BY <1>9 DEF LoopHead, PCs, Startup, Kill, Scan
<1>10. CASE EpollWait
  BY <1>10 DEF EpollWait, ReadyFds, PCs, Startup, Kill, Scan
<1>11. CASE BatchDone
  BY <1>11 DEF BatchDone, PCs, Startup, Kill, Scan
<1>12. CASE HandleSignal
  <2>1. sigchld' \in BOOLEAN
    BY <1>12, Zenon DEF HandleSignal
  <2>. QED
    BY <1>12, <2>1 DEF HandleSignal, Take, PCs
<1>13. CASE ReapDone
  BY <1>13 DEF ReapDone, PCs, Startup, Kill, Scan
<1>14. CASE HandleInotify
  <2>1. inotify' \in BOOLEAN /\ timer' \in {"off", "armed", "fired"}
    BY <1>14, Zenon DEF HandleInotify
  <2>. QED
    BY <1>14, <2>1 DEF HandleInotify, Take
<1>15. CASE HandleTimer
  BY <1>15 DEF HandleTimer, Take, PCs, Startup, Kill, Scan
<1>16. CASE HandleResumeTick
  <2>1. tick' \in BOOLEAN
    BY <1>16, Zenon DEF HandleResumeTick
  <2>2. reload_on_resume' \in BOOLEAN
    BY <1>16, Zenon DEF HandleResumeTick
  <2>. QED
    BY <1>16, <2>1, <2>2 DEF HandleResumeTick, Take, PCs, Kill
<1>17. CASE KillAll
  <2>. DEFINE victims == {slot[i].pid : i \in {j \in 1..instance_count : Active(j)}}
  <2>1. victims \in SUBSET Pids
    <3>1. ASSUME NEW i \in 1..instance_count, Active(i)
          PROVE  slot[i].pid \in Pids
      BY <3>1 DEF Active, Slots
    <3>. QED
      BY <3>1
  <2>2. /\ Terminate(victims)
        /\ IF victims = {}
           THEN KillReturn /\ UNCHANGED retries
           ELSE Goto("wait") /\ retries' = KillRetries /\ UNCHANGED instance_count
    BY <1>17 DEF KillAll
  <2>. HIDE DEF victims
  <2>3. proc' \in [Pids -> [st : ProcStates, dev : Devices \cup {NoDevice}]]
    BY <2>1, <2>2, TerminateType
  <2>4. pc' \in PCs /\ retries' \in 0..KillRetries
        /\ instance_count' \in 0..IPTSD_MAX_INSTANCES
    BY <2>2 DEF KillReturn, PCs, Kill
  <2>. QED
    BY <1>17, <2>3, <2>4 DEF KillAll
<1>18. CASE KillSleep
  BY <1>18 DEF KillSleep
<1>19. CASE KillTimeout
  BY <1>19 DEF KillTimeout, PCs, Startup, Kill, Scan
<1>20. CASE ForceDone
  BY <1>20 DEF ForceDone, KillReturn, PCs, Startup, Kill, Scan
<1>21. CASE RequestReload
  <2>1. has_module' \in BOOLEAN
    BY <1>21, Zenon DEF RequestReload
  <2>2. reloads' \in Nat /\ (modules = "reloading" => reloads' > 0)
    BY <1>21 DEF RequestReload
  <2>. QED
    BY <1>21, <2>1, <2>2 DEF RequestReload, PCs, Scan
<1>22. CASE LoadModules
  BY <1>22 DEF LoadModules
<1>23. CASE ReloadRemove
  BY <1>23 DEF ReloadRemove, NodesVanish, ReaddirRace, DevStates, ProcStates
<1>24. CASE ReloadInsert
  BY <1>24 DEF ReloadInsert, NodesAppear, ReaddirRace, DevStates
<1>25. CASE TimerExpires
  BY <1>25 DEF TimerExpires
<1>26. CASE TickExpires
  BY <1>26 DEF TickExpires
<1>27. CASE Suspend
  BY <1>27 DEF Suspend, DevStates
<1>28. CASE Sigterm
  <2>1. pc' \in PCs
    BY <1>28 DEF Sigterm, Interrupted, PCs, Startup, Kill, Scan
  <2>2. slot' \in [Slots -> [pid : Pids \cup {NoPid}, path : Devices \cup {NoDevice}]]
    <3>1. CASE UNCHANGED slot
      BY <3>1
    <3>2. CASE \E i \in Slots : slot' = [slot EXCEPT ![i] = Free]
      BY <3>2 DEF Free
    <3>. QED
      BY <1>28, <3>1, <3>2 DEF Sigterm, Interrupted
  <2>3. should_stop' \in BOOLEAN /\ termSent' \in BOOLEAN
    BY <1>28, Zenon DEF Sigterm
  <2>. QED
    BY <1>28, <2>1, <2>2, <2>3 DEF Sigterm
<1>29. ASSUME NEW d \in Devices, ScanEntry(d)
      PROVE  TypeOK' /\ ReloadPending'
  <2>1. CASE UNCHANGED <<slot, instance_count, proc, faults>>
    BY <1>29, <2>1 DEF ScanEntry
  <2>2. CASE Spawn(d)
    <3>1. /\ slot' \in [Slots -> [pid : Pids \cup {NoPid}, path : Devices \cup {NoDevice}]]
          /\ proc' \in [Pids -> [st : ProcStates, dev : Devices \cup {NoDevice}]]
      <4>1. CASE UNCHANGED <<slot, proc>>
        BY <4>1
      <4>2. CASE \E i \in Slots, p \in Pids :
                   /\ slot' = [slot EXCEPT ![i] = [pid |-> p, path |-> d]]
                   /\ proc' = [proc EXCEPT ![p] = [st |-> "starting", dev |-> d]]
        <5>1. PICK i \in Slots, p \in Pids :
                   /\ slot' = [slot EXCEPT ![i] = [pid |-> p, path |-> d]]
                   /\ proc' = [proc EXCEPT ![p] = [st |-> "starting", dev |-> d]]
          BY <4>2
        <5>. QED
          BY <5>1 DEF ProcStates
      <4>. QED
        BY <2>2, <4>1, <4>2 DEF Spawn
    <3>2. instance_count' \in 0..IPTSD_MAX_INSTANCES /\ faults' \in Nat
      BY <1>29, <2>2 DEF Spawn, Slots
    <3>. QED
      BY <1>29, <3>1, <3>2 DEF ScanEntry
  <2>. QED
    BY <1>29, <2>1, <2>2 DEF ScanEntry
<1>30. ASSUME NEW p \in Pids, ReapChild(p)
      PROVE  TypeOK' /\ ReloadPending'
  BY <1>30 DEF ReapChild, Released, Free, NoProc, PCs, ProcStates
<1>31. ASSUME NEW p \in Pids, KillReap(p)
      PROVE  TypeOK' /\ ReloadPending'
  BY <1>31 DEF KillReap, Released, Free, NoProc, PCs, ProcStates
<1>32. ASSUME NEW i \in Slots, ForceKill(i)
      PROVE  TypeOK' /\ ReloadPending'
  <2>1. slot[i].pid \in Pids
    BY <1>32 DEF ForceKill, Straggler, Active
  <2>2. proc' \in [Pids -> [st : ProcStates, dev : Devices \cup {NoDevice}]]
    BY <1>32, <2>1 DEF ForceKill, ProcStates
  <2>. QED
    BY <1>32, <2>2 DEF ForceKill, PCs, Kill
<1>41. ASSUME NEW i \in Slots, ForceReap(i)
      PROVE  TypeOK' /\ ReloadPending'
  <2>1. /\ slot' \in [Slots -> [pid : Pids \cup {NoPid}, path : Devices \cup {NoDevice}]]
        /\ proc' \in [Pids -> [st : ProcStates, dev : Devices \cup {NoDevice}]]
    BY <1>41 DEF ForceReap, Free, NoProc, ProcStates
  <2>. QED
    BY <1>41, <2>1 DEF ForceReap, PCs, Kill
<1>33. ASSUME NEW p \in Pids, ChildRunning(p)
      PROVE  TypeOK' /\ ReloadPending'
  <2>1. /\ failedStarts' \in [Devices -> Nat]
        /\ proc' \in [Pids -> [st : ProcStates, dev : Devices \cup {NoDevice}]]
    BY <1>33 DEF ChildRunning, ProcStates
  <2>. QED
    BY <1>33, <2>1 DEF ChildRunning
<1>34. ASSUME NEW p \in Pids, ChildFailsToStart(p)
      PROVE  TypeOK' /\ ReloadPending'
  BY <1>34 DEF ChildFailsToStart, ProcStates
<1>35. ASSUME NEW p \in Pids, ChildExits(p)
      PROVE  TypeOK' /\ ReloadPending'
  BY <1>35 DEF ChildExits, ProcStates
<1>36. ASSUME NEW p \in Pids, ChildCrashes(p)
      PROVE  TypeOK' /\ ReloadPending'
  BY <1>36 DEF ChildCrashes, ProcStates
<1>37. ASSUME NEW d \in Devices, Unplug(d)
      PROVE  TypeOK' /\ ReloadPending'
  BY <1>37 DEF Unplug, NodesVanish, ReaddirRace, ProcStates, DevStates
<1>38. ASSUME NEW d \in Devices, Plug(d)
      PROVE  TypeOK' /\ ReloadPending'
  BY <1>38 DEF Plug, NodesAppear, ReaddirRace, DevStates
<1>39. ASSUME NEW d \in Devices, Settle(d)
      PROVE  TypeOK' /\ ReloadPending'
  BY <1>39 DEF Settle, DevStates
<1>40. CASE UNCHANGED vars
  BY <1>40
<1>. QED
  BY <1>1, <1>2, <1>3, <1>4, <1>5, <1>6, <1>7, <1>8, <1>9, <1>10, <1>11, <1>12, <1>13, <1>14, <1>15, <1>16, <1>17, <1>18, <1>19, <1>20, <1>21, <1>22, <1>23, <1>24, <1>25, <1>26, <1>27, <1>28, <1>29, <1>30, <1>31, <1>32, <1>33, <1>34, <1>35, <1>36, <1>37, <1>38, <1>39, <1>40, <1>41
  DEF Next, Runner, Processes, Kernel

\* Every reachable state has the declared types.
THEOREM TypeCorrect == Spec => []TypeOK
<1>1. Init => TypeOK /\ ReloadPending
  BY InitType
<1>2. TypeOK /\ ReloadPending /\ [Next]_vars => TypeOK' /\ ReloadPending'
  BY TypeStep
<1>. QED
  BY <1>1, <1>2, PTL DEF Spec

-----------------------------------------------------------------------------
(* The inductive invariant: the instance table and the unreaped children   *)
(* mirror each other, but for children given up after a stop request.      *)

\* No device path occupies two slots.
DistinctPaths ==
    \A i, j \in Slots : Active(i) /\ Active(j) /\ slot[i].path = slot[j].path => i = j

\* Nothing runs before the first scan spawns it, nor after the exit.
Quiet == pc \in Startup \cup {"exited"} \/ (pc = "mark" /\ ctx = "init")

NothingRuns == Quiet => \A i \in Slots : ~Active(i)

\* The memset of dm_init clears should_stop before there is any child.
NothingStarted == pc \in Startup => \A p \in Pids : ~Child(p)

\* The process the blocking waitpid is for has got its SIGKILL.
KilledFirst == pc = "await" => \A i \in Slots : Straggler(i) => Doomed(slot[i].pid)

\* Only dm_handle_resume and main call dm_kill_all.
KillCallers == pc \in Kill \cup {"reload"} => ctx \in {"resume", "exit"}

Mirror == SlotsOwnTheirChild /\ EveryChildHasASlot /\ DistinctPaths

Phases == NothingRuns /\ NothingStarted /\ KilledFirst /\ KillCallers

IInv == TypeOK /\ ReloadPending /\ Mirror /\ Phases

\* The table is untouched, every process keeps its device and stays a child, or
\* stays none; neither SIGKILL, nor death, nor a stop request is undone.
SameProcesses ==
    /\ \A p \in Pids : /\ proc'[p].dev = proc[p].dev
                       /\ proc'[p].st = "none" <=> proc[p].st = "none"
                       /\ Doomed(p) => Doomed(p)'
    /\ should_stop => should_stop'

SameChildren == UNCHANGED <<slot, instance_count>> /\ SameProcesses

LEMMA InitInvariant == Init => IInv
<1>. SUFFICES ASSUME Init PROVE IInv
  OBVIOUS
<1>1. TypeOK /\ ReloadPending
  BY InitType
<1>2. \A i \in Slots : ~Active(i)
  BY DEF Init, Active, Free
<1>3. \A p \in Pids : ~Child(p)
  BY DEF Init, Child, NoProc
<1>4. KillCallers /\ KilledFirst
  BY DEF Init, KillCallers, KilledFirst, Kill
<1>. QED
  BY <1>1, <1>2, <1>3, <1>4
  DEF IInv, Mirror, Phases, SlotsOwnTheirChild, EveryChildHasASlot, DistinctPaths, NothingRuns,
      NothingStarted

\* A child that was given up stays so.
LEMMA GivenUpStays ==
    ASSUME SameProcesses, NEW p \in Pids, GivenUp(p)
    PROVE  GivenUp(p)'
BY DEF SameProcesses, GivenUp

LEMMA SameChildrenMirror ==
    ASSUME TypeOK, Mirror, SameChildren
    PROVE  Mirror'
<1>1. \A i \in Slots : Active(i)' <=> Active(i)
  BY DEF SameChildren, Active
<1>2. \A p \in Pids : Child(p)' <=> Child(p)
  BY DEF SameChildren, SameProcesses, Child
<1>3. SlotsOwnTheirChild'
  <2>. SUFFICES ASSUME NEW i \in Slots, Active(i)'
                PROVE  /\ i <= instance_count'
                       /\ Child(slot[i].pid)'
                       /\ proc'[slot'[i].pid].dev = slot'[i].path
    BY DEF SlotsOwnTheirChild
  <2>1. slot[i].pid \in Pids
    BY <1>1 DEF Active, TypeOK, RunnerType
  <2>. QED
    BY <1>1, <2>1 DEF Mirror, SlotsOwnTheirChild, SameChildren, SameProcesses, Child
<1>4. EveryChildHasASlot'
  <2>. SUFFICES ASSUME NEW p \in Pids, Child(p)'
                PROVE  Known(p)' \/ GivenUp(p)'
    BY DEF EveryChildHasASlot
  <2>1. Known(p) \/ GivenUp(p)
    BY <1>2 DEF Mirror, EveryChildHasASlot
  <2>2. Known(p) => Known(p)'
    BY DEF Known, SameChildren
  <2>. QED
    BY <2>1, <2>2, GivenUpStays DEF SameChildren
<1>5. DistinctPaths'
  BY <1>1 DEF Mirror, DistinctPaths, SameChildren
<1>. QED
  BY <1>3, <1>4, <1>5 DEF Mirror

\* The only steps that start or reap a child, or clear a slot.
ChangesChildren ==
    \/ DmInitReset \/ KillAll \/ ForceDone
    \/ \E d \in Devices : ScanEntry(d)
    \/ \E p \in Pids : ReapChild(p) \/ KillReap(p)
    \/ \E i \in Slots : ForceReap(i)
    \/ Sigterm

LEMMA OtherSteps ==
    ASSUME TypeOK, Mirror, [Next]_vars, ~ChangesChildren
    PROVE  SameChildren
<1>. USE DEF SameChildren, SameProcesses, Doomed, vars, runnerVars, kernelVars, modelVars, table, settings,
             iteration, nodes, events, budgets
<1>1. CASE InstallHandler
  BY <1>1 DEF InstallHandler
<1>2. CASE PublishManager
  BY <1>2 DEF PublishManager
<1>3. CASE DmInitWatch
  BY <1>3 DEF DmInitWatch
<1>4. CASE DmInitFail
  BY <1>4 DEF DmInitFail
<1>5. CASE ScanOpen
  BY <1>5 DEF ScanOpen
<1>6. CASE ScanEnd
  BY <1>6 DEF ScanEnd
<1>7. CASE LoopHead
  BY <1>7 DEF LoopHead
<1>8. CASE EpollWait
  BY <1>8 DEF EpollWait
<1>9. CASE BatchDone
  BY <1>9 DEF BatchDone
<1>10. CASE HandleSignal
  BY <1>10 DEF HandleSignal
<1>11. CASE ReapDone
  BY <1>11 DEF ReapDone
<1>12. CASE HandleInotify
  BY <1>12 DEF HandleInotify
<1>13. CASE HandleTimer
  BY <1>13 DEF HandleTimer
<1>14. CASE HandleResumeTick
  BY <1>14 DEF HandleResumeTick
<1>15. CASE KillSleep
  BY <1>15 DEF KillSleep
<1>16. CASE KillTimeout
  BY <1>16 DEF KillTimeout
<1>17. CASE RequestReload
  BY <1>17 DEF RequestReload
<1>18. CASE LoadModules
  BY <1>18 DEF LoadModules
<1>19. CASE TimerExpires
  BY <1>19 DEF TimerExpires
<1>20. CASE TickExpires
  BY <1>20 DEF TickExpires
<1>21. CASE Suspend
  BY <1>21 DEF Suspend
<1>22. ASSUME NEW i \in Slots, ForceKill(i)
      PROVE  SameChildren
  <2>1. slot[i].pid \in Pids
    BY <1>22 DEF ForceKill, Straggler, Active, TypeOK, RunnerType
  <2>2. proc[slot[i].pid].st # "none"
    BY <1>22 DEF ForceKill, Straggler, Mirror, SlotsOwnTheirChild, Child
  <2>. QED
    BY <1>22, <2>1, <2>2 DEF ForceKill, TypeOK, KernelType
<1>23. CASE ScanMark
  <2>1. CASE UNCHANGED proc
    BY <1>23, <2>1 DEF ScanMark
  <2>2. CASE Active(cursor) /\ Terminate({slot[cursor].pid})
    <3>1. cursor \in Slots
      BY <1>23, ConstantAssumption DEF ScanMark, Slots, TypeOK, RunnerType
    <3>2. {slot[cursor].pid} \in SUBSET Pids
      BY <2>2, <3>1 DEF Active, TypeOK, RunnerType
    <3>3. \A p \in Pids : /\ proc'[p].dev = proc[p].dev
                          /\ proc'[p].st = "none" <=> proc[p].st = "none"
                          /\ Doomed(p) => Doomed(p)'
      BY <2>2, <3>2, TerminateType DEF TypeOK, KernelType
    <3>. QED
      BY <1>23, <3>3 DEF ScanMark
  <2>. QED
    BY <1>23, <2>1, <2>2 DEF ScanMark
<1>24. CASE ReloadRemove
  BY <1>24 DEF ReloadRemove, NodesVanish, TypeOK, KernelType, ProcStates
<1>25. CASE ReloadInsert
  BY <1>25 DEF ReloadInsert, NodesAppear, TypeOK, KernelType, ProcStates
<1>26. ASSUME NEW p \in Pids, ChildRunning(p)
      PROVE  SameChildren
  BY <1>26 DEF ChildRunning, TypeOK, KernelType, ProcStates
<1>27. ASSUME NEW p \in Pids, ChildFailsToStart(p)
      PROVE  SameChildren
  BY <1>27 DEF ChildFailsToStart, TypeOK, KernelType, ProcStates
<1>28. ASSUME NEW p \in Pids, ChildExits(p)
      PROVE  SameChildren
  BY <1>28 DEF ChildExits, TypeOK, KernelType, ProcStates
<1>29. ASSUME NEW p \in Pids, ChildCrashes(p)
      PROVE  SameChildren
  BY <1>29 DEF ChildCrashes, TypeOK, KernelType, ProcStates
<1>30. ASSUME NEW d \in Devices, Unplug(d)
      PROVE  SameChildren
  BY <1>30 DEF Unplug, NodesVanish, TypeOK, KernelType, ProcStates
<1>31. ASSUME NEW d \in Devices, Plug(d)
      PROVE  SameChildren
  BY <1>31 DEF Plug, NodesAppear, TypeOK, KernelType, ProcStates
<1>32. ASSUME NEW d \in Devices, Settle(d)
      PROVE  SameChildren
  BY <1>32 DEF Settle, TypeOK, KernelType, ProcStates
<1>33. CASE UNCHANGED vars
  BY <1>33
<1>. QED
  BY <1>1, <1>2, <1>3, <1>4, <1>5, <1>6, <1>7, <1>8, <1>9, <1>10, <1>11, <1>12, <1>13, <1>14, <1>15, <1>16, <1>17, <1>18, <1>19, <1>20, <1>21, <1>22, <1>23, <1>24, <1>25, <1>26, <1>27, <1>28, <1>29, <1>30, <1>31, <1>32, <1>33
  DEF Next, Runner, Processes, Kernel, ChangesChildren

\* spawn_iptsd: a new child and the slot that names it appear together.
LEMMA SpawnMirror ==
    ASSUME TypeOK, Mirror, NEW d \in Devices, ~Tracked(d),
           NEW i \in Slots, NEW p \in Pids,
           Allocates(i), ~Child(p),
           slot' = [slot EXCEPT ![i] = [pid |-> p, path |-> d]],
           instance_count' = (IF i > instance_count THEN i ELSE instance_count),
           proc' = [proc EXCEPT ![p] = [st |-> "starting", dev |-> d]],
           UNCHANGED should_stop
    PROVE  Mirror'
<1>. USE ConstantAssumption DEF TypeOK, RunnerType, KernelType, Slots
<1>1. ~Active(i) /\ instance_count' \in Nat /\ i <= instance_count'
      /\ instance_count <= instance_count'
  BY DEF Allocates, Mirror, SlotsOwnTheirChild
<1>2. \A j \in Slots : Active(j) => slot[j].pid # p
  BY DEF Mirror, SlotsOwnTheirChild
<1>3. /\ slot'[i] = [pid |-> p, path |-> d]
      /\ \A j \in Slots : j # i => slot'[j] = slot[j]
      /\ proc'[p] = [st |-> "starting", dev |-> d]
      /\ \A q \in Pids : q # p => proc'[q] = proc[q]
  OBVIOUS
<1>4. \A j \in Slots : j # i => (Active(j)' <=> Active(j))
  BY <1>3 DEF Active
<1>5. SlotsOwnTheirChild'
  <2>. SUFFICES ASSUME NEW j \in Slots, Active(j)'
                PROVE  /\ j <= instance_count'
                       /\ Child(slot[j].pid)'
                       /\ proc'[slot'[j].pid].dev = slot'[j].path
    BY DEF SlotsOwnTheirChild
  <2>1. CASE j = i
    BY <1>1, <1>3, <2>1 DEF Child
  <2>2. CASE j # i
    <3>1. Active(j) /\ slot[j].pid # p /\ slot[j].pid \in Pids /\ slot'[j] = slot[j]
      BY <1>2, <1>3, <1>4, <2>2 DEF Active
    <3>2. j <= instance_count /\ Child(slot[j].pid) /\ proc[slot[j].pid].dev = slot[j].path
      BY <3>1 DEF Mirror, SlotsOwnTheirChild
    <3>. QED
      BY <1>1, <1>3, <3>1, <3>2 DEF Child
  <2>. QED
    BY <2>1, <2>2
<1>6. EveryChildHasASlot'
  <2>. SUFFICES ASSUME NEW q \in Pids, Child(q)'
                PROVE  Known(q)' \/ GivenUp(q)'
    BY DEF EveryChildHasASlot
  <2>1. CASE q = p
    <3>1. i \in 1..instance_count' /\ slot'[i].pid = q
      BY <1>1, <1>3, <2>1
    <3>2. \A k \in Slots : slot'[k].pid = q => k = i
      BY <1>2, <1>3, <2>1 DEF Active
    <3>. QED
      BY <3>1, <3>2 DEF Known
  <2>2. CASE q # p /\ GivenUp(q)
    BY <1>3, <2>2 DEF GivenUp, Doomed
  <2>3. CASE q # p /\ Known(q)
    <3>2. PICK j \in 1..instance_count :
             slot[j].pid = q /\ \A k \in Slots : slot[k].pid = q => k = j
      BY <2>3 DEF Known
    <3>3. j \in Slots /\ Active(j)
      BY <3>2 DEF Active
    <3>4. j # i /\ j \in 1..instance_count' /\ slot'[j].pid = q
      BY <1>1, <1>3, <3>2, <3>3
    <3>5. \A k \in Slots : slot'[k].pid = q => k = j
      BY <1>3, <2>3, <3>2
    <3>. QED
      BY <3>4, <3>5 DEF Known
  <2>4. q # p => Known(q) \/ GivenUp(q)
    BY <1>3 DEF Child, Mirror, EveryChildHasASlot
  <2>. QED
    BY <2>1, <2>2, <2>3, <2>4
<1>7. DistinctPaths'
  <2>1. \A j \in Slots : Active(j) => slot[j].path # d
    BY DEF Tracked, Mirror, SlotsOwnTheirChild
  <2>. QED
    BY <1>3, <1>4, <2>1 DEF Mirror, DistinctPaths
<1>. QED
  BY <1>5, <1>6, <1>7 DEF Mirror

\* Reaping a child frees the one slot that names it, in dm_reap_children as

\* in dm_kill_all.
LEMMA ReapMirror ==
    ASSUME TypeOK, Mirror, NEW p \in Pids,
           proc' = [proc EXCEPT ![p] = NoProc],
           slot' = Released(p),
           UNCHANGED <<instance_count, should_stop>>
    PROVE  Mirror'
<1>. USE ConstantAssumption DEF TypeOK, RunnerType, KernelType, Slots
<1>1. /\ ~Child(p)'
      /\ \A q \in Pids : q # p => proc'[q] = proc[q]
  BY DEF Child, NoProc
<1>2. \A j \in Slots : Active(j)' => Active(j) /\ slot'[j] = slot[j] /\ slot[j].pid # p
  BY DEF Released, Free, Active, Mirror, SlotsOwnTheirChild
<1>3. \A j \in Slots : slot[j].pid # p => slot'[j] = slot[j]
  BY DEF Released
<1>4. SlotsOwnTheirChild'
  <2>. SUFFICES ASSUME NEW j \in Slots, Active(j)'
                PROVE  /\ j <= instance_count'
                       /\ Child(slot[j].pid)'
                       /\ proc'[slot'[j].pid].dev = slot'[j].path
    BY DEF SlotsOwnTheirChild
  <2>1. Active(j) /\ slot'[j] = slot[j] /\ slot[j].pid # p /\ slot[j].pid \in Pids
    BY <1>2 DEF Active
  <2>2. j <= instance_count /\ Child(slot[j].pid) /\ proc[slot[j].pid].dev = slot[j].path
    BY <2>1 DEF Mirror, SlotsOwnTheirChild
  <2>. QED
    BY <1>1, <2>1, <2>2 DEF Child
<1>5. EveryChildHasASlot'
  <2>. SUFFICES ASSUME NEW q \in Pids, Child(q)'
                PROVE  Known(q)' \/ GivenUp(q)'
    BY DEF EveryChildHasASlot
  <2>1. q # p /\ Child(q)
    BY <1>1 DEF Child
  <2>2. CASE GivenUp(q)
    BY <1>1, <2>1, <2>2 DEF GivenUp, Doomed
  <2>3. CASE Known(q)
    <3>1. PICK j \in 1..instance_count :
             slot[j].pid = q /\ \A k \in Slots : slot[k].pid = q => k = j
      BY <2>3 DEF Known
    <3>2. slot'[j].pid = q
      BY <1>3, <2>1, <3>1
    <3>3. \A k \in Slots : slot'[k].pid = q => k = j
      BY <1>2, <3>1 DEF Active
    <3>. QED
      BY <3>1, <3>2, <3>3 DEF Known
  <2>. QED
    BY <2>1, <2>2, <2>3 DEF Mirror, EveryChildHasASlot
<1>6. DistinctPaths'
  BY <1>2 DEF Mirror, DistinctPaths
<1>. QED
  BY <1>4, <1>5, <1>6 DEF Mirror

\* As long as two slots differ in their paths they differ in their pids.
LEMMA ReleasedOne ==
    ASSUME TypeOK, Mirror, NEW i \in Slots, Active(i)
    PROVE  [slot EXCEPT ![i] = Free] = Released(slot[i].pid)
<1>1. \A k \in Slots : slot[k].pid = slot[i].pid <=> k = i
  <2>. SUFFICES ASSUME NEW k \in Slots, slot[k].pid = slot[i].pid PROVE k = i
    OBVIOUS
  <2>1. Active(k) /\ slot[k].path = slot[i].path
    BY DEF Active, Mirror, SlotsOwnTheirChild
  <2>. QED
    BY <2>1 DEF Mirror, DistinctPaths
<1>2. i <= instance_count
  BY DEF Mirror, SlotsOwnTheirChild
<1>. QED
  BY <1>1, <1>2 DEF Released, TypeOK, RunnerType

\* A slot that is cleared under a doomed process leaves that one given up.
LEMMA InterruptMirror ==
    ASSUME TypeOK, Mirror, NEW i \in Slots, Active(i), Doomed(slot[i].pid),
           slot' = [slot EXCEPT ![i] = Free],
           UNCHANGED <<proc, instance_count>>,
           should_stop'
    PROVE  Mirror'
<1>1. /\ ~Active(i)'
      /\ \A j \in Slots : j # i => slot'[j] = slot[j] /\ (Active(j)' <=> Active(j))
  BY DEF Active, Free, TypeOK, RunnerType
<1>2. SlotsOwnTheirChild' /\ DistinctPaths'
  BY <1>1 DEF Mirror, SlotsOwnTheirChild, DistinctPaths, Child
<1>3. EveryChildHasASlot'
  <2>. SUFFICES ASSUME NEW q \in Pids, Child(q)'
                PROVE  Known(q)' \/ GivenUp(q)'
    BY DEF EveryChildHasASlot
  <2>1. CASE q = slot[i].pid \/ GivenUp(q)
    BY <2>1 DEF GivenUp, Doomed
  <2>2. CASE q # slot[i].pid /\ Known(q)
    <3>1. PICK j \in 1..instance_count :
             slot[j].pid = q /\ \A k \in Slots : slot[k].pid = q => k = j
      BY <2>2 DEF Known
    <3>2. j \in Slots /\ j # i
      BY <2>2, <3>1, ConstantAssumption DEF TypeOK, RunnerType, Slots
    <3>3. slot'[j].pid = q /\ \A k \in Slots : slot'[k].pid = q => k = j
      <4>1. slot'[i].pid = NoPid /\ q # NoPid
        BY <1>1, ConstantAssumption DEF Active
      <4>2. slot'[j].pid = q
        BY <1>1, <3>1, <3>2
      <4>3. ASSUME NEW k \in Slots, slot'[k].pid = q
            PROVE  k = j
        BY <1>1, <3>1, <4>1, <4>3
      <4>. QED
        BY <4>2, <4>3
    <3>. QED
      BY <3>1, <3>3 DEF Known
  <2>. QED
    BY <2>1, <2>2 DEF Child, Mirror, EveryChildHasASlot
<1>. QED
  BY <1>2, <1>3 DEF Mirror

\* A child without a slot was given up.
LEMMA NotKnown ==
    ASSUME TypeOK, Mirror, NEW p \in Pids, Child(p), \A i \in Slots : slot[i].pid # p
    PROVE  GivenUp(p)
BY ConstantAssumption
DEF Mirror, EveryChildHasASlot, Known, TypeOK, RunnerType, Slots

\* The table may be truncated when no slot is active.
LEMMA ClearMirror ==
    ASSUME TypeOK, Mirror, SameProcesses,
           \A i \in Slots : ~Active(i) /\ ~Active(i)'
    PROVE  Mirror'
<1>1. \A p \in Pids : Child(p)' => GivenUp(p)'
  <2>. SUFFICES ASSUME NEW p \in Pids, Child(p)' PROVE GivenUp(p)'
    OBVIOUS
  <2>1. Child(p)
    BY DEF SameProcesses, Child
  <2>2. \A i \in Slots : slot[i].pid # p
    BY ConstantAssumption DEF Active
  <2>. QED
    BY <2>1, <2>2, NotKnown, GivenUpStays
<1>. QED
  BY <1>1 DEF Mirror, SlotsOwnTheirChild, EveryChildHasASlot, DistinctPaths

\* The runner gets to a quiet point only from one, or after it has seen that
\* every slot below instance_count is inactive.
LEMMA ControlStep ==
    ASSUME TypeOK, KillCallers, [Next]_vars
    PROVE  /\ KillCallers'
           /\ UNCHANGED termSent \/ (Sigterm /\ termSent')
           /\ pc' \in Startup => pc \in Startup
           /\ pc' = "await" => \/ \E i \in Slots : ForceKill(i)
                               \/ pc = "await" /\ UNCHANGED <<slot, instance_count>>
           /\ Quiet' => \/ Quiet /\ UNCHANGED slot
                        \/ DmInitReset
                        \/ UNCHANGED slot /\ \A i \in 1..instance_count : ~Active(i)
<1>. DEFINE Goal == /\ KillCallers'
                    /\ UNCHANGED termSent \/ (Sigterm /\ termSent')
                    /\ pc' \in Startup => pc \in Startup
                    /\ pc' = "await" =>
                         \/ \E i \in Slots : ForceKill(i)
                         \/ pc = "await" /\ UNCHANGED <<slot, instance_count>>
                    /\ Quiet' => \/ Quiet /\ UNCHANGED slot
                                 \/ DmInitReset
                                 \/ UNCHANGED slot /\ \A i \in 1..instance_count : ~Active(i)
<1>. USE DEF Quiet, KillCallers, Startup, Kill, Goto, vars, runnerVars, kernelVars,
             modelVars, table, settings, iteration, nodes, events, budgets
<1>1. CASE InstallHandler
  BY <1>1 DEF InstallHandler
<1>2. CASE PublishManager
  BY <1>2 DEF PublishManager
<1>3. CASE DmInitReset
  BY <1>3 DEF DmInitReset
<1>4. CASE DmInitWatch
  BY <1>4 DEF DmInitWatch
<1>5. CASE DmInitFail
  BY <1>5 DEF DmInitFail
<1>6. CASE ScanMark
  BY <1>6 DEF ScanMark
<1>7. CASE ScanOpen
  BY <1>7 DEF ScanOpen, ScanReturn
<1>8. CASE ScanEnd
  BY <1>8 DEF ScanEnd, ScanReturn
<1>9. CASE LoopHead
  BY <1>9 DEF LoopHead
<1>10. CASE EpollWait
  BY <1>10 DEF EpollWait
<1>11. CASE BatchDone
  BY <1>11 DEF BatchDone
<1>12. CASE HandleSignal
  BY <1>12 DEF HandleSignal, Take
<1>13. CASE ReapDone
  BY <1>13 DEF ReapDone
<1>14. CASE HandleInotify
  BY <1>14 DEF HandleInotify, Take
<1>15. CASE HandleTimer
  BY <1>15 DEF HandleTimer, Take
<1>16. CASE HandleResumeTick
  BY <1>16 DEF HandleResumeTick, Take
<1>17. CASE KillAll
  <2>. DEFINE victims == {slot[i].pid : i \in {j \in 1..instance_count : Active(j)}}
  <2>1. /\ pc = "kill" /\ UNCHANGED <<ctx, slot, termSent>>
        /\ IF victims = {}
           THEN KillReturn /\ UNCHANGED retries
           ELSE Goto("wait") /\ retries' = KillRetries /\ UNCHANGED instance_count
    BY <1>17 DEF KillAll
  <2>2. victims = {} => \A i \in 1..instance_count : ~Active(i)
    OBVIOUS
  <2>. HIDE DEF victims
  <2>. QED
    BY <2>1, <2>2 DEF KillReturn
<1>18. CASE KillSleep
  BY <1>18 DEF KillSleep
<1>19. CASE KillTimeout
  BY <1>19 DEF KillTimeout
<1>20. CASE ForceDone
  BY <1>20 DEF ForceDone, KillReturn
<1>21. CASE RequestReload
  BY <1>21 DEF RequestReload
<1>22. CASE LoadModules
  BY <1>22 DEF LoadModules
<1>23. CASE ReloadRemove
  BY <1>23 DEF ReloadRemove
<1>24. CASE ReloadInsert
  BY <1>24 DEF ReloadInsert
<1>25. CASE TimerExpires
  BY <1>25 DEF TimerExpires
<1>26. CASE TickExpires
  BY <1>26 DEF TickExpires
<1>27. CASE Suspend
  BY <1>27 DEF Suspend
<1>28. CASE Sigterm
  BY <1>28 DEF Sigterm, Interrupted
<1>29. ASSUME NEW d \in Devices, ScanEntry(d)
      PROVE  Goal
  BY <1>29 DEF ScanEntry
<1>30. ASSUME NEW d \in Devices, Unplug(d)
      PROVE  Goal
  BY <1>30 DEF Unplug
<1>31. ASSUME NEW d \in Devices, Plug(d)
      PROVE  Goal
  BY <1>31 DEF Plug
<1>32. ASSUME NEW d \in Devices, Settle(d)
      PROVE  Goal
  BY <1>32 DEF Settle
<1>33. ASSUME NEW p \in Pids, ReapChild(p)
      PROVE  Goal
  BY <1>33 DEF ReapChild
<1>34. ASSUME NEW p \in Pids, KillReap(p)
      PROVE  Goal
  BY <1>34 DEF KillReap
<1>35. ASSUME NEW p \in Pids, ChildRunning(p)
      PROVE  Goal
  BY <1>35 DEF ChildRunning
<1>36. ASSUME NEW p \in Pids, ChildFailsToStart(p)
      PROVE  Goal
  BY <1>36 DEF ChildFailsToStart
<1>37. ASSUME NEW p \in Pids, ChildExits(p)
      PROVE  Goal
  BY <1>37 DEF ChildExits
<1>38. ASSUME NEW p \in Pids, ChildCrashes(p)
      PROVE  Goal
  BY <1>38 DEF ChildCrashes
<1>39. ASSUME NEW i \in Slots, ForceKill(i)
      PROVE  Goal
  BY <1>39 DEF ForceKill
<1>41. ASSUME NEW i \in Slots, ForceReap(i)
      PROVE  Goal
  BY <1>41 DEF ForceReap
<1>40. CASE UNCHANGED vars
  BY <1>40
<1>. QED
  BY <1>1, <1>2, <1>3, <1>4, <1>5, <1>6, <1>7, <1>8, <1>9, <1>10, <1>11, <1>12, <1>13,
     <1>14, <1>15, <1>16, <1>17, <1>18, <1>19, <1>20, <1>21, <1>22, <1>23, <1>24,
     <1>25, <1>26, <1>27, <1>28, <1>29, <1>30, <1>31, <1>32, <1>33, <1>34, <1>35,
     <1>36, <1>37, <1>38, <1>39, <1>40, <1>41
  DEF Next, Runner, Processes, Kernel

\* dm_kill_all, first loop: every child stays one, and the table is dropped at
\* once only if no slot is active.
LEMMA KillAllChildren ==
    ASSUME TypeOK, KillAll
    PROVE  /\ SameProcesses
           /\ UNCHANGED slot
           /\ UNCHANGED instance_count \/ \A i \in 1..instance_count : ~Active(i)
<1>. DEFINE victims == {slot[i].pid : i \in {j \in 1..instance_count : Active(j)}}
<1>1. victims \in SUBSET Pids
  <2>1. ASSUME NEW i \in 1..instance_count, Active(i)
        PROVE  slot[i].pid \in Pids
    BY <2>1, ConstantAssumption DEF Active, Slots, TypeOK, RunnerType
  <2>. QED
    BY <2>1
<1>2. /\ Terminate(victims) /\ UNCHANGED slot
      /\ IF victims = {} THEN KillReturn ELSE UNCHANGED instance_count
  BY DEF KillAll
<1>3. victims = {} => \A i \in 1..instance_count : ~Active(i)
  OBVIOUS
<1>. HIDE DEF victims
<1>4. \A p \in Pids : /\ proc'[p].dev = proc[p].dev
                      /\ proc'[p].st = "none" <=> proc[p].st = "none"
                      /\ Doomed(p) => Doomed(p)'
  BY <1>1, <1>2, TerminateType DEF TypeOK, KernelType, Doomed
<1>5. UNCHANGED should_stop
  BY DEF KillAll, settings
<1>. QED
  BY <1>2, <1>3, <1>4, <1>5 DEF SameProcesses

LEMMA MirrorStep ==
    ASSUME IInv, [Next]_vars
    PROVE  Mirror'
<1>. USE DEF IInv
<1>1. CASE ~ChangesChildren
  BY <1>1, OtherSteps, SameChildrenMirror
<1>2. CASE DmInitReset
  <2>1. \A i \in Slots : ~Active(i)'
    BY <1>2 DEF DmInitReset, Active, Free
  <2>2. \A p \in Pids : ~Child(p)'
    BY <1>2 DEF DmInitReset, kernelVars, Phases, NothingStarted, Startup, Child
  <2>. QED
    BY <2>1, <2>2 DEF Mirror, SlotsOwnTheirChild, EveryChildHasASlot, DistinctPaths
<1>3. CASE KillAll
  <2>1. /\ SameProcesses
        /\ UNCHANGED slot
        /\ UNCHANGED instance_count \/ \A i \in 1..instance_count : ~Active(i)
    BY <1>3, KillAllChildren
  <2>2. CASE UNCHANGED instance_count
    BY <2>1, <2>2, SameChildrenMirror DEF SameChildren
  <2>3. CASE \A i \in 1..instance_count : ~Active(i)
    <3>1. \A i \in Slots : ~Active(i) /\ ~Active(i)'
      BY <2>1, <2>3, ConstantAssumption
      DEF Mirror, SlotsOwnTheirChild, Active, Slots, TypeOK, RunnerType
    <3>. QED
      BY <2>1, <3>1, ClearMirror
  <2>. QED
    BY <2>1, <2>2, <2>3
<1>4. CASE ForceDone
  <2>1. \A i \in Slots : ~Active(i) /\ ~Active(i)'
    BY <1>4, ConstantAssumption
    DEF ForceDone, Mirror, SlotsOwnTheirChild, Active, Slots, TypeOK, RunnerType
  <2>2. SameProcesses
    BY <1>4 DEF ForceDone, kernelVars, settings, SameProcesses, Doomed
  <2>. QED
    BY <2>1, <2>2, ClearMirror
<1>5. ASSUME NEW d \in Devices, ScanEntry(d)
      PROVE  Mirror'
  <2>. DEFINE Same == UNCHANGED <<slot, instance_count, proc>>
  <2>3. UNCHANGED should_stop
    BY <1>5 DEF ScanEntry, settings
  <2>1. CASE Same
    BY <2>1, <2>3, SameChildrenMirror DEF SameChildren, SameProcesses, Doomed
  <2>2. CASE ~Tracked(d) /\ Spawn(d)
    <3>1. CASE \E i \in Slots, p \in Pids :
                 /\ Allocates(i) /\ ~Child(p)
                 /\ slot' = [slot EXCEPT ![i] = [pid |-> p, path |-> d]]
                 /\ instance_count' = (IF i > instance_count THEN i ELSE instance_count)
                 /\ proc' = [proc EXCEPT ![p] = [st |-> "starting", dev |-> d]]
      BY <2>2, <2>3, <3>1, SpawnMirror
    <3>2. CASE \E i \in Slots :
                 /\ Allocates(i)
                 /\ instance_count' = (IF i > instance_count THEN i ELSE instance_count)
                 /\ UNCHANGED <<slot, proc>>
      <4>1. instance_count' >= instance_count /\ instance_count' \in Nat
        BY <3>2, ConstantAssumption DEF Slots, TypeOK, RunnerType
      <4>2. SlotsOwnTheirChild' /\ DistinctPaths'
        BY <3>2, <4>1, ConstantAssumption
        DEF Mirror, SlotsOwnTheirChild, DistinctPaths, Active, Child, Slots, TypeOK,
            RunnerType
      <4>3. EveryChildHasASlot'
        BY <2>3, <3>2, <4>1, ConstantAssumption
        DEF Mirror, EveryChildHasASlot, Known, GivenUp, Doomed, Child, Slots, TypeOK,
            RunnerType
      <4>. QED
        BY <4>2, <4>3 DEF Mirror
    <3>. QED
      BY <2>1, <2>2, <3>1, <3>2 DEF Spawn, table
  <2>. QED
    BY <1>5, <2>1, <2>2 DEF ScanEntry
<1>6. ASSUME NEW p \in Pids, ReapChild(p)
      PROVE  Mirror'
  BY <1>6, ReapMirror DEF ReapChild, settings
<1>7. ASSUME NEW p \in Pids, KillReap(p)
      PROVE  Mirror'
  BY <1>7, ReapMirror DEF KillReap, settings
<1>8. ASSUME NEW i \in Slots, ForceReap(i)
      PROVE  Mirror'
  <2>1. Active(i) /\ slot[i].pid \in Pids
    BY <1>8 DEF ForceReap, Straggler, Active, TypeOK, RunnerType
  <2>2. slot' = Released(slot[i].pid)
    BY <1>8, <2>1, ReleasedOne DEF ForceReap
  <2>. QED
    BY <1>8, <2>1, <2>2, ReapMirror DEF ForceReap, settings
<1>9. CASE Sigterm
  <2>1. CASE UNCHANGED slot
    BY <1>9, <2>1, SameChildrenMirror
    DEF Sigterm, SameChildren, SameProcesses, Doomed, kernelVars
  <2>2. ASSUME NEW i \in Slots, Interrupted(i)
        PROVE  Mirror'
    <3>1. Active(i) /\ Doomed(slot[i].pid)
      BY <2>2 DEF Interrupted, Straggler, Phases, KilledFirst
    <3>2. should_stop'
      BY <1>9, <2>2 DEF Sigterm, Interrupted
    <3>. QED
      BY <1>9, <2>2, <3>1, <3>2, InterruptMirror DEF Sigterm, Interrupted, kernelVars
  <2>. QED
    BY <1>9, <2>1, <2>2 DEF Sigterm
<1>. QED
  BY <1>1, <1>2, <1>3, <1>4, <1>5, <1>6, <1>7, <1>8, <1>9 DEF ChangesChildren

\* The runner waits only for a process it has killed.
LEMMA AwaitStep ==
    ASSUME IInv, [Next]_vars
    PROVE  KilledFirst'
<1>. SUFFICES ASSUME pc' = "await", NEW i \in Slots, Straggler(i)'
              PROVE  Doomed(slot[i].pid)'
  BY DEF KilledFirst, Slots
<1>. USE DEF IInv, Goto
<1>1. CASE \E j \in Slots : ForceKill(j)
  <2>1. PICK j \in Slots : ForceKill(j)
    BY <1>1
  <2>2. UNCHANGED <<slot, instance_count>>
    BY <2>1 DEF ForceKill, table
  <2>3. i = j
    BY <2>1, <2>2, ConstantAssumption
    DEF ForceKill, Straggler, Active, Slots, TypeOK, RunnerType
  <2>4. slot[i].pid \in Pids
    BY <2>1, <2>3 DEF ForceKill, Straggler, Active, TypeOK, RunnerType
  <2>. QED
    BY <2>1, <2>2, <2>3, <2>4 DEF ForceKill, Doomed, TypeOK, KernelType
<1>2. CASE pc = "await" /\ UNCHANGED <<slot, instance_count>>
  <2>1. Straggler(i) /\ slot[i].pid \in Pids
    BY <1>2 DEF Straggler, Active, TypeOK, RunnerType
  <2>2. Doomed(slot[i].pid)
    BY <1>2, <2>1 DEF Phases, KilledFirst
  <2>3. CASE ~ChangesChildren
    BY <1>2, <2>1, <2>2, <2>3, OtherSteps DEF SameChildren, SameProcesses
  <2>4. CASE Sigterm
    BY <1>2, <2>2, <2>4 DEF Sigterm, kernelVars, Doomed
  <2>5. CASE ChangesChildren /\ ~Sigterm
    BY <1>2, <2>5
    DEF ChangesChildren, DmInitReset, KillAll, ForceDone, ScanEntry, ReapChild, KillReap,
        ForceReap
  <2>. QED
    BY <2>3, <2>4, <2>5
<1>. QED
  BY <1>1, <1>2, ControlStep DEF Phases

\* Nothing is started before dm_init is done.
LEMMA StartupStep ==
    ASSUME IInv, [Next]_vars
    PROVE  NothingStarted'
<1>. SUFFICES ASSUME pc' \in Startup, NEW p \in Pids
              PROVE  ~Child(p)'
  BY DEF NothingStarted
<1>. USE DEF IInv
<1>1. pc \in Startup /\ ~Child(p)
  BY ControlStep DEF Phases, NothingStarted
<1>2. CASE ~ChangesChildren
  BY <1>1, <1>2, OtherSteps DEF SameChildren, SameProcesses, Child
<1>3. CASE DmInitReset \/ Sigterm
  BY <1>1, <1>3 DEF DmInitReset, Sigterm, kernelVars, Child
<1>4. CASE ChangesChildren /\ ~DmInitReset /\ ~Sigterm
  BY <1>1, <1>4
  DEF Startup, ChangesChildren, KillAll, ForceDone, ScanEntry, ReapChild, KillReap, ForceReap
<1>. QED
  BY <1>2, <1>3, <1>4

LEMMA InvariantStep ==
    ASSUME IInv, [Next]_vars
    PROVE  IInv'
<1>1. TypeOK' /\ ReloadPending'
  BY TypeStep DEF IInv
<1>2. Mirror'
  BY MirrorStep
<1>3. /\ KillCallers'
      /\ Quiet' => \/ Quiet /\ UNCHANGED slot
                   \/ DmInitReset
                   \/ UNCHANGED slot /\ \A i \in 1..instance_count : ~Active(i)
  BY ControlStep DEF IInv, Phases
<1>4. ASSUME Quiet', NEW i \in Slots
      PROVE  ~Active(i)'
  <2>1. CASE Quiet /\ UNCHANGED slot
    BY <2>1 DEF IInv, Phases, NothingRuns, Active
  <2>2. CASE DmInitReset
    BY <2>2 DEF DmInitReset, Active, Free
  <2>3. CASE UNCHANGED slot /\ \A j \in 1..instance_count : ~Active(j)
    BY <2>3, ConstantAssumption
    DEF IInv, Mirror, SlotsOwnTheirChild, Active, Slots, TypeOK, RunnerType
  <2>. QED
    BY <1>3, <1>4, <2>1, <2>2, <2>3
<1>5. NothingRuns'
  BY <1>4 DEF NothingRuns, Slots
<1>. QED
  BY <1>1, <1>2, <1>3, <1>5, AwaitStep, StartupStep DEF IInv, Phases

LEMMA Invariance == Spec => []IInv
<1>1. IInv /\ [Next]_vars => IInv'
  BY InvariantStep
<1>. QED
  BY <1>1, InitInvariant, PTL DEF Spec

-----------------------------------------------------------------------------
(* What the invariant means.                                               *)

LEMMA OneProcess == IInv => OneProcessPerDevice
<1>. SUFFICES ASSUME IInv, NEW p \in Pids, NEW q \in Pids, Child(p), Child(q),
                     proc[p].dev = proc[q].dev, ~GivenUp(p), ~GivenUp(q)
              PROVE  p = q
  BY DEF OneProcessPerDevice
<1>0. Known(p) /\ Known(q)
  BY DEF IInv, Mirror, EveryChildHasASlot
<1>1. PICK i \in 1..instance_count : slot[i].pid = p
  BY <1>0 DEF Known
<1>2. PICK j \in 1..instance_count : slot[j].pid = q
  BY <1>0 DEF Known
<1>3. i \in Slots /\ j \in Slots /\ Active(i) /\ Active(j)
  BY <1>1, <1>2, ConstantAssumption DEF IInv, TypeOK, RunnerType, Slots, Active
<1>4. slot[i].path = slot[j].path
  BY <1>1, <1>2, <1>3 DEF IInv, Mirror, SlotsOwnTheirChild
<1>. QED
  BY <1>1, <1>2, <1>3, <1>4 DEF IInv, Mirror, DistinctPaths

\* With an empty table every child that is left was given up.
LEMMA NoChildren ==
    ASSUME IInv, \A i \in Slots : ~Active(i)
    PROVE  \A p \in Pids : Child(p) => GivenUp(p)
BY ConstantAssumption
DEF IInv, Mirror, EveryChildHasASlot, Known, Active, TypeOK, RunnerType, Slots

\* The pids the runner signals are its own children, for the device of the
\* slot they are in (kill in dm_scan_and_reconcile and dm_kill_all).
THEOREM SlotsAreChildren == Spec => []SlotsOwnTheirChild
<1>1. IInv => SlotsOwnTheirChild
  BY DEF IInv, Mirror
<1>. QED
  BY <1>1, Invariance, PTL

\* waitpid returns a child find_instance_by_pid does not know only if a stop
\* request interrupted the wait for it after its SIGKILL (dm_kill_all).
THEOREM ChildrenAreTracked == Spec => []EveryChildHasASlot
<1>1. IInv => EveryChildHasASlot
  BY DEF IInv, Mirror
<1>. QED
  BY <1>1, Invariance, PTL

\* No two iptsd processes ever work the same hidraw node, unless a stop request
\* made dm_kill_all give up one of them after its SIGKILL.
THEOREM DevicesAreExclusive == Spec => []OneProcessPerDevice
  BY OneProcess, Invariance, PTL

\* Whichever way main returns, every child of the runner it leaves behind has
\* got its SIGKILL or is dead, and was given up because of a stop request.
THEOREM ExitLeavesNothing == Spec => []NoOrphans
<1>1. IInv => NoOrphans
  BY NoChildren DEF IInv, Phases, NothingRuns, Quiet, NoOrphans
<1>. QED
  BY <1>1, Invariance, PTL

-----------------------------------------------------------------------------
(* The refinement.                                                         *)

Working == {<<proc[p].dev, p>> : p \in {q \in Pids : Child(q) /\ ~Abandoned(q)}}
LeftOver == {<<proc[p].dev, p>> : p \in {q \in Pids : Abandoned(q)}}

LEMMA InitRefines == Init => SV!SupervisorInit
<1>. SUFFICES ASSUME Init PROVE SV!SupervisorInit
  OBVIOUS
<1>1. \A p \in Pids : ~Child(p) /\ ~Abandoned(p)
  BY DEF Init, Child, Abandoned, Doomed, NoProc
<1>. QED
  BY <1>1 DEF Init, SV!SupervisorInit

\* The invariant makes every child without a slot a doomed one.
LEMMA AbandonedMeans ==
    ASSUME IInv, NEW p \in Pids
    PROVE  Abandoned(p) <=> Child(p) /\ \A i \in Slots : slot[i].pid # p
BY NotKnown DEF IInv, Abandoned, Doomed, GivenUp, Child

\* While the children and the table stay the same, so do both sets of pairs.
LEMMA SameWorking ==
    ASSUME IInv, IInv', UNCHANGED slot,
           \A p \in Pids : /\ proc'[p].dev = proc[p].dev
                           /\ proc'[p].st = "none" <=> proc[p].st = "none"
    PROVE  UNCHANGED <<Working, LeftOver>>
<1>1. \A p \in Pids : Child(p)' <=> Child(p)
  BY DEF Child
<1>2. ASSUME NEW p \in Pids
      PROVE  Abandoned(p)' <=> Abandoned(p)
  <2>1. Abandoned(p) <=> Child(p) /\ \A i \in Slots : slot[i].pid # p
    BY AbandonedMeans
  <2>2. Child(p)' /\ (\A i \in Slots : slot'[i].pid # p) => Doomed(p)'
    <3>1. \A i \in 1..instance_count' : i \in Slots
      BY ConstantAssumption DEF IInv, TypeOK, RunnerType, Slots
    <3>2. Child(p)' => Known(p)' \/ GivenUp(p)'
      BY DEF IInv, Mirror, EveryChildHasASlot
    <3>. QED
      BY <3>1, <3>2 DEF Known, GivenUp
  <2>3. Abandoned(p)' <=> Doomed(p)' /\ \A i \in Slots : slot'[i].pid # p
    BY DEF Abandoned, Slots
  <2>4. Doomed(p)' => Child(p)'
    BY DEF Doomed, Child
  <2>. QED
    BY <1>1, <2>1, <2>2, <2>3, <2>4
<1>. QED
  BY <1>1, <1>2 DEF Working, LeftOver

\* Collecting a child takes its pair out and leaves the others.
LEMMA ReapRefines ==
    ASSUME TypeOK, NEW p \in Pids, Child(p), Up, UNCHANGED <<Up, termSent>>,
           proc' = [proc EXCEPT ![p] = NoProc],
           \A i \in Slots : slot[i].pid # p => slot'[i] = slot[i],
           \A i \in Slots : slot'[i].pid # p => slot'[i].pid \in {slot[i].pid, NoPid}
    PROVE  SV!SupervisorNext
<1>1. /\ ~Child(p)' /\ ~Abandoned(p)'
      /\ \A q \in Pids : q # p => proc'[q] = proc[q]
  BY DEF Child, Abandoned, Doomed, NoProc, TypeOK, KernelType
<1>2. ASSUME NEW q \in Pids, q # p
      PROVE  (Child(q)' <=> Child(q)) /\ (Abandoned(q)' <=> Abandoned(q))
  <2>1. \A i \in Slots : slot'[i].pid = q <=> slot[i].pid = q
    BY <1>2, ConstantAssumption DEF TypeOK, RunnerType
  <2>2. Abandoned(q)' <=> Doomed(q)' /\ \A i \in Slots : slot'[i].pid # q
    BY DEF Abandoned, Slots
  <2>. QED
    BY <1>1, <1>2, <2>1, <2>2 DEF Child, Abandoned, Doomed
<1>3. CASE ~Abandoned(p)
  <2>1. <<proc[p].dev, p>> \in Working
    BY <1>3 DEF Working
  <2>2. Working' = Working \ {<<proc[p].dev, p>>}
    BY <1>1, <1>2 DEF Working
  <2>3. UNCHANGED LeftOver
    BY <1>1, <1>2, <1>3 DEF LeftOver
  <2>. QED
    BY <2>1, <2>2, <2>3 DEF SV!SupervisorNext, SV!Finish, Working, LeftOver, Up
<1>4. CASE Abandoned(p)
  <2>1. <<proc[p].dev, p>> \in LeftOver
    BY <1>4 DEF LeftOver
  <2>2. LeftOver' = LeftOver \ {<<proc[p].dev, p>>}
    BY <1>1, <1>2 DEF LeftOver
  <2>3. UNCHANGED Working
    BY <1>1, <1>2, <1>4 DEF Working
  <2>. QED
    BY <2>1, <2>2, <2>3 DEF SV!SupervisorNext, SV!Collect, Working, LeftOver, Up
<1>. QED
  BY <1>3, <1>4

\* A stop request that interrupts a wait moves one pair from one set to the
\* other.
LEMMA InterruptRefines ==
    ASSUME IInv, IInv', Up, UNCHANGED <<Up, proc>>, termSent',
           NEW i \in Slots, Interrupted(i)
    PROVE  SV!SupervisorNext
<1>0. Active(i) /\ slot[i].pid \in Pids
  BY DEF Interrupted, Straggler, Active, IInv, TypeOK, RunnerType
<1>. SUFFICES ASSUME NEW p \in Pids, slot[i].pid = p
              PROVE  SV!SupervisorNext
  BY <1>0
<1>1. p \in Pids /\ Child(p) /\ Doomed(p) /\ Active(i)
  BY <1>0 DEF Interrupted, Straggler, IInv, Phases, KilledFirst, Mirror, SlotsOwnTheirChild
<1>2. slot' = Released(p)
  BY <1>1, ReleasedOne DEF Interrupted, IInv
<1>3. /\ \A k \in Slots : slot'[k].pid # p
      /\ \A k \in Slots : slot[k].pid # p => slot'[k] = slot[k]
  BY <1>1, <1>2, ConstantAssumption
  DEF Released, Free, Active, IInv, Mirror, SlotsOwnTheirChild
<1>4. proc' = proc
  OBVIOUS
<1>5. \A q \in Pids : Child(q)' <=> Child(q)
  BY <1>4 DEF Child
<1>6. Abandoned(p)' /\ ~Abandoned(p)
  <2>1. Doomed(p)'
    BY <1>1, <1>4 DEF Doomed
  <2>2. Abandoned(p)' <=> Doomed(p)' /\ \A k \in Slots : slot'[k].pid # p
    BY DEF Abandoned, Slots
  <2>3. ~Abandoned(p)
    BY DEF Abandoned
  <2>. QED
    BY <1>3, <2>1, <2>2, <2>3
<1>7. ASSUME NEW q \in Pids, q # p
      PROVE  Abandoned(q)' <=> Abandoned(q)
  <2>1. \A k \in Slots : slot'[k].pid = q <=> slot[k].pid = q
    BY <1>2, <1>7, ConstantAssumption DEF Released, Free, IInv, TypeOK, RunnerType
  <2>2. Abandoned(q)' <=> Doomed(q)' /\ \A k \in Slots : slot'[k].pid # q
    BY DEF Abandoned, Slots
  <2>. QED
    BY <1>4, <2>1, <2>2 DEF Abandoned, Doomed
<1>8. <<proc[p].dev, p>> \in Working
  BY <1>1, <1>6 DEF Working
<1>9. Working' = Working \ {<<proc[p].dev, p>>}
  BY <1>1, <1>4, <1>5, <1>6, <1>7 DEF Working
<1>10. LeftOver' = LeftOver \cup {<<proc[p].dev, p>>}
  BY <1>1, <1>4, <1>6, <1>7 DEF LeftOver
<1>. QED
  BY <1>8, <1>9, <1>10 DEF SV!SupervisorNext, SV!StopRequest, Working, LeftOver, Up

\* main does not come back.
LEMMA ExitIsFinal ==
    ASSUME pc = "exited", [Next]_vars
    PROVE  pc' = "exited"
<1>. USE DEF Up, vars, runnerVars, kernelVars, modelVars
<1>1. CASE InstallHandler
  BY <1>1 DEF InstallHandler
<1>2. CASE PublishManager
  BY <1>2 DEF PublishManager
<1>3. CASE DmInitReset
  BY <1>3 DEF DmInitReset
<1>4. CASE DmInitWatch
  BY <1>4 DEF DmInitWatch
<1>5. CASE DmInitFail
  BY <1>5 DEF DmInitFail
<1>6. CASE ScanMark
  BY <1>6 DEF ScanMark
<1>7. CASE ScanOpen
  BY <1>7 DEF ScanOpen
<1>8. CASE ScanEnd
  BY <1>8 DEF ScanEnd
<1>9. CASE LoopHead
  BY <1>9 DEF LoopHead
<1>10. CASE EpollWait
  BY <1>10 DEF EpollWait
<1>11. CASE BatchDone
  BY <1>11 DEF BatchDone
<1>12. CASE HandleSignal
  BY <1>12 DEF HandleSignal, Take
<1>13. CASE ReapDone
  BY <1>13 DEF ReapDone
<1>14. CASE HandleInotify
  BY <1>14 DEF HandleInotify, Take
<1>15. CASE HandleTimer
  BY <1>15 DEF HandleTimer, Take
<1>16. CASE HandleResumeTick
  BY <1>16 DEF HandleResumeTick, Take
<1>17. CASE KillAll
  BY <1>17 DEF KillAll
<1>18. CASE KillSleep
  BY <1>18 DEF KillSleep
<1>19. CASE KillTimeout
  BY <1>19 DEF KillTimeout
<1>20. CASE ForceDone
  BY <1>20 DEF ForceDone
<1>21. CASE RequestReload
  BY <1>21 DEF RequestReload
<1>22. CASE LoadModules
  BY <1>22 DEF LoadModules
<1>23. CASE ReloadRemove
  BY <1>23 DEF ReloadRemove
<1>24. CASE ReloadInsert
  BY <1>24 DEF ReloadInsert
<1>25. CASE TimerExpires
  BY <1>25 DEF TimerExpires
<1>26. CASE TickExpires
  BY <1>26 DEF TickExpires
<1>27. CASE Suspend
  BY <1>27 DEF Suspend
<1>28. CASE Sigterm
  BY <1>28 DEF Sigterm
<1>29. ASSUME NEW d \in Devices, ScanEntry(d)
      PROVE  pc' = "exited"
  BY <1>29 DEF ScanEntry
<1>30. ASSUME NEW d \in Devices, Unplug(d)
      PROVE  pc' = "exited"
  BY <1>30 DEF Unplug
<1>31. ASSUME NEW d \in Devices, Plug(d)
      PROVE  pc' = "exited"
  BY <1>31 DEF Plug
<1>32. ASSUME NEW d \in Devices, Settle(d)
      PROVE  pc' = "exited"
  BY <1>32 DEF Settle
<1>33. ASSUME NEW p \in Pids, ReapChild(p)
      PROVE  pc' = "exited"
  BY <1>33 DEF ReapChild
<1>34. ASSUME NEW p \in Pids, KillReap(p)
      PROVE  pc' = "exited"
  BY <1>34 DEF KillReap
<1>35. ASSUME NEW p \in Pids, ChildRunning(p)
      PROVE  pc' = "exited"
  BY <1>35 DEF ChildRunning
<1>36. ASSUME NEW p \in Pids, ChildFailsToStart(p)
      PROVE  pc' = "exited"
  BY <1>36 DEF ChildFailsToStart
<1>37. ASSUME NEW p \in Pids, ChildExits(p)
      PROVE  pc' = "exited"
  BY <1>37 DEF ChildExits
<1>38. ASSUME NEW p \in Pids, ChildCrashes(p)
      PROVE  pc' = "exited"
  BY <1>38 DEF ChildCrashes
<1>39. ASSUME NEW i \in Slots, ForceKill(i)
      PROVE  pc' = "exited"
  BY <1>39 DEF ForceKill
<1>41. ASSUME NEW i \in Slots, ForceReap(i)
      PROVE  pc' = "exited"
  BY <1>41 DEF ForceReap
<1>40. CASE UNCHANGED vars
  BY <1>40
<1>. QED
  BY <1>1, <1>2, <1>3, <1>4, <1>5, <1>6, <1>7, <1>8, <1>9, <1>10, <1>11, <1>12, <1>13,
     <1>14, <1>15, <1>16, <1>17, <1>18, <1>19, <1>20, <1>21, <1>22, <1>23, <1>24,
     <1>25, <1>26, <1>27, <1>28, <1>29, <1>30, <1>31, <1>32, <1>33, <1>34, <1>35,
     <1>36, <1>37, <1>38, <1>39, <1>40, <1>41
  DEF Next, Runner, Processes, Kernel

\* spawn_iptsd starts a process for a device that has none.
LEMMA SpawnRefines ==
    ASSUME IInv, IInv', Up, UNCHANGED <<Up, termSent>>,
           NEW d \in Devices, ~Tracked(d), Spawn(d)
    PROVE  SV!SupervisorNext \/ UNCHANGED <<Working, LeftOver>>
<1>1. CASE UNCHANGED <<proc, slot>>
  BY <1>1, SameWorking
<1>2. CASE \E i \in Slots, p \in Pids :
             /\ Allocates(i) /\ ~Child(p)
             /\ slot' = [slot EXCEPT ![i] = [pid |-> p, path |-> d]]
             /\ proc' = [proc EXCEPT ![p] = [st |-> "starting", dev |-> d]]
  <2>1. PICK i \in Slots, p \in Pids :
             /\ Allocates(i) /\ ~Child(p)
             /\ slot' = [slot EXCEPT ![i] = [pid |-> p, path |-> d]]
             /\ proc' = [proc EXCEPT ![p] = [st |-> "starting", dev |-> d]]
    BY <1>2
  <2>2. /\ Child(p)' /\ proc'[p].dev = d
        /\ \A q \in Pids : q # p => proc'[q] = proc[q]
    BY <2>1 DEF Child, IInv, TypeOK, KernelType
  <2>3. slot[i].pid = NoPid
    BY <2>1, ConstantAssumption
    DEF Allocates, Active, IInv, Mirror, SlotsOwnTheirChild, TypeOK, RunnerType, Slots
  <2>4. ASSUME NEW q \in Pids, q # p
        PROVE  (Child(q)' <=> Child(q)) /\ (Abandoned(q)' <=> Abandoned(q))
    <3>1. \A k \in Slots : slot'[k].pid = q <=> slot[k].pid = q
      BY <2>1, <2>3, <2>4, ConstantAssumption DEF IInv, TypeOK, RunnerType
    <3>2. Abandoned(q)' <=> Doomed(q)' /\ \A k \in Slots : slot'[k].pid # q
      BY DEF Abandoned, Slots
    <3>. QED
      BY <2>2, <2>4, <3>1, <3>2 DEF Child, Abandoned, Doomed
  <2>5. ~Abandoned(p) /\ ~Abandoned(p)'
    BY <2>1, <2>2 DEF Abandoned, Doomed, Child, IInv, TypeOK, KernelType
  <2>6. Working' = Working \cup {<<d, p>>} /\ UNCHANGED LeftOver
    <3>1. Working' = Working \cup {<<d, p>>}
      BY <2>1, <2>2, <2>4, <2>5 DEF Working
    <3>2. UNCHANGED LeftOver
      BY <2>1, <2>2, <2>4, <2>5 DEF LeftOver
    <3>. QED
      BY <3>1, <3>2
  <2>7. ASSUME NEW q \in Pids, Child(q), ~Abandoned(q)
        PROVE  q # p /\ proc[q].dev # d
    <3>1. PICK k \in Slots : slot[k].pid = q
      BY <2>7, AbandonedMeans
    <3>2. Active(k) /\ k \in 1..instance_count
      BY <3>1, ConstantAssumption
      DEF Active, IInv, Mirror, SlotsOwnTheirChild, TypeOK, RunnerType, Slots
    <3>3. slot[k].path # d
      BY <3>2 DEF Tracked
    <3>. QED
      BY <2>1, <2>7, <3>1, <3>2, <3>3 DEF IInv, Mirror, SlotsOwnTheirChild
  <2>8. /\ \A w \in Working : w[1] # d /\ w[2] # p
        /\ \A w \in LeftOver : w[2] # p
    BY <2>5, <2>7 DEF Working, LeftOver
  <2>9. SV!Start(d, p)
    BY <2>6, <2>8 DEF SV!Start, Working, LeftOver, Up
  <2>. QED
    BY <2>9 DEF SV!SupervisorNext
<1>. QED
  BY <1>1, <1>2 DEF Spawn, table

\* main returns only when no process works a device.
LEMMA ExitRefines ==
    ASSUME IInv, IInv', [Next]_vars, ~Up'
    PROVE  SV!SupervisorNext \/ UNCHANGED <<Working, LeftOver, termSent, Up>>
<1>1. /\ UNCHANGED termSent \/ termSent'
      /\ \/ Quiet /\ UNCHANGED slot
         \/ UNCHANGED slot /\ \A i \in 1..instance_count : ~Active(i)
  BY ControlStep DEF IInv, Phases, Quiet, Up, DmInitReset, Goto
<1>2. \A i \in Slots : ~Active(i)
  BY <1>1, ConstantAssumption
  DEF IInv, Phases, NothingRuns, Mirror, SlotsOwnTheirChild, Slots, TypeOK, RunnerType
<1>3. \A p \in Pids : Child(p) => Abandoned(p)
  BY <1>2, AbandonedMeans, ConstantAssumption DEF Active
<1>4. Working = {}
  BY <1>3 DEF Working
<1>5. CASE Up
  <2>1. ~ChangesChildren \/ KillAll \/ ForceDone \/ Sigterm
    BY <1>5
    DEF ChangesChildren, DmInitReset, ScanEntry, ReapChild, KillReap, ForceReap, Goto, Up
  <2>2. \A p \in Pids : /\ proc'[p].dev = proc[p].dev
                        /\ proc'[p].st = "none" <=> proc[p].st = "none"
    <3>1. CASE ~ChangesChildren
      BY <3>1, OtherSteps DEF SameChildren, SameProcesses, IInv
    <3>2. CASE KillAll
      BY <3>2, KillAllChildren DEF SameProcesses, IInv
    <3>3. CASE ForceDone \/ Sigterm
      BY <3>3 DEF ForceDone, Sigterm, kernelVars
    <3>. QED
      BY <2>1, <3>1, <3>2, <3>3
  <2>3. UNCHANGED <<Working, LeftOver>>
    BY <1>1, <2>2, SameWorking
  <2>4. termSent' \in {termSent, TRUE}
    BY <1>1 DEF IInv, TypeOK, ModelType
  <2>. QED
    BY <1>4, <1>5, <2>3, <2>4 DEF SV!SupervisorNext, SV!Shutdown, Working, LeftOver, Up
<1>6. CASE ~Up
  <2>1. UNCHANGED <<slot, proc, termSent>> \/ ~ChangesChildren
    BY <1>6
    DEF ChangesChildren, DmInitReset, KillAll, ForceDone, ScanEntry, ReapChild, KillReap,
        ForceReap, Sigterm, Up
  <2>2. UNCHANGED slot
    BY <1>1
  <2>3. \A p \in Pids : /\ proc'[p].dev = proc[p].dev
                        /\ proc'[p].st = "none" <=> proc[p].st = "none"
    BY <2>1, OtherSteps DEF SameChildren, SameProcesses, IInv
  <2>4. UNCHANGED termSent
    BY <1>6, ControlStep DEF Sigterm, Up, IInv, Phases
  <2>. QED
    BY <1>6, <2>2, <2>3, <2>4, SameWorking DEF Up
<1>. QED
  BY <1>5, <1>6

LEMMA StepRefines ==
    ASSUME IInv, [Next]_vars
    PROVE  [SV!SupervisorNext]_(SV!supervisorVars)
<1>. DEFINE Goal == SV!SupervisorNext \/ UNCHANGED <<Working, LeftOver, termSent, Up>>
<1>. SUFFICES Goal
  BY DEF Working, LeftOver, Up, SV!supervisorVars
<1>1. IInv'
  BY InvariantStep
<1>2. CASE ~Up'
  BY <1>1, <1>2, ExitRefines
<1>3. CASE Up' /\ Sigterm
  <2>1. Up /\ UNCHANGED <<Up, proc>> /\ termSent'
    BY <1>3 DEF Sigterm, Up, kernelVars
  <2>2. CASE UNCHANGED slot
    <3>1. UNCHANGED <<Working, LeftOver>>
      BY <1>1, <2>1, <2>2, SameWorking
    <3>. QED
      BY <2>1, <3>1 DEF SV!SupervisorNext, SV!StopRequest, Working, LeftOver, Up
  <2>3. ASSUME NEW i \in Slots, Interrupted(i)
        PROVE  Goal
    BY <1>1, <2>1, <2>3, InterruptRefines
  <2>. QED
    BY <1>3, <2>2, <2>3 DEF Sigterm
<1>4. CASE Up' /\ ~Sigterm
  <2>1. Up /\ UNCHANGED <<Up, termSent>>
    BY <1>4, ExitIsFinal, ControlStep DEF Up, IInv, Phases
  <2>2. CASE ~ChangesChildren
    BY <1>1, <2>1, <2>2, OtherSteps, SameWorking DEF SameChildren, SameProcesses, IInv
  <2>3. CASE DmInitReset
    <3>1. \A p \in Pids : ~Child(p) /\ ~Child(p)'
      BY <2>3 DEF DmInitReset, kernelVars, IInv, Phases, NothingStarted, Startup, Child
    <3>2. \A p \in Pids : ~Abandoned(p) /\ ~Abandoned(p)'
      BY <3>1 DEF Abandoned, Doomed, Child
    <3>. QED
      BY <2>1, <3>1, <3>2 DEF Working, LeftOver
  <2>4. CASE KillAll
    BY <1>1, <2>1, <2>4, KillAllChildren, SameWorking DEF SameProcesses, IInv
  <2>5. CASE ForceDone
    BY <1>1, <2>1, <2>5, SameWorking DEF ForceDone, kernelVars
  <2>6. ASSUME NEW d \in Devices, ScanEntry(d)
        PROVE  Goal
    BY <1>1, <2>1, <2>6, SpawnRefines, SameWorking DEF ScanEntry
  <2>7. ASSUME NEW p \in Pids, slot' = Released(p), Zombie(p),
               proc' = [proc EXCEPT ![p] = NoProc]
        PROVE  Goal
    <3>1. /\ \A i \in Slots : slot[i].pid # p => slot'[i] = slot[i]
          /\ \A i \in Slots : slot'[i].pid # p => slot'[i].pid \in {slot[i].pid, NoPid}
      BY <2>7 DEF Released, Free
    <3>. QED
      BY <2>1, <2>7, <3>1, ReapRefines DEF Zombie, Child, IInv
  <2>8. ASSUME NEW i \in Slots, ForceReap(i)
        PROVE  Goal
    <3>1. Active(i) /\ slot[i].pid \in Pids
      BY <2>8 DEF ForceReap, Straggler, Active, IInv, TypeOK, RunnerType
    <3>2. slot' = Released(slot[i].pid)
      BY <2>8, <3>1, ReleasedOne DEF ForceReap, IInv
    <3>. QED
      BY <2>7, <2>8, <3>1, <3>2 DEF ForceReap
  <2>. QED
    BY <1>4, <2>2, <2>3, <2>4, <2>5, <2>6, <2>7, <2>8
    DEF ChangesChildren, ReapChild, KillReap
<1>. QED
  BY <1>2, <1>3, <1>4

\* Every behaviour of the runner is one the supervisor allows.
THEOREM Refinement == Spec => ImplementsSupervisor
<1>1. IInv /\ [Next]_vars => [SV!SupervisorNext]_(SV!supervisorVars)
  BY StepRefines
<1>. QED
  BY <1>1, InitRefines, Invariance, PTL DEF Spec, ImplementsSupervisor, SV!SupervisorSpec

-----------------------------------------------------------------------------
(* No dead child is forgotten.                                             *)

LEMMA ZombieStep ==
    ASSUME IInv, IInv', NoZombieForgotten, [Next]_vars
    PROVE  NoZombieForgotten'
<1>. USE DEF NoZombieForgotten, Zombie, Goto, vars, runnerVars, kernelVars, modelVars,
             table, settings, iteration, nodes, events, budgets
<1>. /\ proc \in [Pids -> [st : ProcStates, dev : Devices \cup {NoDevice}]]
     /\ slot \in [Slots -> [pid : Pids \cup {NoPid}, path : Devices \cup {NoDevice}]]
     /\ cursor \in 1..(IPTSD_MAX_INSTANCES + 1) /\ instance_count \in 0..IPTSD_MAX_INSTANCES
  BY DEF IInv, TypeOK, RunnerType, KernelType
<1>1. CASE InstallHandler
  BY <1>1 DEF InstallHandler, Kill
<1>2. CASE PublishManager
  BY <1>2 DEF PublishManager, Kill
<1>3. CASE DmInitReset
  BY <1>3 DEF DmInitReset, Kill
<1>4. CASE DmInitWatch
  BY <1>4 DEF DmInitWatch, Kill
<1>5. CASE DmInitFail
  BY <1>5 DEF DmInitFail, Kill
<1>6. CASE ScanMark
  <2>1. CASE UNCHANGED proc
    BY <1>6, <2>1 DEF ScanMark
  <2>2. CASE Active(cursor) /\ Terminate({slot[cursor].pid})
    <3>1. cursor \in Slots
      BY <1>6, ConstantAssumption DEF ScanMark, Slots
    <3>2. {slot[cursor].pid} \in SUBSET Pids
      BY <2>2, <3>1 DEF Active
    <3>3. \A p \in Pids : proc'[p].st = "zombie" <=> proc[p].st = "zombie"
      BY <2>2, <3>2, TerminateType
    <3>. QED
      BY <1>6, <3>3 DEF ScanMark
  <2>. QED
    BY <1>6, <2>1, <2>2 DEF ScanMark
<1>7. CASE ScanOpen
  BY <1>7 DEF ScanOpen, ScanReturn, Kill
<1>8. CASE ScanEnd
  BY <1>8 DEF ScanEnd, ScanReturn, Kill
<1>9. CASE LoopHead
  BY <1>9 DEF LoopHead, Kill
<1>10. CASE EpollWait
  BY <1>10 DEF EpollWait, Kill
<1>11. CASE BatchDone
  BY <1>11 DEF BatchDone, Kill
<1>12. CASE HandleSignal
  BY <1>12 DEF HandleSignal, Take, Kill
<1>13. CASE ReapDone
  BY <1>13 DEF ReapDone, Kill
<1>14. CASE HandleInotify
  BY <1>14 DEF HandleInotify, Take, Kill
<1>15. CASE HandleTimer
  BY <1>15 DEF HandleTimer, Take, Kill
<1>16. CASE HandleResumeTick
  BY <1>16 DEF HandleResumeTick, Take, Kill
<1>17. CASE KillSleep
  BY <1>17 DEF KillSleep
<1>18. CASE KillTimeout
  BY <1>18 DEF KillTimeout, Kill
<1>19. CASE ForceDone
  BY <1>19 DEF ForceDone
<1>20. CASE RequestReload
  BY <1>20 DEF RequestReload, Kill
<1>21. CASE LoadModules
  BY <1>21 DEF LoadModules
<1>22. CASE ReloadRemove
  BY <1>22 DEF ReloadRemove, NodesVanish
<1>23. CASE ReloadInsert
  BY <1>23 DEF ReloadInsert, NodesAppear
<1>24. CASE TimerExpires
  BY <1>24 DEF TimerExpires
<1>25. CASE TickExpires
  BY <1>25 DEF TickExpires
<1>26. CASE Suspend
  BY <1>26 DEF Suspend
<1>27. CASE Sigterm
  BY <1>27 DEF Sigterm, Interrupted, Kill
<1>28. CASE KillAll
  <2>. DEFINE victims == {slot[i].pid : i \in {j \in 1..instance_count : Active(j)}}
  <2>1. victims \in SUBSET Pids
    <3>1. ASSUME NEW i \in 1..instance_count, Active(i)
          PROVE  slot[i].pid \in Pids
      BY <3>1, ConstantAssumption DEF Active, Slots, IInv, TypeOK, RunnerType
    <3>. QED
      BY <3>1
  <2>2. pc = "kill" /\ Terminate(victims) /\ UNCHANGED sigchld
    BY <1>28 DEF KillAll
  <2>. HIDE DEF victims
  <2>3. \A p \in Pids : proc'[p].st = "zombie" <=> proc[p].st = "zombie"
    BY <2>1, <2>2, TerminateType
  <2>. QED
    BY <2>2, <2>3
<1>29. ASSUME NEW d \in Devices, ScanEntry(d)
      PROVE  NoZombieForgotten'
  <2>1. \A p \in Pids : Zombie(p)' => Zombie(p)
    BY <1>29 DEF ScanEntry, Spawn, table
  <2>. QED
    BY <1>29, <2>1 DEF ScanEntry
<1>30. ASSUME NEW d \in Devices, Unplug(d)
      PROVE  NoZombieForgotten'
  BY <1>30 DEF Unplug, NodesVanish
<1>31. ASSUME NEW d \in Devices, Plug(d)
      PROVE  NoZombieForgotten'
  BY <1>31 DEF Plug, NodesAppear
<1>32. ASSUME NEW d \in Devices, Settle(d)
      PROVE  NoZombieForgotten'
  BY <1>32 DEF Settle
<1>33. ASSUME NEW p \in Pids, ReapChild(p)
      PROVE  NoZombieForgotten'
  BY <1>33 DEF ReapChild, NoProc, Kill
<1>34. ASSUME NEW p \in Pids, KillReap(p)
      PROVE  NoZombieForgotten'
  BY <1>34 DEF KillReap, NoProc, Kill
<1>35. ASSUME NEW p \in Pids, ChildRunning(p)
      PROVE  NoZombieForgotten'
  BY <1>35 DEF ChildRunning
<1>36. ASSUME NEW p \in Pids, ChildFailsToStart(p)
      PROVE  NoZombieForgotten'
  BY <1>36 DEF ChildFailsToStart
<1>37. ASSUME NEW p \in Pids, ChildExits(p)
      PROVE  NoZombieForgotten'
  BY <1>37 DEF ChildExits
<1>38. ASSUME NEW p \in Pids, ChildCrashes(p)
      PROVE  NoZombieForgotten'
  BY <1>38 DEF ChildCrashes
<1>39. ASSUME NEW i \in Slots, ForceKill(i)
      PROVE  NoZombieForgotten'
  BY <1>39 DEF ForceKill
<1>41. ASSUME NEW i \in Slots, ForceReap(i)
      PROVE  NoZombieForgotten'
  BY <1>41 DEF ForceReap, NoProc
<1>40. CASE UNCHANGED vars
  BY <1>40
<1>. QED
  BY <1>1, <1>2, <1>3, <1>4, <1>5, <1>6, <1>7, <1>8, <1>9, <1>10, <1>11, <1>12, <1>13,
     <1>14, <1>15, <1>16, <1>17, <1>18, <1>19, <1>20, <1>21, <1>22, <1>23, <1>24,
     <1>25, <1>26, <1>27, <1>28, <1>29, <1>30, <1>31, <1>32, <1>33, <1>34, <1>35,
     <1>36, <1>37, <1>38, <1>39, <1>40, <1>41
  DEF Next, Runner, Processes, Kernel

\* A dead child is always announced or about to be collected, although SIGCHLD
\* coalesces and dm_kill_all reaps behind the back of the signal descriptor.
THEOREM ZombiesAreReaped == Spec => []NoZombieForgotten
<1>1. Init => NoZombieForgotten
  BY DEF Init, NoZombieForgotten, Zombie, NoProc
<1>2. IInv /\ IInv' /\ NoZombieForgotten /\ [Next]_vars => NoZombieForgotten'
  BY ZombieStep
<1>. QED
  BY <1>1, <1>2, Invariance, PTL DEF Spec

-----------------------------------------------------------------------------
(* No device is forgotten.                                                 *)

\* An IPTS node that could be served and is not: nothing works it, a slot is
\* left, and no fork or opendir has failed.
Room == \E i \in Slots : ~Active(i)

Wanted(d) == dev[d] # "absent" /\ ~Tracked(d) /\ Room /\ faults = 0

\* A scan that is still to come to the node: the one in progress, the one that
\* follows dm_init, a death or dm_kill_all, or one the rescan timer starts.
Scheduled(d) ==
    \/ inotify \/ timer # "off"
    \/ pc \in Startup \cup Kill \cup {"mark", "reaped", "reload", "exited"}
    \/ pc = "scan" /\ d \in todo

RescanComes == \A d \in Ipts : Wanted(d) => Scheduled(d)

\* A scan skips a node ueventd has not set up; the event of its creation then
\* still has the timer before it.
SetupAnnounced ==
    Watching /\ (\E d \in Devices : dev[d] = "unready") =>
        inotify \/ timer = "armed" \/ ~Up

Scans == RescanComes /\ SetupAnnounced

\* A node that is not set up yet keeps a rescan ahead of it.
LEMMA AnnouncedStep ==
    ASSUME TypeOK, SetupAnnounced, [Next]_vars
    PROVE  SetupAnnounced'
<1>. USE DEF SetupAnnounced, Watching, Up, Startup, Goto, vars, runnerVars, kernelVars,
             modelVars, table, settings, iteration, nodes, events, budgets
<1>. dev \in [Devices -> DevStates]
  BY DEF TypeOK, KernelType
<1>1. CASE InstallHandler
  BY <1>1 DEF InstallHandler
<1>2. CASE PublishManager
  BY <1>2 DEF PublishManager
<1>3. CASE DmInitReset
  BY <1>3 DEF DmInitReset
<1>4. CASE DmInitWatch
  BY <1>4 DEF DmInitWatch
<1>5. CASE DmInitFail
  BY <1>5 DEF DmInitFail
<1>6. CASE ScanMark
  BY <1>6 DEF ScanMark
<1>7. CASE ScanOpen
  BY <1>7 DEF ScanOpen, ScanReturn
<1>8. CASE ScanEnd
  BY <1>8 DEF ScanEnd, ScanReturn
<1>9. CASE LoopHead
  BY <1>9 DEF LoopHead
<1>10. CASE EpollWait
  BY <1>10 DEF EpollWait
<1>11. CASE BatchDone
  BY <1>11 DEF BatchDone
<1>12. CASE HandleSignal
  BY <1>12 DEF HandleSignal, Take
<1>13. CASE ReapDone
  BY <1>13 DEF ReapDone
<1>14. CASE HandleInotify
  BY <1>14 DEF HandleInotify, Take
<1>15. CASE HandleTimer
  BY <1>15 DEF HandleTimer, Take
<1>16. CASE HandleResumeTick
  BY <1>16 DEF HandleResumeTick, Take
<1>17. CASE KillAll
  BY <1>17 DEF KillAll, KillReturn
<1>18. CASE KillSleep
  BY <1>18 DEF KillSleep
<1>19. CASE KillTimeout
  BY <1>19 DEF KillTimeout
<1>20. CASE ForceDone
  BY <1>20 DEF ForceDone, KillReturn
<1>21. CASE RequestReload
  BY <1>21 DEF RequestReload
<1>22. CASE LoadModules
  BY <1>22 DEF LoadModules
<1>23. CASE ReloadRemove
  BY <1>23 DEF ReloadRemove, NodesVanish, ReaddirRace
<1>24. CASE ReloadInsert
  BY <1>24 DEF ReloadInsert, NodesAppear, ReaddirRace
<1>25. CASE TimerExpires
  BY <1>25 DEF TimerExpires
<1>26. CASE TickExpires
  BY <1>26 DEF TickExpires
<1>27. CASE Suspend
  BY <1>27 DEF Suspend
<1>28. CASE Sigterm
  BY <1>28 DEF Sigterm, Interrupted
<1>29. ASSUME NEW e \in Devices, ScanEntry(e)
      PROVE  SetupAnnounced'
  BY <1>29 DEF ScanEntry
<1>30. ASSUME NEW p \in Pids, ReapChild(p)
      PROVE  SetupAnnounced'
  BY <1>30 DEF ReapChild
<1>31. ASSUME NEW p \in Pids, KillReap(p)
      PROVE  SetupAnnounced'
  BY <1>31 DEF KillReap
<1>32. ASSUME NEW i \in Slots, ForceKill(i)
      PROVE  SetupAnnounced'
  BY <1>32 DEF ForceKill
<1>33. ASSUME NEW p \in Pids, ChildRunning(p)
      PROVE  SetupAnnounced'
  BY <1>33 DEF ChildRunning
<1>34. ASSUME NEW p \in Pids, ChildFailsToStart(p)
      PROVE  SetupAnnounced'
  BY <1>34 DEF ChildFailsToStart
<1>35. ASSUME NEW p \in Pids, ChildExits(p)
      PROVE  SetupAnnounced'
  BY <1>35 DEF ChildExits
<1>36. ASSUME NEW p \in Pids, ChildCrashes(p)
      PROVE  SetupAnnounced'
  BY <1>36 DEF ChildCrashes
<1>37. ASSUME NEW e \in Devices, Unplug(e)
      PROVE  SetupAnnounced'
  BY <1>37 DEF Unplug, NodesVanish, ReaddirRace
<1>38. ASSUME NEW e \in Devices, Plug(e)
      PROVE  SetupAnnounced'
  BY <1>38 DEF Plug, NodesAppear, ReaddirRace
<1>39. ASSUME NEW e \in Devices, Settle(e)
      PROVE  SetupAnnounced'
  BY <1>39 DEF Settle
<1>40. CASE UNCHANGED vars
  BY <1>40
<1>41. ASSUME NEW i \in Slots, ForceReap(i)
      PROVE  SetupAnnounced'
  BY <1>41 DEF ForceReap
<1>. QED
  BY <1>1, <1>2, <1>3, <1>4, <1>5, <1>6, <1>7, <1>8, <1>9, <1>10, <1>11, <1>12, <1>13, <1>14, <1>15, <1>16, <1>17, <1>18, <1>19, <1>20, <1>21, <1>22, <1>23, <1>24, <1>25, <1>26, <1>27, <1>28, <1>29, <1>30, <1>31, <1>32, <1>33, <1>34, <1>35, <1>36, <1>37, <1>38, <1>39, <1>40, <1>41
  DEF Next, Runner, Processes, Kernel

\* Steps that leave the table alone change neither what is tracked nor whether
\* a slot is left.
LEMMA SameTable ==
    ASSUME UNCHANGED <<slot, instance_count>>
    PROVE  /\ Room' <=> Room
           /\ \A d \in Ipts : Tracked(d)' <=> Tracked(d)
BY DEF Room, Tracked, Active

\* Every set of numbers has a smallest element: the first free slot.
LEMMA Smallest ==
  ASSUME NEW T \in SUBSET Nat, T # {}
  PROVE  \E x \in T : \A y \in T : x <= y
<1> DEFINE Upto(x) == 0..x
           Family == {Upto(x) : x \in T}
<1>1. Family \subseteq FiniteSubsetsOf(Nat) /\ Family # {}
  <2>1. \A x \in T : Upto(x) \subseteq Nat /\ IsFiniteSet(Upto(x))
    BY FS_Interval
  <2> QED
    BY <2>1 DEF FiniteSubsetsOf
<1>2. PICK F \in Family : \A G \in Family : <<G, F>> \notin StrictSubsetOrdering(Nat)
  <2>1. IsWellFoundedOn(StrictSubsetOrdering(Nat), FiniteSubsetsOf(Nat))
    BY FS_StrictSubsetOrderingWellFounded
  <2> HIDE DEF Family
  <2> QED
    BY <1>1, <2>1, WFMin
<1>3. PICK x \in T : F = Upto(x)
  BY <1>2
<1>4. ASSUME NEW y \in T, ~(x <= y) PROVE FALSE
  <2>1. y \in Nat /\ x \in Nat /\ y < x
    BY <1>4
  <2>2. Upto(y) \subseteq Upto(x) /\ Upto(y) # Upto(x)
    BY <2>1
  <2>3. Upto(y) \subseteq Nat /\ Upto(x) \subseteq Nat
    BY <2>1
  <2>4. <<Upto(y), Upto(x)>> \in StrictSubsetOrdering(Nat)
    BY <2>2, <2>3 DEF StrictSubsetOrdering
  <2> QED
    BY <1>2, <1>3, <2>4
<1> QED
  BY <1>4

\* spawn_iptsd leaves the node tracked, no slot over, or a failed fork behind,
\* and every other tracked node tracked.
LEMMA SpawnServes ==
    ASSUME IInv, NEW d \in Devices, Spawn(d)
    PROVE  /\ Tracked(d)' \/ ~Room' \/ faults' # 0
           /\ \A e \in Ipts : Tracked(e) => Tracked(e)'
           /\ Room' => Room
           /\ faults' = 0 => faults = 0
<1>. USE ConstantAssumption DEF Slots
<1>. /\ slot \in [Slots -> [pid : Pids \cup {NoPid}, path : Devices \cup {NoDevice}]]
     /\ instance_count \in 0..IPTSD_MAX_INSTANCES /\ faults \in Nat
  BY DEF IInv, TypeOK, RunnerType, ModelType
<1>1. CASE (\A i \in Slots : ~Allocates(i)) /\ UNCHANGED <<faults, slot, instance_count>>
  <2>1. Tracked(d)' \/ ~Room
    <3>. SUFFICES ASSUME Room PROVE FALSE
      OBVIOUS
    <3>1. CASE \A j \in 1..instance_count : Active(j)
      BY <1>1, <3>1 DEF Room, Allocates
    <3>2. CASE \E j \in 1..instance_count : ~Active(j)
      <4>. DEFINE Inactive == {j \in 1..instance_count : ~Active(j)}
      <4>1. Inactive \in SUBSET Nat /\ Inactive # {}
        BY <3>2
      <4>2. PICK i \in Inactive : \A j \in Inactive : i <= j
        BY <4>1, Smallest
      <4>3. i \in Slots /\ Allocates(i)
        BY <4>2 DEF Allocates
      <4>. QED
        BY <1>1, <4>3
    <3>. QED
      BY <3>1, <3>2
  <2>. QED
    BY <1>1, <2>1, SameTable
<1>2. ASSUME NEW i \in Slots, NEW p \in Pids, Allocates(i),
             slot' = [slot EXCEPT ![i] = [pid |-> p, path |-> d]],
             instance_count' = (IF i > instance_count THEN i ELSE instance_count),
             UNCHANGED faults
      PROVE  /\ Tracked(d)'
             /\ \A e \in Ipts : Tracked(e) => Tracked(e)'
             /\ Room' => Room
  <2>1. ~Active(i) /\ i \in 1..instance_count' /\ instance_count <= instance_count'
        /\ instance_count' \in Nat
    BY <1>2 DEF Allocates, IInv, Mirror, SlotsOwnTheirChild
  <2>2. /\ slot'[i] = [pid |-> p, path |-> d]
        /\ \A j \in Slots : j # i => slot'[j] = slot[j]
    BY <1>2
  <2>3. Tracked(d)'
    BY <2>1, <2>2 DEF Tracked, Active
  <2>4. ASSUME NEW e \in Ipts, Tracked(e)
        PROVE  Tracked(e)'
    <3>1. PICK j \in 1..instance_count : Active(j) /\ slot[j].path = e
      BY <2>4 DEF Tracked
    <3>2. j \in 1..instance_count' /\ slot'[j] = slot[j]
      BY <2>1, <2>2, <3>1
    <3>. QED
      BY <3>1, <3>2 DEF Tracked, Active
  <2>5. Room
    BY <2>1 DEF Room
  <2>. QED
    BY <2>3, <2>4, <2>5
<1>3. ASSUME NEW i \in Slots, Allocates(i), faults' = faults + 1, UNCHANGED slot,
             instance_count' = (IF i > instance_count THEN i ELSE instance_count)
      PROVE  /\ faults' # 0
             /\ \A e \in Ipts : Tracked(e) => Tracked(e)'
             /\ Room' => Room
  <2>1. instance_count <= instance_count' /\ instance_count' \in Nat
    BY <1>3
  <2>. QED
    BY <1>3, <2>1 DEF Tracked, Active, Room
<1>. QED
  BY <1>1, <1>2, <1>3 DEF Spawn, table

LEMMA RescanStep ==
    ASSUME IInv, Scans, [Next]_vars
    PROVE  RescanComes'
<1>. USE DEF Scans, RescanComes, Wanted, Scheduled, Startup, Kill, Goto, vars,
             runnerVars, kernelVars, modelVars, table, settings, iteration, nodes, events, budgets
<1>. /\ dev \in [Devices -> DevStates]
     /\ Ipts \subseteq Devices
     /\ faults \in Nat
  BY ConstantAssumption DEF IInv, TypeOK, KernelType, ModelType
<1>1. CASE InstallHandler
  BY <1>1, SameTable DEF InstallHandler
<1>2. CASE PublishManager
  BY <1>2, SameTable DEF PublishManager
<1>3. CASE DmInitReset
  BY <1>3, SameTable DEF DmInitReset
<1>4. CASE DmInitWatch
  BY <1>4, SameTable DEF DmInitWatch
<1>5. CASE DmInitFail
  BY <1>5, SameTable DEF DmInitFail
<1>6. CASE ScanMark
  BY <1>6, SameTable DEF ScanMark
<1>7. CASE ScanOpen
  BY <1>7, SameTable DEF ScanOpen, ScanReturn
<1>8. CASE ScanEnd
  BY <1>8, SameTable DEF ScanEnd, ScanReturn
<1>9. CASE LoopHead
  BY <1>9, SameTable DEF LoopHead
<1>10. CASE EpollWait
  BY <1>10, SameTable DEF EpollWait
<1>11. CASE BatchDone
  BY <1>11, SameTable DEF BatchDone
<1>12. CASE HandleSignal
  BY <1>12, SameTable DEF HandleSignal, Take
<1>13. CASE ReapDone
  BY <1>13, SameTable DEF ReapDone
<1>14. CASE HandleInotify
  BY <1>14, SameTable DEF HandleInotify, Take
<1>15. CASE HandleTimer
  BY <1>15, SameTable DEF HandleTimer, Take
<1>16. CASE HandleResumeTick
  BY <1>16, SameTable DEF HandleResumeTick, Take
<1>17. CASE KillAll
  BY <1>17, SameTable DEF KillAll, KillReturn
<1>18. CASE KillSleep
  BY <1>18, SameTable DEF KillSleep
<1>19. CASE KillTimeout
  BY <1>19, SameTable DEF KillTimeout
<1>20. CASE ForceDone
  BY <1>20 DEF ForceDone, KillReturn
<1>21. CASE RequestReload
  BY <1>21, SameTable DEF RequestReload
<1>22. CASE LoadModules
  BY <1>22, SameTable DEF LoadModules
<1>23. CASE ReloadRemove
  BY <1>23, SameTable DEF ReloadRemove, NodesVanish, ReaddirRace
<1>24. CASE ReloadInsert
  BY <1>24, SameTable DEF ReloadInsert, NodesAppear, Watching
<1>25. CASE TimerExpires
  BY <1>25, SameTable DEF TimerExpires
<1>26. CASE TickExpires
  BY <1>26, SameTable DEF TickExpires
<1>27. CASE Suspend
  BY <1>27, SameTable DEF Suspend
<1>28. CASE Sigterm
  <2>1. CASE UNCHANGED slot
    BY <1>28, <2>1, SameTable DEF Sigterm, Interrupted
  <2>2. CASE pc' = "force"
    BY <2>2
  <2>. QED
    BY <1>28, <2>1, <2>2 DEF Sigterm, Interrupted
<1>29. ASSUME NEW e \in Devices, ScanEntry(e)
      PROVE  RescanComes'
  <2>. SUFFICES ASSUME NEW d \in Ipts, Wanted(d)'
                PROVE  Scheduled(d)'
    BY DEF RescanComes
  <2>. USE DEF ScanEntry
  <2>1. CASE /\ UNCHANGED <<slot, instance_count, proc, faults>>
             /\ Tracked(e) \/ dev[e] \notin {"ready", "wedged"} \/ e \notin Ipts
    <3>1. Wanted(d)
      BY <1>29, <2>1, SameTable
    <3>2. CASE d # e \/ dev[d] = "unready"
      BY <1>29, <3>1, <3>2 DEF SetupAnnounced, Watching, Up
    <3>3. CASE d = e /\ dev[d] # "unready"
      BY <1>29, <2>1, <3>1, <3>3 DEF DevStates
    <3>. QED
      BY <3>2, <3>3
  <2>2. CASE Spawn(e)
    <3>1. d # e /\ Wanted(d)
      BY <1>29, <2>2, SpawnServes
    <3>. QED
      BY <1>29, <3>1
  <2>. QED
    BY <1>29, <2>1, <2>2
<1>30. ASSUME NEW p \in Pids, ReapChild(p)
      PROVE  RescanComes'
  BY <1>30, SameTable DEF ReapChild
<1>31. ASSUME NEW p \in Pids, KillReap(p)
      PROVE  RescanComes'
  BY <1>31, SameTable DEF KillReap
<1>32. ASSUME NEW i \in Slots, ForceKill(i)
      PROVE  RescanComes'
  BY <1>32, SameTable DEF ForceKill
<1>33. ASSUME NEW p \in Pids, ChildRunning(p)
      PROVE  RescanComes'
  BY <1>33, SameTable DEF ChildRunning
<1>34. ASSUME NEW p \in Pids, ChildFailsToStart(p)
      PROVE  RescanComes'
  BY <1>34, SameTable DEF ChildFailsToStart
<1>35. ASSUME NEW p \in Pids, ChildExits(p)
      PROVE  RescanComes'
  BY <1>35, SameTable DEF ChildExits
<1>36. ASSUME NEW p \in Pids, ChildCrashes(p)
      PROVE  RescanComes'
  BY <1>36, SameTable DEF ChildCrashes
<1>37. ASSUME NEW e \in Devices, Unplug(e)
      PROVE  RescanComes'
  BY <1>37, SameTable DEF Unplug, NodesVanish, ReaddirRace
<1>38. ASSUME NEW e \in Devices, Plug(e)
      PROVE  RescanComes'
  BY <1>38, SameTable DEF Plug, NodesAppear, Watching
<1>39. ASSUME NEW e \in Devices, Settle(e)
      PROVE  RescanComes'
  BY <1>39, SameTable DEF Settle
<1>40. CASE UNCHANGED vars
  BY <1>40, SameTable
<1>41. ASSUME NEW i \in Slots, ForceReap(i)
      PROVE  RescanComes'
  BY <1>41 DEF ForceReap
<1>. QED
  BY <1>1, <1>2, <1>3, <1>4, <1>5, <1>6, <1>7, <1>8, <1>9, <1>10, <1>11, <1>12, <1>13, <1>14, <1>15, <1>16, <1>17, <1>18, <1>19, <1>20, <1>21, <1>22, <1>23, <1>24, <1>25, <1>26, <1>27, <1>28, <1>29, <1>30, <1>31, <1>32, <1>33, <1>34, <1>35, <1>36, <1>37, <1>38, <1>39, <1>40, <1>41
  DEF Next, Runner, Processes, Kernel

\* No hotplug event and no death falls between a scan and the next wait: an
\* IPTS device that could be served and is not has a rescan before it.
THEOREM DevicesAreRemembered == Spec => []NoDeviceForgotten
<1>1. Init => Scans
  BY ConstantAssumption
  DEF Init, Scans, RescanComes, Scheduled, SetupAnnounced, Watching, Startup
<1>2. IInv /\ Scans /\ [Next]_vars => Scans'
  BY AnnouncedStep, RescanStep DEF IInv, Scans
<1>3. IInv /\ Scans => NoDeviceForgotten
  <2>. SUFFICES ASSUME IInv, Scans, pc = "epoll", NEW d \in Ipts,
                       dev[d] \in {"ready", "wedged"}, ~Tracked(d)
                PROVE  \/ inotify \/ sigchld \/ timer # "off"
                       \/ \A i \in Slots : Active(i)
                       \/ faults > 0
    BY DEF NoDeviceForgotten
  <2>1. Scheduled(d) => inotify \/ timer # "off"
    BY DEF Scheduled, Startup, Kill
  <2>2. Wanted(d) \/ ~Room \/ faults > 0
    BY DEF Wanted, IInv, TypeOK, ModelType
  <2>. QED
    BY <2>1, <2>2 DEF Scans, RescanComes, Room
<1>. QED
  BY <1>1, <1>2, <1>3, Invariance, PTL DEF Spec
=============================================================================
