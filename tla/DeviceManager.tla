---------------------------- MODULE DeviceManager ----------------------------
(***************************************************************************)
(* iptsd-runner (src/android/main.cpp and device_manager.cpp): a single    *)
(* threaded supervisor that scans /dev for IPTS hidraw nodes, forks one    *)
(* iptsd per node, reaps children that die, rescans after hotplug, and     *)
(* kills and restarts everything after a resume.                           *)
(*                                                                         *)
(* The runner is one sequential process; its position is pc.  Everything   *)
(* else runs concurrently with it: the iptsd processes, hotplug, the timer *)
(* descriptors, suspend, Android's init (which reloads the driver when a   *)
(* property is set) and the SIGTERM that asks the runner to stop.          *)
(***************************************************************************)
EXTENDS Integers, FiniteSets

CONSTANTS
    Devices,               \* the paths /dev/hidrawN
    Ipts,                  \* those the HID descriptor parser accepts
    Pids,                  \* process identifiers; reused once reaped
    NoDevice, NoPid,
    IPTSD_MAX_INSTANCES,   \* size of the instance table
    KillRetries,           \* polls of dm_kill_all before SIGKILL (50)
    ReloadOnResume,        \* the values persist.vendor.iptsd.reload_on_resume may have
    EarlySigterm,          \* may SIGTERM arrive before dm_init is done?
    MaxHotplug,            \* bound on nodes created or removed by hotplug
    MaxCrashes,            \* bound on iptsd processes that die by themselves
    MaxFailedStarts,       \* bound on failed starts in a row, per device
    MaxFaults,             \* bound on failing fork and opendir calls
    MaxSuspends            \* bound on suspend cycles

ASSUME ConstantAssumption ==
    /\ Ipts \subseteq Devices
    /\ NoDevice \notin Devices
    /\ NoPid \notin Pids
    /\ IPTSD_MAX_INSTANCES \in Nat \ {0}
    /\ KillRetries \in Nat
    /\ ReloadOnResume \subseteq BOOLEAN /\ ReloadOnResume # {}
    /\ EarlySigterm \in BOOLEAN
    /\ MaxHotplug \in Nat /\ MaxCrashes \in Nat /\ MaxFailedStarts \in Nat
    /\ MaxFaults \in Nat /\ MaxSuspends \in Nat

VARIABLES
    \* --- the runner (struct device_manager and the program counter)
    pc,                \* position in main, dm_run and the functions they call
    ctx,               \* who called dm_scan_and_reconcile or dm_kill_all
    should_stop,
    slot,              \* instances[]: the pid and device_path of each slot
    instance_count,
    has_module,        \* has_ipts_module || has_ithc_module, as last checked
    reload_on_resume,
    baseline,          \* last_suspend_delta
    batch,             \* ready descriptors of the last epoll_wait still to handle
    cursor,            \* loop index over the slots
    todo,              \* directory entries readdir has still to return
    retries,           \* polls dm_kill_all has left
    \* --- the kernel and the other processes
    dev,               \* state of each hidraw node
    proc,              \* state and device of each iptsd process
    modules,           \* the ipts/ithc kernel modules
    reloads,           \* reloads requested of init and not yet carried out
    inotify,           \* a hidraw event is queued on the inotify descriptor
    sigchld,           \* SIGCHLD is pending on the signal descriptor
    timer,             \* the one-shot rescan timer
    tick,              \* the resume polling timer has expired
    suspended,         \* total time spent in suspend, in threshold units
    \* --- bookkeeping of the model
    termSent, hotplugs, crashes, failedStarts, faults,
    handledAt          \* value of suspended when a resume was last acted on

table      == <<slot, instance_count>>
settings   == <<should_stop, has_module, reload_on_resume, baseline>>
iteration  == <<batch, cursor, todo, retries>>
runnerVars == <<pc, ctx, table, settings, iteration>>
nodes      == <<dev, modules, reloads>>
events     == <<inotify, sigchld, timer, tick>>
kernelVars == <<proc, suspended, nodes, events>>
budgets    == <<termSent, hotplugs, crashes, failedStarts, faults>>
modelVars  == <<budgets, handledAt>>
vars == <<runnerVars, kernelVars, modelVars>>

-----------------------------------------------------------------------------
(* Names for the values of the state.                                      *)

Slots == 1..IPTSD_MAX_INSTANCES
Free  == [pid |-> NoPid, path |-> NoDevice]
NoProc == [st |-> "none", dev |-> NoDevice]

\* "starting": forked, up to the installation of iptsd's signal handlers.
\* "stopping": the stop flag is set, noticed when the blocking read returns.
\* "failing" : bound to exit: fatal signal, interrupted read or dead device.
\* "killed"  : SIGKILL was sent, the process has not died yet.
ProcStates == {"none", "starting", "running", "stopping", "failing", "killed", "zombie"}

\* "unready": the node exists but its owner and label are not set up yet.
\* "wedged" : the node is there but the driver did not survive a suspend.
DevStates == {"absent", "unready", "ready", "wedged"}

Startup == {"boot", "handler", "init", "setup"}
Kill    == {"kill", "wait", "force", "await"}
Scan    == {"mark", "scan"}
PCs == Startup \cup Kill \cup Scan
       \cup {"loop", "epoll", "dispatch", "reap", "reaped", "reload", "exited"}

Up       == pc # "exited"
Watching == pc \notin Startup        \* the inotify watch is established

Active(i)  == slot[i].pid # NoPid
Child(p)   == proc[p].st # "none"
Zombie(p)  == proc[p].st = "zombie"
Doomed(p)  == proc[p].st \in {"killed", "zombie"}

\* find_instance_by_path
Tracked(d) == \E i \in 1..instance_count : Active(i) /\ slot[i].path = d

\* alloc_instance: the first inactive slot, else a new one if any is left.
Allocates(i) ==
    \/ /\ i \in 1..instance_count
       /\ ~Active(i)
       /\ \A j \in 1..(i - 1) : Active(j)
    \/ /\ \A j \in 1..instance_count : Active(j)
       /\ instance_count < IPTSD_MAX_INSTANCES
       /\ i = instance_count + 1

\* Fault: the slot of a reaped child is left as it is.
Released_Kept(p) == slot

\* find_instance_by_pid and the two assignments that follow it.
Released(p) ==
    [i \in Slots |-> IF i <= instance_count /\ slot[i].pid = p THEN Free ELSE slot[i]]

\* What SIGTERM makes of an iptsd process: before exec it runs the handler
\* inherited from the runner and is lost, after exec it kills, once iptsd has
\* installed its handlers it interrupts the read or only sets the stop flag.
TermOutcomes(st) ==
    CASE st = "starting"               -> {"starting", "failing"}
      [] st \in {"running", "stopping"} -> {"stopping", "failing"}
      [] OTHER                         -> {st}

Terminate(P) ==
    \E out \in [P -> ProcStates] :
        /\ \A p \in P : out[p] \in TermOutcomes(proc[p].st)
        /\ proc' = [p \in Pids |-> IF p \in P THEN [proc[p] EXCEPT !.st = out[p]]
                                              ELSE proc[p]]

-----------------------------------------------------------------------------
(* Start-up: main() and dm_init().                                         *)

Init ==
    /\ pc = "boot" /\ ctx = "init"
    /\ should_stop = FALSE
    /\ slot = [i \in Slots |-> Free]
    /\ instance_count = 0
    /\ has_module = FALSE
    /\ reload_on_resume \in ReloadOnResume
    /\ baseline = 0
    /\ batch = {} /\ cursor = 1 /\ todo = {} /\ retries = 0
    /\ modules \in {"absent", "loaded"}
    /\ dev \in [Devices -> {"absent", "ready"}]
    /\ modules = "absent" => \A d \in Ipts : dev[d] = "absent"
    /\ proc = [p \in Pids |-> NoProc]
    /\ reloads = 0
    /\ inotify = FALSE /\ sigchld = FALSE /\ timer = "off" /\ tick = FALSE
    /\ suspended = 0 /\ handledAt = 0
    /\ termSent = FALSE
    /\ hotplugs = 0 /\ crashes = 0 /\ faults = 0
    /\ failedStarts = [d \in Devices |-> 0]

Goto(label) == pc' = label

\* sigaction(SIGTERM), with g_mgr still NULL.
InstallHandler ==
    /\ pc = "boot"
    /\ Goto("handler")
    /\ UNCHANGED <<ctx, kernelVars, modelVars, table, settings, iteration>>

\* g_mgr = &mgr: from here on the handler sets should_stop.
PublishManager ==
    /\ pc = "handler"
    /\ Goto("init")
    /\ UNCHANGED <<ctx, kernelVars, modelVars, table, settings, iteration>>

\* dm_init up to the baseline: the memset clears the whole structure,
\* should_stop included; then the modules are looked up.
DmInitReset ==
    /\ pc = "init"
    /\ Goto("setup")
    /\ should_stop' = FALSE
    /\ slot' = [i \in Slots |-> Free]
    /\ instance_count' = 0
    /\ has_module' = (modules = "loaded")
    /\ reload_on_resume' \in ReloadOnResume
    /\ baseline' = suspended
    /\ UNCHANGED <<ctx, kernelVars, modelVars, iteration>>

\* The rest of dm_init: the inotify watch, SIGCHLD blocked, the timers, epoll.
\* Nodes created before this point have been set up by ueventd (timing).
DmInitWatch ==
    /\ pc = "setup"
    /\ \A d \in Devices : dev[d] # "unready"
    /\ Goto("mark")
    /\ ctx' = "init" /\ cursor' = 1
    /\ UNCHANGED <<batch, todo, retries, kernelVars, modelVars, table, settings>>

\* A step of dm_init fails: main returns EXIT_FAILURE.
DmInitFail ==
    /\ pc = "setup"
    /\ faults < MaxFaults
    /\ faults' = faults + 1
    /\ Goto("exited")
    /\ UNCHANGED <<ctx, termSent, hotplugs, crashes, failedStarts, handledAt,
                   kernelVars, table, settings, iteration>>

-----------------------------------------------------------------------------
(* dm_scan_and_reconcile.                                                  *)

\* What the callers do with its result: main leaves when there is nothing to
\* serve or the scan failed, dm_handle_resume moves its baseline.
ScanReturn(failed) ==
    LET idle == (\A i \in 1..instance_count : ~Active(i)) /\ ~has_module IN
    /\ \/ ctx = "init" /\ (failed \/ idle) /\ Goto("exited") /\ UNCHANGED baseline
       \/ ctx = "init" /\ ~failed /\ ~idle /\ Goto("loop") /\ UNCHANGED baseline
       \/ ctx = "timer" /\ Goto("dispatch") /\ UNCHANGED baseline
       \/ ctx = "resume" /\ Goto("dispatch") /\ baseline' = suspended
    /\ cursor' = 1

\* Fault: the instance of a vanished node is forgotten before it is reaped.
ScanMark_Forgets ==
    /\ pc = "mark"
    /\ cursor <= instance_count
    /\ IF Active(cursor) /\ dev[slot[cursor].path] = "absent"
       THEN Terminate({slot[cursor].pid}) /\ slot' = [slot EXCEPT ![cursor] = Free]
       ELSE UNCHANGED <<proc, slot>>
    /\ cursor' = cursor + 1
    /\ UNCHANGED <<pc, ctx, instance_count, batch, todo, retries, suspended, modelVars,
                   settings, nodes, events>>

\* First loop: SIGTERM for every instance whose node is gone.
ScanMark ==
    /\ pc = "mark"
    /\ cursor <= instance_count
    /\ IF Active(cursor) /\ dev[slot[cursor].path] = "absent"
       THEN Terminate({slot[cursor].pid})
       ELSE UNCHANGED proc
    /\ cursor' = cursor + 1
    /\ UNCHANGED <<pc, ctx, batch, todo, retries, suspended, modelVars, table,
                   settings, nodes, events>>

ScanOpen ==
    /\ pc = "mark"
    /\ cursor > instance_count
    /\ \/ /\ todo' = {d \in Devices : dev[d] # "absent"}
          /\ Goto("scan")
          /\ UNCHANGED <<baseline, cursor, faults>>
       \/ /\ faults < MaxFaults           \* opendir fails
          /\ faults' = faults + 1
          /\ ScanReturn(TRUE)
          /\ UNCHANGED todo
    /\ UNCHANGED <<ctx, should_stop, has_module, reload_on_resume, batch, retries,
                   termSent, hotplugs, crashes, failedStarts, handledAt, kernelVars,
                   table>>

\* Fault: the count grows even when an inactive slot is used again.
Spawn_AlwaysCounts(d) ==
    \/ (\A i \in Slots : ~Allocates(i)) /\ UNCHANGED <<proc, faults, table>>
    \/ \E i \in Slots, p \in Pids :
          /\ Allocates(i) /\ ~Child(p)
          /\ slot' = [slot EXCEPT ![i] = [pid |-> p, path |-> d]]
          /\ instance_count' = instance_count + 1
          /\ proc' = [proc EXCEPT ![p] = [st |-> "starting", dev |-> d]]
          /\ UNCHANGED faults

\* spawn_iptsd: a slot, then fork; the slot stays inactive if fork fails.
Spawn(d) ==
    \/ /\ \A i \in Slots : ~Allocates(i)
       /\ UNCHANGED <<proc, faults, table>>
    \/ \E i \in Slots, p \in Pids :
          /\ Allocates(i)
          /\ ~Child(p)
          /\ slot' = [slot EXCEPT ![i] = [pid |-> p, path |-> d]]
          /\ instance_count' = IF i > instance_count THEN i ELSE instance_count
          /\ proc' = [proc EXCEPT ![p] = [st |-> "starting", dev |-> d]]
          /\ UNCHANGED faults
    \/ \E i \in Slots :
          /\ Allocates(i)
          /\ faults < MaxFaults
          /\ faults' = faults + 1
          /\ instance_count' = IF i > instance_count THEN i ELSE instance_count
          /\ UNCHANGED <<slot, proc>>

\* One hidraw entry: skipped if tracked, if the probe cannot open it, or if
\* it is not an IPTS device.
ScanEntry(d) ==
    /\ pc = "scan"
    /\ d \in todo
    /\ todo' = todo \ {d}
    /\ IF ~Tracked(d) /\ dev[d] \in {"ready", "wedged"} /\ d \in Ipts
       THEN Spawn(d)
       ELSE UNCHANGED <<slot, instance_count, proc, faults>>
    /\ UNCHANGED <<pc, ctx, batch, cursor, retries, suspended, termSent, hotplugs,
                   crashes, failedStarts, handledAt, settings, nodes, events>>

ScanEnd ==
    /\ pc = "scan"
    /\ todo = {}
    /\ ScanReturn(FALSE)
    /\ UNCHANGED <<ctx, should_stop, has_module, reload_on_resume, batch, todo,
                   retries, kernelVars, modelVars, table>>

-----------------------------------------------------------------------------
(* dm_run.                                                                 *)

\* Fault: main returns without dm_kill_all.
LoopHead_NoKill ==
    /\ pc = "loop"
    /\ IF should_stop THEN Goto("exited") ELSE Goto("epoll")
    /\ UNCHANGED <<ctx, kernelVars, modelVars, table, settings, iteration>>

\* Head of the loop: leave it when asked to, else go and wait.
LoopHead ==
    /\ pc = "loop"
    /\ IF should_stop THEN Goto("kill") /\ ctx' = "exit"
                      ELSE Goto("epoll") /\ UNCHANGED ctx
    /\ UNCHANGED <<kernelVars, modelVars, table, settings, iteration>>

\* Fault: the resume timer is not registered with epoll.
ReadyFds_NoResume ==
    {fd \in {"signal", "inotify", "timer"} :
        \/ fd = "signal" /\ sigchld
        \/ fd = "inotify" /\ inotify
        \/ fd = "timer" /\ timer = "fired"}

ReadyFds ==
    {fd \in {"signal", "inotify", "timer", "resume"} :
        \/ fd = "signal" /\ sigchld
        \/ fd = "inotify" /\ inotify
        \/ fd = "timer" /\ timer = "fired"
        \/ fd = "resume" /\ tick}

EpollWait ==
    /\ pc = "epoll"
    /\ ReadyFds # {}
    /\ batch' = ReadyFds
    /\ Goto("dispatch")
    /\ UNCHANGED <<ctx, cursor, todo, retries, kernelVars, modelVars, table,
                   settings>>

BatchDone ==
    /\ pc = "dispatch"
    /\ batch = {}
    /\ Goto("loop")
    /\ UNCHANGED <<ctx, kernelVars, modelVars, table, settings, iteration>>

Take(fd) ==
    /\ pc = "dispatch"
    /\ fd \in batch
    /\ batch' = batch \ {fd}

\* The signal descriptor is drained before any child is reaped.
HandleSignal ==
    /\ Take("signal")
    /\ sigchld' = FALSE
    /\ Goto("reap")
    /\ UNCHANGED <<ctx, cursor, todo, retries, proc, suspended, inotify, timer, tick,
                   modelVars, table, settings, nodes>>

\* One round of the waitpid loop of dm_reap_children.
ReapChild(p) ==
    /\ pc \in {"reap", "reaped"}
    /\ Zombie(p)
    /\ proc' = [proc EXCEPT ![p] = NoProc]
    /\ slot' = Released(p)
    /\ Goto("reaped")
    /\ UNCHANGED <<ctx, instance_count, suspended, modelVars, settings, iteration,
                   nodes, events>>

\* Fault: one waitpid per SIGCHLD, "if" for "while".
ReapDone_OnlyOne ==
    /\ pc \in {"reap", "reaped"}
    /\ pc = "reaped" \/ \A p \in Pids : ~Zombie(p)
    /\ timer' = IF pc = "reaped" THEN "armed" ELSE timer
    /\ Goto("dispatch")
    /\ UNCHANGED <<ctx, proc, suspended, inotify, sigchld, tick, modelVars, table,
                   settings, iteration, nodes>>

\* Fault: no rescan after a death.
ReapDone_NoRescan ==
    /\ pc \in {"reap", "reaped"}
    /\ \A p \in Pids : ~Zombie(p)
    /\ Goto("dispatch")
    /\ UNCHANGED <<ctx, kernelVars, modelVars, table, settings, iteration>>

\* No child is left to reap; a rescan is scheduled if there was one.
ReapDone ==
    /\ pc \in {"reap", "reaped"}
    /\ \A p \in Pids : ~Zombie(p)
    /\ timer' = IF pc = "reaped" THEN "armed" ELSE timer
    /\ Goto("dispatch")
    /\ UNCHANGED <<ctx, proc, suspended, inotify, sigchld, tick, modelVars, table,
                   settings, iteration, nodes>>

\* Fault: the event is read, the rescan not scheduled.
HandleInotify_NoRescan ==
    /\ Take("inotify")
    /\ inotify' = FALSE
    /\ UNCHANGED <<pc, ctx, cursor, todo, retries, proc, suspended, sigchld, timer, tick,
                   modelVars, table, settings, nodes>>

HandleInotify ==
    /\ Take("inotify")
    /\ inotify' = FALSE
    /\ timer' = IF inotify THEN "armed" ELSE timer
    /\ UNCHANGED <<pc, ctx, cursor, todo, retries, proc, suspended, sigchld, tick,
                   modelVars, table, settings, nodes>>

\* The read fails if an earlier event of the batch re-armed the timer.
HandleTimer ==
    /\ Take("timer")
    /\ IF timer = "fired"
       THEN timer' = "off" /\ Goto("mark") /\ ctx' = "timer"
       ELSE UNCHANGED <<timer, pc, ctx>>
    /\ UNCHANGED <<cursor, todo, retries, proc, suspended, inotify, sigchld, tick,
                   modelVars, table, settings, nodes>>

\* Fault: ">" for ">=" in the comparison with the threshold.
HandleResumeTick_Above ==
    /\ Take("resume")
    /\ tick' = FALSE
    /\ baseline' = suspended
    /\ IF suspended - baseline > 1
       THEN Goto("kill") /\ ctx' = "resume" /\ reload_on_resume' \in ReloadOnResume
       ELSE UNCHANGED <<pc, ctx, reload_on_resume>>
    /\ UNCHANGED <<should_stop, has_module, cursor, todo, retries, proc, suspended,
                   inotify, sigchld, timer, modelVars, table, nodes>>

\* Compare the time spent in suspend with the baseline; the property is read
\* again when dm_handle_resume is entered.
HandleResumeTick ==
    /\ Take("resume")
    /\ tick' = FALSE
    /\ baseline' = suspended
    /\ IF suspended - baseline >= 1
       THEN Goto("kill") /\ ctx' = "resume" /\ reload_on_resume' \in ReloadOnResume
       ELSE UNCHANGED <<pc, ctx, reload_on_resume>>
    /\ UNCHANGED <<should_stop, has_module, cursor, todo, retries, proc, suspended,
                   inotify, sigchld, timer, modelVars, table, nodes>>

-----------------------------------------------------------------------------
(* dm_kill_all and its two callers, dm_handle_resume and main.             *)

\* After dm_kill_all the instance table is empty again.
KillReturn ==
    /\ instance_count' = 0
    /\ IF ctx = "exit" THEN Goto("exited") ELSE Goto("reload")

\* SIGTERM for every instance; without one there is nothing to wait for.
KillAll ==
    /\ pc = "kill"
    /\ LET victims == {slot[i].pid : i \in {j \in 1..instance_count : Active(j)}} IN
       /\ Terminate(victims)
       /\ IF victims = {}
          THEN KillReturn /\ UNCHANGED retries
          ELSE Goto("wait") /\ retries' = KillRetries /\ UNCHANGED instance_count
    /\ UNCHANGED <<ctx, slot, batch, cursor, todo, suspended, modelVars, settings,
                   nodes, events>>

\* A poll that finds a dead child, whichever it is.
KillReap(p) ==
    /\ pc = "wait" /\ retries > 0
    /\ Zombie(p)
    /\ proc' = [proc EXCEPT ![p] = NoProc]
    /\ slot' = Released(p)
    /\ retries' = retries - 1
    /\ UNCHANGED <<pc, ctx, instance_count, batch, cursor, todo, suspended,
                   modelVars, settings, nodes, events>>

\* A poll that finds none, and sleeps.
KillSleep ==
    /\ pc = "wait" /\ retries > 0
    /\ \A p \in Pids : ~Zombie(p)
    /\ retries' = retries - 1
    /\ UNCHANGED <<pc, ctx, batch, cursor, todo, kernelVars, modelVars, table,
                   settings>>

\* Fault: stragglers are not killed.
KillTimeout_NoSigkill ==
    /\ pc = "wait" /\ retries = 0
    /\ KillReturn
    /\ UNCHANGED <<ctx, slot, kernelVars, modelVars, settings, iteration>>

KillTimeout ==
    /\ pc = "wait" /\ retries = 0
    /\ Goto("force")
    /\ UNCHANGED <<ctx, kernelVars, modelVars, table, settings, iteration>>

\* The last loop works on the first slot that is still active.
Straggler(i) ==
    /\ i \in 1..instance_count /\ Active(i)
    /\ \A j \in 1..(i - 1) : ~Active(j)

\* SIGKILL for it, which a process that is dead already does not notice.
ForceKill(i) ==
    /\ pc = "force"
    /\ Straggler(i)
    /\ proc' = [proc EXCEPT ![slot[i].pid].st = IF @ = "zombie" THEN @ ELSE "killed"]
    /\ Goto("await")
    /\ UNCHANGED <<ctx, suspended, modelVars, table, settings, iteration, nodes, events>>

\* The blocking waitpid returns its status; the slot is cleared.
ForceReap(i) ==
    /\ pc = "await"
    /\ Straggler(i)
    /\ Zombie(slot[i].pid)
    /\ proc' = [proc EXCEPT ![slot[i].pid] = NoProc]
    /\ slot' = [slot EXCEPT ![i] = Free]
    /\ Goto("force")
    /\ UNCHANGED <<ctx, instance_count, suspended, modelVars, settings, iteration, nodes,
                   events>>

\* SIGTERM interrupts the blocking waitpid (no SA_RESTART): its result is not
\* looked at, and the slot is cleared although its process was not waited for.
Interrupted(i) ==
    /\ pc = "await"
    /\ Straggler(i)
    /\ ~Zombie(slot[i].pid)
    /\ slot' = [slot EXCEPT ![i] = Free]
    /\ Goto("force")

\* Fault: only the first straggler is waited for.
ForceDone_TooEarly ==
    /\ pc = "force"
    /\ KillReturn
    /\ UNCHANGED <<ctx, slot, kernelVars, modelVars, settings, iteration>>

ForceDone ==
    /\ pc = "force"
    /\ \A i \in 1..instance_count : ~Active(i)
    /\ KillReturn
    /\ UNCHANGED <<ctx, slot, kernelVars, modelVars, settings, iteration>>

\* request_module_reload, if enabled: only modules loaded right now are
\* reloaded.  The sleep that follows is the freedom to be overtaken at "mark".
RequestReload ==
    /\ pc = "reload"
    /\ IF reload_on_resume
       THEN /\ has_module' = (modules = "loaded")
            /\ reloads' = IF modules = "loaded" THEN reloads + 1 ELSE reloads
       ELSE UNCHANGED <<has_module, reloads>>
    /\ handledAt' = suspended
    /\ Goto("mark")
    /\ UNCHANGED <<ctx, should_stop, reload_on_resume, baseline, proc, suspended,
                   dev, modules, table, iteration, events, budgets>>

-----------------------------------------------------------------------------
(* The iptsd processes, as far as the runner can tell.                     *)

\* iptsd has opened its node and installed its signal handlers.
ChildRunning(p) ==
    /\ proc[p].st = "starting"
    /\ dev[proc[p].dev] \in {"ready", "wedged"}
    /\ proc' = [proc EXCEPT ![p].st = "running"]
    /\ failedStarts' = [failedStarts EXCEPT ![proc[p].dev] = 0]
    /\ UNCHANGED <<suspended, termSent, hotplugs, crashes, faults, handledAt,
                   runnerVars, nodes, events>>

\* exec or the constructor of the device fails.
ChildFailsToStart(p) ==
    /\ proc[p].st = "starting"
    /\ LET d == proc[p].dev IN
       \/ /\ dev[d] \in {"absent", "unready"}
          /\ UNCHANGED failedStarts
       \/ /\ failedStarts[d] < MaxFailedStarts
          /\ failedStarts' = [failedStarts EXCEPT ![d] = @ + 1]
    /\ proc' = [proc EXCEPT ![p].st = "zombie"]
    /\ sigchld' = TRUE
    /\ UNCHANGED <<suspended, inotify, timer, tick, termSent, hotplugs, crashes,
                   faults, handledAt, runnerVars, nodes>>

ChildExits(p) ==
    /\ proc[p].st \in {"stopping", "failing", "killed"}
    /\ proc' = [proc EXCEPT ![p].st = "zombie"]
    /\ sigchld' = TRUE
    /\ UNCHANGED <<suspended, inotify, timer, tick, runnerVars, modelVars, nodes>>

ChildCrashes(p) ==
    /\ proc[p].st = "running"
    /\ crashes < MaxCrashes
    /\ crashes' = crashes + 1
    /\ proc' = [proc EXCEPT ![p].st = "zombie"]
    /\ sigchld' = TRUE
    /\ UNCHANGED <<suspended, inotify, timer, tick, termSent, hotplugs, failedStarts,
                   faults, handledAt, runnerVars, nodes>>

-----------------------------------------------------------------------------
(* The kernel, ueventd and init.                                           *)

\* While /dev is being read, an entry that comes or goes may be seen or not.
ReaddirRace(D) ==
    IF pc = "scan" THEN \E S \in SUBSET D : todo' = (todo \ D) \cup S
                   ELSE UNCHANGED todo

\* Reads from a vanished node fail from now on, even if it is created again;
\* a process that was about to open it may still be in time for the new one.
NodesVanish(D) ==
    /\ dev' = [d \in Devices |-> IF d \in D THEN "absent" ELSE dev[d]]
    /\ \E late \in SUBSET {p \in Pids : proc[p].st = "starting"} :
          proc' = [p \in Pids |->
                     IF proc[p].dev \in D
                        /\ (proc[p].st \in {"running", "stopping"} \/ p \in late)
                     THEN [proc[p] EXCEPT !.st = "failing"] ELSE proc[p]]
    /\ inotify' = (inotify \/ (D # {} /\ Watching))
    /\ ReaddirRace(D)

NodesAppear(D) ==
    /\ dev' = [d \in Devices |-> IF d \in D THEN "unready" ELSE dev[d]]
    /\ inotify' = (inotify \/ (D # {} /\ Watching))
    /\ ReaddirRace(D)
    /\ UNCHANGED proc

Unplug(d) ==
    /\ Up /\ hotplugs < MaxHotplug
    /\ dev[d] # "absent"
    /\ NodesVanish({d})
    /\ hotplugs' = hotplugs + 1
    /\ UNCHANGED <<pc, ctx, batch, cursor, retries, suspended, modules, reloads,
                   sigchld, timer, tick, termSent, crashes, failedStarts, faults,
                   handledAt, table, settings>>

Plug(d) ==
    /\ Up /\ hotplugs < MaxHotplug
    /\ dev[d] = "absent"
    /\ d \in Ipts => modules = "loaded"
    /\ NodesAppear({d})
    /\ hotplugs' = hotplugs + 1
    /\ UNCHANGED <<pc, ctx, batch, cursor, retries, suspended, modules, reloads,
                   sigchld, timer, tick, termSent, crashes, failedStarts, faults,
                   handledAt, table, settings>>

\* ueventd sets the owner, the mode and the label of a new node.
Settle(d) ==
    /\ dev[d] = "unready"
    /\ dev' = [dev EXCEPT ![d] = "ready"]
    /\ UNCHANGED <<proc, suspended, modules, reloads, runnerVars, modelVars, events>>

\* The modules are loaded late, after the runner was started.
LoadModules ==
    /\ Up /\ modules = "absent"
    /\ modules' = "loaded"
    /\ UNCHANGED <<proc, suspended, dev, reloads, runnerVars, modelVars, events>>

\* init acts on the property trigger: modprobe -r, then modprobe, which
\* brings the IPTS nodes back.
ReloadRemove ==
    /\ Up /\ reloads > 0 /\ modules = "loaded"
    /\ modules' = "reloading"
    /\ NodesVanish({d \in Ipts : dev[d] # "absent"})
    /\ UNCHANGED <<pc, ctx, batch, cursor, retries, suspended, reloads, sigchld,
                   timer, tick, modelVars, table, settings>>

ReloadInsert ==
    /\ Up /\ modules = "reloading"
    /\ modules' = "loaded"
    /\ reloads' = reloads - 1
    /\ NodesAppear(Ipts)
    /\ UNCHANGED <<pc, ctx, batch, cursor, retries, suspended, sigchld, timer, tick,
                   modelVars, table, settings>>

\* The 500 ms of the rescan timer outlast the set-up of a node (timing).
TimerExpires ==
    /\ Up /\ timer = "armed"
    /\ \A d \in Devices : dev[d] # "unready"
    /\ timer' = "fired"
    /\ UNCHANGED <<proc, suspended, inotify, sigchld, tick, runnerVars, modelVars,
                   nodes>>

\* The resume timer expires every two seconds.
TickExpires ==
    /\ Up /\ Watching /\ ~tick
    /\ tick' = TRUE
    /\ UNCHANGED <<proc, suspended, inotify, sigchld, timer, runnerVars, modelVars,
                   nodes>>

\* A suspend and resume; some devices do not come back from it.
Suspend ==
    /\ Up /\ Watching /\ suspended < MaxSuspends
    /\ suspended' = suspended + 1
    /\ \E W \in SUBSET {d \in Ipts : dev[d] = "ready"} :
          dev' = [d \in Devices |-> IF d \in W THEN "wedged" ELSE dev[d]]
    /\ UNCHANGED <<proc, modules, reloads, runnerVars, modelVars, events>>

\* SIGTERM or SIGINT, any number of times: the default action before sigaction,
\* no effect while g_mgr is NULL, else should_stop.  A blocked epoll_wait or
\* waitpid is interrupted.
Sigterm ==
    /\ Up
    /\ EarlySigterm \/ pc \notin {"boot", "handler", "init"}
    /\ termSent' = TRUE
    /\ should_stop' = (should_stop \/ pc \notin {"boot", "handler"})
    /\ \/ pc = "boot" /\ Goto("exited") /\ UNCHANGED slot
       \/ pc = "epoll" /\ Goto("loop") /\ UNCHANGED slot
       \/ \E i \in Slots : Interrupted(i)
       \/ pc # "boot" /\ UNCHANGED <<pc, slot>>
    /\ UNCHANGED <<ctx, instance_count, has_module, reload_on_resume, baseline, hotplugs,
                   crashes, failedStarts, faults, handledAt, kernelVars, iteration>>

-----------------------------------------------------------------------------
Runner ==
    \/ InstallHandler \/ PublishManager \/ DmInitReset \/ DmInitWatch \/ DmInitFail
    \/ ScanMark \/ ScanOpen \/ (\E d \in Devices : ScanEntry(d)) \/ ScanEnd
    \/ LoopHead \/ EpollWait \/ BatchDone
    \/ HandleSignal \/ (\E p \in Pids : ReapChild(p)) \/ ReapDone
    \/ HandleInotify \/ HandleTimer \/ HandleResumeTick
    \/ KillAll \/ (\E p \in Pids : KillReap(p)) \/ KillSleep \/ KillTimeout
    \/ (\E i \in Slots : ForceKill(i) \/ ForceReap(i)) \/ ForceDone \/ RequestReload

Processes ==
    \E p \in Pids :
        ChildRunning(p) \/ ChildFailsToStart(p) \/ ChildExits(p) \/ ChildCrashes(p)

Kernel ==
    \/ \E d \in Devices : Unplug(d) \/ Plug(d) \/ Settle(d)
    \/ LoadModules \/ ReloadRemove \/ ReloadInsert
    \/ TimerExpires \/ TickExpires \/ Suspend \/ Sigterm

Next == Runner \/ Processes \/ Kernel

Spec == Init /\ [][Next]_vars

\* The runner is scheduled; a starting or doomed process gets on with it; the
\* timers expire; ueventd and init do what they were asked to do.  Nothing is
\* assumed of processes that merely have the stop flag set, of hotplug, or of
\* the user.
Fairness ==
    /\ WF_vars(Runner)
    /\ \A p \in Pids : WF_vars(ChildRunning(p) \/ ChildFailsToStart(p))
    /\ \A p \in Pids : WF_vars(proc[p].st \in {"failing", "killed"} /\ ChildExits(p))
    /\ WF_vars(TimerExpires) /\ WF_vars(TickExpires)
    /\ \A d \in Devices : WF_vars(Settle(d))
    /\ WF_vars(ReloadRemove) /\ WF_vars(ReloadInsert)

FairSpec == Spec /\ Fairness

-----------------------------------------------------------------------------
(* Safety.                                                                 *)

\* The values the state ranges over: the runner, the kernel, the bookkeeping.
RunnerType ==
    /\ pc \in PCs
    /\ ctx \in {"init", "timer", "resume", "exit"}
    /\ should_stop \in BOOLEAN /\ has_module \in BOOLEAN /\ reload_on_resume \in BOOLEAN
    /\ slot \in [Slots -> [pid : Pids \cup {NoPid}, path : Devices \cup {NoDevice}]]
    /\ instance_count \in 0..IPTSD_MAX_INSTANCES
    /\ baseline \in Nat
    /\ batch \subseteq {"signal", "inotify", "timer", "resume"}
    /\ cursor \in 1..(IPTSD_MAX_INSTANCES + 1)
    /\ todo \subseteq Devices
    /\ retries \in 0..KillRetries

KernelType ==
    /\ dev \in [Devices -> DevStates]
    /\ proc \in [Pids -> [st : ProcStates, dev : Devices \cup {NoDevice}]]
    /\ modules \in {"absent", "loaded", "reloading"}
    /\ reloads \in Nat
    /\ inotify \in BOOLEAN /\ sigchld \in BOOLEAN /\ tick \in BOOLEAN
    /\ timer \in {"off", "armed", "fired"}
    /\ suspended \in Nat

ModelType ==
    /\ termSent \in BOOLEAN
    /\ hotplugs \in Nat /\ crashes \in Nat /\ faults \in Nat
    /\ failedStarts \in [Devices -> Nat]
    /\ handledAt \in Nat

TypeOK == RunnerType /\ KernelType /\ ModelType

\* Every pid in the instance table is an unreaped child started for that
\* device, so the runner never signals a process of somebody else under a
\* recycled pid (kill in dm_scan_and_reconcile and dm_kill_all).
SlotsOwnTheirChild ==
    \A i \in Slots : Active(i) =>
        /\ i <= instance_count
        /\ Child(slot[i].pid)
        /\ proc[slot[i].pid].dev = slot[i].path

\* find_instance_by_pid knows the process: a slot below instance_count holds
\* its pid, and no other slot does.
Known(p) ==
    \E i \in 1..instance_count :
        slot[i].pid = p /\ \A j \in Slots : slot[j].pid = p => j = i

\* Only a stop request makes dm_kill_all give up a process, and only one it
\* has sent SIGKILL to or that has died since.
GivenUp(p) == should_stop /\ Doomed(p)

\* Every child that has not been reaped is found by find_instance_by_pid, except
\* for one whose waitpid in dm_kill_all was interrupted by a stop request.
EveryChildHasASlot == \A p \in Pids : Child(p) => Known(p) \/ GivenUp(p)

\* Two iptsd processes never work the same hidraw node, not even while one of
\* them is being terminated: its path stays tracked until it is reaped.  The
\* exception is a process dm_kill_all has killed and not waited for, because
\* a stop request came: the scan at the end of a resume may start another one.
OneProcessPerDevice ==
    \A p, q \in Pids :
        Child(p) /\ Child(q) /\ proc[p].dev = proc[q].dev =>
            p = q \/ GivenUp(p) \/ GivenUp(q)

\* When the runner has exited, by whichever return of main, no iptsd it has
\* not killed is left behind ("runner kills all iptsd children"), and a killed
\* one only if a stop request kept dm_kill_all from waiting for it.
NoOrphans == pc = "exited" => \A p \in Pids : Child(p) => GivenUp(p)

\* SIGCHLD coalesces, is drained in one place and reaped in three: even so a
\* dead child is always announced or being reaped, whether a slot still knows
\* it or not.
NoZombieForgotten == (\E p \in Pids : Zombie(p)) => sigchld \/ pc \in {"reap", "reaped"}

\* When the runner blocks in epoll_wait, an IPTS device it could serve and
\* does not has a wake-up on its way: no hotplug event and no death falls
\* between a scan and the next wait.  (A failed fork or opendir is not retried.)
NoDeviceForgotten ==
    pc = "epoll" =>
        \A d \in Ipts :
            dev[d] \in {"ready", "wedged"} /\ ~Tracked(d) =>
                \/ inotify \/ sigchld \/ timer # "off"
                \/ \A i \in Slots : Active(i)
                \/ faults > 0

\* A child no slot knows any more; one that is not doomed would still count as
\* working its device.
Abandoned(p) == Doomed(p) /\ \A i \in Slots : slot[i].pid # p

\* The abstract specification: which process works which device.
SV == INSTANCE Supervisor
        WITH working   <- {<<proc[p].dev, p>> : p \in {q \in Pids : Child(q) /\ ~Abandoned(q)}},
             abandoned <- {<<proc[p].dev, p>> : p \in {q \in Pids : Abandoned(q)}},
             asked     <- termSent,
             up        <- (pc # "exited")

\* Every step of the runner and of its children is a step the supervisor
\* promises, or invisible to its clients.
ImplementsSupervisor == SV!SupervisorSpec

-----------------------------------------------------------------------------
(* Liveness.                                                               *)

Serves(d) == \E p \in Pids : proc[p] = [st |-> "running", dev |-> d]

\* Once hotplug, crashes and the user leave it alone, a runner that keeps
\* running has a running iptsd on every usable IPTS device.
DevicesServed ==
    <>[](Up => \A d \in Ipts : dev[d] \in {"ready", "wedged"} => Serves(d))

\* A stop request that reached should_stop after dm_init leads to the exit,
\* even if it arrives just before epoll_wait blocks or in the middle of a
\* resume, and whatever the children do with their SIGTERM.
StopHonoured == (should_stop /\ Watching) ~> ~Up

\* Back in epoll_wait, the runner has acted on the last suspend and did not
\* reload the driver, as the property was off (the Android default) when read.
ResumeWithoutReload == pc = "epoll" /\ handledAt = suspended /\ ~reload_on_resume

\* A suspend after the request for the reload and before dm_handle_resume reads
\* its baseline again, which takes it in although nobody has acted on it.
ResumeSwallowed == ctx = "resume" /\ pc \in Scan /\ handledAt < suspended

\* If no suspend falls between the request for a reload and the end of
\* dm_handle_resume, a device that did not survive a suspend is reset by a
\* driver reload, or the runner was told not to reload.
WedgedRecovers ==
    []~ResumeSwallowed =>
        \A d \in Ipts :
            (dev[d] = "wedged") ~> (dev[d] # "wedged" \/ ~Up \/ ResumeWithoutReload)

-----------------------------------------------------------------------------
(* What the documentation says and the code does not do.                   *)

\* README.md, Service Lifecycle: "init sends SIGTERM -> runner kills all iptsd
\* children -> exits cleanly".
SigtermStopsRunner == termSent ~> ~Up

\* device_manager.cpp, PROP_RELOAD_ON_RESUME: "reload on every resume".  While
\* it waits, the runner has acted on every suspend its baseline includes.
EveryResumeHandled == pc = "epoll" => baseline <= handledAt
=============================================================================
