----------------------------- MODULE Supervisor -----------------------------
(***************************************************************************)
(* What iptsd-runner promises to the rest of the system, without saying    *)
(* how: at any time a device is worked by at most one iptsd process, a     *)
(* process works at most one device, and when the runner is gone so is     *)
(* every process it started.  Only a request to stop can make it give up a *)
(* process it has killed before that one was waited for.  DeviceManager    *)
(* implements this specification.                                          *)
(***************************************************************************)
CONSTANTS Devices,   \* the paths /dev/hidrawN
          Pids       \* process identifiers the kernel hands out

VARIABLES working,   \* the pairs <<device, pid>> of unreaped iptsd processes
          abandoned, \* those that were killed and given up
          asked,     \* a stop was requested
          up         \* the runner has not exited

supervisorVars == <<working, abandoned, asked, up>>

SupervisorInit ==
    /\ working = {} /\ abandoned = {}
    /\ asked = FALSE
    /\ up = TRUE

\* A process is started for a device that has none, under an unused pid.
Start(d, p) ==
    /\ up
    /\ \A w \in working : w[1] # d /\ w[2] # p
    /\ \A w \in abandoned : w[2] # p
    /\ working' = working \cup {<<d, p>>}
    /\ UNCHANGED <<abandoned, asked, up>>

\* A process has terminated and its status was collected.
Finish(w) ==
    /\ up
    /\ w \in working
    /\ working' = working \ {w}
    /\ UNCHANGED <<abandoned, asked, up>>

\* The same for one that had been given up.
Collect(w) ==
    /\ up
    /\ w \in abandoned
    /\ abandoned' = abandoned \ {w}
    /\ UNCHANGED <<working, asked, up>>

\* A stop is requested, again perhaps; a process being waited for is given up.
StopRequest ==
    /\ up
    /\ asked' = TRUE
    /\ \/ UNCHANGED <<working, abandoned>>
       \/ \E w \in working : working' = working \ {w} /\ abandoned' = abandoned \cup {w}
    /\ UNCHANGED up

\* The runner exits, leaving nothing behind but what it was made to give up.
Shutdown ==
    /\ up
    /\ working = {}
    /\ up' = FALSE
    /\ asked' \in {asked, TRUE}
    /\ UNCHANGED <<working, abandoned>>

SupervisorNext ==
    \/ \E d \in Devices, p \in Pids : Start(d, p)
    \/ \E w \in working : Finish(w)
    \/ \E w \in abandoned : Collect(w)
    \/ StopRequest
    \/ Shutdown

SupervisorSpec == SupervisorInit /\ [][SupervisorNext]_supervisorVars
=============================================================================
