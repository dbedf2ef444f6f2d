------------------------------- MODULE Runner -------------------------------
(***************************************************************************)
(* One iptsd process, from opening the device to its exit: the loop of     *)
(* core/linux/runner.hpp that reads reports and hands them to the          *)
(* application, the signal handler of core/linux/signal-handler.hpp that   *)
(* stops it, and the main function around both (apps/daemon/main.cpp).     *)
(*                                                                         *)
(* SIGTERM stands for SIGINT too, which is set up and cleared the same     *)
(* way.  What the application makes of a report is left out, only whether  *)
(* it throws matters here.                                                 *)
(***************************************************************************)
EXTENDS Naturals

CONSTANTS
    MaxErrors,      \* errors in a row after which the loop gives up (50)
    MaxSignals,     \* bound on signals
    MaxFaults       \* bound on set_mode calls that fail on a working device

ASSUME RunnerAssumption ==
    MaxErrors \in Nat \ {0} /\ MaxSignals \in Nat /\ MaxFaults \in Nat

VARIABLES
    pc,
    m_should_stop,
    errors,
    m_handler,      \* the stub holds a function to call
    result,         \* how the process ended
    sigaction,      \* kernel: what is done on the signal
    device,         \* the hardware: there, or gone
    mode,           \* the hardware: which reports it sends
    queue,          \* kernel: the report waiting to be read
    signals, faults

runVars  == <<pc, m_should_stop, errors>>
procVars == <<m_handler, sigaction, result>>
devVars  == <<device, mode, queue>>
runnerVars == <<runVars, procVars, devVars, signals, faults>>

\* "touch" is processed, "bad" makes the parser throw, "other" is no touch data.
\* "fatal" fails a gsl contract in it, which no handler catches: a DFT window
\* with a row that does not fit into the span of its rows (IptsParser, RowsAbort).
Reports == {"touch", "bad", "other", "fatal"}

\* "read": about to call read.  "blocked": in it.  "stop": the loop is left.
\* "guard": the signal guards run.  "destroy": they have, main is returning.
PCs == {"open", "setup", "mode", "check", "read", "blocked", "sleep", "stop",
        "guard", "destroy", "exit"}
Results == {"none", "success", "failure", "killed", "aborted", "terminated",
            "sigkilled"}

RunnerInit ==
    /\ pc = "open" /\ m_should_stop = FALSE /\ errors = 0
    /\ m_handler = FALSE /\ sigaction = "default" /\ result = "none"
    /\ device = "ok" /\ mode = "single" /\ queue = "none"
    /\ signals = 0 /\ faults = 0

-----------------------------------------------------------------------------
(* The process.                                                            *)

\* A call on the device throws at the latest when it is gone.
Works == device = "ok" /\ UNCHANGED faults
Throws ==
    \/ device = "gone" /\ UNCHANGED faults
    \/ device = "ok" /\ faults < MaxFaults /\ faults' = faults + 1

\* The constructor of Runner: open the device, query it, load the configuration.
Open ==
    /\ pc = "open"
    /\ \/ Works  /\ pc' = "setup" /\ UNCHANGED result
       \/ Throws /\ pc' = "exit"  /\ result' = "failure"
    /\ UNCHANGED <<m_should_stop, errors, m_handler, sigaction, devVars, signals>>

\* signal(): store the callback, then register the stub.
Setup ==
    /\ pc = "setup"
    /\ m_handler' = TRUE /\ sigaction' = "stub"
    /\ pc' = "mode"
    /\ UNCHANGED <<m_should_stop, errors, result, devVars, signals, faults>>

SetMode(m) == (Works /\ mode' = m) \/ (Throws /\ UNCHANGED mode)

\* run(), up to the loop.  An exception leaves run() and main's run().
EnterMultitouch ==
    /\ pc = "mode"
    /\ \/ Works  /\ mode' = "multi" /\ pc' = "check" /\ UNCHANGED result
       \/ Throws /\ UNCHANGED mode  /\ pc' = "guard" /\ result' = "failure"
    /\ UNCHANGED <<m_should_stop, errors, m_handler, sigaction, device, queue,
                   signals>>

\* Fault: the flag is not looked at.
Check_ErrorsOnly ==
    /\ pc = "check"
    /\ pc' = IF errors >= MaxErrors THEN "stop" ELSE "read"
    /\ UNCHANGED <<m_should_stop, errors, procVars, devVars, signals, faults>>

\* Fault: errors are counted and nothing comes of it.
Check_NeverAborts ==
    /\ pc = "check"
    /\ pc' = IF m_should_stop THEN "stop" ELSE "read"
    /\ UNCHANGED <<m_should_stop, errors, procVars, devVars, signals, faults>>

\* The loop condition and the check for too many errors.
Check ==
    /\ pc = "check"
    /\ pc' = IF m_should_stop \/ errors >= MaxErrors THEN "stop" ELSE "read"
    /\ UNCHANGED <<m_should_stop, errors, procVars, devVars, signals, faults>>

\* The system call is entered; it blocks while nothing is queued.
CallRead ==
    /\ pc = "read"
    /\ pc' = "blocked"
    /\ UNCHANGED <<m_should_stop, errors, procVars, devVars, signals, faults>>

\* It returns a report.
ReadReport ==
    /\ pc = "blocked" /\ queue # "none"
    /\ queue' = "none"
    /\ \/ queue = "touch" /\ errors' = 0 /\ pc' = "check" /\ UNCHANGED result
       \/ queue = "other" /\ pc' = "check" /\ UNCHANGED <<errors, result>>
       \/ queue = "bad" /\ pc' = "sleep" /\ UNCHANGED <<errors, result>>
       \/ queue = "fatal" /\ pc' = "exit" /\ result' = "terminated" /\ UNCHANGED errors
    /\ UNCHANGED <<m_should_stop, m_handler, sigaction, device, mode, signals, faults>>

\* It fails because the device is gone.
ReadThrows ==
    /\ pc = "blocked" /\ device = "gone" /\ queue = "none"
    /\ pc' = "sleep"
    /\ UNCHANGED <<m_should_stop, errors, procVars, devVars, signals, faults>>

\* Fault: the error is not counted.
Sleep_NoCount ==
    /\ pc = "sleep"
    /\ pc' = "check"
    /\ UNCHANGED <<m_should_stop, errors, procVars, devVars, signals, faults>>

\* The exception handler: a tenth of a second for the device to recover.
Sleep ==
    /\ pc = "sleep"
    /\ errors' = errors + 1
    /\ pc' = "check"
    /\ UNCHANGED <<m_should_stop, procVars, devVars, signals, faults>>

\* Fault: the mode is only reset after a signal.
LeaveMultitouch_OnStop ==
    /\ pc = "stop"
    /\ IF m_should_stop THEN SetMode("single") ELSE UNCHANGED <<mode, faults>>
    /\ pc' = "guard"
    /\ result' = IF m_should_stop THEN "success" ELSE "failure"
    /\ UNCHANGED <<m_should_stop, errors, m_handler, sigaction, device, queue,
                   signals>>

\* run(), after the loop.  Exceptions of set_mode are caught here.
LeaveMultitouch ==
    /\ pc = "stop"
    /\ SetMode("single")
    /\ pc' = "guard"
    /\ result' = IF m_should_stop THEN "success" ELSE "failure"
    /\ UNCHANGED <<m_should_stop, errors, m_handler, sigaction, device, queue,
                   signals>>

\* clear(): sigaction(signal, nullptr) asks for the current action and leaves
\* it; then the callback is dropped.
ClearHandler ==
    /\ pc = "guard"
    /\ m_handler' = FALSE
    /\ pc' = "destroy"
    /\ UNCHANGED <<m_should_stop, errors, sigaction, result, devVars,
                   signals, faults>>

\* The virtual devices and the hidraw descriptor are closed.
Exit ==
    /\ pc = "destroy"
    /\ pc' = "exit"
    /\ UNCHANGED <<m_should_stop, errors, procVars, devVars, signals, faults>>

-----------------------------------------------------------------------------
(* Signals and hardware.                                                   *)

\* A signal without handler kills, one with a handler sets the flag and
\* interrupts a blocking read, which then throws.  A stub without a callback
\* throws std::bad_function_call out of the signal handler.
Signal ==
    /\ pc # "exit" /\ signals < MaxSignals
    /\ signals' = signals + 1
    /\ \/ /\ sigaction = "default"
          /\ pc' = "exit" /\ result' = "killed"
          /\ UNCHANGED m_should_stop
       \/ /\ sigaction = "stub" /\ ~m_handler
          /\ pc' = "exit" /\ result' = "aborted"
          /\ UNCHANGED m_should_stop
       \/ /\ sigaction = "stub" /\ m_handler
          /\ m_should_stop' = TRUE
          /\ IF pc = "blocked" /\ queue = "none"
             THEN pc' = "sleep"
             ELSE UNCHANGED pc
          /\ UNCHANGED result
    /\ UNCHANGED <<errors, m_handler, sigaction, devVars, faults>>

\* SIGKILL of dm_kill_all to a process that outlived its SIGTERM.
Kill ==
    /\ pc # "exit" /\ signals > 0
    /\ pc' = "exit" /\ result' = "sigkilled"
    /\ UNCHANGED <<m_should_stop, errors, m_handler, sigaction, devVars, signals,
                   faults>>

Report ==
    /\ device = "ok" /\ queue = "none" /\ pc # "exit"
    /\ queue' \in Reports
    /\ UNCHANGED <<runVars, procVars, device, mode, signals, faults>>

\* The device is unplugged or the driver reloaded; what is queued can be read.
Vanish ==
    /\ device = "ok" /\ pc # "exit"
    /\ device' = "gone"
    /\ UNCHANGED <<runVars, procVars, mode, queue, signals, faults>>

IptsdStep ==
    \/ Open \/ Setup \/ EnterMultitouch \/ Check \/ CallRead \/ ReadReport \/ ReadThrows
    \/ Sleep \/ LeaveMultitouch \/ ClearHandler \/ Exit

RunnerNext == IptsdStep \/ Signal \/ Kill \/ Report \/ Vanish

RunnerSpec == RunnerInit /\ [][RunnerNext]_runnerVars

\* The process is scheduled.  Nobody promises that reports arrive.
FairRunnerSpec == RunnerSpec /\ WF_runnerVars(IptsdStep)

-----------------------------------------------------------------------------
(* Properties.                                                             *)

RunnerTypeOK ==
    /\ pc \in PCs /\ m_should_stop \in BOOLEAN /\ errors \in 0..MaxErrors
    /\ m_handler \in BOOLEAN /\ sigaction \in {"default", "stub"} /\ result \in Results
    /\ device \in {"ok", "gone"} /\ mode \in {"single", "multi"}
    /\ queue \in Reports \cup {"none"}
    /\ signals \in 0..MaxSignals /\ faults \in 0..MaxFaults

\* A process that ends by SIGTERM, before or after its handlers are in place, or
\* gives up, leaves a working device in the mode the kernel can handle alone
\* (core/linux/runner.hpp, set_mode before and after the loop).  Two endings are
\* excepted, for they leave the loop without a set_mode: std::terminate by a
\* contract in the parser (reader.hpp:132), and the manager's SIGKILL.
NeverLeftInMultitouch ==
    pc = "exit" /\ device = "ok" /\ faults = 0
        => mode = "single" \/ result \in {"terminated", "sigkilled"}

\* When the device goes away the process ends, so that iptsd-runner or systemd
\* can start one for the device that comes back (the error counter of run()).
EndsWithDevice == device = "gone" ~> pc = "exit"

\* As long as reports arrive, as they do while a finger is near, a request to
\* stop is followed by the exit (core/linux/runner.hpp, stop and the loop).
StopHonouredWhenBusy == WF_runnerVars(Report) => (m_should_stop ~> pc = "exit")

-----------------------------------------------------------------------------
(* What comments say and the code does not do.                             *)

\* core/linux/runner.hpp, stop(): "Stops the loop that reads from the device.
\* This function is designed to be called from a signal handler".
StopHonoured == m_should_stop ~> pc = "exit"
=============================================================================
