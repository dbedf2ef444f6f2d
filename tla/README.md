# iptsd in TLA+

Specifications of iptsd, the userspace half of the Intel Precise Touch & Stylus
stack, with the configurations that model-check them and proofs of their main
safety properties. `PROJECT.json` maps every definition to the lines it was
translated from, and lists the runs, the faults each property detects, the
findings, the hazards and the theorems.

## 1. The system

One `iptsd` process serves one hidraw node. It reads HID reports, parses IPTS
frames out of them, finds contacts in heatmaps and drives virtual input devices
through uinput. On a desktop systemd starts one process per node; on Android a
supervisor, `iptsd-runner`, does.

| Component | State | Operations | What makes it correct |
|---|---|---|---|
| `android/` iptsd-runner | instance table, stop flag, suspend baseline, four descriptors | scan, spawn, reap, kill all, resume, main loop | the table mirrors the children; one process per device; no event lost; stop and resume work |
| `android/ipts_detector.cpp` | none between calls | parse a HID descriptor | agrees with `src/hid` and `src/ipts/descriptor.hpp` |
| `core/linux/runner.hpp`, `signal-handler.hpp`, `apps/daemon/main.cpp` | stop flag, error counter, callback, device mode | run, stop, signal set-up and removal | a stop request ends it, a dead device ends it, the device's mode is restored |
| `ipts/parser.hpp`, `common/reader.hpp` | heatmap dimensions, DFT metadata | parse nested frames and reports | lengths, state kept between reports |
| `core/generic/application.hpp`, `dft.hpp` | the stylus under construction, phase and group of the last position | one handler per DFT window type, lift | a report is made of fresh data only |
| `contacts/detection` | cached neutral value, buffers | detect | no peak missed, contacts kept apart, none lost in merging |
| `contacts/tracking`, `stability`, `validation` | the last frame, in each | track, stabilize, validate, reset | unique and lasting indices; palms stay palms |
| `apps/daemon` | enabled flags, current and last indices, selected contact, last sample | on_touch, on_button, on_stylus, enable, disable | the kernel holds what is on the screen, nothing more |
| `hid/`, `ipts/descriptor.hpp`, `ipts/device.hpp` | parser items | parse a descriptor, find reports, set the mode | agrees with the Android detector |
| `core/linux/config-loader.hpp` | the configuration | load presets and files in order | precedence |
| `core/linux/device/` | file position | read, features | loops over a capture |
| calibrate, dump, perf, plot, show, check-device | statistics, images | | |

Interactions. The runner of a process calls the application, which calls the
parser, which calls back with samples (`on_touch`, `on_stylus`, `on_dft`,
`on_button`): all in one thread, in the order of the reports in a buffer. What
runs concurrently is a signal handler (it sets a flag), the hardware, and on
Android the supervisor with its children, hotplug, suspend, init and the timers.
The hard behaviours follow from that: signals at every point of a loop with
blocking calls, processes that die or do not die, events that arrive during a
scan, exceptions between two writes, and long sequences of frames after which
two pieces of state no longer agree. The hazards in `PROJECT.json` name the
lines.

## 2. Modules

| Module | Models | Proofs |
|---|---|---|
| `Supervisor` | what iptsd-runner promises: start, finish, abandon after a stop request, shut down | |
| `DeviceManager` | `android/main.cpp`, `device_manager.cpp`, the `.rc` file and their environment; implements `Supervisor` | `DeviceManagerProofs` |
| `MCDeviceManager` | its instance for TLC (symmetry) | |
| `HidItems`, `HidParser` | `hid/parser.hpp`, `ipts/descriptor.hpp`, the device built on them | |
| `IptsDetector` | `android/ipts_detector.cpp` | |
| `Detection`, `MCDetection` | one descriptor read by both parsers | `DetectionProofs` |
| `Runner` | one iptsd process | `DaemonProofs` |
| `IptsParser` | `ipts/parser.hpp`, `common/reader.hpp` | |
| `IptsStream`, `MCIptsStream` | the device that feeds it, and what its reports mean | `IptsStreamProofs` |
| `DftStylus`, `Application` | `core/generic/dft.hpp`, `process_dft` and `process_stylus`, on top of `StylusDevice` | |
| `Pen`, `MCPen` | a pen above the antennas, whose windows get lost | `PenProofs` |
| `Convolution`, `Detector`, `MCDetector` | `contacts/detection` up to the clusters, and `process_touch` before it | `DetectorProofs` |
| `Finder` | tracker, stabilizer and validator | `FinderProofs` |
| `UinputDevice` | `emit` of `uinput-device.hpp`: what a series of calls has written when one throws | |
| `TouchDevice`, `StylusDevice` | `touch.hpp`, `stylus.hpp`, with the kernel's view of their events | |
| `Daemon` | `daemon.hpp`; composes the two devices | `DaemonProofs` |
| `Pipeline` | `Finder` and `Daemon` composed as `process_touch` does | `PipelineProofs` |

Operators with an underscore in their name (`Process_NoLift`) are variants of
the operator after them with one plausible mistake. They are not used by any
specification; putting one in the place of the original makes the property that
watches over it fail, and `PROJECT.json` lists under "mutants" which.

### 2.1 DeviceManager

The runner is one sequential process whose position is `pc`; every system call
between which something else can happen is an action of its own. Actions
correspond to code as follows.

* `InstallHandler` ... `ScanReturn`: `main` and `dm_init`, up to the decision
  whether there is anything to wait for.
* `ScanMark`, `ScanOpen`, `ScanEntry`, `Spawn`, `ScanEnd`:
  `dm_scan_and_reconcile`. `todo` is the set of directory entries still to come;
  `ReaddirRace` lets an entry that appears or vanishes meanwhile be seen or not.
* `LoopHead`, `EpollWait`, `Take`, `BatchDone` and one `Handle...` per
  descriptor: `dm_run`. `batch` holds the descriptors of the last `epoll_wait`,
  taken in any order.
* `ReapChild`, `ReapDone`: `dm_reap_children` and its caller.
* `KillAll` ... `ForceDone`, `KillReturn`: `dm_kill_all`. The 50 polls are
  `KillRetries`. For a straggler SIGKILL (`ForceKill`), the child's death
  (`ChildExits` from "killed") and the end of the blocking `waitpid` (`ForceReap`) are
  steps of their own: the handlers are installed without `SA_RESTART`, so a SIGTERM
  between them makes `waitpid` return EINTR, and the code clears the slot without a
  look at the result (`Interrupted`). The child is then known to no slot.
* `RequestReload`: the rest of `dm_handle_resume` (the property is set, the code
  sleeps, the scan follows, the baseline is read again).
* `Child...`, `NodesVanish` ... `Suspend`, `Sigterm`: everybody else. A child is
  `starting` until it has its signal handlers: until exec it runs the handler it
  inherited, which sets a flag nobody reads; after that SIGTERM kills it.

Time is abstract. The suspend clock counts in units of the threshold. The
debounce time and the 2 s wait in `dm_init` are taken to be long enough for
ueventd to give a new node its label: `DmInitWatch` and `TimerExpires` wait for
nodes that are `unready`. Without it a probe that fails is never repeated (see
the hazard at `device_manager.cpp:578`). A failing `fork` or `opendir` is a
fault with a budget; overflow of the inotify queue is not modelled.

### 2.2 Runner

`pc` follows `main` and `Runner::run`. `read` and `blocked` are kept apart: the
first is the point between the check of the flag and the system call, where a
signal only sets the flag; in the second it interrupts the call. `sigaction` is
what the kernel does on the signal and `m_handler` whether the stub has a
callback; the code changes them separately. A report may be handled, ignored, make
the parser throw, or end the process: the contract of `gsl::span` in
`common/reader.hpp:132` calls `std::terminate`, which no `catch` stops (`"fatal"`).
`Kill` is the SIGKILL of `dm_kill_all`, which follows a SIGTERM.

### 2.3 Finder

A frame is a sequence of contacts with an index and two verdicts. How many
contacts the detector finds, which of them is near which of the last frame, who
jumped and who looks like a finger are free; greedy nearest-neighbour matching
can produce every injection of full size, so `Matchings` is the set of these.
The stabilizer and the validator are configured as `core::Config` does
(all thresholds and limits set, validity tracked).

### 2.4 Daemon

`mt` and `keys` are the state the kernel derives from the events of the touch
device (slots with a tracking id, keys that are down), `penKeys` the same for the
stylus. A call is one action, since nothing else runs in between; a call whose
write fails stops somewhere in the middle (`UpdateThrows`, `DisableThrows`,
`OnStylusThrows`), and the runner goes on with the next buffer. `BTN_TOUCH` and each
`BTN_TOOL_*` are events of their own: `Partly` gives the states between any two
of them, in the order `emit_singletouch`, `lift_singletouch`, `update` and `lift` write
them (`DownOrder`, `UpOrder`, `StylusOrder`). What was written before the failure is
shown to clients by the next `sync`; a stylus sample whose `sync` fails has been
remembered as the last one, and its keys are down (`UpdateStylusThrows`). `penReport`
is a history of what the stylus last reported. `writeErrors`
counts the failures. Frames are chosen freely, except for what the finder guarantees:
indices that occur once, and no contact that is both unstable and invalid.
The options of the device that is not there are left out: `touch_disable` is
`touchscreen_disable` or `touchpad_disable`, whichever is read. `Application`
passes stylus samples on for touchscreens and button samples for touchpads only.

### 2.5 Pipeline

`Daemon` chooses its frames; `Pipeline` takes them from `Finder` (INSTANCE of both,
one action per callback of `Application`). `FramesAreAsAssumed` shows that what
`Daemon` assumes of frames is what the finder guarantees, so the results for
`Daemon` hold of the composition; the other two properties need both, since they
follow a contact from the frame before through the kernel's slots. Which contact is
which finger of the frame before is decided by nobody in the program: `Fingers` are all
answers, chosen apart from the tracker's `Matchings`, and the history `fresh` has the
indices of the fingers that just came down. The tracker pairs as many contacts as it
can, so that a finger that comes down in the frame in which another is lifted gets
the index, and the slot, of that one; and it may take one that stays for another, if they
are closer. `Newcomers` leaves out both cases, in which a slot does change hands.
Failing writes stay with `Daemon`.

### 2.6 The two descriptor parsers

iptsd-runner decides with its own C parser whether to start an iptsd, and that
iptsd refuses the device with another parser. `Detection` lets both read the same
items, one per step. Each module keeps the structure of its code: `HidParser` a
tree of collections with reports of their own, `IptsDetector` one table of reports
for the descriptor with its limits. Items that store what nobody reads (limits,
units, strings) are one tag; the header byte's decoding is left out. The detector
counts the bits of a report as its fields are added, in a `uint32_t` that wraps at
`WORD`; iptsd sums those of the fields when it is asked, in a `usize` that is taken as
unbounded, which the model keeps as a sum with the report. `Regular` names what the
two are compared on: everything closed, no Push or Pop, no report split over two
collections, and no more reports, usages and bits than the detector can hold. `Plain`
excludes what only one of them looks at (ranges of usages, the type of a
collection, sizes that are not whole bytes). `DeviceStarts` is all the descriptor
decides of an iptsd's way into its loop: `DeviceAccepted` (the constructor of
`ipts::Device`), `type()` in that of `Runner`, and the id of the report of `set_mode`.

### 2.7 The protocol parser

A buffer is a set of structs at byte positions, so every size, index and limit is that
of the code, and a struct read where another one lies is `Garbage`. The recursion of the
handlers is `stack`: each entry is the `Reader` of a handler in a loop, and `HidFrame`,
`LegacyHeader`, `ReportGroup`, `ReportFrame` and `Return` are the iterations of the
loops. A handler that calls no other one (stylus, dimensions, heatmap, DFT rows, button,
metadata) is one step; the reader it was given is kept in `used` as the handler leaves
it, also if it throws, until the next step. `Finish` is the return of `parse` to its
caller, or the `catch` there. `Throws` are the two exceptions of `Reader`; a size below
zero has wrapped around. `RowsAbort` is the contract of `gsl::span`.

`IptsStream` builds buffers out of lists of reports in the layouts of
`ipts/protocol`: reports in frames, one frame per report, a heatmap frame, legacy
groups, metadata. `Meaning` says what each report stands for without looking at
sizes or positions; `Decoded` compares. Fairness is weak fairness of `Handle`: a
process that has something to parse runs.

### 2.8 The DFT stylus

`DftStylus` has one operator per window type. What a handler reads of the rows is
kept exactly: sums over both axes as pairs <<real, imag>> of small integers, so
phases are compared by the sign of a product; Jacobsen's estimator as a fraction; the
position as half antennas around the strongest one, with the apex of the parabola
as an input, since the exponent of the fit is a configured real number. One axis
stands for two, and tilt is left out. `Pen` is the environment: in a group the pen
holds still, and each of its windows may come any number of times or never, in any
order, too short, or without its group. A pen of MPP v2 sends two binary windows
in a group, the second with other contents. The history `guessed` says that a button
window of such a pen was evaluated before the first binary window of the group had
told whether a tool is held.

### 2.9 Contact detection

`Detector` is one action, `Frame`: `process_touch` and `Detector::detect`. Values
are integers, in units in which the 3x3 kernel is one of integers (5, 2 and their
products approximate its numbers). The algorithms are operators on images:
`StatisticalMode`, `FindMaximas`, `DarkenAroundMaximas`, `SpanRecursive`, `Merge`.
`SpanRecursive` and the iterations of `Merge` are recursive functions, so that they can be
proved about; the box a cluster is extended to is that around all it takes in (`Merged`),
and it starts from its maxima with the maxima's own value instead of the largest number
there is, which blocks nothing either.
`Convolution` has the generic routine and the two unrolled ones as the table of
offsets their blocks use; the properties compare with definitions of their own
(reachability for clusters, plateaus for maxima, `RunGeneric` for the blocks).

## 3. Runs

Safety and liveness that hold:

| Run | Bounds | Shows |
|---|---|---|
| `dm_safety` | 2 devices, 3 pids, 2 slots; 1 hotplug event, 1 crash, 1 suspend; SIGTERM at any time, any number of times | the table mirrors the children but for those given up (`SlotsOwnTheirChild`, `EveryChildHasASlot`), `OneProcessPerDevice`, `NoOrphans`, and nothing is forgotten: `NoZombieForgotten`, `NoDeviceForgotten` |
| `dm_supervisor` | 2 devices, 1 slot, 1 failing call, both settings of reload_on_resume | every step is one of `Supervisor` or invisible to it |
| `dm_liveness` | 1 device, 2 pids, 1 slot, 2 suspends, both settings of reload_on_resume | `DevicesServed`, `StopHonoured`, `WedgedRecovers` |
| `runner_ends` | 3 errors, 2 signals, 1 failing call, SIGKILL after a signal | `NeverLeftInMultitouch`, `EndsWithDevice`, `StopHonouredWhenBusy` |
| `finder_safety` | frames of 0 to 3 contacts | `UniqueIndices`, `IdentityKept`, and the bound on indices in `TypeOK` |
| `daemon_safety` | 2 indices, frames of 0 to 2 contacts, 1 failing write at any event, both kinds of device and every configuration | no ghost contacts, pointer and tool follow the contacts, stylus and palm silence the screen; after the failure a full frame repairs the tool (`OneFingerTool`) and pen and rubber stay apart (`ToolSwitchLifts`) |
| `pipeline_touch` | frames of 0 to 2 contacts, slots 0 to 2, both kinds of device, palms block frames or not, the stylus disables the touchscreen | `FramesAreAsAssumed`, a slot passes to a finger that came down only from one lifted in the same frame (`SlotsAreFingers`), a palm and what it becomes in the next frame are not shown (`PalmsAreHidden`) |
| `detection_agree` | a touchscreen collection and up to 5 of 12 blocks of items; limits of 3 reports, 2 usages, 2 levels and 20 bits | `SameReading`: same reports, same verdict, same kind of device; `NoRefusedStart`: with two reports, one kind of digitizer and ids the iptsd gets through its constructors and first `set_mode` |
| `parser_stream` | 7 lists of reports in 4 layouts, heatmap and metadata frames; intact, cut, or one size or count set to 0, 3, 4, 11, 20 or 65535; buffers in any sequence | `Confined`, `Decoded`, `Terminates` |
| `pen_dft` | 3 groups of a pen without binary windows, 2 of one of MPP v2; 3 or 4 uses of it and none, 2 phases, rows at and away from the edge | `GoneIsUp`, `NothingInvented`, `Synchronised` |
| `detector_find` | all rows of 6 bars with 3 levels, 2 to 3 spots on 5x5 pixels; one frame without contacts before it; 3 configurations | `OptimizedIsGeneric`, `PeaksFound`, `ContactsKeptApart` |

Why the bounds are enough. Two devices and two pids are the least that let a pid be
reused for another device, a slot be freed and taken again, and two deaths be announced
by one SIGCHLD; a third pid lets a process that was given up live next to both that have
slots; one slot for two devices fills the table. One suspend next to one crash and one
hotplug event puts every pair of event sources into one batch; for liveness a second
suspend lets one fall into the handling of another. Three errors distinguish "at the
limit" from "below" and "at the start"; 50 add only length. Three contacts let one stay,
one leave and one arrive in the same frame; two let the selected contact be replaced by
the other. Five blocks after the opening close and reopen collections, change the report
id and put fields of one report on both sides of it; the limits of 3, 2 and 2 are
reached within them, and two fields of 12 bits pass the 20. The wrong sizes are below
every header, equal to one, just over the data and far beyond it; parsing keeps only the
dimensions and the DFT metadata between buffers, so that sequences of buffers repeat
after two. A report of the stylus shows the group before, so two groups are one of each,
and three let a stale state outlive one. Six bars are the least that let three clusters
overlap in a chain; the neutral value is the only state of the detector, one frame sets
it.

Terminated behaviours are not deadlocks (`CHECK_DEADLOCK FALSE`) where the
process may exit, where the input is bounded (`Detection`, `Pen`, `Detector`), where
every message may be the last (`IptsStream`), and in `Daemon` and `Pipeline`,
where no handler may have anything to do. `Finder` is checked for deadlock.

Fairness. `DeviceManager!Fairness` assumes that the runner, its children and the kernel
(timers, init, ueventd) make progress. It does not assume that hotplug, crashes,
suspends or signals happen: hotplug, crashes and suspends are bounded, and none of them
is fair. A process that has got SIGKILL dies. `Runner!FairRunnerSpec` assumes that the
process is scheduled and nothing about reports; that they keep coming is a premise of
`StopHonouredWhenBusy` only. A process blocked in `read` is not enabled, so fairness
does not wake it. `IptsStream!Spec` assumes that the process runs while it has something
to parse.

A disagreement between the code and what is written about it, as a run that TLC must
find violated:

| Run | Written | Code |
|---|---|---|
| `detector_merge` | of two overlapping clusters one is extended and the other dropped (`overlaps.hpp:113`) | of three in a chain the third is dropped and nothing is extended by it: a contact is lost |

The following are stated as properties as well, each with a configuration that
shows the violation (`tlc -config X.cfg M.tla`), next to the runs of `PROJECT.json`:

| Configuration, module, property | Written | Code |
|---|---|---|
| `Runner_quiet`, `Runner`, `StopHonoured` | `stop()` stops the loop, from a signal handler (`runner.hpp:108`) | lost wake-up between the check and `read` |
| `DeviceManager_early_sigterm`, `MCDeviceManager`, `SigtermStopsRunner` | SIGTERM leads to a clean exit | lost between `sigaction` and the `memset` of `dm_init` |
| `DeviceManager_every_resume`, `MCDeviceManager`, `EveryResumeHandled` | reload on every resume | a suspend during the handling of another is absorbed by the new baseline |
| `Finder_palm`, `Finder`, `PalmStaysInvalid` | invalid until lifted (`validation/config.hpp:22`) | valid again after an unstable frame |
| `Finder_slots`, `Finder`, `SlotsSuffice` | 16 is the largest slot (`touch.hpp:115`) | with n contacts an index can be 2n-2, that is 18 for ten fingers (scaled down to 3 contacts and 3 slots) |
| `Daemon_unstable`, `Daemon`, `UnstableIsIgnored` | "Ignore unstable changes" | the pointer is released |
| `Detection_logic`, `MCDetection`, `SameLogic` | the detection logic of iptsd (`ipts_detector.cpp:6`) | a touch report with fields in two collections is one report for the runner and two for iptsd, which refuses the device |
| `Detection_buffer`, `MCDetection`, `BufferTakesReports` | the size of the largest report (`ipts/device.hpp:122`) | without the byte of its id: the last byte is not read |
| `Pen_pressure`, `MCPen`, `PressedInContact` | pressure is that of a stylus pressed onto the display (`samples/stylus.hpp:34`) | a pen that comes back has the pressure of before, without contact |

`Detection_types`, `IptsStream_types`, `Pen_types` and `Detector_types` check the type
invariants of their modules, the last one also that the iterations of `Merge`
suffice (`MergedApart`) where the run's heatmaps are concerned.

More was seen while modelling. The models contain it, and no run of its own is
spent on it:

* `device_manager.cpp:64` documents a maximum of restart failures; iptsd is
  restarted for ever, the constant is not used.
* `android/README.md:188` promises to wait for devices if modules are loaded;
  `main.cpp:92` decides by flags read before the first scan, so a module loaded
  during that scan does not count (`ScanReturn`).
* `device_manager.cpp:686`: SIGTERM interrupts the `waitpid` after SIGKILL, and the slot
  is cleared without the process having been waited for (`Interrupted`). The scan at the
  end of a resume may start another iptsd for the same node next to it, and the runner
  may exit before it is dead; `GivenUp` names this exception in `EveryChildHasASlot`,
  `OneProcessPerDevice` and `NoOrphans`, and `Supervisor` has it as `StopRequest`. Its
  death is announced and reaped as any other (`NoZombieForgotten`).
* `device_manager.cpp:828`: a device that does not survive a suspend stays as it is if
  reload_on_resume is off, the default on Android (`ResumeWithoutReload`), or if that
  suspend falls between the request for a reload and the end of `dm_handle_resume`
  (`ResumeSwallowed`, see `EveryResumeHandled` above); `WedgedRecovers` excepts both.
* An iptsd that is ended by the contract of the parser or by SIGKILL leaves the device
  in multitouch mode, where nothing reads it until another iptsd starts
  (`NeverLeftInMultitouch`).
* `runner.hpp:138` speaks of continuous errors; a report without touch data
  between them does not reset the count (`ReadReport`).
* The guard of `signal-handler.hpp:110` is to remove the handler;
  `sigaction(Signal, nullptr)` leaves it, and its callback is gone
  (`ClearHandler`, `Signal`).
* `etc/iptsd.conf:23` says touch is ignored while a stylus is in proximity; in
  the report that switches pen and rubber it is not, since `m_active` is false
  then (`UpdateStylus`, `Enabled`).
* `touch.hpp:213` says contacts that are gone have to be lifted; if a write fails
  while lifting they are not, since `m_current` has been replaced already
  (`UpdateThrows`; hence the premise of `NoGhostWithoutErrors`).
* A touchpad frame whose write fails between `BTN_TOUCH` and the tools leaves a pointer
  without a tool, or two tools, until the next frame that is written in full
  (`touch.hpp:445`); that is when `OneFingerTool` holds again. A stylus sample with
  neither tool whose `sync` fails is followed by a report with the other tool, because
  `m_last` has been set (`stylus.hpp:113`): pen and rubber are switched in one frame.
  `ToolSwitchLifts` speaks of calls whose predecessor did report.
* The detector of the runner wants a mode report of 8 bits where one byte will do for
  `ipts/descriptor.hpp`, ignores Push and Pop and ranges of
  usages, looks at application collections only, cuts report ids to 8 bits where
  `hid/parser.hpp` throws, and drops the 65th report without consuming its usage.
  It looks neither at the kind of digitizer nor at the id of the mode report: a device with
  a touchscreen and a touchpad collection, or with none, or whose mode report has no id is
  started by the scan (`device_manager.cpp:584`), and its iptsd throws in the constructor
  of `Runner` or in the first `set_mode`. `NoRefusedStart` has both as premises.
* `reader.hpp:129`: `subspan` compares a number of rows with a number of bytes; too
  many rows end the process by the contract of `gsl::span` (`RowsAbort`).
* `ipts/parser.hpp:122`: a reports frame followed by exactly four bytes is dropped, also
  when it is well-formed (`Quirk`). A DFT window without rows throws, a heatmap
  before any dimensions throws or is emitted with no pixels, a stylus report
  without samples reads one (`Stylus`).
* `dft.hpp:262`: an MPP v2 pen tells in the first binary window of a group whether a tool is
  held. If that window is lost, cut, too quiet, late, or forgotten by a lift, the second
  one is taken for it, or the strength of the button window decides: the stylus shows
  a guess until the next button window or lift (`guessed`, the exception in
  `NothingInvented`).
* Phases are multiplied in 32 bits, which is exact only for components below 2^14
  (`dft.hpp:218`). The estimator of a frequency multiplies differences of row sums (each
  over 18 components) in 32 bits as well (`dft.hpp:417-422`, `InterpolateFrequency`),
  which is exact only while those stay below 2^15. The models use exact integers: what
  they show holds for signals that do not overflow.
* `maximas.hpp:35` says no maximum is reported twice: a C-shaped plateau is, by
  two pixels that are not neighbours. The kernel drawn there is not the one used.
* `convolution.5x5-extend.hpp:49`: the access helper of the 5x5 convolution, which is
  never called, has no `return` in the branch of builds without forced access checks
  (`IPTSD_FORCE_ACCESS_CHECKS` is off by default and in the Android build), so that its
  result is undefined there. It also takes rows for columns in its limits.
  `OptimizedIsGeneric` claims it for builds with the checks and square images only
  (`ForceAccessChecks` is `TRUE` in the runs; the 3x3 routine does not depend on it),
  and the 3x3 one for two rows and columns and more. A table of the model is one
  column or row of blocks: a slip in a single block is not told from one in all of them.
* A heatmap of one value is divided by zero (`application.hpp:178`); `Detector` takes
  frames whose maximum is above their minimum.
* Lifting the selected contact releases a touchpad's button (`touch.hpp:421`), and with
  two contacts outside of the screen the selection alternates between them
  (`touch.hpp:307`). No comment says what should happen.

## 4. Proofs

TLAPS checks the following for every value of the constants that satisfies the named
assumptions of the modules; nothing else is assumed. What they ask for is what the
code and its types give:

| Assumption | Asks for | Because |
|---|---|---|
| `ConstantAssumption` | `IPTSD_MAX_INSTANCES > 0`; null values that are no device and no pid; budgets are numbers | a macro with the value 8; the rest is the model's |
| `RunnerAssumption` | at least one error is tolerated; budgets are numbers | `runner.hpp` compares with 50 |
| `TouchAssumption` | 0 is an index; the length of a frame is bounded | the selected contact starts as 0; frames come from a detector with bounded images |
| `FinderAssumption`, `PipelineAssumption` | numbers of contacts and slots are natural numbers | `usize` |
| `GarbageAssumption`, `MessageAssumption` | a size, count or index in the data is not negative | the fields of the protocol structs are unsigned |
| `LimitAssumption` | the limits of the runner's detector are natural numbers, a word has a value | macros with the values 64, 32 and 16; 2^32 |
| `BlocksAssumption` | descriptors are made of non-empty runs of items | payloads are unsigned, a usage of four bytes is a page and an id |
| `CountAssumption` | the neutral value is kept for at least one frame, clusters are merged at least once; the frames are bounded | the code divides by the first and throws if the second is 0; it is 5 |
| `ThresholdAssumption` | the deactivation threshold is not above the activation threshold | what the names and the defaults mean (20 and 24); the code does not enforce it |
| `ConfigAssumption`, `KernelAssumption` | offset and radius are numbers, the kernel's are not negative | a gaussian |
| `HeatmapAssumption` | a heatmap has values for all of its pixels, and not one row or one column | with one, the 3x3 routine reads beside it; no device has such a heatmap |
| `PenAssumption` | thresholds are not negative, that of the magnitude is positive; a measured phase is not zero; rows called pressed are those `Presses` accepts | the configured defaults; a signal above a positive threshold has a phase; the last names the inputs by what the code makes of them |

`DeviceManagerProofs`. The properties are not inductive one by one: that a reaped
pid leaves no child behind needs the table to name every pid once, and that two
processes never share a device needs the table to name every path once. The
invariant `IInv` is the conjunction of

* `TypeOK` and `ReloadPending` (a driver in the middle of a reload has a request
  on record, which bounds the counter of requests);
* `Mirror`: `SlotsOwnTheirChild`, `EveryChildHasASlot` and `DistinctPaths`; active
  slots and the unreaped children that were not given up correspond one to one;
* `NothingRuns`: before the first scan and after the exit no slot is active, so
  that `dm_init` clears an empty table and the exit leaves nothing known;
* `NothingStarted`: when `dm_init` clears the stop flag there is no child yet that
  was given up because of it;
* `KilledFirst`: the process the blocking `waitpid` is for has got its SIGKILL, so one
  given up there is doomed;
* `KillCallers`: `dm_kill_all` is called by `dm_handle_resume` or by `main`, so
  that it returns to one of them.

Only a few actions start or reap a child or clear a slot; `OtherSteps` shows that the
rest leave table and children alone (`SameChildren`: nobody comes back from SIGKILL or
death, and no stop request is undone), `SpawnMirror`, `ReapMirror`, `InterruptMirror`
and `ClearMirror` treat those few. A child that was given up stays so (`GivenUpStays`),
and one without a slot was (`NotKnown`). From the invariant follow `TypeCorrect`,
`SlotsAreChildren`, `ChildrenAreTracked`, `DevicesAreExclusive` and `ExitLeavesNothing`;
`Refinement` maps each step to one of `Supervisor` or a stutter, and `ZombiesAreReaped`
is inductive given the types.

`DevicesAreRemembered` has an invariant of its own, `Scans`. While the runner waits,
`NoDeviceForgotten` looks only at what can wake it; `RescanComes` says at every
point of the loop that a node which could be served and is not has a scan before it:
an event, the timer, a caller that is about to scan, or the scan in progress if it
has not come to the node yet. A scan passes over a node that ueventd has not set up,
so this needs `SetupAnnounced`: such a node still has the event of its creation or
the debounce timer before it, which ends after it is ready. With a free slot and no
failing call the scan does start the node (`SpawnServes`, which needs that the
search for the first free slot finds the smallest one, `Smallest`).

`DaemonProofs`. The state of the kernel and that of the devices agree only if several
parts hold together. `ActiveStylusSilencesTouch` needs that a disabled touchscreen is
empty (`DisabledIsSilent`), which in turn needs that a touchscreen has no key but the
pointer (`ScreenKeys`). `ActiveDisables` says that no sample makes the stylus active
before the touchscreen is disabled, also if the write in `disable` or the one after it
fails. `OneTool` is `OneFingerTool` without a count, `ToolIsLast` ties the key of the
stylus to the last sample (what `UpdateStylus` compares with) and `GoodSelects` puts the
selection into a frame shown in full: these carry `SwitchLifts` and `RepetitionSelects`.
A failing write can leave any part of the keys written: `PartlyWithin` says that these
are keys of the state before or of the one to come, and `LiftAllThrowsKeeps`,
`ProcessThrowsKeeps` and `StylusThrowsTool` what the parts that are left keep of the
invariant. Lemmas state what `PointerDown`, `PointerUp`, `LiftAll`, `Process`,
`Reselect` and `KindOf` guarantee; each callback, and each way in which it throws, has
one lemma for the invariant. Its last part is about the process (`Runner`):
`ModeRestored` needs to know that the callback is installed wherever the mode can be
`multi` (`HandlerInLoop`), so no signal ends the process there, and that `multi` outside
of the loop means a failed call or one of the two endings without a `set_mode`
(`MultitouchInLoop`); `RunnerTypeCorrect` that an error is only counted below the limit
(`BelowLimit`). The invariant of both is `LoopIInv`.

`FinderProofs`. `TypeOK` and `UniqueIndices` are inductive together. `FreshIndices`
is the core: the k-th index that `find_new_index` gives is not in use and has at
most k - 1 new ones and those of the last frame below it, by the counting of
`Rank`; hence the bound of 2n - 2. `FullMatch` says that as many contacts
are matched as can be, from which `IdentityIsKept` follows.

`IptsStreamProofs`. `Confined` is not about the stack alone: what a handler hands to
another depends on what it read, so the invariant types the buffer (`BufferTyped`)
and every reader, the one a leaf handler left behind included (`UsedOK`: it ends where
the caller goes on). `Fits` says that what does not throw fits, in spite of sizes that
have wrapped around; `Moved`, `Called` and `TakenType` are the three things that
happen to the stack.

`PipelineProofs` composes: it takes `FinderProofs` by `INSTANCE` with the frame for
`m_last`, so that what is proved of the finder is cited and not repeated, and adds
what relates its frame to the kernel's slots (`SlotsAreKnown`, `PalmsAreUp`,
`UnstableIsValid`). For `SlotsStayFingers` two choices
meet, that of the tracker and that of who is who in truth: as the matching is injective,
an index that a newcomer inherits is of a contact no finger that stayed goes back to.
`FramesFit` is what makes the theorems of `DaemonProofs` hold of
frames the finder makes.

`PenProofs`. `Told` links what the pen's history says of a group (which windows came,
and with which pen) to the stylus the handlers build: `was` is only set if every window
has come. `FirstOfGroup` says that the group before is looked at by the first window of
a group only, `Groups` which group the stored phase belongs to, so that `HandleButton`
compares phases of one group and the sign of the product is that of the tool
(`InPhase`). `Guessed` is evaluated for every window (`GuessedType`), so a button that
is shown while nothing was guessed comes from such a comparison or was there before. For
`NothingInvented` alone `OneOfTools` and `NoMpp2` have to be added; `GoneIsUp` follows
from `Seen`. There is one lemma for each type of window (`PositionHeard`, `ButtonHeard`
and so on), and one each for the next group (`NextGroupStep`) and a lost binary window
(`LoseBinaryStep`).

`DetectionProofs`. `Regular` speaks of the end of a descriptor; the invariant needs it
in the middle. `Comparable` says that the items read so far, spread over the stack of
open collections, can still belong to a regular descriptor: nothing pushed or popped, no
report in two collections (`Unsplit`), room in the table for all (`Room`). `SameSoFar`
is what then holds: each report of the tree has an entry with its type, id, bits and
usages and each entry a report (`SameReports`), global and local items agree
(`SameItems`), and so do the collections of touchscreens and touchpads (`SameKinds`).
The step lemmas go backwards: a descriptor that is comparable after an item was so
before it, hence the two agreed before it. That a new report finds room follows from
`DistinctCount`: the table is as long as there are keys in the tree. `FieldHeld` and
`EntryAdded` say what a field changes on either side and `GrowAlike` that the changes
agree; `Pushed`, `Popped` and `Closing` that opening and closing a collection moves
reports and keeps them. `RegularAgrees`, `SameVerdicts` and `SameCollections` draw the
conclusions at the end, `SameReading` and `NoRefusedStart` (for which `SameTypes`
compares the kinds of digitizer), for descriptors of any length and nesting and for any
limits.

`DetectorProofs`. The algorithms call themselves, and what a recursive definition
computes has to be shown by hand: `Recursion` says that a function whose calls get
smaller exists (built up to any size with `Smallest`, where it is unique, and then put
together), and an argument of smallest size that fails takes the place of induction. On
it rest `SumType` (sums over a kernel), `ReachLeast` (what can be reached is the least
closed set), `SpanExists` and `SpanResult` (the recursion of `span_recursive` ends and
what a call adds) and `MergeFits`.

* `UnrolledAgree`: `Blocks3` and `Blocks5` say that each block's offset leads where
  clamping leads, so that the unrolled routines read the pixels the generic one does
  (`UnrolledIsGeneric`), for images of any size and any kernel.
* `NoPeakDiscarded`: the leftmost of a plateau's pixels, of several the topmost, has only
  lower neighbours and those it may equal (`SummitHasMaxima`); of two neighbours that are
  equal one may not equal the other (`MaximasApart`).
* `ClustersApart`: `Spanned` is what every call of `span_recursive` guarantees, whatever
  was visited before: the hot pixels it adds bring all hot neighbours along, and they
  belong to every set of hot pixels closed under neighbours it can have started in.
  `SpanStep` derives it from the calls with more visited pixels. This is where
  `ThresholdAssumption` is needed.
* `TypeCorrect`: clusters stay inside the heatmap and keep at least 3x3 pixels when they
  are extended, selected and merged (`SpanClustersFit`, `MergeOnceFits`).

`DetectorIInv` connects them with the state: the maximas are those of the blurred image,
the image clusters are spanned on has its size and has them undarkened. `ClusterIInv` adds
the clusters.

Only model-checked:

* liveness (`DevicesServed`, `StopHonoured`, `WedgedRecovers`, `EndsWithDevice`,
  `StopHonouredWhenBusy`, `Terminates`): it rests on fairness, which the prover
  does not handle;
* `Decoded`: that a list of reports is parsed into the samples it stands for needs an
  induction over the list and the positions of every struct made of it, which the folds
  of `IptsStream` define; it also depends on what messages are sent, and is left to TLC;
* `MergedApart`: whether five iterations suffice depends on the heatmap, so no theorem
  states it;
* the violations, which a counterexample settles.

## 5. Not modelled, and the plan

Not modelled: floating point that is not exact in integers (the gaussian fit and the
ellipse of `gaussian.hpp` and `ellipse.hpp`, thresholds and distances of tracker,
stabilizer and validator, tilt, tip offset); drawing and statistics of the tools
(calibrate, dump, perf, plot, show, check-device), which are sequential loops around
the same runner; the configuration loader, which applies files in the order of
their names and has no state that outlives it; captured files and repeated calls of
`run`, which only the tools use; packaging. An overflow of the inotify queue and
a signal during the destructors are described under "hazards".

Open: `Runner` as the child process of `DeviceManager`. That an iptsd ends when its
device does is an assumption there and a property here. The constant `Ipts` of
`DeviceManager` is what `Detected` of `IptsDetector` computes.
