------------------------------- MODULE Daemon -------------------------------
(***************************************************************************)
(* The iptsd daemon as an application (apps/daemon/daemon.hpp): it gets    *)
(* frames of contacts, button samples and stylus samples in any order and  *)
(* drives a touch device and a stylus device, one of which may disable the *)
(* other.                                                                  *)
(***************************************************************************)
EXTENDS TouchDevice, StylusDevice

VARIABLES
    seen,         \* history: what the call just made was about
    penReport     \* history: penKeys when the stylus was last synced

vars == <<staticVars, touchVars, stylusVars, writeErrors, seen, penReport>>

\* A frame in which every contact is to be shown, one with a palm, any other.
\* "unstable": the selected contact is to be shown, but skipped as unstable.
\* "none": no frame, one that was ignored or one that was not taken in fully.
KindOf(f) ==
    IF \E k \in DOMAIN f : f[k].index = m_single_index /\ Showable(f[k]) /\ ~f[k].stable
       /\ ~Blocked(f) THEN "unstable"
    ELSE IF f # <<>> /\ \A k \in DOMAIN f : f[k].stable /\ Showable(f[k]) THEN "good"
    ELSE IF \E k \in DOMAIN f : ~f[k].valid THEN "palm" ELSE "other"

IsTouchscreen == m_info = "touchscreen"

\* m_touch.has_value() and m_stylus.has_value()
HasTouch == ~m_config.touch_disable
HasStylus == IsTouchscreen /\ ~m_config.stylus_disable

StylusDisablesTouch == m_config.touchscreen_disable_on_stylus /\ HasStylus

Init ==
    /\ m_info \in {"touchscreen", "touchpad"}
    /\ m_config \in Configs
    /\ TouchInit
    /\ StylusInit
    /\ writeErrors = 0
    /\ seen = "none"
    /\ penReport = {}

-----------------------------------------------------------------------------
\* Fault: the touchscreen is enabled whatever the stylus does.
Enabled_Always == TRUE

\* on_touch enables the touchscreen if it was disabled by a stylus that is no
\* longer active.
Enabled == m_enabled \/ (StylusDisablesTouch /\ ~m_active)

OnTouch(f) ==
    /\ HasTouch
    /\ UpdateContacts(Enabled, f)
    /\ seen' = IF Enabled THEN KindOf(f) ELSE "none"
    /\ UNCHANGED <<staticVars, stylusVars, writeErrors, penReport>>

\* on_button.  A touchscreen does not register BTN_LEFT, the kernel drops it there.
OnButton(active) ==
    /\ HasTouch /\ ~IsTouchscreen
    /\ UpdateButton(active)
    /\ seen' = "none"
    /\ UNCHANGED <<staticVars, stylusVars, writeErrors, penReport>>

\* on_stylus disables the touchscreen, whether or not the sample is in proximity.
OnStylus(s) ==
    /\ HasStylus
    /\ IF StylusDisablesTouch /\ HasTouch /\ m_enabled
       THEN Disable
       ELSE UNCHANGED touchVars
    /\ UpdateStylus(s)
    /\ penReport' = penKeys'
    /\ seen' = "none"
    /\ UNCHANGED <<staticVars, writeErrors>>

\* A write to uinput fails; the runner catches the exception and goes on with
\* the next buffer.
OnTouchThrows(f) ==
    /\ HasTouch /\ writeErrors < MaxWriteErrors
    /\ UpdateThrows(Enabled, f)
    /\ writeErrors' = writeErrors + 1
    /\ seen' = "none"
    /\ UNCHANGED <<staticVars, stylusVars, penReport>>

OnStylusThrows(s) ==
    /\ HasStylus /\ writeErrors < MaxWriteErrors
    /\ \/ /\ StylusDisablesTouch /\ HasTouch /\ m_enabled
          /\ DisableThrows
          /\ UNCHANGED stylusVars
       \/ /\ IF StylusDisablesTouch /\ HasTouch /\ m_enabled
             THEN Disable
             ELSE UNCHANGED touchVars
          /\ UpdateStylusThrows(s)
    /\ writeErrors' = writeErrors + 1
    /\ seen' = "none"
    /\ UNCHANGED <<staticVars, penReport>>

Next ==
    \/ \E f \in Frames : OnTouch(f) \/ OnTouchThrows(f)
    \/ \E active \in BOOLEAN : OnButton(active)
    \/ \E s \in Samples : OnStylus(s) \/ OnStylusThrows(s)

Spec == Init /\ [][Next]_vars

-----------------------------------------------------------------------------
(* Properties.                                                             *)

TypeOK ==
    /\ m_info \in {"touchscreen", "touchpad"} /\ m_config \in Configs
    /\ m_enabled \in BOOLEAN
    /\ m_current \subseteq Indices /\ m_last \subseteq Indices
    /\ m_single_index \in Indices
    /\ mt \subseteq Indices /\ keys \subseteq TouchKeys
    /\ m_active \in BOOLEAN /\ penKeys \subseteq PenKeys /\ penReport \subseteq PenKeys
    /\ m_last_sample \in [proximity : BOOLEAN, rubber : BOOLEAN]
    /\ writeErrors \in 0..MaxWriteErrors
    /\ seen \in {"good", "palm", "unstable", "other", "none"}

\* As long as every write succeeds, a slot of the kernel that is in use belongs
\* to a contact of the last frame: lifted contacts are lifted in the kernel,
\* across unstable frames, palms and a stylus coming and going.
NoGhostWithoutErrors == writeErrors = 0 => mt \subseteq m_current

\* While the pointer is down, the contact it follows is down as well.
PointerFollowsTouch ==
    writeErrors = 0 /\ "BTN_TOUCH" \in keys => m_single_index \in mt

\* A touchpad has exactly one tool down while the pointer is down, and none
\* while it is up.  A write that fails between the events of a frame leaves it
\* otherwise, until the next frame that is taken in fully: that repairs it.
OneFingerTool ==
    m_info = "touchpad" /\ (writeErrors = 0 \/ seen # "none") =>
        Cardinality(keys \cap ToolKeys) = IF "BTN_TOUCH" \in keys THEN 1 ELSE 0

\* While the stylus is active the touchscreen it disables is silent: nothing
\* the hand does below the pen gets through, in whatever order the samples and
\* the frames of a buffer arrive.
ActiveStylusSilencesTouch ==
    StylusDisablesTouch /\ HasTouch /\ m_active =>
        /\ ~m_enabled
        /\ writeErrors = 0 => mt = {} /\ keys = {}

\* No report has both pen and rubber, and between a report with the one and a
\* report with the other there is a report with neither (apps/daemon/stylus.hpp:
\* "Switching tools within one frame causes issues, lift the stylus for one
\* frame"), unless the call before did not report what it wrote: the report
\* with neither may be the one that a failing write has cost.
ToolIn(K) == K \cap {"BTN_TOOL_PEN", "BTN_TOOL_RUBBER"}
Tool == ToolIn(penKeys)
ToolSwitchLifts ==
    [][penReport = penKeys =>
         \/ ToolIn(penReport) = {}
         \/ ToolIn(penReport') = {}
         \/ ToolIn(penReport') = ToolIn(penReport) /\ Cardinality(ToolIn(penReport)) = 1]_vars

\* A frame with a palm leaves nothing on the screen, not even the contacts of
\* the frame before it.
PalmLiftsEverything ==
    m_config.disable_on_palm /\ seen = "palm" /\ writeErrors = 0 =>
        mt = {} /\ "BTN_TOUCH" \notin keys

\* If the contacts of two frames in a row are the same and all to be shown,
\* the pointer is down after the second, whichever contact was selected before:
\* a selected contact that is gone is replaced and the replacement emitted.
RepeatedFrameSelects ==
    [][seen = "good" /\ seen' = "good" /\ m_current' = m_current =>
         "BTN_TOUCH" \in keys']_vars

-----------------------------------------------------------------------------
(* What comments say and the code does not do.                             *)

\* apps/daemon/touch.hpp, process: "Ignore unstable changes".  A contact that
\* is skipped because it is unstable leaves the pointer as it is.
UnstableIsIgnored ==
    [][seen' = "unstable" => ("BTN_TOUCH" \in keys <=> "BTN_TOUCH" \in keys')]_vars
=============================================================================
