----------------------------- MODULE TouchDevice -----------------------------
(***************************************************************************)
(* The virtual touchscreen or touchpad of iptsd (apps/daemon/touch.hpp):   *)
(* it turns frames of contacts into multitouch and singletouch events.     *)
(*                                                                         *)
(* Besides the members of the class the state holds what the kernel made   *)
(* of the events: the multitouch slots that have a tracking id, and the    *)
(* keys that are down.  Positions and sizes are left out; of a contact's   *)
(* position only matters whether it is within the area plus overshoot.     *)
(*                                                                         *)
(* The operations are written as operators over primed variables; Daemon   *)
(* calls them.                                                             *)
(***************************************************************************)
EXTENDS Integers, Sequences, FiniteSets, UinputDevice

CONSTANTS
    Indices,          \* contact indices; one multitouch slot of the kernel each
    MaxFrame,         \* bound on the contacts in a frame
    MaxWriteErrors    \* bound on failing writes to uinput

ASSUME TouchAssumption ==
    /\ 0 \in Indices
    /\ MaxFrame \in Nat
    /\ MaxWriteErrors \in Nat

VARIABLES
    m_info,           \* "touchscreen" or "touchpad"
    m_config,         \* the options the daemon looks at
    m_enabled,
    m_current,        \* indices of the contacts in the current frame
    m_last,           \* and in the one before
    m_single_index,   \* the contact emitted through the singletouch API
    mt,               \* kernel: slots with a tracking id
    keys,             \* kernel: keys of the touch device that are down
    writeErrors

touchVars   == <<m_enabled, m_current, m_last, m_single_index, mt, keys>>
staticVars  == <<m_info, m_config>>

\* touch_disable is touchscreen_disable or touchpad_disable, disable_on_palm the
\* option of the same device: only those of the device at hand are ever read.
Configs == [touch_disable : BOOLEAN, disable_on_palm : BOOLEAN,
            stylus_disable : BOOLEAN, touchscreen_disable_on_stylus : BOOLEAN]

\* Every contact that gets here has an index, the tracker sees to that; the
\* validator leaves a contact that is not stable valid.
Contacts ==
    {c \in [index : Indices, valid : BOOLEAN, stable : BOOLEAN, inside : BOOLEAN] :
        c.stable \/ c.valid}

\* No index occurs twice in a frame.
Frames ==
    UNION {{f \in [1..n -> Contacts] :
              \A i, j \in 1..n : f[i].index = f[j].index => i = j} : n \in 0..MaxFrame}

IndicesOf(f) == {f[k].index : k \in DOMAIN f}

ToolKeys == {"BTN_TOOL_FINGER", "BTN_TOOL_DOUBLETAP", "BTN_TOOL_TRIPLETAP",
             "BTN_TOOL_QUADTAP", "BTN_TOOL_QUINTTAP"}
TouchKeys == ToolKeys \cup {"BTN_TOUCH", "BTN_LEFT"}

TouchInit ==
    /\ m_enabled = TRUE
    /\ m_current = {} /\ m_last = {}
    /\ m_single_index = 0
    /\ mt = {} /\ keys = {}

-----------------------------------------------------------------------------
(* What a frame asks for.                                                  *)

\* search_lifted: present in the last frame but not in this one.
Lifted(f) == m_current \ IndicesOf(f)

\* is_blocked
Blocked(f) == m_config.disable_on_palm /\ \E k \in DOMAIN f : ~f[k].valid

Showable(c) == c.valid /\ c.inside

\* The contacts process() emits and lifts; those that are not stable it skips.
Emitted(f) == {f[k].index : k \in {j \in DOMAIN f : f[j].stable /\ Showable(f[j])}}
Dropped(f) == {f[k].index : k \in {j \in DOMAIN f : f[j].stable /\ ~Showable(f[j])}}

\* emit_singletouch: on a touchpad the number of contacts selects the tool.
ToolOf(n) ==
    CASE n = 1 -> "BTN_TOOL_FINGER"    [] n = 2 -> "BTN_TOOL_DOUBLETAP"
      [] n = 3 -> "BTN_TOOL_TRIPLETAP" [] n = 4 -> "BTN_TOOL_QUADTAP"
      [] OTHER -> "BTN_TOOL_QUINTTAP"

\* Fault: a tool is pressed and the one before it not released.
PointerDown_KeepsTool(n) ==
    IF m_info = "touchpad" THEN keys \cup {"BTN_TOUCH", ToolOf(n)}
                           ELSE keys \cup {"BTN_TOUCH"}

PointerDown(n) ==
    IF m_info = "touchpad" THEN (keys \ ToolKeys) \cup {"BTN_TOUCH", ToolOf(n)}
                           ELSE keys \cup {"BTN_TOUCH"}

\* The keys emit_singletouch and lift_singletouch write, in order.
Tools == <<"BTN_TOOL_FINGER", "BTN_TOOL_DOUBLETAP", "BTN_TOOL_TRIPLETAP",
           "BTN_TOOL_QUADTAP", "BTN_TOOL_QUINTTAP">>
DownOrder == <<"BTN_TOUCH">> \o (IF m_info = "touchpad" THEN Tools ELSE <<>>)
UpOrder ==
    <<"BTN_TOUCH">> \o (IF m_info = "touchpad" THEN <<"BTN_LEFT">> \o Tools ELSE <<>>)

\* lift_singletouch, which releases the button of a touchpad too.
PointerUp == IF m_info = "touchpad" THEN keys \ TouchKeys ELSE keys \ {"BTN_TOUCH"}

\* Fault: the position of the contact in the frame is taken for its index.
Reselect_Position(f) ==
    LET candidates == {k \in DOMAIN f : f[k].index # m_single_index /\ f[k].valid} IN
    IF candidates = {}
    THEN UNCHANGED m_single_index
    ELSE \E k \in candidates :
            /\ \A j \in candidates : k <= j
            /\ m_single_index' = k

\* Fault: the comparison that skips the selected contact is inverted.
Reselect_Same(f) ==
    LET candidates == {k \in DOMAIN f : f[k].index = m_single_index /\ f[k].valid} IN
    IF candidates = {}
    THEN UNCHANGED m_single_index
    ELSE \E k \in candidates :
            /\ \A j \in candidates : k <= j
            /\ m_single_index' = f[k].index

\* The first contact that is valid and not the selected one.
Reselect(f) ==
    LET candidates == {k \in DOMAIN f : f[k].index # m_single_index /\ f[k].valid} IN
    IF candidates = {}
    THEN UNCHANGED m_single_index
    ELSE \E k \in candidates :
            /\ \A j \in candidates : k <= j
            /\ m_single_index' = f[k].index

\* Fault: what the last frame has left is not lifted.
LiftAll_CurrentOnly ==
    /\ mt' = mt \ m_current'
    /\ keys' = PointerUp
    /\ UNCHANGED m_single_index

\* lift_all
LiftAll ==
    /\ mt' = mt \ (m_current' \cup m_last')
    /\ keys' = PointerUp
    /\ UNCHANGED m_single_index

\* lift_all, with a failing write: some slots are lifted, or all of them and
\* some keys, or only the final sync is missing.
LiftAllThrows ==
    /\ \/ /\ \E S \in SUBSET (m_current' \cup m_last') : mt' = mt \ S
          /\ UNCHANGED keys
       \/ /\ mt' = mt \ (m_current' \cup m_last')
          /\ keys' \in Partly(keys, UpOrder, PointerUp)
    /\ UNCHANGED m_single_index

\* Fault: m_lift is computed and not used.
Process_NoLift(f) ==
    /\ mt' = (mt \ Dropped(f)) \cup Emitted(f)
    /\ IF m_single_index \in Emitted(f)
       THEN keys' = PointerDown(Cardinality(IndicesOf(f))) /\ UNCHANGED m_single_index
       ELSE keys' = PointerUp /\ Reselect(f)

\* Fault: the singletouch contact is not released when it is lifted.
Process_NoReset(f) ==
    /\ mt' = (mt \ (Dropped(f) \cup Lifted(f))) \cup Emitted(f)
    /\ IF m_single_index \in Emitted(f)
       THEN keys' = PointerDown(Cardinality(IndicesOf(f))) /\ UNCHANGED m_single_index
       ELSE UNCHANGED keys /\ Reselect(f)

\* process: the multitouch contacts, then the selected one as singletouch.
Process(f) ==
    /\ mt' = (mt \ (Dropped(f) \cup Lifted(f))) \cup Emitted(f)
    /\ IF m_single_index \in Emitted(f)
       THEN keys' = PointerDown(Cardinality(IndicesOf(f))) /\ UNCHANGED m_single_index
       ELSE keys' = PointerUp /\ Reselect(f)

\* process, with a failing write: the first n contacts have reached the kernel,
\* of the last one perhaps only some keys; then some of the lifted ones have;
\* then some keys of lift_singletouch.  Nothing is selected before all is written.
ProcessThrows(f) ==
    LET down == PointerDown(Cardinality(IndicesOf(f))) IN
    /\ \/ \E n \in 0..Len(f) :
             LET g == SubSeq(f, 1, n) IN
             /\ mt' = (mt \ Dropped(g)) \cup Emitted(g)
             /\ keys' \in IF m_single_index \notin Emitted(g) THEN {keys}
                         ELSE IF f[n].index = m_single_index
                              THEN Partly(keys, DownOrder, down) ELSE {down}
       \/ /\ \E S \in SUBSET Lifted(f) :
                mt' = (mt \ (Dropped(f) \cup S)) \cup Emitted(f)
          /\ keys' = IF m_single_index \in Emitted(f) THEN down ELSE keys
       \/ /\ m_single_index \notin Emitted(f)
          /\ mt' = (mt \ (Dropped(f) \cup Lifted(f))) \cup Emitted(f)
          /\ keys' \in Partly(keys, UpOrder, PointerUp)
    /\ UNCHANGED m_single_index

-----------------------------------------------------------------------------
(* The operations.                                                         *)

\* update(contacts), when m_enabled has become "enabled".
UpdateContacts(enabled, f) ==
    /\ m_enabled' = enabled
    /\ IF enabled
       THEN /\ m_current' = IndicesOf(f)
            /\ m_last' = m_current
            /\ IF Blocked(f) THEN LiftAll ELSE Process(f)
       ELSE UNCHANGED <<m_current, m_last, m_single_index, mt, keys>>

\* A write fails on the way: the sets of the frame have been replaced, and some
\* of it has reached the kernel, or only the final sync is missing.
UpdateThrows(enabled, f) ==
    /\ enabled
    /\ m_enabled' = TRUE
    /\ m_current' = IndicesOf(f)
    /\ m_last' = m_current
    /\ IF Blocked(f) THEN LiftAllThrows ELSE Process(f) \/ ProcessThrows(f)

\* update(button)
UpdateButton(active) ==
    /\ keys' = IF ~m_enabled THEN keys
               ELSE IF active THEN keys \cup {"BTN_LEFT"} ELSE keys \ {"BTN_LEFT"}
    /\ UNCHANGED <<m_enabled, m_current, m_last, m_single_index, mt>>

\* disable
Disable ==
    /\ m_enabled' = FALSE
    /\ m_current' = {} /\ m_last' = {}
    /\ mt' = mt \ (m_current \cup m_last)
    /\ keys' = PointerUp
    /\ UNCHANGED m_single_index

\* disable, with a failing write: m_enabled is cleared already, the sets are
\* not.
DisableThrows ==
    /\ m_enabled' = FALSE
    /\ UNCHANGED <<m_current, m_last>>
    /\ LiftAllThrows
=============================================================================
