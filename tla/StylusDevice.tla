---------------------------- MODULE StylusDevice ----------------------------
(***************************************************************************)
(* The virtual stylus of iptsd (apps/daemon/stylus.hpp).  Of a sample only *)
(* the flags are kept; coordinates, pressure and tilt are passed on.       *)
(***************************************************************************)
EXTENDS UinputDevice

VARIABLES
    m_active,       \* the stylus is in proximity and sending data
    m_last_sample,  \* m_last: of the last known state, what is looked at again
    penKeys         \* kernel: keys of the stylus device that are down

stylusVars == <<m_active, m_last_sample, penKeys>>

Samples == [proximity : BOOLEAN, contact : BOOLEAN, button : BOOLEAN, rubber : BOOLEAN]

PenKeys == {"BTN_TOUCH", "BTN_TOOL_PEN", "BTN_TOOL_RUBBER", "BTN_STYLUS"}

StylusInit ==
    /\ m_active = FALSE
    /\ m_last_sample = [proximity |-> FALSE, rubber |-> FALSE]
    /\ penKeys = {}

KeysOf(s) ==
    {IF s.rubber THEN "BTN_TOOL_RUBBER" ELSE "BTN_TOOL_PEN"}
        \cup (IF s.contact THEN {"BTN_TOUCH"} ELSE {})
        \cup (IF s.button THEN {"BTN_STYLUS"} ELSE {})

\* Fault: the tool is switched within one frame.
UpdateStylus_NoLift(s) ==
    /\ m_active' = s.proximity
    /\ penKeys' = IF m_active' THEN KeysOf(s) ELSE {}
    /\ m_last_sample' = [proximity |-> s.proximity, rubber |-> s.rubber]

\* update: a sample that switches the tool lifts the stylus for one frame.
UpdateStylus(s) ==
    /\ m_active' = (s.proximity /\ m_last_sample.rubber = s.rubber)
    /\ penKeys' = IF m_active' THEN KeysOf(s) ELSE {}
    /\ m_last_sample' = [proximity |-> s.proximity, rubber |-> s.rubber]

\* The keys update and lift write, in order.
StylusOrder == <<"BTN_TOUCH", "BTN_TOOL_PEN", "BTN_TOOL_RUBBER", "BTN_STYLUS">>

\* update, with a failing write: some keys have been written and the state is
\* not the last known one, or all have and it is; m_active is set in any case.
UpdateStylusThrows(s) ==
    \/ /\ m_active' = (s.proximity /\ m_last_sample.rubber = s.rubber)
       /\ penKeys' \in Partly(penKeys, StylusOrder, IF m_active' THEN KeysOf(s) ELSE {})
       /\ UNCHANGED m_last_sample
    \/ UpdateStylus(s)
=============================================================================
