---------------------------- MODULE Application ----------------------------
(***************************************************************************)
(* The way of a stylus from its antenna measurements to the keys of the    *)
(* virtual device: core/generic/application.hpp around DftStylus and       *)
(* StylusDevice.  Tip offset and orientation only shift coordinates.       *)
(***************************************************************************)
EXTENDS DftStylus, StylusDevice

VARIABLES
    m_info,                 \* "touchscreen" or "touchpad"
    dft_allow_split_events, \* the configuration
    penPressure             \* kernel: whether ABS_PRESSURE is above zero

ApplicationInit ==
    /\ DftInit /\ StylusInit
    /\ m_info \in {"touchscreen", "touchpad"}
    /\ dft_allow_split_events \in BOOLEAN
    /\ penPressure = FALSE

deviceVars == <<stylusVars, penPressure>>

\* A touchpad has no stylus.  Lifting the stylus leaves its axes as they are.
ProcessStylus(s) ==
    IF m_info = "touchscreen"
    THEN /\ UpdateStylus(s)
         /\ penPressure' = IF m_active' THEN s.pressure ELSE penPressure
    ELSE UNCHANGED deviceVars

\* A window changes a part of the stylus; an event is held back until the
\* position arrives, unless the configuration allows to split it.
ProcessDft(w) ==
    /\ IF m_info = "touchscreen"
       THEN /\ Input(w)
            /\ IF EmitEvent(w) \/ dft_allow_split_events
               THEN ProcessStylus(m_stylus')
               ELSE UNCHANGED deviceVars
       ELSE UNCHANGED <<dftVars, deviceVars>>
    /\ UNCHANGED <<m_info, dft_allow_split_events>>
=============================================================================
