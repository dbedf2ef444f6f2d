------------------------------ MODULE Pipeline ------------------------------
(***************************************************************************)
(* From contacts to the kernel: the finder and the daemon composed as in   *)
(* process_touch of core/generic/application.hpp.  Daemon alone takes any  *)
(* frame; here the frames are those the tracker, the stabilizer and the    *)
(* validator make of the frame before, whether or not the touch device is  *)
(* enabled when it gets them.  Writes that fail are left to Daemon.        *)
(***************************************************************************)
EXTENDS Integers, Sequences, FiniteSets

CONSTANTS
    MaxDetected,        \* bound on the contacts in a heatmap
    MAX_CONTACTS        \* last slot of the touch device

ASSUME PipelineAssumption == MaxDetected \in Nat /\ MAX_CONTACTS \in Nat

VARIABLES
    frame,              \* the last frame of the finder
    fresh,              \* history: indices in it of fingers that just came down (Newcomers)
    m_info, m_config, m_enabled, m_current, m_last, m_single_index, mt, keys,
    m_active, m_last_sample, penKeys, writeErrors, seen, penReport

daemonVars == <<m_info, m_config, m_enabled, m_current, m_last, m_single_index, mt, keys,
                m_active, m_last_sample, penKeys, writeErrors, seen, penReport>>
vars == <<frame, fresh, daemonVars>>

F == INSTANCE Finder WITH m_last <- frame
D == INSTANCE Daemon WITH Indices <- 0 .. 2 * MaxDetected - 2, MaxFrame <- MaxDetected,
                          MaxWriteErrors <- 0

\* Without a touch device frames go nowhere, and where the stylus does not
\* disable the touchscreen all is as if it never sent anything.
Init ==
    /\ F!Init /\ fresh = {}
    /\ D!Init /\ ~m_config.touch_disable
    /\ ~m_config.stylus_disable /\ m_config.touchscreen_disable_on_stylus

\* Which contact of the new frame is the finger of which contact of the last:
\* the tracker does not know, it pairs as many as it can by their distance.
Fingers(n) ==
    UNION {F!Injection(X, DOMAIN frame) : X \in SUBSET (1..n)}

\* The indices of fingers that just came down, other than those of fingers that
\* were lifted in the same frame; was says who is who in truth.  None if the
\* tracker took a finger that stayed for another.
Newcomers(was, match) ==
    IF \A k \in DOMAIN was : k \in DOMAIN match /\ match[k] = was[k]
    THEN {frame'[k].index : k \in DOMAIN frame' \ DOMAIN was}
           \ {frame[j].index : j \in DOMAIN frame \ {was[k] : k \in DOMAIN was}}
    ELSE {}

\* The finder judges every frame and hands it to on_touch.  A contact may be on
\* the border of the screen whatever else it is.
ProcessTouch(n) ==
    \E match \in F!Matchings(n), jumped, fits, inside \in [1..n -> BOOLEAN] :
        /\ F!FindWith(n, match, jumped, fits)
        /\ fresh' \in {Newcomers(was, match) : was \in Fingers(n)}
        /\ LET f == [k \in 1..n |-> [index |-> frame'[k].index, valid |-> frame'[k].valid,
                                     stable |-> frame'[k].stable, inside |-> inside[k]]]
           IN  D!OnTouch(f)

ProcessButton == \E active \in BOOLEAN : D!OnButton(active)

ProcessStylus == \E s \in D!Samples : D!OnStylus(s)

Next ==
    \/ \E n \in 0..MaxDetected : ProcessTouch(n)
    \/ /\ ProcessButton \/ ProcessStylus
       /\ fresh' = {} /\ UNCHANGED frame

Spec == Init /\ [][Next]_vars

-----------------------------------------------------------------------------
(* Properties.                                                             *)

\* What Daemon assumes of frames the finder guarantees, after any sequence of
\* frames: every index is one of the slots, none occurs twice, and no contact is
\* both unstable and invalid.  So what holds of Daemon holds of the two together.
FramesAreAsAssumed ==
    [k \in DOMAIN frame |-> [index |-> frame[k].index, valid |-> frame[k].valid,
                            stable |-> frame[k].stable, inside |-> TRUE]] \in D!Frames

\* A slot of the kernel that is in use passes to a finger that has just come
\* down only if it was the slot of one that was lifted in the same frame, which
\* the tracker cannot tell from one that moved; never if the finger it belongs
\* to stays down.  This is so however contacts come, go and trade places, palms
\* block frames and the stylus silences the screen in between, unless the tracker
\* takes a finger that stays for another.
SlotsAreFingers == [][mt \cap mt' \cap fresh' = {}]_vars

\* A contact that was judged a palm is not shown, and neither is what it has
\* become in the next frame: it may shrink to a finger or jump, and the touch
\* device may have been disabled by the stylus when the palm came down.
PalmsAreHidden ==
    [][\A k \in DOMAIN frame :
          ~frame[k].valid => frame[k].index \notin mt \cup mt']_vars
=============================================================================
