---------------------------- MODULE DaemonProofs ----------------------------
(***************************************************************************)
(* Safety of the daemon for every set of indices, every length of a frame  *)
(* and every number of failing writes: what the kernel holds follows what  *)
(* is on the screen, and what pen, palm and pointer do to each other.  The  *)
(* last part is about the process that runs it.                            *)
(***************************************************************************)
EXTENDS Daemon, Runner, FiniteSetTheorems, SequenceTheorems, TLAPS

-----------------------------------------------------------------------------
(* The invariant.                                                          *)

\* OneFingerTool without the count.
OneTool ==
    m_info = "touchpad" /\ (writeErrors = 0 \/ seen # "none") =>
        IF "BTN_TOUCH" \in keys THEN \E t \in ToolKeys : keys \cap ToolKeys = {t}
                                ELSE keys \cap ToolKeys = {}

\* A touchscreen has one key only, so lifting the pointer leaves none.
ScreenKeys == m_info = "touchscreen" => keys \subseteq {"BTN_TOUCH"}

\* Only a touchscreen is ever disabled, and then nothing is left on it.
DisabledIsSilent ==
    ~m_enabled => /\ m_info = "touchscreen"
                  /\ writeErrors = 0 => mt = {} /\ keys = {}

\* The touchscreen is disabled before the stylus becomes active.
ActiveDisables == StylusDisablesTouch /\ HasTouch /\ m_active => ~m_enabled

\* After a frame of which all is shown the selected contact is one of it.
GoodSelects == seen = "good" => m_single_index \in m_current

\* The tool that is down is that of the last known state.
ToolIsLast ==
    Tool = {} \/ Tool = {IF m_last_sample.rubber THEN "BTN_TOOL_RUBBER" ELSE "BTN_TOOL_PEN"}

IInv ==
    /\ TypeOK
    /\ NoGhostWithoutErrors
    /\ PointerFollowsTouch
    /\ OneTool
    /\ ScreenKeys
    /\ DisabledIsSilent
    /\ ActiveDisables
    /\ PalmLiftsEverything
    /\ GoodSelects
    /\ ToolIsLast

-----------------------------------------------------------------------------
(* The operators of TouchDevice.                                           *)

\* A frame is a sequence of contacts, no longer than the bound.
LEMMA FrameType ==
  ASSUME NEW f \in Frames
  PROVE  f \in Seq(Contacts)
<1>1. PICK n \in 0..MaxFrame : f \in [1..n -> Contacts]
  BY DEF Frames
<1>2. n \in Nat
  BY TouchAssumption
<1> QED
  BY <1>1, <1>2

\* What is shown or hidden of a sequence of contacts are indices of it.
LEMMA IndicesType ==
  ASSUME NEW f \in Seq(Contacts)
  PROVE  /\ IndicesOf(f) \subseteq Indices
         /\ Emitted(f) \subseteq IndicesOf(f)
         /\ Dropped(f) \subseteq IndicesOf(f)
<1>1. \A k \in DOMAIN f : f[k].index \in Indices
  BY DEF Contacts
<1> QED
  BY <1>1 DEF IndicesOf, Emitted, Dropped

\* The contacts a failing write leaves in front of it are contacts of the frame.
LEMMA PrefixType ==
  ASSUME NEW f \in Seq(Contacts), NEW n \in 0..Len(f)
  PROVE  /\ SubSeq(f, 1, n) \in Seq(Contacts)
         /\ Emitted(SubSeq(f, 1, n)) \subseteq Emitted(f)
<1>1. SubSeq(f, 1, n) \in Seq(Contacts)
  OBVIOUS
<1>2. \A k \in DOMAIN SubSeq(f, 1, n) : k \in DOMAIN f /\ SubSeq(f, 1, n)[k] = f[k]
  OBVIOUS
<1> QED
  BY <1>1, <1>2 DEF Emitted

LEMMA ToolOfType == \A n : ToolOf(n) \in ToolKeys
  BY DEF ToolOf, ToolKeys

\* emit_singletouch presses the pointer and, on a touchpad, one tool.
LEMMA PointerDownKeys ==
  ASSUME keys \subseteq TouchKeys, NEW n
  PROVE  /\ PointerDown(n) \subseteq TouchKeys
         /\ "BTN_TOUCH" \in PointerDown(n)
         /\ m_info = "touchpad" => PointerDown(n) \cap ToolKeys = {ToolOf(n)}
         /\ m_info = "touchscreen" => PointerDown(n) = keys \cup {"BTN_TOUCH"}
<1>1. ToolOf(n) \in ToolKeys
  BY ToolOfType
<1> QED
  BY <1>1 DEF PointerDown, TouchKeys, ToolKeys

\* lift_singletouch releases the pointer and, on a touchpad, every tool.
LEMMA PointerUpKeys ==
  ASSUME keys \subseteq TouchKeys
  PROVE  /\ PointerUp \subseteq keys
         /\ "BTN_TOUCH" \notin PointerUp
         /\ m_info = "touchpad" => PointerUp = {}
         /\ m_info = "touchscreen" => PointerUp = keys \ {"BTN_TOUCH"}
  BY DEF PointerUp, TouchKeys, ToolKeys

\* What a failing write leaves behind was down or was to be.
LEMMA PartlyWithin ==
  ASSUME NEW before, NEW order, NEW target, NEW K \in Partly(before, order, target)
  PROVE  K \subseteq before \cup target
  BY DEF Partly

\* The replacement of the selected contact is one of the frame.
LEMMA ReselectType ==
  ASSUME NEW f \in Seq(Contacts), Reselect(f)
  PROVE  \/ m_single_index' = m_single_index
         \/ m_single_index' \in IndicesOf(f)
  BY DEF Reselect, IndicesOf

\* If there is another contact that is valid, the selection moves into the frame.
LEMMA ReselectMoves ==
  ASSUME NEW f \in Seq(Contacts), Reselect(f),
         NEW k \in DOMAIN f, f[k].index # m_single_index, f[k].valid
  PROVE  m_single_index' \in IndicesOf(f)
  BY DEF Reselect, IndicesOf

\* KindOf calls a frame good only if it is not empty and all of it is shown.
LEMMA GoodFrame ==
  ASSUME NEW f \in Seq(Contacts), KindOf(f) = "good"
  PROVE  /\ DOMAIN f # {}
         /\ \A k \in DOMAIN f : f[k].stable /\ f[k].valid
         /\ Emitted(f) = IndicesOf(f)
         /\ ~Blocked(f)
<1>1. f # <<>> /\ \A k \in DOMAIN f : f[k].stable /\ Showable(f[k])
  BY DEF KindOf
<1>2. DOMAIN f # {}
  BY <1>1
<1> QED
  BY <1>1, <1>2 DEF Emitted, IndicesOf, Blocked, Showable

\* It calls one a palm only if a contact of it is not valid.
LEMMA PalmFrame ==
  ASSUME NEW f \in Seq(Contacts), KindOf(f) = "palm", m_config.disable_on_palm
  PROVE  Blocked(f)
  BY DEF KindOf, Blocked

LEMMA KindType == \A f : KindOf(f) \in {"good", "palm", "unstable", "other", "none"}
  BY DEF KindOf

-----------------------------------------------------------------------------
(* The invariant holds at first and every action preserves it.             *)

USE TouchAssumption

LEMMA InitIInv == Init => IInv
<1> SUFFICES ASSUME Init PROVE IInv
  OBVIOUS
<1> USE DEF Init, TouchInit, StylusInit
<1>0. /\ m_enabled \in BOOLEAN /\ m_active \in BOOLEAN
      /\ m_last_sample \in [proximity : BOOLEAN, rubber : BOOLEAN]
  OBVIOUS
<1>1. TypeOK
  BY <1>0 DEF TypeOK
<1>2. OneTool /\ ScreenKeys /\ DisabledIsSilent /\ ActiveDisables
  BY DEF OneTool, ScreenKeys, DisabledIsSilent, ActiveDisables
<1>3. NoGhostWithoutErrors /\ PointerFollowsTouch /\ PalmLiftsEverything /\ GoodSelects
  BY DEF NoGhostWithoutErrors, PointerFollowsTouch, PalmLiftsEverything, GoodSelects
<1>4. ToolIsLast
  BY DEF ToolIsLast, Tool, ToolIn
<1> QED
  BY <1>1, <1>2, <1>3, <1>4 DEF IInv

\* What the touch device alone keeps, whether a write fails or not.
TouchType ==
    /\ m_enabled \in BOOLEAN
    /\ m_current \subseteq Indices /\ m_last \subseteq Indices
    /\ m_single_index \in Indices
    /\ mt \subseteq Indices /\ keys \subseteq TouchKeys

\* lift_all, after the sets of the frame have been replaced.
LEMMA LiftAllKeeps ==
  ASSUME IInv, UNCHANGED staticVars,
         m_enabled' = TRUE, m_current' \subseteq Indices, m_last' = m_current, LiftAll
  PROVE  /\ TouchType' /\ OneTool' /\ ScreenKeys'
         /\ mt' \subseteq mt
         /\ "BTN_TOUCH" \notin keys'
         /\ writeErrors = 0 => mt' = {}
<1> USE DEF IInv, TypeOK, staticVars, LiftAll
<1>1. /\ keys' = PointerUp /\ keys' \subseteq keys
      /\ "BTN_TOUCH" \notin keys'
      /\ m_info = "touchpad" => keys' = {}
  BY PointerUpKeys
<1>2. TouchType'
  BY <1>1 DEF TouchType
<1>3. OneTool' /\ ScreenKeys'
  BY <1>1 DEF OneTool, ScreenKeys
<1>4. writeErrors = 0 => mt' = {}
  BY DEF NoGhostWithoutErrors
<1> QED
  BY <1>1, <1>2, <1>3, <1>4

\* process, whatever became of the frame before.
LEMMA ProcessKeeps ==
  ASSUME IInv, UNCHANGED staticVars, NEW f \in Seq(Contacts),
         m_enabled' = TRUE, m_current' = IndicesOf(f), m_last' = m_current, Process(f)
  PROVE  /\ TouchType' /\ OneTool' /\ ScreenKeys'
         /\ writeErrors = 0 => mt' \subseteq m_current'
         /\ writeErrors = 0 /\ "BTN_TOUCH" \in keys' => m_single_index' \in mt'
         /\ KindOf(f) = "good" => m_single_index' \in m_current'
<1> USE DEF IInv, TypeOK, staticVars, Process
<1>0. /\ IndicesOf(f) \subseteq Indices
      /\ Emitted(f) \subseteq IndicesOf(f)
      /\ Dropped(f) \subseteq IndicesOf(f)
  BY IndicesType
<1>1. writeErrors = 0 => mt' \subseteq m_current'
  BY <1>0 DEF NoGhostWithoutErrors, Lifted
<1>2. CASE m_single_index \in Emitted(f)
  <2>1. keys' = PointerDown(Cardinality(IndicesOf(f))) /\ m_single_index' = m_single_index
    BY <1>2
  <2>2. /\ keys' \subseteq TouchKeys
        /\ "BTN_TOUCH" \in keys'
        /\ m_info = "touchpad" => keys' \cap ToolKeys = {ToolOf(Cardinality(IndicesOf(f)))}
        /\ m_info = "touchscreen" => keys' = keys \cup {"BTN_TOUCH"}
    BY <2>1, PointerDownKeys
  <2>3. TouchType'
    BY <1>0, <2>1, <2>2 DEF TouchType
  <2>4. OneTool' /\ ScreenKeys'
    BY <2>2, ToolOfType DEF OneTool, ScreenKeys
  <2>5. m_single_index' \in mt' /\ m_single_index' \in m_current'
    BY <1>0, <1>2, <2>1
  <2> QED
    BY <1>1, <2>3, <2>4, <2>5
<1>3. CASE m_single_index \notin Emitted(f)
  <2>1. keys' = PointerUp /\ Reselect(f)
    BY <1>3
  <2>2. /\ keys' \subseteq keys
        /\ "BTN_TOUCH" \notin keys'
        /\ m_info = "touchpad" => keys' = {}
    BY <2>1, PointerUpKeys
  <2>3. TouchType'
    BY <1>0, <2>1, <2>2, ReselectType DEF TouchType
  <2>4. OneTool' /\ ScreenKeys'
    BY <2>2 DEF OneTool, ScreenKeys
  <2>5. ASSUME KindOf(f) = "good" PROVE m_single_index' \in IndicesOf(f)
    <3>1. PICK k \in DOMAIN f : TRUE
      BY <2>5, GoodFrame
    <3>2. f[k].valid /\ f[k].index # m_single_index
      BY <1>3, <2>5, GoodFrame DEF IndicesOf
    <3> QED
      BY <2>1, <3>2, ReselectMoves
  <2> QED
    BY <1>1, <2>2, <2>3, <2>4, <2>5
<1> QED
  BY <1>2, <1>3

\* on_touch (apps/daemon/daemon.hpp).
LEMMA OnTouchIInv ==
  ASSUME IInv, NEW f \in Frames, OnTouch(f)
  PROVE  IInv'
<1> USE DEF OnTouch, staticVars, stylusVars
<1>0. /\ f \in Seq(Contacts)
      /\ IndicesOf(f) \subseteq Indices
      /\ seen' \in {"good", "palm", "unstable", "other", "none"}
  BY FrameType, IndicesType, KindType
<1>1. ToolIsLast'
  BY DEF IInv, ToolIsLast, Tool, ToolIn
<1>2. CASE ~Enabled
  <2>1. UNCHANGED <<m_enabled, touchVars>> /\ seen' = "none"
    BY <1>2 DEF UpdateContacts, touchVars, Enabled, IInv, TypeOK
  <2>2. TypeOK'
    BY <2>1 DEF IInv, TypeOK, touchVars
  <2>3. OneTool' /\ ScreenKeys' /\ DisabledIsSilent' /\ ActiveDisables'
    BY <2>1 DEF IInv, OneTool, ScreenKeys, DisabledIsSilent, ActiveDisables, touchVars,
        StylusDisablesTouch, HasTouch, HasStylus, IsTouchscreen
  <2>4. NoGhostWithoutErrors' /\ PointerFollowsTouch' /\ PalmLiftsEverything' /\ GoodSelects'
    BY <2>1 DEF IInv, NoGhostWithoutErrors, PointerFollowsTouch, PalmLiftsEverything,
        GoodSelects, touchVars
  <2> QED
    BY <1>1, <2>2, <2>3, <2>4 DEF IInv
<1>3. CASE Enabled
  <2>1. /\ m_enabled' = TRUE
        /\ m_current' = IndicesOf(f) /\ m_last' = m_current
        /\ IF Blocked(f) THEN LiftAll ELSE Process(f)
        /\ seen' = KindOf(f)
    BY <1>3 DEF UpdateContacts
  <2>2. /\ TouchType' /\ OneTool' /\ ScreenKeys'
        /\ writeErrors = 0 => mt' \subseteq m_current'
        /\ writeErrors = 0 /\ "BTN_TOUCH" \in keys' => m_single_index' \in mt'
        /\ KindOf(f) = "good" => m_single_index' \in m_current'
        /\ Blocked(f) => "BTN_TOUCH" \notin keys' /\ (writeErrors = 0 => mt' = {})
    <3>1. CASE Blocked(f)
      BY <1>0, <2>1, <3>1, LiftAllKeeps, GoodFrame
    <3>2. CASE ~Blocked(f)
      BY <1>0, <2>1, <3>2, ProcessKeeps
    <3> QED
      BY <3>1, <3>2
  <2>3. TypeOK'
    BY <1>0, <2>2 DEF IInv, TypeOK, TouchType
  <2>4. DisabledIsSilent'
    BY <2>1 DEF DisabledIsSilent
  <2>5. ActiveDisables'
    BY <1>3 DEF IInv, ActiveDisables, Enabled, StylusDisablesTouch, HasTouch, HasStylus,
        IsTouchscreen
  <2>6. NoGhostWithoutErrors' /\ PointerFollowsTouch' /\ GoodSelects'
    BY <2>1, <2>2 DEF NoGhostWithoutErrors, PointerFollowsTouch, GoodSelects
  <2>7. PalmLiftsEverything'
    BY <1>0, <2>1, <2>2, PalmFrame DEF PalmLiftsEverything
  <2> QED
    BY <1>1, <2>2, <2>3, <2>4, <2>5, <2>6, <2>7 DEF IInv
<1> QED
  BY <1>2, <1>3

\* lift_all, when a write fails.
LEMMA LiftAllThrowsKeeps ==
  ASSUME IInv, UNCHANGED staticVars, LiftAllThrows
  PROVE  /\ mt' \subseteq Indices /\ keys' \subseteq TouchKeys
         /\ m_single_index' \in Indices
         /\ ScreenKeys'
<1>1. keys' \subseteq keys
  BY PartlyWithin, PointerUpKeys DEF LiftAllThrows, IInv, TypeOK
<1> QED
  BY <1>1 DEF LiftAllThrows, IInv, TypeOK, ScreenKeys, staticVars

\* process, when a write fails.
LEMMA ProcessThrowsKeeps ==
  ASSUME IInv, UNCHANGED staticVars, NEW f \in Seq(Contacts), ProcessThrows(f)
  PROVE  /\ mt' \subseteq Indices /\ keys' \subseteq TouchKeys
         /\ m_single_index' \in Indices
         /\ ScreenKeys'
<1> DEFINE down == PointerDown(Cardinality(IndicesOf(f)))
<1>1. mt' \subseteq mt \cup Emitted(f)
  BY PrefixType DEF ProcessThrows
<1>2. Emitted(f) \subseteq Indices
  BY IndicesType
<1>3. PointerUp \subseteq keys
  BY PointerUpKeys DEF IInv, TypeOK
<1>4. /\ down \subseteq TouchKeys
      /\ m_info = "touchscreen" => down = keys \cup {"BTN_TOUCH"}
  BY PointerDownKeys DEF IInv, TypeOK
<1> HIDE DEF down
<1>5. keys' \subseteq keys \cup down
  <2>1. \/ keys' \in {keys, down}
        \/ keys' \in Partly(keys, DownOrder, down)
        \/ keys' \in Partly(keys, UpOrder, PointerUp)
    BY DEF ProcessThrows, down
  <2>2. keys' \in Partly(keys, DownOrder, down) => keys' \subseteq keys \cup down
    BY PartlyWithin
  <2>3. keys' \in Partly(keys, UpOrder, PointerUp) => keys' \subseteq keys \cup PointerUp
    BY PartlyWithin
  <2> QED
    BY <1>3, <2>1, <2>2, <2>3
<1>6. m_single_index' = m_single_index
  BY DEF ProcessThrows
<1>7. ScreenKeys'
  BY <1>4, <1>5 DEF IInv, ScreenKeys, staticVars
<1> QED
  BY <1>1, <1>2, <1>4, <1>5, <1>6, <1>7 DEF IInv, TypeOK

\* on_touch, when a write fails (the runner catches the exception).
LEMMA OnTouchThrowsIInv ==
  ASSUME IInv, NEW f \in Frames, OnTouchThrows(f)
  PROVE  IInv'
<1> USE DEF OnTouchThrows, staticVars, stylusVars
<1>0. /\ f \in Seq(Contacts)
      /\ IndicesOf(f) \subseteq Indices
      /\ writeErrors' \in 0..MaxWriteErrors /\ writeErrors' # 0
      /\ seen' = "none"
  BY FrameType, IndicesType DEF IInv, TypeOK
<1>1. /\ Enabled
      /\ m_enabled' = TRUE
      /\ m_current' = IndicesOf(f) /\ m_last' = m_current
  BY DEF UpdateThrows
<1>2. TouchType' /\ ScreenKeys'
  <2> USE DEF IInv, TypeOK
  <2>1. CASE Blocked(f)
    BY <1>0, <1>1, <2>1, LiftAllThrowsKeeps DEF UpdateThrows, TouchType
  <2>2. CASE ~Blocked(f) /\ Process(f)
    BY <1>0, <1>1, <2>2, ProcessKeeps
  <2>3. CASE ~Blocked(f) /\ ProcessThrows(f)
    BY <1>0, <1>1, <2>3, ProcessThrowsKeeps DEF TouchType
  <2> QED
    BY <2>1, <2>2, <2>3 DEF UpdateThrows
<1>3. TypeOK'
  BY <1>0, <1>2 DEF IInv, TypeOK, TouchType
<1>4. ActiveDisables'
  BY <1>1 DEF IInv, ActiveDisables, Enabled, StylusDisablesTouch, HasTouch, HasStylus,
      IsTouchscreen
<1>7. OneTool'
  BY <1>0 DEF OneTool
<1>5. DisabledIsSilent' /\ GoodSelects' /\ ToolIsLast'
  BY <1>0, <1>1 DEF IInv, DisabledIsSilent, GoodSelects, ToolIsLast, Tool, ToolIn
<1>6. NoGhostWithoutErrors' /\ PointerFollowsTouch' /\ PalmLiftsEverything'
  BY <1>0 DEF NoGhostWithoutErrors, PointerFollowsTouch, PalmLiftsEverything
<1> QED
  BY <1>2, <1>3, <1>4, <1>5, <1>6, <1>7 DEF IInv

\* on_button: of the keys only that of the button changes.
LEMMA OnButtonIInv ==
  ASSUME IInv, NEW active \in BOOLEAN, OnButton(active)
  PROVE  IInv'
<1> USE DEF OnButton, UpdateButton, staticVars, stylusVars
<1>1. /\ keys' \subseteq TouchKeys
      /\ keys' \cap ToolKeys = keys \cap ToolKeys
      /\ "BTN_TOUCH" \in keys' <=> "BTN_TOUCH" \in keys
      /\ m_info = "touchpad" /\ m_info' = m_info /\ m_enabled
  BY DEF IInv, TypeOK, TouchKeys, ToolKeys, DisabledIsSilent, IsTouchscreen
<1>2. TypeOK'
  BY <1>1 DEF IInv, TypeOK
<1>3. OneTool' /\ ScreenKeys' /\ DisabledIsSilent'
  BY <1>1 DEF IInv, OneTool, ScreenKeys, DisabledIsSilent
<1>4. NoGhostWithoutErrors' /\ PointerFollowsTouch' /\ PalmLiftsEverything' /\ GoodSelects'
  BY <1>1 DEF IInv, NoGhostWithoutErrors, PointerFollowsTouch, PalmLiftsEverything, GoodSelects
<1>5. ActiveDisables' /\ ToolIsLast'
  BY DEF IInv, ActiveDisables, ToolIsLast, Tool, StylusDisablesTouch, HasTouch, HasStylus,
      IsTouchscreen
<1> QED
  BY <1>2, <1>3, <1>4, <1>5 DEF IInv

\* disable, called by on_stylus while the touchscreen is enabled.
LEMMA DisableKeeps ==
  ASSUME IInv, UNCHANGED staticVars, Disable
  PROVE  /\ TouchType' /\ OneTool' /\ ScreenKeys'
         /\ mt' \subseteq mt
         /\ "BTN_TOUCH" \notin keys'
         /\ m_info = "touchscreen" => keys' = {}
         /\ writeErrors = 0 => mt' = {}
<1> USE DEF IInv, TypeOK, staticVars, Disable
<1>1. /\ keys' = PointerUp /\ keys' \subseteq keys
      /\ "BTN_TOUCH" \notin keys'
      /\ m_info = "touchpad" => keys' = {}
      /\ m_info = "touchscreen" => keys' = keys \ {"BTN_TOUCH"}
  BY PointerUpKeys
<1>2. m_info = "touchscreen" => keys' = {}
  BY <1>1 DEF ScreenKeys
<1>3. TouchType' /\ OneTool' /\ ScreenKeys'
  BY <1>1 DEF TouchType, OneTool, ScreenKeys
<1>4. writeErrors = 0 => mt' = {}
  BY DEF NoGhostWithoutErrors
<1> QED
  BY <1>1, <1>2, <1>3, <1>4

\* A sample that keeps the stylus active keeps its tool.
LEMMA StylusTool ==
  ASSUME IInv, NEW s \in Samples, UpdateStylus(s)
  PROVE  /\ m_active' \in BOOLEAN /\ penKeys' \subseteq PenKeys
         /\ m_last_sample' \in [proximity : BOOLEAN, rubber : BOOLEAN]
         /\ ToolIsLast'
         /\ Tool' # {} => Tool = {} \/ Tool' = Tool
<1> USE DEF UpdateStylus, KeysOf, Tool, ToolIn, PenKeys
<1>1. s.proximity \in BOOLEAN /\ s.rubber \in BOOLEAN
  BY DEF Samples
<1>2. m_active' = (s.proximity /\ m_last_sample.rubber = s.rubber)
  OBVIOUS
<1>3. m_active' \in BOOLEAN
  BY <1>1, <1>2
<1>4. m_last_sample' = [proximity |-> s.proximity, rubber |-> s.rubber]
  OBVIOUS
<1>5. m_last_sample' \in [proximity : BOOLEAN, rubber : BOOLEAN]
  BY <1>1, <1>4
<1>6. /\ penKeys' \subseteq PenKeys
      /\ Tool' = IF m_active'
                 THEN {IF s.rubber THEN "BTN_TOOL_RUBBER" ELSE "BTN_TOOL_PEN"} ELSE {}
  OBVIOUS
<1>7. ToolIsLast'
  BY <1>4, <1>6 DEF ToolIsLast
<1>8. Tool' # {} => Tool = {} \/ Tool' = Tool
  BY <1>2, <1>6 DEF IInv, ToolIsLast
<1> QED
  BY <1>3, <1>5, <1>6, <1>7, <1>8

\* on_stylus.
LEMMA OnStylusIInv ==
  ASSUME IInv, NEW s \in Samples, OnStylus(s)
  PROVE  IInv'
<1> USE DEF OnStylus, staticVars
<1>1. /\ m_active' \in BOOLEAN /\ penKeys' \subseteq PenKeys
      /\ m_last_sample' \in [proximity : BOOLEAN, rubber : BOOLEAN]
      /\ ToolIsLast'
  BY StylusTool
<1>2. CASE StylusDisablesTouch /\ HasTouch /\ m_enabled
  <2>1. Disable /\ m_info = "touchscreen"
    BY <1>2 DEF HasStylus, IsTouchscreen
  <2>2. /\ TouchType' /\ OneTool' /\ ScreenKeys'
        /\ "BTN_TOUCH" \notin keys' /\ keys' = {}
        /\ writeErrors = 0 => mt' = {}
    BY <2>1, DisableKeeps
  <2>3. TypeOK'
    BY <1>1, <2>2 DEF IInv, TypeOK, TouchType
  <2>4. DisabledIsSilent' /\ ActiveDisables'
    BY <2>1, <2>2 DEF DisabledIsSilent, ActiveDisables, Disable
  <2>5. NoGhostWithoutErrors' /\ PointerFollowsTouch' /\ PalmLiftsEverything' /\ GoodSelects'
    BY <2>2 DEF NoGhostWithoutErrors, PointerFollowsTouch, PalmLiftsEverything, GoodSelects
  <2> QED
    BY <1>1, <2>2, <2>3, <2>4, <2>5 DEF IInv
<1>3. CASE ~(StylusDisablesTouch /\ HasTouch /\ m_enabled)
  <2>1. UNCHANGED touchVars
    BY <1>3
  <2> USE <2>1 DEF IInv, touchVars
  <2>2. TypeOK'
    BY <1>1 DEF TypeOK
  <2>3. OneTool' /\ ScreenKeys' /\ DisabledIsSilent'
    BY DEF OneTool, ScreenKeys, DisabledIsSilent
  <2>4. ActiveDisables'
    BY <1>3 DEF ActiveDisables, StylusDisablesTouch, HasTouch, HasStylus, IsTouchscreen
  <2>5. NoGhostWithoutErrors' /\ PointerFollowsTouch' /\ PalmLiftsEverything' /\ GoodSelects'
    BY DEF NoGhostWithoutErrors, PointerFollowsTouch, PalmLiftsEverything, GoodSelects
  <2> QED
    BY <1>1, <2>2, <2>3, <2>4, <2>5
<1> QED
  BY <1>2, <1>3

\* update of the stylus, when a write fails: the tool is that of the last known
\* state still, since another one is not pressed before it is.
LEMMA StylusThrowsTool ==
  ASSUME IInv, NEW s \in Samples, UpdateStylusThrows(s)
  PROVE  /\ m_active' \in BOOLEAN /\ penKeys' \subseteq PenKeys
         /\ m_last_sample' \in [proximity : BOOLEAN, rubber : BOOLEAN]
         /\ ToolIsLast'
<1>1. CASE UpdateStylus(s)
  BY <1>1, StylusTool
<1>2. CASE /\ m_active' = (s.proximity /\ m_last_sample.rubber = s.rubber)
           /\ penKeys' \in Partly(penKeys, StylusOrder, IF m_active' THEN KeysOf(s) ELSE {})
           /\ UNCHANGED m_last_sample
  <2>1. s.proximity \in BOOLEAN /\ s.rubber \in BOOLEAN
    BY DEF Samples
  <2>2. m_active' = (s.proximity /\ m_last_sample.rubber = s.rubber)
    BY <1>2
  <2>3. m_active' \in BOOLEAN
    BY <2>1, <2>2
  <2>4. penKeys' \subseteq penKeys \cup (IF m_active' THEN KeysOf(s) ELSE {})
    BY <1>2, PartlyWithin
  <2>5. KeysOf(s) \subseteq PenKeys
    BY DEF KeysOf, PenKeys
  <2>6. ToolIn(KeysOf(s)) = {IF s.rubber THEN "BTN_TOOL_RUBBER" ELSE "BTN_TOOL_PEN"}
    BY DEF KeysOf, ToolIn
  <2>7. m_active' => s.rubber = m_last_sample.rubber
    BY <2>2
  <2>8. ToolIn(penKeys') \subseteq
          ToolIn(penKeys) \cup (IF m_active' THEN ToolIn(KeysOf(s)) ELSE {})
    BY <2>4 DEF ToolIn
  <2>9. m_last_sample' = m_last_sample
    BY <1>2
  <2>10. ToolIsLast'
    BY <2>6, <2>7, <2>8, <2>9 DEF IInv, ToolIsLast, Tool
  <2> QED
    BY <2>3, <2>4, <2>5, <2>9, <2>10 DEF IInv, TypeOK
<1> QED
  BY <1>1, <1>2 DEF UpdateStylusThrows

\* on_stylus, when a write fails: in disable, or after it in the stylus device.
LEMMA OnStylusThrowsIInv ==
  ASSUME IInv, NEW s \in Samples, OnStylusThrows(s)
  PROVE  IInv'
<1> USE DEF OnStylusThrows, staticVars
<1>0. /\ writeErrors' \in 0..MaxWriteErrors /\ writeErrors' # 0
      /\ seen' = "none"
      /\ m_info = "touchscreen"
  BY DEF IInv, TypeOK, HasStylus, IsTouchscreen
<1>1. /\ m_active' \in BOOLEAN /\ penKeys' \subseteq PenKeys
      /\ m_last_sample' \in [proximity : BOOLEAN, rubber : BOOLEAN]
      /\ ToolIsLast'
  <2>1. CASE UNCHANGED stylusVars
    BY <2>1 DEF IInv, TypeOK, ToolIsLast, Tool, ToolIn, stylusVars
  <2>2. CASE UpdateStylusThrows(s)
    BY <2>2, StylusThrowsTool
  <2> QED
    BY <2>1, <2>2
<1>2. /\ TouchType' /\ ScreenKeys'
      /\ StylusDisablesTouch /\ HasTouch => m_enabled' = FALSE
  <2> USE DEF IInv, TypeOK
  <2>1. CASE Disable
    BY <1>0, <2>1, DisableKeeps DEF Disable
  <2>2. CASE ~(StylusDisablesTouch /\ HasTouch /\ m_enabled) /\ UNCHANGED touchVars
    BY <1>0, <2>2 DEF touchVars, TouchType, ScreenKeys
  <2>3. CASE DisableThrows
    <3>1. m_enabled' = FALSE /\ UNCHANGED <<m_current, m_last>> /\ LiftAllThrows
      BY <2>3 DEF DisableThrows
    <3> QED
      BY <1>0, <3>1, LiftAllThrowsKeeps DEF TouchType
  <2> QED
    BY <2>1, <2>2, <2>3
<1>3. TypeOK'
  BY <1>0, <1>1, <1>2 DEF IInv, TypeOK, TouchType
<1>4. ActiveDisables'
  BY <1>2 DEF ActiveDisables, StylusDisablesTouch, HasTouch, HasStylus, IsTouchscreen
<1>5. DisabledIsSilent' /\ GoodSelects' /\ OneTool'
  BY <1>0, <1>2 DEF IInv, DisabledIsSilent, GoodSelects, OneTool
<1>6. NoGhostWithoutErrors' /\ PointerFollowsTouch' /\ PalmLiftsEverything'
  BY <1>0 DEF NoGhostWithoutErrors, PointerFollowsTouch, PalmLiftsEverything
<1> QED
  BY <1>1, <1>2, <1>3, <1>4, <1>5, <1>6 DEF IInv

\* Every callback preserves the invariant.
LEMMA NextIInv == IInv /\ [Next]_vars => IInv'
<1> SUFFICES ASSUME IInv, [Next]_vars PROVE IInv'
  OBVIOUS
<1>1. ASSUME NEW f \in Frames, OnTouch(f) PROVE IInv'
  BY <1>1, OnTouchIInv
<1>2. ASSUME NEW f \in Frames, OnTouchThrows(f) PROVE IInv'
  BY <1>2, OnTouchThrowsIInv
<1>3. ASSUME NEW active \in BOOLEAN, OnButton(active) PROVE IInv'
  BY <1>3, OnButtonIInv
<1>4. ASSUME NEW s \in Samples, OnStylus(s) PROVE IInv'
  BY <1>4, OnStylusIInv
<1>5. ASSUME NEW s \in Samples, OnStylusThrows(s) PROVE IInv'
  BY <1>5, OnStylusThrowsIInv
<1>6. CASE UNCHANGED vars
  <2> USE <1>6 DEF vars, staticVars, touchVars, stylusVars, IInv
  <2>1. TypeOK' /\ OneTool' /\ ScreenKeys' /\ DisabledIsSilent' /\ ToolIsLast'
    BY DEF TypeOK, OneTool, ScreenKeys, DisabledIsSilent, ToolIsLast, Tool, ToolIn
  <2>2. ActiveDisables'
    BY DEF ActiveDisables, StylusDisablesTouch, HasTouch, HasStylus, IsTouchscreen
  <2>3. NoGhostWithoutErrors' /\ PointerFollowsTouch' /\ PalmLiftsEverything' /\ GoodSelects'
    BY DEF NoGhostWithoutErrors, PointerFollowsTouch, PalmLiftsEverything, GoodSelects
  <2> QED
    BY <2>1, <2>2, <2>3
<1> QED
  BY <1>1, <1>2, <1>3, <1>4, <1>5, <1>6 DEF Next

LEMMA Inductive == Spec => []IInv
  BY InitIInv, NextIInv, PTL DEF Spec

-----------------------------------------------------------------------------
(* What follows from it.                                                   *)

\* The slots and keys of the kernel and the sets of the devices stay within
\* their types (apps/daemon/touch.hpp, apps/daemon/stylus.hpp).
THEOREM TypeCorrect == Spec => []TypeOK
<1>1. IInv => TypeOK
  BY DEF IInv
<1> QED
  BY <1>1, Inductive, PTL

\* Without a failing write no slot of the kernel outlives its contact: search_lifted,
\* lift_all and disable find all that was ever emitted (apps/daemon/touch.hpp).
THEOREM NoGhosts == Spec => []NoGhostWithoutErrors
<1>1. IInv => NoGhostWithoutErrors
  BY DEF IInv
<1> QED
  BY <1>1, Inductive, PTL

\* The pointer is down only where the selected contact is (process).
THEOREM PointerHasContact == Spec => []PointerFollowsTouch
<1>1. IInv => PointerFollowsTouch
  BY DEF IInv
<1> QED
  BY <1>1, Inductive, PTL

\* A touchpad has one tool down with the pointer and none without, and if a write
\* failed between the events of emit_singletouch or lift_singletouch, the next
\* frame that is taken in fully makes it so again.
THEOREM ToolsAreExclusive == Spec => []OneFingerTool
<1>1. ASSUME IInv PROVE OneFingerTool
  <2>1. /\ Cardinality({}) = 0
        /\ \A t : Cardinality({t}) = 1
    BY FS_EmptySet, FS_Singleton
  <2> QED
    BY <1>1, <2>1 DEF IInv, OneTool, OneFingerTool
<1> QED
  BY <1>1, Inductive, PTL

\* While the stylus is active nothing of the touchscreen it disables is down
\* (on_touch and on_stylus of apps/daemon/daemon.hpp).
THEOREM StylusSilences == Spec => []ActiveStylusSilencesTouch
<1>1. IInv => ActiveStylusSilencesTouch
  BY DEF IInv, ActiveDisables, DisabledIsSilent, ActiveStylusSilencesTouch
<1> QED
  BY <1>1, Inductive, PTL

\* A frame with a palm lifts what the frame before it has left (lift_all).
THEOREM PalmLifts == Spec => []PalmLiftsEverything
<1>1. IInv => PalmLiftsEverything
  BY DEF IInv
<1> QED
  BY <1>1, Inductive, PTL

\* Between a report with the pen and one with the rubber there is one with neither,
\* also when a write failed before, unless what has not been reported is the very
\* switch (update of apps/daemon/stylus.hpp, where m_last is set before sync).
THEOREM SwitchLifts == Spec => ToolSwitchLifts
<1> DEFINE Lifts == \/ ToolIn(penReport) = {}
                    \/ ToolIn(penReport') = {}
                    \/ ToolIn(penReport') = ToolIn(penReport) /\ Cardinality(ToolIn(penReport)) = 1
<1>1. ASSUME IInv, [Next]_vars PROVE [penReport = penKeys => Lifts]_vars
  <2> SUFFICES ASSUME penReport = penKeys PROVE Lifts
    OBVIOUS
  <2>1. ToolIn(penReport) = {} \/ Cardinality(ToolIn(penReport)) = 1
    BY <1>1, FS_Singleton DEF IInv, ToolIsLast, Tool
  <2>2. ASSUME NEW s \in Samples, OnStylus(s) PROVE Lifts
    <3>1. UpdateStylus(s) /\ penReport' = penKeys'
      BY <2>2 DEF OnStylus
    <3> QED
      BY <1>1, <2>1, <3>1, StylusTool DEF Tool
  <2>3. CASE UNCHANGED penReport
    BY <2>1, <2>3
  <2>4. ASSUME ~ \E s \in Samples : OnStylus(s) PROVE UNCHANGED penReport
    BY <1>1, <2>4 DEF Next, OnTouch, OnTouchThrows, OnButton, OnStylusThrows, vars
  <2> QED
    BY <2>2, <2>3, <2>4
<1> QED
  BY <1>1, Inductive, PTL DEF Spec, ToolSwitchLifts

\* A frame that is like the one before it and shown in full brings the pointer
\* down: the contact selected in place of one that is gone is emitted (process).
THEOREM RepetitionSelects == Spec => RepeatedFrameSelects
<1> DEFINE Selects == seen = "good" /\ seen' = "good" /\ m_current' = m_current
                        => "BTN_TOUCH" \in keys'
<1>1. ASSUME IInv, [Next]_vars PROVE [Selects]_vars
  <2>1. ASSUME NEW f \in Frames, OnTouch(f), seen = "good", seen' = "good",
               m_current' = m_current
        PROVE  "BTN_TOUCH" \in keys'
    <3>1. f \in Seq(Contacts)
      BY FrameType
    <3>2. Enabled /\ KindOf(f) = "good"
      BY <2>1 DEF OnTouch
    <3>3. ~Blocked(f) /\ Emitted(f) = IndicesOf(f)
      BY <3>1, <3>2, GoodFrame
    <3>4. m_current' = IndicesOf(f) /\ Process(f)
      BY <2>1, <3>2, <3>3 DEF OnTouch, UpdateContacts
    <3>5. m_single_index \in Emitted(f)
      BY <1>1, <2>1, <3>3, <3>4 DEF IInv, GoodSelects
    <3> QED
      BY <1>1, <3>4, <3>5, PointerDownKeys DEF Process, IInv, TypeOK
  <2>2. ASSUME ~ \E f \in Frames : OnTouch(f), ~UNCHANGED vars PROVE seen' # "good"
    BY <1>1, <2>2 DEF Next, OnTouchThrows, OnButton, OnStylus, OnStylusThrows
  <2> QED
    BY <2>1, <2>2
<1> QED
  BY <1>1, Inductive, PTL DEF Spec, RepeatedFrameSelects

-----------------------------------------------------------------------------
(* The process around it, for every MaxErrors, number of signals and       *)
(* number of failing calls.                                                *)

Loop == {"check", "read", "blocked", "sleep", "stop"}

\* A report is only asked for, and an error only counted, below the limit.
BelowLimit == pc \in {"read", "blocked", "sleep"} => errors < MaxErrors

\* The callback is there for as long as the process has the device in its loop;
\* so no signal ends the process between the two calls of set_mode.
HandlerInLoop == pc \in Loop \cup {"mode"} => sigaction = "stub" /\ m_handler = TRUE

\* Outside of the loop, only the two endings without a set_mode leave it behind.
MultitouchInLoop ==
    mode = "multi" => \/ pc \in Loop
                      \/ device = "gone"
                      \/ faults > 0
                      \/ pc = "exit" /\ result \in {"terminated", "sigkilled"}

LoopIInv == RunnerTypeOK /\ BelowLimit /\ HandlerInLoop /\ MultitouchInLoop

\* Every definition the steps of the proof below have to see.
USE RunnerAssumption DEF LoopIInv, RunnerTypeOK, BelowLimit, HandlerInLoop, MultitouchInLoop,
    Loop, PCs, Results, Reports, runVars, procVars, devVars

\* The invariant holds at first (apps/daemon/main.cpp, before the constructor).
LEMMA InitLoopIInv == RunnerInit => LoopIInv
<1> SUFFICES ASSUME RunnerInit PROVE LoopIInv
  OBVIOUS
<1> USE DEF RunnerInit
<1>a. m_should_stop \in BOOLEAN /\ m_handler \in BOOLEAN
  OBVIOUS
<1>b. 0 \in 0..MaxErrors /\ 0 \in 0..MaxSignals /\ 0 \in 0..MaxFaults
  OBVIOUS
<1>1. RunnerTypeOK
  BY <1>a, <1>b
<1>2. BelowLimit /\ HandlerInLoop /\ MultitouchInLoop
  OBVIOUS
<1> QED
  BY <1>1, <1>2

\* Every step of the process, the signals and the hardware preserves it.
LEMMA NextLoopIInv == LoopIInv /\ [RunnerNext]_runnerVars => LoopIInv'
<1> SUFFICES ASSUME LoopIInv, [RunnerNext]_runnerVars PROVE LoopIInv'
  OBVIOUS
<1>1. CASE Open
  BY <1>1 DEF Open, Works, Throws
<1>2. CASE Setup
  BY <1>2 DEF Setup
<1>3. CASE EnterMultitouch
  BY <1>3 DEF EnterMultitouch, Works, Throws
<1>4. CASE Check
  BY <1>4 DEF Check
<1>5. CASE CallRead
  BY <1>5 DEF CallRead
<1>6. CASE ReadReport
  BY <1>6 DEF ReadReport
<1>7. CASE ReadThrows
  BY <1>7 DEF ReadThrows
<1>8. CASE Sleep
  BY <1>8 DEF Sleep
<1>9. CASE LeaveMultitouch
  BY <1>9 DEF LeaveMultitouch, SetMode, Works, Throws
<1>10. CASE ClearHandler
  BY <1>10 DEF ClearHandler
<1>11. CASE Exit
  BY <1>11 DEF Exit
<1>12. CASE Signal
  <2>1. sigaction' = sigaction /\ m_handler' = m_handler /\ errors' = errors
        /\ mode' = mode /\ device' = device /\ queue' = queue /\ faults' = faults
        /\ pc # "exit"
    BY <1>12 DEF Signal
  <2>2. \/ pc' = "exit" /\ ~(sigaction = "stub" /\ m_handler = TRUE)
        \/ pc' = pc
        \/ pc = "blocked" /\ pc' = "sleep"
    BY <1>12 DEF Signal
  <2>3. m_should_stop' \in BOOLEAN /\ result' \in Results
    BY <1>12 DEF Signal
  <2>4. signals' \in 0..MaxSignals
    BY <1>12 DEF Signal
  <2>5. pc' \in PCs
    BY <2>2
  <2>6. RunnerTypeOK'
    BY <2>1, <2>3, <2>4, <2>5
  <2>7. BelowLimit' /\ HandlerInLoop' /\ MultitouchInLoop'
    BY <2>1, <2>2
  <2> QED
    BY <2>6, <2>7
<1>13. CASE Report
  BY <1>13 DEF Report
<1>14. CASE Vanish
  BY <1>14 DEF Vanish
<1>16. CASE Kill
  BY <1>16 DEF Kill
<1>15. CASE UNCHANGED runnerVars
  BY <1>15 DEF runnerVars
<1> QED
  BY <1>1, <1>2, <1>3, <1>4, <1>5, <1>6, <1>7, <1>8, <1>9, <1>10, <1>11, <1>12,
     <1>13, <1>14, <1>15, <1>16 DEF RunnerNext, IptsdStep

LEMMA LoopInductive == RunnerSpec => []LoopIInv
  BY InitLoopIInv, NextLoopIInv, PTL DEF RunnerSpec

\* The error counter never passes its limit, whatever the reports and signals
\* (core/linux/runner.hpp, run).
THEOREM RunnerTypeCorrect == RunnerSpec => []RunnerTypeOK
<1>1. LoopIInv => RunnerTypeOK
  OBVIOUS
<1> QED
  BY <1>1, LoopInductive, PTL

\* An iptsd that ends by SIGTERM or gives up leaves a device that works in
\* singletouch mode; one that a contract of the parser or the manager's SIGKILL
\* ends need not (core/linux/runner.hpp, set_mode around the loop).
THEOREM ModeRestored == RunnerSpec => []NeverLeftInMultitouch
<1>1. LoopIInv => NeverLeftInMultitouch
  BY DEF NeverLeftInMultitouch
<1> QED
  BY <1>1, LoopInductive, PTL
=============================================================================
