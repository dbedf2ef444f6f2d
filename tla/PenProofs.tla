------------------------------ MODULE PenProofs ------------------------------
(***************************************************************************)
(* Safety of the stylus that is computed from antenna measurements, for    *)
(* every pen, every number of groups, every phase of a signal and every    *)
(* loss of windows.                                                        *)
(***************************************************************************)
EXTENDS Pen, TLAPS

USE PenAssumption

StylusType ==
    [proximity : BOOLEAN, contact : BOOLEAN, button : BOOLEAN, rubber : BOOLEAN,
     pressure : BOOLEAN, x : Int]

DeviceType == m_last_sample \in [proximity : BOOLEAN, rubber : BOOLEAN]

\* A touchpad has no stylus.
Silent ==
    m_info = "touchpad" =>
        /\ ~m_stylus.proximity /\ ~m_stylus.button /\ ~m_stylus.rubber
        /\ penKeys = {}

\* The stylus is only in proximity, and its keys down, for a pen that is seen.
Seen == m_stylus.proximity \/ penKeys # {} => sawPen

\* The groups the stylus remembers are past or present; what it remembers of
\* the present one was measured in it.
Groups ==
    /\ {m_group, m_mppv2_binary_group} \subseteq 1..group \cup {None}
    /\ m_group = group => m_center = phase
    /\ ~binary => m_mppv2_binary_group # group

\* A pen without the windows of MPP v2 decides nothing with them.
NoMpp2 == ~mpp2 => m_mppv2_button_or_eraser = None /\ m_mppv2_in_contact = None

\* The pen is held with a tool the history knows.
OneOfTools == pen.tool \in tools

\* The stylus shows this pen.
Shows(p) ==
    /\ m_stylus.proximity = p.near
    /\ m_stylus.button = ReportOf(p).button
    /\ m_stylus.rubber = ReportOf(p).rubber
    /\ m_stylus.contact = ReportOf(p).contact

\* What the windows of the group have told is what the stylus says.
Told ==
    /\ "position" \in known => pen.near /\ m_stylus.proximity /\ m_group = group
    /\ "held" \in known =>
          /\ binary /\ m_mppv2_binary_group = group
          /\ m_mppv2_button_or_eraser = (pen.tool # "tip")
    /\ "touch" \in known => m_mppv2_in_contact = (pen.press # "no")
    /\ "tool" \in known =>
          /\ m_stylus.button = ReportOf(pen).button
          /\ m_stylus.rubber = ReportOf(pen).rubber
          /\ m_group = group => "position" \in known
    /\ "contact" \in known => m_stylus.contact = ReportOf(pen).contact
    /\ was # None => Shows(was)

\* The group before is only looked at by the first window of the next one.
FirstOfGroup == was # None => known = {}

IInv ==
    /\ TypeOK /\ DeviceType
    /\ Silent /\ Seen /\ Groups /\ NoMpp2 /\ OneOfTools /\ FirstOfGroup
    /\ NothingInvented
    /\ m_info = "touchscreen" => Told

-----------------------------------------------------------------------------
(* The operators of the DFT stylus.                                        *)

\* A position is a number unless it is none (interpolate_position).
LEMMA PositionIsNumber ==
  ASSUME NEW row \in Rows, InterpolatePosition(row) # NaN
  PROVE  InterpolatePosition(row) \in Int
<1> DEFINE shift == CASE row.edge = "left" -> 2 [] row.edge = "right" -> -2 [] OTHER -> 0
           mind == IF row.edge = "left" THEN -2 ELSE -1
           maxd == IF row.edge = "right" THEN 2 ELSE 1
<1>1. shift \in Int /\ mind \in Int /\ maxd \in Int
  BY SMT
<1>2. row.center \in Int /\ row.apex \in Int
  BY DEF InterpolatePosition
<1>3. Clamp(row.apex, mind, maxd) \in Int
  BY <1>1, <1>2 DEF Clamp
<1>4. InterpolatePosition(row) = 2 * row.center + shift + Clamp(row.apex, mind, maxd)
  BY DEF InterpolatePosition
<1> HIDE DEF shift, mind, maxd
<1> QED
  BY <1>1, <1>2, <1>3, <1>4

\* A signal is in phase with itself and out of phase with its opposite.
LEMMA InPhase ==
  ASSUME NEW v \in Phases
  PROVE  Dot(v, v) > 0 /\ Dot(v, Opposite(v)) < 0
<1> DEFINE a == v[1]  b == v[2]
<1>1. a \in Int /\ b \in Int /\ v = <<a, b>> /\ ~(a = 0 /\ b = 0)
  OBVIOUS
<1> HIDE DEF a, b
<1>2. \A n \in Int : n * n >= 0 /\ (n # 0 => n * n > 0) /\ n * (-n) = -(n * n)
  BY SMT
<1>3. a * a >= 0 /\ b * b >= 0 /\ a * a \in Int /\ b * b \in Int
      /\ (a * a > 0 \/ b * b > 0) /\ a * (-a) = -(a * a) /\ b * (-b) = -(b * b)
  BY <1>1, <1>2
<1>4. Dot(v, v) = a * a + b * b /\ Dot(v, Opposite(v)) = a * (-a) + b * (-b)
  BY <1>1 DEF Dot, Opposite
<1> QED
  BY <1>3, <1>4

\* What two rows say of a pen that does what the second stands for.
LEMMA Decided ==
  ASSUME NEW w, NEW q, w.first = q.first, w.second = q.second
  PROVE  /\ q = Quiet => Decision(w) = None
         /\ q = Pair(TRUE) => Decision(w) = TRUE
         /\ q = Pair(FALSE) => Decision(w) = FALSE
<1>1. Strong \in Nat /\ 0 < 2 * MinMag /\ ~(Strong < 2 * MinMag)
  BY DEF Strong
<1>2. ASSUME q = Quiet PROVE Decision(w) = None
  BY <1>1, <1>2 DEF Decision, Quiet, Pair
<1>3. ASSUME q = Pair(TRUE) PROVE Decision(w) = TRUE
  <2>1. w.first = 0 /\ w.second = Strong
    BY <1>3 DEF Pair
  <2>2. (0 < Strong) = TRUE
    BY <1>1
  <2>. QED
    BY <1>1, <2>1, <2>2 DEF Decision, Quiet
<1>4. ASSUME q = Pair(FALSE) PROVE Decision(w) = FALSE
  BY <1>1, <1>4 DEF Decision, Quiet, Pair
<1>. QED
  BY <1>2, <1>3, <1>4, Zenon

\* lift (dft.hpp) leaves nothing of the pen but its pressure.
LEMMA Lifted ==
  ASSUME m_stylus \in StylusType, Lift
  PROVE  /\ m_stylus' \in StylusType
         /\ ~m_stylus'.proximity /\ ~m_stylus'.contact
         /\ ~m_stylus'.button /\ ~m_stylus'.rubber
BY DEF Lift, StylusType

-----------------------------------------------------------------------------
(* One window after the other.                                             *)

\* What the antennas, and the history, make of a window beside the stylus.
Heard(w) ==
    /\ known' = Known(w)
    /\ guessed' = Guessed(w)
    /\ was' = None
    /\ sawPen' = IF w.type = "Position" THEN SawPen(w) ELSE sawPen
    /\ binary' = (binary \/ w.type = "BinaryMPP_2")
    /\ UNCHANGED <<mpp2, pen, group, phase, tools>>

\* The part of the invariant that is about the state of the DFT stylus.
Measured ==
    /\ m_stylus \in StylusType
    /\ m_center \in Phases \cup {<<0, 0>>}
    /\ {m_mppv2_button_or_eraser, m_mppv2_in_contact} \subseteq BOOLEAN \cup {None}
    /\ binary \in BOOLEAN /\ sawPen \in BOOLEAN /\ guessed \in BOOLEAN
    /\ known \subseteq {"position", "held", "touch", "tool", "contact"}
    /\ m_stylus.proximity => sawPen
    /\ Groups /\ NoMpp2 /\ NothingInvented /\ Told

\* What the types say of the pen and of the group.
LEMMA PenFacts ==
  ASSUME TypeOK
  PROVE  /\ pen = Away \/ pen \in Near
         /\ phase \in Phases /\ group \in Nat \ {0} /\ group # None
         /\ mpp2 \in BOOLEAN /\ MaxGroups[mpp2] \in Nat
         /\ pen.near \in BOOLEAN /\ pen.tool \in {"tip", "button", "eraser"}
         /\ pen.press \in {"no", "light", "firm"}
<1>1. mpp2 \in BOOLEAN /\ phase \in Phases
  BY DEF TypeOK
<1>2. MaxGroups[mpp2] \in Nat /\ Uses[mpp2] \subseteq Near
  BY <1>1
<1>3. group \in Nat \ {0} /\ group # None
  BY <1>2 DEF TypeOK
<1>4. pen = Away \/ pen \in Near
  BY <1>2 DEF TypeOK, Pens
<1>5. CASE pen = Away
  <2>1. pen.near = FALSE /\ pen.tool = "tip" /\ pen.press = "no"
    BY <1>5 DEF Away
  <2>. QED
    BY <1>1, <1>2, <1>3, <1>5, <2>1
<1>6. CASE pen \in Near
  <2>1. pen.near = TRUE /\ pen.tool \in {"tip", "button", "eraser"}
        /\ pen.press \in {"no", "light", "firm"}
    BY <1>6 DEF Near
  <2>. QED
    BY <1>1, <1>2, <1>3, <1>6, <2>1
<1>. QED
  BY <1>4, <1>5, <1>6

\* What is shown is only a guess after a button window of a MPP v2 pen.
LEMMA GuessedType ==
  ASSUME NEW w, Heard(w)
  PROVE  /\ guessed' \in BOOLEAN
         /\ w.type # "Button" /\ guessed => guessed' \/ w.type = "Position"
         /\ w.type = "Position" /\ SawPen(w) /\ guessed => guessed'
         /\ w.type = "Button" /\ w.rows > 0 /\ m_group = group /\ w.group = group
            => (guessed' <=> mpp2 /\ "held" \notin known)
         /\ w.type = "Button" /\ ~(w.rows > 0 /\ m_group = group /\ w.group = group) /\ guessed
            => guessed'
  BY Zenon DEF Heard, Guessed

\* handle_position: a position seen names the group and its phase, any other
\* one lifts the stylus and with it all that is known of the group.
LEMMA PositionHeard ==
  ASSUME TypeOK, Measured, NEW w \in PositionWindows, HandlePosition(w), Heard(w)
  PROVE  Measured'
<1>1. /\ w.type = "Position" /\ w.group \in {group, None} /\ w.sum = phase /\ w.row \in Rows
      /\ Usable(w) => pen.near
  BY PenFacts DEF PositionWindows, Usable
<1>2. SawPen(w) => InterpolatePosition(w.row) \in Int
  BY <1>1, PositionIsNumber DEF SawPen
<1>3. /\ sawPen' = SawPen(w) /\ SawPen(w) \in BOOLEAN
      /\ known' = IF ~SawPen(w) THEN {}
                  ELSE IF w.group = group THEN known \cup {"position"} ELSE known \ {"position"}
  BY <1>1 DEF Heard, Known, SawPen, Usable
<1>4. /\ m_center' \in {m_center, phase}
      /\ m_group' \in {m_group, w.group}
      /\ Usable(w) => m_group' = w.group /\ m_center' = phase
      /\ ~Usable(w) => m_group' = m_group /\ m_center' = m_center
  BY <1>1 DEF HandlePosition
<1>5. /\ phase \in Phases /\ group \in Nat \ {0} /\ group # None
  BY PenFacts
<1>6. CASE SawPen(w)
  <2>1. /\ m_stylus' = [m_stylus EXCEPT !.proximity = TRUE, !.x = InterpolatePosition(w.row)]
        /\ UNCHANGED mppv2
    BY <1>6 DEF HandlePosition, SawPen
  <2>2. /\ m_stylus' \in StylusType /\ m_stylus'.proximity
        /\ m_stylus'.button = m_stylus.button /\ m_stylus'.rubber = m_stylus.rubber
        /\ m_stylus'.contact = m_stylus.contact
    BY <1>2, <1>6, <2>1 DEF Measured, StylusType
  <2>3. m_group' = w.group /\ m_center' = phase /\ pen.near
    BY <1>1, <1>4, <1>6 DEF SawPen
  <2>4. UNCHANGED <<mpp2, pen, group, phase, tools, m_mppv2_button_or_eraser,
                    m_mppv2_in_contact, m_mppv2_binary_group>>
    BY <2>1 DEF Heard, HandlePosition, mppv2
  <2>5. Groups'
    <3>1. ~binary' => ~binary
      BY DEF Heard
    <3>. QED
      BY <1>1, <1>5, <2>3, <2>4, <3>1 DEF Measured, Groups
  <2>6. NoMpp2' /\ NothingInvented'
    <3>1. guessed => guessed'
      BY <1>1, <1>6, GuessedType
    <3>. QED
      BY <2>2, <2>4, <3>1 DEF Measured, NoMpp2, NothingInvented
  <2>7. Told'
    <3>1. was' = None
      BY DEF Heard
    <3>2. binary => binary'
      BY DEF Heard
    <3>. QED
      BY <1>1, <1>3, <1>5, <1>6, <2>2, <2>3, <2>4, <3>1, <3>2
      DEF Measured, Told, ReportOf
  <2>8. binary' \in BOOLEAN
    BY Zenon DEF Measured, Heard
  <2>20. guessed' \in BOOLEAN
    BY GuessedType
  <2>. QED
    BY <2>20, <1>3, <1>5, <1>6, <2>2, <2>3, <2>4, <2>5, <2>6, <2>7, <2>8 DEF Measured
<1>7. CASE ~SawPen(w)
  <2>1. Lift
    BY <1>7 DEF HandlePosition, SawPen
  <2>2. /\ m_stylus' \in StylusType /\ ~m_stylus'.proximity /\ ~m_stylus'.contact
        /\ ~m_stylus'.button /\ ~m_stylus'.rubber
    BY <2>1, Lifted DEF Measured
  <2>3. UNCHANGED <<mpp2, pen, group, phase, tools, m_mppv2_binary_group>>
        /\ m_mppv2_button_or_eraser' = None /\ m_mppv2_in_contact' = None
    BY <2>1 DEF Heard, HandlePosition, Lift
  <2>4. Groups'
    <3>1. ~binary' => ~binary
      BY DEF Heard
    <3>. QED
      BY <1>1, <1>4, <1>5, <2>3, <3>1 DEF Measured, Groups
  <2>5. NoMpp2' /\ NothingInvented' /\ Told'
    BY <1>3, <1>7, <2>2, <2>3 DEF NoMpp2, NothingInvented, Told, Heard
  <2>6. binary' \in BOOLEAN
    BY Zenon DEF Measured, Heard
  <2>20. guessed' \in BOOLEAN
    BY GuessedType
  <2>. QED
    BY <2>20, <1>3, <1>4, <1>5, <1>7, <2>2, <2>3, <2>4, <2>5, <2>6 DEF Measured
<1>. QED
  BY <1>6, <1>7

\* handle_button: a phase is only compared within its group.
LEMMA ButtonHeard ==
  ASSUME TypeOK, Measured, OneOfTools, NEW w \in ButtonWindows, HandleButton(w), Heard(w)
  PROVE  Measured'
<1>. DEFINE held == IF m_mppv2_button_or_eraser # None
                    THEN m_mppv2_button_or_eraser
                    ELSE w.mag > MinMag
            val == IF held THEN Dot(m_center, w.sum) ELSE 0
<1>1. /\ w.type = "Button" /\ w.group \in {group, None}
      /\ pen.tool = "eraser" => w.sum = phase
      /\ pen.tool = "button" => w.sum = Opposite(phase)
      /\ pen.tool # "tip" => w.mag > MinMag
      /\ pen.tool = "tip" /\ ~mpp2 => ~(w.mag > MinMag)
  BY DEF ButtonWindows, Strong
<1>2. /\ phase \in Phases /\ group # None
      /\ pen.tool \in {"tip", "button", "eraser"}
  BY PenFacts
<1>3. /\ UNCHANGED <<m_center, m_group, m_mppv2_binary_group, m_mppv2_button_or_eraser,
                     m_mppv2_in_contact, mpp2, pen, group, phase, tools, sawPen>>
      /\ was' = None /\ binary' = binary
  <2>1. binary' = binary
    BY <1>1, Zenon DEF Heard, Measured
  <2>. QED
    BY <1>1, <2>1 DEF HandleButton, mppv2, Heard
<1>4. m_stylus' = IF Comparable(w)
                  THEN [m_stylus EXCEPT !.button = val < 0, !.rubber = val > 0]
                  ELSE m_stylus
  BY DEF HandleButton
<1>5. Comparable(w) <=> w.rows > 0 /\ w.group = group /\ m_group = group
  BY <1>1, <1>2 DEF Comparable
<1>6. Comparable(w) /\ held /\ pen.tool = "eraser" => val > 0
  BY <1>1, <1>2, <1>5, InPhase DEF Measured, Groups
<1>7. Comparable(w) /\ held /\ pen.tool = "button" => val < 0
  BY <1>1, <1>2, <1>5, InPhase DEF Measured, Groups
<1>8. ~held => val = 0
  OBVIOUS
<1>9. ~mpp2 \/ "held" \in known => (held <=> pen.tool # "tip")
  BY <1>1, <1>2 DEF Measured, NoMpp2, Told
<1>10. val \in Int /\ w.rows \in {0, 1}
  <2>1. /\ m_center[1] \in Int /\ m_center[2] \in Int
    BY DEF Measured
  <2>2. w.sum \in Phases \/ w.sum = Opposite(phase)
    BY <1>2 DEF ButtonWindows
  <2>3. w.sum[1] \in Int /\ w.sum[2] \in Int
    BY <1>2, <2>2 DEF Opposite
  <2>4. Dot(m_center, w.sum) \in Int
    BY <2>1, <2>3 DEF Dot
  <2>. QED
    BY <2>4 DEF ButtonWindows
<1>11. known' = IF w.rows = 0 \/ w.group # group \/ "position" \notin known THEN known
                ELSE IF mpp2 => "held" \in known THEN known \cup {"tool"} ELSE known \ {"tool"}
  BY <1>1 DEF Heard, Known
<1>. HIDE DEF val, held
<1>12. /\ m_stylus' \in StylusType
       /\ m_stylus'.proximity = m_stylus.proximity /\ m_stylus'.contact = m_stylus.contact
       /\ Comparable(w) => /\ m_stylus'.button <=> val < 0
                           /\ m_stylus'.rubber <=> val > 0
       /\ ~Comparable(w) => m_stylus' = m_stylus
  <2>1. CASE Comparable(w)
    <3>1. (val < 0) \in BOOLEAN /\ (val > 0) \in BOOLEAN
      OBVIOUS
    <3>. QED
      BY <1>4, <2>1, <3>1 DEF Measured, StylusType
  <2>2. CASE ~Comparable(w)
    BY <1>4, <2>2 DEF Measured
  <2>. QED
    BY <2>1, <2>2
<1>13. Groups' /\ NoMpp2'
  BY <1>3 DEF Measured, Groups, NoMpp2
<1>14. NothingInvented'
  <2>. SUFFICES ASSUME ~guessed'
                PROVE  /\ m_stylus'.button => "button" \in tools'
                       /\ m_stylus'.rubber => "eraser" \in tools'
    BY DEF NothingInvented
  <2>1. CASE ~Comparable(w)
    <3>1. ~guessed
      BY <1>1, <1>5, <2>1, GuessedType
    <3>. QED
      BY <1>3, <1>12, <2>1, <3>1 DEF Measured, NothingInvented
  <2>2. CASE Comparable(w)
    <3>0. ~mpp2 \/ "held" \in known
      BY <1>1, <1>5, <2>2, GuessedType
    <3>1. m_stylus'.button => pen.tool = "button"
      BY <1>2, <1>6, <1>8, <1>9, <1>10, <1>12, <2>2, <3>0
    <3>2. m_stylus'.rubber => pen.tool = "eraser"
      BY <1>2, <1>7, <1>8, <1>9, <1>10, <1>12, <2>2, <3>0
    <3>. QED
      BY <1>3, <3>1, <3>2 DEF OneOfTools
  <2>. QED
    BY <2>1, <2>2
<1>15. "tool" \in known' =>
          /\ m_stylus'.button = ReportOf(pen).button
          /\ m_stylus'.rubber = ReportOf(pen).rubber
          /\ m_group = group => "position" \in known'
  <2>. SUFFICES ASSUME "tool" \in known'
                PROVE  /\ m_stylus'.button = ReportOf(pen).button
                       /\ m_stylus'.rubber = ReportOf(pen).rubber
                       /\ m_group = group => "position" \in known'
    OBVIOUS
  <2>1. CASE Comparable(w) /\ "position" \in known
    <3>1. held <=> pen.tool # "tip"
      BY <1>5, <1>9, <1>11, <2>1
    <3>2. m_stylus'.button <=> pen.tool = "button"
      BY <1>2, <1>6, <1>7, <1>8, <1>10, <1>12, <2>1, <3>1
    <3>3. m_stylus'.rubber <=> pen.tool = "eraser"
      BY <1>2, <1>6, <1>7, <1>8, <1>10, <1>12, <2>1, <3>1
    <3>4. m_stylus'.button \in BOOLEAN /\ m_stylus'.rubber \in BOOLEAN
      BY <1>12 DEF StylusType
    <3>5. "position" \in known'
      BY <1>11, <2>1
    <3>. QED
      BY <3>2, <3>3, <3>4, <3>5 DEF ReportOf
  <2>2. CASE ~(Comparable(w) /\ "position" \in known)
    <3>1. "tool" \in known /\ known' = known /\ m_stylus' = m_stylus
      BY <1>5, <1>10, <1>11, <1>12, <2>2 DEF Measured, Told
    <3>. QED
      BY <3>1 DEF Measured, Told
  <2>. QED
    BY <2>1, <2>2
<1>16. Told'
  BY <1>3, <1>11, <1>12, <1>15 DEF Measured, Told, ReportOf
<1>20. guessed' \in BOOLEAN
  BY GuessedType
<1>. QED
  BY <1>20, <1>3, <1>11, <1>12, <1>13, <1>14, <1>16 DEF Measured


\* handle_pressure: the tip touches with a pressure, or as MPP v2 says.
LEMMA PressureHeard ==
  ASSUME TypeOK, Measured, NEW w \in PressureWindows, HandlePressure(w), Heard(w)
  PROVE  Measured'
<1>. DEFINE p == Presses(w.data)
            contact == p \/ m_mppv2_in_contact = TRUE
<1>1. /\ w.type = "Pressure"
      /\ w.rows \in {PRESSURE_ROWS - 1, PRESSURE_ROWS}
      /\ pen.press = "firm" => p
      /\ pen.press # "firm" => ~p
  BY DEF PressureWindows
<1>2. m_stylus' = IF w.rows < PRESSURE_ROWS
                  THEN m_stylus
                  ELSE [m_stylus EXCEPT !.contact = contact, !.pressure = p]
  BY DEF HandlePressure, Presses
<1>3. p \in BOOLEAN /\ contact \in BOOLEAN
  BY Zenon DEF Presses
<1>4. /\ UNCHANGED <<m_center, m_group, m_mppv2_binary_group, m_mppv2_button_or_eraser,
                     m_mppv2_in_contact, mpp2, pen, group, phase, tools, sawPen>>
      /\ was' = None /\ binary' = binary
  <2>1. binary' = binary
    BY <1>1, Zenon DEF Heard, Measured
  <2>. QED
    BY <1>1, <2>1 DEF HandlePressure, mppv2, Heard
<1>5. known' = IF w.rows < PRESSURE_ROWS THEN known
               ELSE IF mpp2 => "touch" \in known
                    THEN known \cup {"contact"} ELSE known \ {"contact"}
  BY <1>1 DEF Heard, Known
<1>6. (mpp2 => "touch" \in known) => contact = ReportOf(pen).contact
  <2>. SUFFICES ASSUME mpp2 => "touch" \in known
                PROVE  contact = ReportOf(pen).contact
    OBVIOUS
  <2>1. ReportOf(pen).contact = (pen.press = "firm" \/ (mpp2 /\ pen.press = "light"))
    BY DEF ReportOf
  <2>2. pen.press \in {"no", "light", "firm"} /\ mpp2 \in BOOLEAN
    BY PenFacts
  <2>3. mpp2 => (m_mppv2_in_contact = TRUE <=> pen.press # "no")
    BY DEF Measured, Told
  <2>4. ~mpp2 => m_mppv2_in_contact # TRUE
    BY DEF Measured, NoMpp2
  <2>5. contact <=> pen.press = "firm" \/ (mpp2 /\ pen.press = "light")
    BY <1>1, <2>2, <2>3, <2>4
  <2>. QED
    BY <2>1, <2>5
<1>. HIDE DEF p, contact
<1>7. /\ m_stylus' \in StylusType
      /\ m_stylus'.proximity = m_stylus.proximity
      /\ m_stylus'.button = m_stylus.button /\ m_stylus'.rubber = m_stylus.rubber
      /\ w.rows < PRESSURE_ROWS => m_stylus' = m_stylus
      /\ ~(w.rows < PRESSURE_ROWS) => m_stylus'.contact = contact
  BY <1>2, <1>3 DEF Measured, StylusType
<1>8. Groups' /\ NoMpp2' /\ NothingInvented'
  <2>1. guessed => guessed'
    BY <1>1, GuessedType
  <2>. QED
    BY <1>4, <1>7, <2>1 DEF Measured, Groups, NoMpp2, NothingInvented
<1>9. Told'
  BY <1>4, <1>5, <1>6, <1>7 DEF Measured, Told, ReportOf
<1>20. guessed' \in BOOLEAN
  BY GuessedType
<1>. QED
  BY <1>20, <1>4, <1>5, <1>7, <1>8, <1>9 DEF Measured

\* handle_position_mpp_2: the second row tells the contact, or nothing does.
LEMMA PositionMpp2Heard ==
  ASSUME TypeOK, Measured, mpp2, NEW w \in PositionMpp2Windows,
         HandlePositionMpp2(w), Heard(w)
  PROVE  Measured'
<1>. DEFINE touches == pen.press # "no"
<1>1. /\ w.type = "PositionMPP_2"
      /\ w.rows \in {3, 4} /\ Decision(w) \in {None, touches}
  <2>1. PICK n \in {3, 4}, q \in {Pair(touches), Quiet} :
           w = [type |-> "PositionMPP_2", rows |-> n, first |-> q.first, second |-> q.second]
    BY DEF PositionMpp2Windows
  <2>2. w.type = "PositionMPP_2" /\ w.rows = n /\ w.first = q.first /\ w.second = q.second
    BY <2>1
  <2>. HIDE DEF touches
  <2>3. touches = TRUE \/ touches = FALSE
    BY DEF touches
  <2>. QED
    BY <2>2, <2>3, Decided
<1>2. m_mppv2_in_contact' \in {None, touches}
      /\ (m_mppv2_in_contact' # None <=> w.rows > 3 /\ Decision(w) # None)
  BY <1>1 DEF HandlePositionMpp2
<1>3. UNCHANGED <<m_stylus, m_center, m_group, m_mppv2_binary_group,
                  m_mppv2_button_or_eraser, mpp2, pen, group, phase, tools, sawPen>>
      /\ was' = None /\ binary' = binary
  <2>1. binary' = binary
    BY <1>1, Zenon DEF Heard, Measured
  <2>. QED
    BY <1>1, <2>1 DEF HandlePositionMpp2, Heard
<1>4. known' = IF m_mppv2_in_contact' # None THEN known \cup {"touch"} ELSE known \ {"touch"}
  BY <1>1, <1>2 DEF Heard, Known
<1>5. Groups' /\ NoMpp2' /\ NothingInvented'
  <2>1. guessed => guessed'
    BY <1>1, GuessedType
  <2>. QED
    BY <1>3, <2>1 DEF Measured, Groups, NoMpp2, NothingInvented
<1>6. Told'
  BY <1>2, <1>3, <1>4 DEF Measured, Told, ReportOf
<1>20. guessed' \in BOOLEAN
  BY GuessedType
<1>. QED
  BY <1>20, <1>2, <1>3, <1>4, <1>5, <1>6 DEF Measured

\* handle_dft_binary_mpp_2: only the first window of a group counts.
LEMMA BinaryMpp2Heard ==
  ASSUME TypeOK, Measured, mpp2, NEW w \in BinaryWindows,
         HandleDftBinaryMpp2(w), Heard(w)
  PROVE  Measured'
<1>. DEFINE held == pen.tool # "tip"
            first == w.rows > 5 /\ w.group # None /\ m_mppv2_binary_group # w.group
<1>1. /\ w.type = "BinaryMPP_2" /\ w.group \in {group, None}
      /\ Decision(w) \in BOOLEAN \cup {None}
      /\ ~binary => Decision(w) \in {None, held}
  <2>1. PICK g \in {group, None}, n \in {5, 6}, q \in BinaryPairs :
           w = [type |-> "BinaryMPP_2", group |-> g, rows |-> n,
                first |-> q.first, second |-> q.second]
    BY DEF BinaryWindows
  <2>2. /\ w.type = "BinaryMPP_2" /\ w.group = g
        /\ w.first = q.first /\ w.second = q.second
    BY <2>1
  <2>3. q = Quiet \/ q = Pair(TRUE) \/ q = Pair(FALSE)
    BY DEF BinaryPairs
  <2>4. ~binary => q = Quiet \/ q = Pair(held)
    BY DEF BinaryPairs
  <2>. HIDE DEF held
  <2>5. held = TRUE \/ held = FALSE
    BY DEF held
  <2>. QED
    BY <2>2, <2>3, <2>4, <2>5, Decided
<1>2. group \in Nat \ {0} /\ group # None
  BY PenFacts
<1>3. /\ first => m_mppv2_binary_group' = group /\ m_mppv2_button_or_eraser' = Decision(w)
      /\ ~first => UNCHANGED <<m_mppv2_binary_group, m_mppv2_button_or_eraser>>
  BY <1>1 DEF HandleDftBinaryMpp2
<1>4. UNCHANGED <<m_stylus, m_center, m_group, m_mppv2_in_contact, mpp2, pen, group,
                  phase, tools, sawPen>>
      /\ was' = None /\ binary' = TRUE
  <2>1. binary' = TRUE
    BY <1>1, Zenon DEF Heard
  <2>. QED
    BY <1>1, <2>1 DEF HandleDftBinaryMpp2, Heard
<1>5. known' = IF ~binary /\ w.rows > 5 /\ w.group = group /\ Decision(w) # None
               THEN known \cup {"held"} ELSE known
  BY <1>1 DEF Heard, Known
<1>6. Groups' /\ NoMpp2' /\ NothingInvented'
  <2>1. guessed => guessed'
    BY <1>1, GuessedType
  <2>. QED
    BY <1>2, <1>3, <1>4, <2>1 DEF Measured, Groups, NoMpp2, NothingInvented
<1>7. "held" \in known' => m_mppv2_binary_group' = group /\ m_mppv2_button_or_eraser' = held
  <2>1. CASE "held" \in known
    <3>1. ~first
      BY <1>1, <2>1 DEF Measured, Told
    <3>. QED
      BY <1>3, <2>1, <3>1 DEF Measured, Told
  <2>2. CASE ~binary /\ w.rows > 5 /\ w.group = group /\ Decision(w) # None
    <3>1. first
      BY <1>2, <2>2 DEF Measured, Groups
    <3>. QED
      BY <1>1, <1>3, <2>2, <3>1
  <2>. QED
    BY <1>5, <2>1, <2>2
<1>. HIDE DEF first
<1>8. Told'
  BY <1>4, <1>5, <1>7 DEF Measured, Told, ReportOf
<1>20. guessed' \in BOOLEAN
  BY GuessedType
<1>. QED
  BY <1>20, <1>1, <1>3, <1>4, <1>5, <1>6, <1>8 DEF Measured

\* Windows of other types are ignored.
LEMMA OtherHeard ==
  ASSUME Measured, NEW w, w.type = "Other", UNCHANGED dftVars, Heard(w)
  PROVE  Measured'
<1>1. binary' = binary
  BY Zenon DEF Heard, Measured
<1>2. known' = known /\ was' = None
      /\ UNCHANGED <<dftVars, mppv2, mpp2, pen, group, phase, tools, sawPen>>
  BY DEF Heard, Known, dftVars
<1>3. (guessed => guessed') /\ guessed' \in BOOLEAN
  BY GuessedType
<1>. QED
  BY <1>1, <1>2, <1>3
  DEF Measured, Groups, NoMpp2, NothingInvented, Told, ReportOf, dftVars, mppv2


-----------------------------------------------------------------------------
(* The virtual stylus, and every step.                                     *)

\* The windows of the pen, and those of no known type.
Window(w) ==
    \/ w \in PositionWindows \cup ButtonWindows \cup PressureWindows
    \/ mpp2 /\ w \in PositionMpp2Windows \cup BinaryWindows
    \/ w = [type |-> "Other"]

\* update (stylus.hpp): keys are down only for a stylus in proximity.
LEMMA StylusUpdated ==
  ASSUME m_info = "touchscreen", m_stylus' \in StylusType, ProcessStylus(m_stylus'),
         penPressure \in BOOLEAN
  PROVE  /\ m_active' \in BOOLEAN /\ penKeys' \subseteq PenKeys /\ penPressure' \in BOOLEAN
         /\ DeviceType'
         /\ penKeys' # {} => m_stylus'.proximity
<1>1. /\ m_active' = (m_stylus'.proximity /\ m_last_sample.rubber = m_stylus'.rubber)
      /\ penKeys' = IF m_active' THEN KeysOf(m_stylus') ELSE {}
      /\ m_last_sample' = [proximity |-> m_stylus'.proximity, rubber |-> m_stylus'.rubber]
      /\ penPressure' = IF m_active' THEN m_stylus'.pressure ELSE penPressure
  BY DEF ProcessStylus, UpdateStylus
<1>2. m_active' \in BOOLEAN /\ (m_active' => m_stylus'.proximity)
  BY <1>1, Zenon
<1>3. KeysOf(m_stylus') \subseteq PenKeys
  BY DEF KeysOf, PenKeys
<1>4. m_last_sample' \in [proximity : BOOLEAN, rubber : BOOLEAN]
  BY <1>1 DEF StylusType
<1>5. penPressure' \in BOOLEAN
  BY <1>1 DEF StylusType
<1>. QED
  BY <1>1, <1>2, <1>3, <1>4, <1>5 DEF DeviceType

\* Every window of the pen leaves the stylus as its handler promises.
LEMMA WindowMeasured ==
  ASSUME IInv, m_info = "touchscreen", NEW w, Window(w), Input(w), Heard(w)
  PROVE  Measured'
<1>1. Measured /\ TypeOK /\ OneOfTools
  BY DEF IInv, Measured, TypeOK, StylusType, Seen
<1>2. CASE w \in PositionWindows
  <2>1. w.type = "Position"
    BY <1>2 DEF PositionWindows
  <2>. QED
    BY <1>1, <1>2, <2>1, PositionHeard DEF Input
<1>3. CASE w \in ButtonWindows
  <2>1. w.type = "Button"
    BY <1>3 DEF ButtonWindows
  <2>. QED
    BY <1>1, <1>3, <2>1, ButtonHeard DEF Input
<1>4. CASE w \in PressureWindows
  <2>1. w.type = "Pressure"
    BY <1>4 DEF PressureWindows
  <2>. QED
    BY <1>1, <1>4, <2>1, PressureHeard DEF Input
<1>5. CASE mpp2 /\ w \in PositionMpp2Windows
  <2>1. w.type = "PositionMPP_2"
    BY <1>5 DEF PositionMpp2Windows
  <2>. QED
    BY <1>1, <1>5, <2>1, PositionMpp2Heard DEF Input
<1>6. CASE mpp2 /\ w \in BinaryWindows
  <2>1. w.type = "BinaryMPP_2"
    BY <1>6 DEF BinaryWindows
  <2>. QED
    BY <1>1, <1>6, <2>1, BinaryMpp2Heard DEF Input
<1>7. CASE w = [type |-> "Other"]
  <2>1. w.type = "Other"
    BY <1>7
  <2>. QED
    BY <1>1, <2>1, OtherHeard DEF Input
<1>. QED
  BY <1>2, <1>3, <1>4, <1>5, <1>6, <1>7 DEF Window

\* The history keeps its types.
LEMMA HistoryType ==
  ASSUME TypeOK, NEW w, Heard(w)
  PROVE  /\ known' \subseteq {"position", "held", "touch", "tool", "contact"}
         /\ binary' \in BOOLEAN /\ sawPen' \in BOOLEAN /\ guessed' \in BOOLEAN
<1>1. known' \subseteq {"position", "held", "touch", "tool", "contact"}
  BY DEF TypeOK, Heard, Known
<1>2. binary' \in BOOLEAN
  BY Zenon DEF TypeOK, Heard
<1>3. SawPen(w) \in BOOLEAN
  BY Zenon DEF SawPen
<1>. QED
  BY <1>1, <1>2, <1>3, GuessedType DEF TypeOK, Heard

\* Only a position tells whether the pen is seen, and it always updates the
\* virtual stylus.
LEMMA ArriveStep ==
  ASSUME IInv, NEW w, Window(w), Arrive(w)
  PROVE  IInv'
<1>1. Heard(w)
  BY DEF Arrive, Heard
<1>2. UNCHANGED <<m_info, dft_allow_split_events, mpp2, pen, group, phase, tools>>
  BY DEF Arrive, ProcessDft
<1>3. CASE m_info = "touchscreen"
  <2>1. Input(w)
    BY <1>3 DEF Arrive, ProcessDft
  <2>2. Measured'
    BY <1>1, <1>3, <2>1, WindowMeasured
  <2>3. /\ m_active' \in BOOLEAN /\ penKeys' \subseteq PenKeys /\ penPressure' \in BOOLEAN
        /\ DeviceType'
        /\ penKeys' # {} => sawPen'
    <3>1. CASE ProcessStylus(m_stylus')
      <4>1. penPressure \in BOOLEAN /\ m_stylus' \in StylusType
        BY <2>2 DEF IInv, TypeOK, Measured
      <4>. QED
        BY <1>3, <2>2, <3>1, <4>1, StylusUpdated DEF Measured
    <3>2. CASE w.type # "Position" /\ UNCHANGED deviceVars
      BY <1>1, <3>2 DEF Heard, deviceVars, stylusVars, IInv, TypeOK, DeviceType, Seen
    <3>. QED
      BY <1>3, <3>1, <3>2 DEF Arrive, ProcessDft, EmitEvent
  <2>4. TypeOK'
    <3>1. was' = None
      BY <1>1 DEF Heard
    <3>2. {m_group', m_mppv2_binary_group'} \subseteq 1..MaxGroups[mpp2] \cup {None}
      <4>1. MaxGroups[mpp2] \in Nat /\ group \in 1..MaxGroups[mpp2]
        BY PenFacts DEF IInv, TypeOK
      <4>. QED
        BY <1>2, <2>2, <4>1 DEF Measured, Groups
    <3>. QED
      BY <1>2, <2>2, <2>3, <3>1, <3>2
      DEF IInv, TypeOK, Measured, StylusType, Pens, DeviceType
  <2>. QED
    BY <1>1, <1>2, <1>3, <2>2, <2>3, <2>4
    DEF IInv, Measured, Silent, Seen, OneOfTools, FirstOfGroup, Heard
<1>4. CASE m_info = "touchpad"
  <2>1. UNCHANGED <<dftVars, mppv2, deviceVars, stylusVars>>
    BY <1>4 DEF Arrive, ProcessDft, dftVars, deviceVars
  <2>2. was' = None /\ (~binary' => ~binary)
    BY <1>1 DEF Heard
  <2>3. TypeOK' /\ DeviceType'
    BY <1>1, <1>2, <2>1, <2>2, HistoryType
    DEF IInv, TypeOK, DeviceType, Pens, dftVars, mppv2, deviceVars, stylusVars
  <2>. USE DEF IInv, dftVars, mppv2, deviceVars, stylusVars
  <2>4. Silent' /\ Seen'
    BY <1>2, <1>4, <2>1 DEF Silent, Seen
  <2>5. Groups' /\ NoMpp2' /\ OneOfTools' /\ FirstOfGroup' /\ NothingInvented'
    BY <1>2, <1>4, <2>1, <2>2 DEF Silent, Groups, NoMpp2, OneOfTools, FirstOfGroup, NothingInvented
  <2>. QED
    BY <1>2, <1>4, <2>3, <2>4, <2>5
<1>. QED
  BY <1>3, <1>4 DEF IInv, TypeOK


\* Every pen is held with one of three tools.
LEMMA ToolOfPen ==
  ASSUME NEW p, NEW v \in BOOLEAN, p \in {Away} \cup Uses[v]
  PROVE  p.tool \in {"tip", "button", "eraser"}
<1>1. CASE p = Away
  BY <1>1 DEF Away
<1>2. CASE p \in Uses[v]
  <2>1. p \in Near
    BY <1>2
  <2>. QED
    BY <2>1 DEF Near
<1>. QED
  BY <1>1, <1>2

\* The invariant holds before the first window (core/generic/dft.hpp, members).
LEMMA InitIInv == Init => IInv
<1>. SUFFICES ASSUME Init PROVE IInv
  OBVIOUS
<1>. USE DEF Init, ApplicationInit, DftInit, StylusInit
<1>1. mpp2 \in BOOLEAN /\ MaxGroups[mpp2] \in Nat \ {0} /\ Uses[mpp2] \subseteq Near
  OBVIOUS
<1>2. pen.tool \in {"tip", "button", "eraser"}
  <2>1. pen \in {Away} \cup Uses[mpp2]
    BY DEF Pens
  <2>. QED
    BY <1>1, <2>1, ToolOfPen
<1>3. /\ m_stylus \in StylusType /\ ~m_stylus.proximity /\ ~m_stylus.button /\ ~m_stylus.rubber
      /\ DeviceType
  BY DEF StylusType, DeviceType
<1>4. dft_allow_split_events \in BOOLEAN /\ penPressure \in BOOLEAN /\ m_active \in BOOLEAN
      /\ binary \in BOOLEAN /\ sawPen \in BOOLEAN /\ guessed \in BOOLEAN
  BY Zenon
<1>5. TypeOK
  BY <1>1, <1>2, <1>3, <1>4 DEF TypeOK, StylusType, DeviceType
<1>6. Silent /\ Seen /\ NoMpp2 /\ OneOfTools /\ FirstOfGroup /\ NothingInvented /\ Told
  BY <1>3 DEF Silent, Seen, NoMpp2, OneOfTools, FirstOfGroup, NothingInvented, Told
<1>7. Groups
  BY DEF Groups
<1>. QED
  BY <1>3, <1>5, <1>6, <1>7 DEF IInv

\* The next group: nothing is known of it, and the group before is remembered
\* if everything was known of that.
LEMMA NextGroupStep ==
  ASSUME IInv, NextGroup
  PROVE  IInv'
<1>. USE DEF NextGroup, appVars, dftVars, mppv2, deviceVars, stylusVars
<1>1. /\ group \in Nat \ {0} /\ group' = group + 1 /\ group' \in 1..MaxGroups[mpp2]
      /\ MaxGroups[mpp2] \in Nat /\ pen'.tool \in {"tip", "button", "eraser"}
      /\ pen.near \in BOOLEAN
  <2>1. group \in 1..MaxGroups[mpp2] /\ MaxGroups[mpp2] \in Nat /\ Uses[mpp2] \subseteq Near
    BY PenFacts DEF IInv, TypeOK
  <2>2. mpp2 \in BOOLEAN /\ pen' \in {Away} \cup Uses[mpp2]
    BY DEF IInv, TypeOK, Pens
  <2>3. pen'.tool \in {"tip", "button", "eraser"}
    BY <2>2, ToolOfPen
  <2>4. group \in Nat \ {0} /\ pen.near \in BOOLEAN
    BY PenFacts DEF IInv
  <2>. QED
    BY <2>1, <2>3, <2>4
<1>2. was' # None => was' = pen /\ {"position", "tool", "contact"} \subseteq known
  OBVIOUS
<1>3. TypeOK' /\ DeviceType'
  <2>1. was' \in Pens' \cup {None}
    BY <1>2 DEF IInv, TypeOK, Pens
  <2>2. {m_group, m_mppv2_binary_group} \subseteq 1..MaxGroups[mpp2] \cup {None}
    BY DEF IInv, TypeOK
  <2>3. pen' \in Pens'
    BY DEF Pens
  <2>4. binary' \in BOOLEAN
    BY Zenon
  <2>5. /\ {m_group', m_mppv2_binary_group'} \subseteq 1..MaxGroups[mpp2'] \cup {None}
        /\ group' \in 1..MaxGroups[mpp2'] /\ phase' \in Phases
        /\ tools' \subseteq {"tip", "button", "eraser"}
        /\ known' \subseteq {"position", "held", "touch", "tool", "contact"}
    BY <1>1, <2>2 DEF IInv, TypeOK
  <2>6. m_stylus' \in StylusType /\ m_center' \in Phases \cup {<<0, 0>>}
        /\ {m_mppv2_button_or_eraser', m_mppv2_in_contact'} \subseteq BOOLEAN \cup {None}
    BY DEF IInv, TypeOK, StylusType
  <2>7. /\ m_active' \in BOOLEAN /\ penKeys' \subseteq PenKeys /\ penPressure' \in BOOLEAN
        /\ m_last_sample'.proximity \in BOOLEAN /\ m_last_sample'.rubber \in BOOLEAN
        /\ DeviceType'
    BY DEF IInv, TypeOK, DeviceType
  <2>8. /\ m_info' \in {"touchscreen", "touchpad"} /\ dft_allow_split_events' \in BOOLEAN
        /\ mpp2' \in BOOLEAN /\ sawPen' \in BOOLEAN /\ guessed' \in BOOLEAN
    BY DEF IInv, TypeOK
  <2>. QED
    BY <2>1, <2>3, <2>4, <2>5, <2>6, <2>7, <2>8 DEF TypeOK, StylusType
<1>4. Silent' /\ Seen' /\ NoMpp2' /\ OneOfTools' /\ FirstOfGroup' /\ NothingInvented'
  BY DEF IInv, Silent, Seen, NoMpp2, OneOfTools, FirstOfGroup, NothingInvented
<1>5. Groups'
  BY <1>1 DEF IInv, Groups
<1>6. m_info = "touchscreen" => Told'
  <2>. SUFFICES ASSUME m_info = "touchscreen", was' # None
                PROVE  Shows(was)'
    BY DEF Told
  <2>1. was' = pen /\ {"position", "tool", "contact"} \subseteq known /\ Told
    BY <1>2 DEF IInv
  <2>2. Shows(pen)
    <3>1. pen.near = TRUE /\ m_stylus.proximity = TRUE
      BY <1>1, <2>1 DEF Told, IInv, TypeOK
    <3>. QED
      BY <2>1, <3>1 DEF Told, Shows
  <2>. QED
    BY <2>1, <2>2 DEF Shows, ReportOf
<1>. QED
  BY <1>3, <1>4, <1>5, <1>6 DEF IInv

\* A binary window that is lost leaves the stylus alone.
LEMMA LoseBinaryStep ==
  ASSUME IInv, LoseBinary
  PROVE  IInv'
<1>. USE DEF LoseBinary, appVars, dftVars, mppv2, deviceVars, stylusVars
<1>1. binary' = TRUE /\ binary' \in BOOLEAN
  BY Zenon
<1>2. TypeOK' /\ DeviceType'
  <2>1. m_stylus' \in StylusType /\ m_center' \in Phases \cup {<<0, 0>>}
        /\ {m_mppv2_button_or_eraser', m_mppv2_in_contact'} \subseteq BOOLEAN \cup {None}
    BY DEF IInv, TypeOK, StylusType
  <2>2. /\ m_active' \in BOOLEAN /\ penKeys' \subseteq PenKeys /\ penPressure' \in BOOLEAN
        /\ m_last_sample'.proximity \in BOOLEAN /\ m_last_sample'.rubber \in BOOLEAN
        /\ DeviceType'
    BY DEF IInv, TypeOK, DeviceType
  <2>3. /\ m_info' \in {"touchscreen", "touchpad"} /\ dft_allow_split_events' \in BOOLEAN
        /\ mpp2' \in BOOLEAN /\ sawPen' \in BOOLEAN /\ guessed' \in BOOLEAN
    BY DEF IInv, TypeOK
  <2>4. /\ {m_group', m_mppv2_binary_group'} \subseteq 1..MaxGroups[mpp2'] \cup {None}
        /\ pen' \in Pens' /\ group' \in 1..MaxGroups[mpp2'] /\ phase' \in Phases
        /\ was' \in Pens' \cup {None} /\ tools' \subseteq {"tip", "button", "eraser"}
        /\ known' \subseteq {"position", "held", "touch", "tool", "contact"}
    BY DEF IInv, TypeOK, Pens
  <2>. QED
    BY <1>1, <2>1, <2>2, <2>3, <2>4 DEF TypeOK, StylusType
<1>3. Silent' /\ Seen' /\ NoMpp2' /\ OneOfTools' /\ FirstOfGroup' /\ NothingInvented'
  BY DEF IInv, Silent, Seen, NoMpp2, OneOfTools, FirstOfGroup, NothingInvented
<1>4. Groups'
  BY <1>1 DEF IInv, Groups
<1>5. m_info = "touchscreen" => Told'
  BY <1>1 DEF IInv, Told, Shows, ReportOf
<1>. QED
  BY <1>2, <1>3, <1>4, <1>5 DEF IInv

\* Nothing happens.
LEMMA StutterStep ==
  ASSUME IInv, UNCHANGED vars
  PROVE  IInv'
BY DEF vars, appVars, penVars, dftVars, mppv2, deviceVars, stylusVars, IInv, TypeOK,
       DeviceType, Pens, Silent, Seen, Groups, NoMpp2, OneOfTools, FirstOfGroup,
       NothingInvented, Told, Shows, ReportOf

\* A step that is neither the arrival of a window nor the next group.
LEMMA Steps ==
  ASSUME [Next]_vars
  PROVE  \/ \E w : Window(w) /\ Arrive(w)
         \/ LoseBinary \/ NextGroup \/ UNCHANGED vars
BY DEF Next, Window

\* The induction step.
LEMMA IInvStep ==
  ASSUME IInv, [Next]_vars
  PROVE  IInv'
BY Steps, ArriveStep, LoseBinaryStep, NextGroupStep, StutterStep

\* The invariant holds in every reachable state.
LEMMA Inductive == Spec => []IInv
<1>1. IInv /\ [Next]_vars => IInv'
  BY IInvStep
<1>. QED
  BY <1>1, InitIInv, PTL DEF Spec

-----------------------------------------------------------------------------
(* What the invariant means.                                               *)

\* Every reachable state has the declared types: the groups stay within the
\* bound, a computed position is a number.
THEOREM TypeCorrect == Spec => []TypeOK
<1>1. IInv => TypeOK
  BY DEF IInv
<1>. QED
  BY <1>1, Inductive, PTL

\* No key of the virtual stylus is down once the last position window did not
\* see the pen.
THEOREM GoneLifts == Spec => []GoneIsUp
<1>1. IInv => GoneIsUp
  BY DEF IInv, Seen, GoneIsUp
<1>. QED
  BY <1>1, Inductive, PTL

\* Buttons and erasers are never made up from phases of different groups: of a pen
\* of MPP v2 too, as long as the first binary window of the group told the tool
\* (dft.hpp, handle_button and handle_dft_binary_mpp_2).
THEOREM ToolsAreReal == Spec => []NothingInvented
<1>1. IInv => NothingInvented
  BY DEF IInv
<1>. QED
  BY <1>1, Inductive, PTL

\* The position that begins a group reports the pen as the group before has
\* shown it, once all of its windows have arrived.
THEOREM PenIsFollowed == Spec => Synchronised
<1>. DEFINE Follows == was # None /\ "position" \in known' /\ m_info = "touchscreen"
                       => penKeys' = IF m_last_sample.rubber = ReportOf(was).rubber
                                     THEN KeysOf(ReportOf(was))
                                     ELSE {}
<1>1. IInv /\ [Next]_vars => [Follows]_vars
  <2>. SUFFICES ASSUME IInv, [Next]_vars, was # None, "position" \in known',
                       m_info = "touchscreen"
                PROVE  penKeys' = IF m_last_sample.rubber = ReportOf(was).rubber
                                  THEN KeysOf(ReportOf(was))
                                  ELSE {}
    OBVIOUS
  <2>1. known = {} /\ Shows(was)
    BY DEF IInv, FirstOfGroup, Told
  <2>2. PICK w : Window(w) /\ Arrive(w)
    BY <2>1, Steps DEF LoseBinary, NextGroup, vars, penVars
  <2>3. w.type = "Position" /\ SawPen(w)
    <3>1. "position" \in Known(w)
      BY <2>2 DEF Arrive
    <3>. QED
      BY <2>1, <3>1 DEF Known
  <2>4. HandlePosition(w) /\ ProcessStylus(m_stylus')
    BY <2>2, <2>3 DEF Arrive, ProcessDft, Input, EmitEvent
  <2>5. m_stylus \in StylusType
    BY DEF IInv, TypeOK, StylusType
  <2>6. m_stylus' = [m_stylus EXCEPT !.proximity = TRUE, !.x = InterpolatePosition(w.row)]
    BY <2>3, <2>4 DEF HandlePosition, SawPen
  <2>7. /\ m_stylus'.proximity = TRUE
        /\ m_stylus'.contact = ReportOf(was).contact
        /\ m_stylus'.button = ReportOf(was).button
        /\ m_stylus'.rubber = ReportOf(was).rubber
    BY <2>1, <2>5, <2>6 DEF Shows, StylusType
  <2>8. /\ m_active' = (m_stylus'.proximity /\ m_last_sample.rubber = m_stylus'.rubber)
        /\ penKeys' = IF m_active' THEN KeysOf(m_stylus') ELSE {}
    BY <2>4 DEF ProcessStylus, UpdateStylus
  <2>9. KeysOf(m_stylus') = KeysOf(ReportOf(was))
    BY <2>7 DEF KeysOf
  <2>. QED
    BY <2>7, <2>8, <2>9
<1>. QED
  BY <1>1, Inductive, PTL DEF Spec, Synchronised
=============================================================================
