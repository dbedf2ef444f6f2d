-------------------------------- MODULE Pen --------------------------------
(***************************************************************************)
(* A pen above the antennas, and what iptsd makes of it.  The antennas     *)
(* send groups of DFT windows; within a group the pen holds still.  Every  *)
(* window may be lost, repeated, cut short, out of order or without its    *)
(* metadata, which is where the group is named.                            *)
(***************************************************************************)
EXTENDS Application

CONSTANTS
    MaxGroups,      \* MaxGroups[mpp2]: bound on the groups
    Kinds,          \* pens and configurations: <<mpp2, dft_allow_split_events>>
    Uses,           \* Uses[mpp2]: how such a pen is held near the screen
    Phases,         \* phases <<real, imag>> of a signal
    Rows,           \* position rows, see InterpolatePosition
    PressedRows,    \* rows of a pressure window while the tip is pressed ...
    HoverRows       \* ... and while it is not

VARIABLES
    mpp2,       \* whether the pen sends the windows of MPP v2
    pen,        \* where the pen is, how hard it is pressed, which tool it is
    group,      \* the group that is being sent
    phase,      \* the phase of the position signal of this group
    binary,     \* whether the first binary window of the group is past
    known,      \* history: what the windows of this group have told so far
    was,        \* history: the pen of the group before, if all of its windows
                \*   arrived and none of this group has
    sawPen,     \* history: the last position window that arrived saw the pen
    tools,      \* history: the tools the pen ever was
    guessed     \* history: the stylus shows the tool of a MPP v2 pen without
                \*   having been told by the first binary window of the group

penVars == <<mpp2, pen, group, phase, binary, known, was, sawPen, tools, guessed>>
appVars == <<dftVars, deviceVars, m_info, dft_allow_split_events>>
vars == <<appVars, penVars>>

Away == [near |-> FALSE, press |-> "no", tool |-> "tip"]
Near == [near : {TRUE}, press : {"no", "light", "firm"}, tool : {"tip", "button", "eraser"}]

\* Whether the frequency of these rows is that of a pressed tip.
Presses(data) ==
    LET f == InterpolateFrequency(data) IN f # NaN /\ f[1] < f[2]

\* None and NaN are no values; a signal has a phase, and is told from none.
ASSUME PenAssumption ==
    /\ None \notin Nat \cup BOOLEAN \cup Near \cup {Away}
    /\ NaN \notin Int
    /\ MinMag \in Nat \ {0} /\ MinAmp \in Nat
    /\ MaxGroups \in [BOOLEAN -> Nat \ {0}]
    /\ Kinds \subseteq BOOLEAN \X BOOLEAN
    /\ \A v \in BOOLEAN : Uses[v] \subseteq Near
    /\ Phases \subseteq (Int \X Int) \ {<<0, 0>>}
    /\ Rows \subseteq [edge : {"left", "right", "no"}, center : Int, amp : Int,
                       apex : Int \cup {NaN}]
    /\ \A data \in PressedRows : Presses(data)
    /\ \A data \in HoverRows : ~Presses(data)

Pens == {Away} \cup Uses[mpp2]

Init ==
    /\ mpp2 \in BOOLEAN /\ ApplicationInit
    /\ <<mpp2, dft_allow_split_events>> \in Kinds
    /\ pen \in Pens /\ group = 1 /\ phase \in Phases /\ binary = FALSE
    /\ known = {} /\ was = None /\ sawPen = FALSE
    /\ tools = {pen.tool} /\ guessed = FALSE

Opposite(v) == <<-v[1], -v[2]>>
Strong == 2 * MinMag

\* The windows the antennas may send of the pen as it is; too few rows: cut.
PositionWindows ==
    [type : {"Position"}, group : {group, None}, rows : {1, 2},
     mag : {IF pen.near THEN Strong ELSE MinMag}, sum : {phase}, row : Rows]

ButtonWindows ==
    [type : {"Button"}, group : {group, None}, rows : {0, 1},
     mag : IF pen.tool # "tip" THEN {Strong} ELSE IF mpp2 THEN {MinMag, Strong} ELSE {MinMag},
     sum : CASE pen.tool = "eraser" -> {phase}
             [] pen.tool = "button" -> {Opposite(phase)}
             [] OTHER -> Phases]

PressureWindows ==
    [type : {"Pressure"}, rows : {PRESSURE_ROWS - 1, PRESSURE_ROWS},
     data : IF pen.press = "firm" THEN PressedRows ELSE HoverRows]

Pair(second) == [first |-> IF second THEN 0 ELSE Strong, second |-> IF second THEN Strong ELSE 0]
Quiet == [first |-> 0, second |-> 0]

PositionMpp2Windows ==
    {[type |-> "PositionMPP_2", rows |-> n, first |-> p.first, second |-> p.second] :
        n \in {3, 4}, p \in {Pair(pen.press # "no"), Quiet}}

\* A group has two binary windows, the second of which says something else.
BinaryPairs ==
    IF binary THEN {Pair(TRUE), Pair(FALSE), Quiet} ELSE {Pair(pen.tool # "tip"), Quiet}

BinaryWindows ==
    {[type |-> "BinaryMPP_2", group |-> g, rows |-> n, first |-> p.first, second |-> p.second] :
        g \in {group, None}, n \in {5, 6}, p \in BinaryPairs}

SawPen(w) == Usable(w) /\ InterpolatePosition(w.row) # NaN

\* What is known of the group after a window: its position, which tool a
\* binary window or a button window told, which contact a MPP v2 position or
\* a pressure window told.
Known(w) ==
    CASE w.type = "Position" ->
            IF ~SawPen(w) THEN {}
            ELSE IF w.group = group THEN known \cup {"position"} ELSE known \ {"position"}
      [] w.type = "Button" ->
            IF w.rows = 0 \/ w.group # group \/ "position" \notin known THEN known
            ELSE IF mpp2 => "held" \in known THEN known \cup {"tool"} ELSE known \ {"tool"}
      [] w.type = "Pressure" ->
            IF w.rows < PRESSURE_ROWS THEN known
            ELSE IF mpp2 => "touch" \in known THEN known \cup {"contact"} ELSE known \ {"contact"}
      [] w.type = "PositionMPP_2" ->
            IF w.rows > 3 /\ Decision(w) # None THEN known \cup {"touch"} ELSE known \ {"touch"}
      [] w.type = "BinaryMPP_2" ->
            IF ~binary /\ w.rows > 5 /\ w.group = group /\ Decision(w) # None
            THEN known \cup {"held"} ELSE known
      [] OTHER -> known

\* A button window that can be compared with the position shows a tool; a
\* position window that does not see the pen shows none.
Guessed(w) ==
    IF w.type = "Button" /\ w.rows > 0 /\ m_group = group /\ w.group = group
    THEN mpp2 /\ "held" \notin known
    ELSE guessed /\ (w.type = "Position" => SawPen(w))

Arrive(w) ==
    /\ ProcessDft(w)
    /\ known' = Known(w)
    /\ guessed' = Guessed(w)
    /\ was' = None
    /\ sawPen' = IF w.type = "Position" THEN SawPen(w) ELSE sawPen
    /\ binary' = (binary \/ w.type = "BinaryMPP_2")
    /\ UNCHANGED <<mpp2, pen, group, phase, tools>>

LoseBinary ==
    /\ mpp2 /\ ~binary
    /\ binary' = TRUE
    /\ UNCHANGED <<appVars, mpp2, pen, group, phase, known, was, sawPen, tools, guessed>>

NextGroup ==
    /\ group < MaxGroups[mpp2]
    /\ group' = group + 1
    /\ pen' \in Pens /\ phase' \in Phases
    /\ tools' = tools \cup {pen'.tool}
    /\ was' = IF {"position", "tool", "contact"} \subseteq known THEN pen ELSE None
    /\ known' = {} /\ binary' = FALSE
    /\ UNCHANGED <<appVars, mpp2, sawPen, guessed>>

Next ==
    \/ \E w \in PositionWindows \cup ButtonWindows \cup PressureWindows : Arrive(w)
    \/ mpp2 /\ \E w \in PositionMpp2Windows \cup BinaryWindows : Arrive(w)
    \/ Arrive([type |-> "Other"])
    \/ LoseBinary
    \/ NextGroup

Spec == Init /\ [][Next]_vars

-----------------------------------------------------------------------------
(* Properties.                                                             *)

TypeOK ==
    /\ m_stylus \in [proximity : BOOLEAN, contact : BOOLEAN, button : BOOLEAN,
                     rubber : BOOLEAN, pressure : BOOLEAN, x : Int]
    /\ m_center \in Phases \cup {<<0, 0>>}
    /\ {m_group, m_mppv2_binary_group} \subseteq 1..MaxGroups[mpp2] \cup {None}
    /\ {m_mppv2_button_or_eraser, m_mppv2_in_contact} \subseteq BOOLEAN \cup {None}
    /\ m_active \in BOOLEAN /\ penKeys \subseteq PenKeys /\ penPressure \in BOOLEAN
    /\ m_last_sample.proximity \in BOOLEAN /\ m_last_sample.rubber \in BOOLEAN
    /\ m_info \in {"touchscreen", "touchpad"} /\ dft_allow_split_events \in BOOLEAN
    /\ mpp2 \in BOOLEAN /\ pen \in Pens /\ group \in 1..MaxGroups[mpp2] /\ phase \in Phases
    /\ {binary, sawPen, guessed} \subseteq BOOLEAN
    /\ known \subseteq {"position", "held", "touch", "tool", "contact"}
    /\ was \in Pens \cup {None} /\ tools \subseteq {"tip", "button", "eraser"}

\* When the last position window did not see the pen no key of the virtual
\* stylus is down, whatever the other windows said before or since.
GoneIsUp == penKeys # {} => sawPen

\* A pen whose button was never pressed is never reported with it, nor is one
\* that was never turned around reported as an eraser, whichever windows are
\* lost: phases of different groups are never compared.  For a pen of MPP v2 the
\* first binary window of the group has to tell whether a tool is held: when it is
\* lost, cut, too quiet or late, or forgotten since the pen was lifted, the second
\* one or the strength of the button window decides, and what the stylus then
\* shows, until the next button window or lift, is a guess that may be wrong.
NothingInvented ==
    ~guessed => /\ m_stylus.button => "button" \in tools
                /\ m_stylus.rubber => "eraser" \in tools

ReportOf(p) ==
    [proximity |-> p.near, button |-> p.tool = "button", rubber |-> p.tool = "eraser",
     contact |-> p.press = "firm" \/ (mpp2 /\ p.press = "light")]

\* Once all windows of a group have arrived, the position that begins the next
\* group reports the pen as it was in that group, or releases everything for
\* the one frame in which the tool changes.
Synchronised ==
    [][was # None /\ "position" \in known' /\ m_info = "touchscreen"
        => penKeys' = IF m_last_sample.rubber = ReportOf(was).rubber
                      THEN KeysOf(ReportOf(was))
                      ELSE {}]_vars

\* A pen is pressed onto the display only while it touches it.
PressedInContact == penPressure /\ penKeys # {} => "BTN_TOUCH" \in penKeys
=============================================================================
