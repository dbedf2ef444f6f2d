----------------------------- MODULE DftStylus -----------------------------
(***************************************************************************)
(* The stylus that is computed from antenna measurements                   *)
(* (core/generic/dft.hpp).  A DFT window is a record: its type, the group  *)
(* it belongs to, the number of its rows and what the handler of its type  *)
(* reads from them.  x and y are measured alike: "mag" and "row" stand for *)
(* the weaker axis, and a pair <<real, imag>> for the sum over both.  Tilt *)
(* is left out, the position is kept on one axis and in half antennas.     *)
(***************************************************************************)
EXTENDS Integers, Sequences

CONSTANTS
    None,           \* std::nullopt
    NaN,            \* a position or a frequency that cannot be computed
    MinMag,         \* the dft_*_min_mag of the configuration, all alike
    MinAmp          \* dft_position_min_amp

VARIABLES
    m_stylus,                   \* the current state of the stylus
    m_center,                   \* <<m_real, m_imag>>: phase of the position
    m_group,                    \* the group of that position, or None
    m_mppv2_binary_group,       \* the last group with a binary window
    m_mppv2_button_or_eraser,   \* what that window said, or None
    m_mppv2_in_contact          \* what the MPP v2 position said, or None

mppv2 == <<m_mppv2_button_or_eraser, m_mppv2_in_contact>>
dftVars == <<m_stylus, m_center, m_group, m_mppv2_binary_group, mppv2>>

PRESSURE_ROWS == 6

DftInit ==
    /\ m_stylus = [proximity |-> FALSE, contact |-> FALSE, button |-> FALSE,
                   rubber |-> FALSE, pressure |-> FALSE, x |-> 0]
    /\ m_center = <<0, 0>>
    /\ m_group = None
    /\ m_mppv2_binary_group = None
    /\ m_mppv2_button_or_eraser = None
    /\ m_mppv2_in_contact = None

Dot(a, b) == a[1] * b[1] + a[2] * b[2]

Clamp(v, low, high) == IF v < low THEN low ELSE IF v > high THEN high ELSE v

(***************************************************************************)
(* The position on a row in half antennas: the strongest antenna plus an   *)
(* offset, which is the apex of a parabola through three amplitudes, or    *)
(* NaN when they do not lie on one.  A row whose left or right neighbour   *)
(* is off the screen fits the parabola one antenna further in.             *)
(***************************************************************************)
InterpolatePosition(row) ==
    LET shift == CASE row.edge = "left" -> 2 [] row.edge = "right" -> -2 [] OTHER -> 0
        mind == IF row.edge = "left" THEN -2 ELSE -1
        maxd == IF row.edge = "right" THEN 2 ELSE 1
    IN  IF row.amp < MinAmp \/ row.apex = NaN
        THEN NaN
        ELSE 2 * row.center + shift + Clamp(row.apex, mind, maxd)

(***************************************************************************)
(* The frequency of the pressure signal as a fraction <<part, whole>> of   *)
(* the rows, by Jacobsen's estimator around the strongest row, or NaN.     *)
(* The code multiplies in 32 bits, which is exact for sums below 2^15.     *)
(***************************************************************************)
InterpolateFrequency(rows) ==
    LET Mag(i) == rows[i + 1].mag
        Sum(i, k) == rows[i + 1].sum[k]
        peak == CHOOSE i \in 0 .. PRESSURE_ROWS - 1 :
                    /\ \A j \in 0 .. PRESSURE_ROWS - 1 : Mag(j) <= Mag(i)
                    /\ \A j \in 0 .. i - 1 : Mag(j) < Mag(i)
        maxi == Clamp(peak, 1, PRESSURE_ROWS - 2)
        mind == IF peak < maxi THEN -2 ELSE -1
        maxd == IF peak > maxi THEN 2 ELSE 1
        a == [k \in 1 .. 2 |-> Sum(maxi - 1, k) - Sum(maxi + 1, k)]
        b == [k \in 1 .. 2 |-> 2 * Sum(maxi, k) - Sum(maxi - 1, k) - Sum(maxi + 1, k)]
        den == Dot(b, b)
    IN  IF Mag(peak) < 2 * MinMag \/ den = 0
        THEN NaN
        ELSE <<2 * den * maxi + Clamp(2 * Dot(a, b), mind * den, maxd * den),
               2 * den * (PRESSURE_ROWS - 1)>>

\* lift: neither the pressure nor what identifies the groups is forgotten.
Lift ==
    /\ m_stylus' = [m_stylus EXCEPT !.proximity = FALSE, !.contact = FALSE,
                                    !.button = FALSE, !.rubber = FALSE]
    /\ m_mppv2_in_contact' = None
    /\ m_mppv2_button_or_eraser' = None

Usable(w) == w.rows > 1 /\ w.mag > MinMag

\* Fault: a position that cannot be computed does not lift the stylus.
HandlePosition_Return(w) ==
    /\ m_group' = IF Usable(w) THEN w.group ELSE m_group
    /\ m_center' = IF Usable(w) THEN w.sum ELSE m_center
    /\ IF ~Usable(w)
       THEN Lift
       ELSE /\ m_stylus' = IF InterpolatePosition(w.row) = NaN
                           THEN m_stylus
                           ELSE [m_stylus EXCEPT !.proximity = TRUE,
                                                 !.x = InterpolatePosition(w.row)]
            /\ UNCHANGED mppv2
    /\ UNCHANGED m_mppv2_binary_group

\* The phase is kept even when the position then turns out not to exist.
HandlePosition(w) ==
    /\ m_group' = IF Usable(w) THEN w.group ELSE m_group
    /\ m_center' = IF Usable(w) THEN w.sum ELSE m_center
    /\ IF Usable(w) /\ InterpolatePosition(w.row) # NaN
       THEN /\ m_stylus' = [m_stylus EXCEPT !.proximity = TRUE,
                                            !.x = InterpolatePosition(w.row)]
            /\ UNCHANGED mppv2
       ELSE Lift
    /\ UNCHANGED m_mppv2_binary_group

\* Fault: a phase is compared with that of an earlier group.
Comparable_Always(w) == w.rows > 0

Comparable(w) == w.rows > 0 /\ m_group # None /\ m_group = w.group

\* Same phase as the position: eraser; opposite phase: button.
HandleButton(w) ==
    LET held == IF m_mppv2_button_or_eraser # None
                THEN m_mppv2_button_or_eraser
                ELSE w.mag > MinMag
        val == IF held THEN Dot(m_center, w.sum) ELSE 0
    IN  /\ m_stylus' = IF Comparable(w)
                       THEN [m_stylus EXCEPT !.button = val < 0, !.rubber = val > 0]
                       ELSE m_stylus
        /\ UNCHANGED <<m_center, m_group, m_mppv2_binary_group, mppv2>>

\* Fault: a MPP v2 pen that touches without pressure is not in contact.
HandlePressure_NoOverride(w) ==
    /\ m_stylus' = IF w.rows < PRESSURE_ROWS
                   THEN m_stylus
                   ELSE LET f == InterpolateFrequency(w.data)
                            p == f # NaN /\ f[1] < f[2]
                        IN  [m_stylus EXCEPT !.contact = p, !.pressure = p]
    /\ UNCHANGED <<m_center, m_group, m_mppv2_binary_group, mppv2>>

\* p > 0 is a frequency below the last row.
HandlePressure(w) ==
    LET f == InterpolateFrequency(w.data)
        p == f # NaN /\ f[1] < f[2]
    IN  /\ m_stylus' = IF w.rows < PRESSURE_ROWS
                       THEN m_stylus
                       ELSE [m_stylus EXCEPT !.contact = p \/ m_mppv2_in_contact = TRUE,
                                             !.pressure = p]
        /\ UNCHANGED <<m_center, m_group, m_mppv2_binary_group, mppv2>>

\* What two rows say: whether the second is the stronger, if either is strong.
Decision(w) ==
    IF w.first < 2 * MinMag /\ w.second < 2 * MinMag THEN None ELSE w.first < w.second

\* Only the first binary window of a group counts.
HandleDftBinaryMpp2(w) ==
    LET first == w.rows > 5 /\ w.group # None /\ m_mppv2_binary_group # w.group
    IN  /\ m_mppv2_binary_group' = IF first THEN w.group ELSE m_mppv2_binary_group
        /\ m_mppv2_button_or_eraser' = IF first THEN Decision(w) ELSE m_mppv2_button_or_eraser
        /\ UNCHANGED <<m_stylus, m_center, m_group, m_mppv2_in_contact>>

HandlePositionMpp2(w) ==
    /\ m_mppv2_in_contact' = IF w.rows <= 3 THEN None ELSE Decision(w)
    /\ UNCHANGED <<m_stylus, m_center, m_group, m_mppv2_binary_group,
                   m_mppv2_button_or_eraser>>

Input(w) ==
    \/ w.type = "Position" /\ HandlePosition(w)
    \/ w.type = "Button" /\ HandleButton(w)
    \/ w.type = "Pressure" /\ HandlePressure(w)
    \/ w.type = "PositionMPP_2" /\ HandlePositionMpp2(w)
    \/ w.type = "BinaryMPP_2" /\ HandleDftBinaryMpp2(w)
    \/ w.type = "Other" /\ UNCHANGED dftVars

\* Whether input asks for an event: the position synchronises all others.
EmitEvent(w) == w.type = "Position"
=============================================================================
