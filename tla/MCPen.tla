------------------------------- MODULE MCPen -------------------------------
(***************************************************************************)
(* Instances of Pen for TLC.                                               *)
(***************************************************************************)
EXTENDS Pen

Some == {<<FALSE, FALSE>>, <<FALSE, TRUE>>, <<TRUE, FALSE>>}
TwoOrThree == [v \in BOOLEAN |-> IF v THEN 2 ELSE 3]
\* Both kinds of pen touch and hover, with each of their tools.
SomeUses == [v \in BOOLEAN |->
    {u \in Near : IF v THEN (u.tool = "tip" /\ u.press # "firm") \/ (u.tool = "button" /\ u.press = "firm")
                       ELSE (u.tool = "tip" /\ u.press # "light") \/ (u.tool = "button" /\ u.press = "no")
                            \/ (u.tool = "eraser" /\ u.press = "firm")}]

InPhaseOrNot == {<<1, 0>>, <<-1, 0>>}

\* A position at the edge, and a measurement none can be computed from.
SomeRows ==
    {[edge |-> "right", center |-> 2, amp |-> MinAmp, apex |-> 3],
     [edge |-> "no", center |-> 1, amp |-> MinAmp, apex |-> NaN]}

\* A pressure signal at one row, with its neighbours in opposite phase.
Peak(at, side) ==
    [i \in 1 .. PRESSURE_ROWS |->
        [mag |-> IF i = at THEN 9 ELSE IF i \in {at - 1, at + 1} THEN side ELSE 0,
         sum |-> IF i = at THEN <<0, 9>> ELSE IF i \in {at - 1, at + 1} THEN <<0, -side>> ELSE <<0, 0>>]]

\* Pressed: any row but the last.  Not pressed: the last row, or no signal.
Pressed == {Peak(1, 0), Peak(6, 3)}
Hover == {Peak(6, 0), Peak(7, 0)}
=============================================================================
