---------------------------- MODULE MCDetector ----------------------------
(***************************************************************************)
(* Instances of Detector for TLC.                                          *)
(***************************************************************************)
EXTENDS Detector

\* The kernel of the code, 0.2257, 0.5486, 0.2257 in both directions.
Blur == [d \in Kernel(1) |->
            (IF d[1] = 0 THEN 5 ELSE 2) * (IF d[2] = 0 THEN 5 ELSE 2)]

NoSuppression == {[algorithm |-> MODE, offset |-> 0, radius |-> 0]}
SomeConfigs == NoSuppression \cup
    {[algorithm |-> AVERAGE, offset |-> 0, radius |-> 1],
     [algorithm |-> CONSTANT_VALUE, offset |-> 1, radius |-> 2]}

Image(rows, cols, F(_, _)) ==
    [rows |-> rows, cols |-> cols,
     at |-> [i \in 0 .. rows * cols - 1 |-> F(i \div cols, i % cols)]]

\* What the device sends of a heatmap with values of 0 to 9.
Sent(image) == [min |-> 0, max |-> 9,
                image |-> [image EXCEPT !.at = [i \in DOMAIN image.at |-> 9 - image.at[i]]]]

\* An image of one level.
Levels == {0, 2}
Flat(rows, cols) == {Sent(Image(rows, cols, LAMBDA y, x : v)) : v \in Levels}

\* Bars across three rows: contacts side by side.
Stripes(cols) ==
    {Sent(Image(3, cols, LAMBDA y, x : bars[x])) : bars \in [0 .. cols - 1 -> {0, 6, 9}]}

\* Two or three contacts, of which one may be weak.
Spots(n) ==
    LET Points == (0 .. n - 1) \X (0 .. n - 1)
    IN  {Sent(Image(n, n, LAMBDA y, x :
            IF <<y, x>> \in {a, <<1, 1>>} THEN 9 ELSE IF <<y, x>> = b THEN weak ELSE 0)) :
            a \in Points, b \in Points, weak \in {4, 9}}

SomeBackgrounds == Flat(5, 5)
SomeHeatmaps == Stripes(6) \cup Spots(5)
OnlyStripes == Stripes(6)
=============================================================================
