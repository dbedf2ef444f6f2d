---------------------------- MODULE Convolution ----------------------------
(***************************************************************************)
(* Convolution of an image with a 3x3 or a 5x5 kernel                      *)
(* (contacts/detection/algorithms/convolution.hpp and optimized/).         *)
(* An image is a record of its size and its pixels in row-major order,     *)
(* numbered from 0.  A kernel of radius r is a function on (-r..r) \X      *)
(* (-r..r), written k[dy, dx].  Numbers are integers: rounding is left out.*)
(***************************************************************************)
EXTENDS Integers, Sequences, FiniteSets, FiniteSetsExt, Functions

CONSTANTS
    Garbage,            \* what is read in place of a pixel
    ForceAccessChecks   \* the option of the build, off by default

Pixels(img) == 0 .. img.rows * img.cols - 1
Row(img, i) == i \div img.cols
Col(img, i) == i % img.cols
Clamped(v, low, high) == IF v < low THEN low ELSE IF v > high THEN high ELSE v

\* The positions of a kernel of radius r.
Kernel(r) == (-r .. r) \X (-r .. r)

\* run_generic: the borders of the image are extended.
RunGeneric(img, k, r) ==
    LET At(y, x) == img.at[Clamped(y, 0, img.rows - 1) * img.cols + Clamped(x, 0, img.cols - 1)]
        Pixel(i) == SumFunction([d \in Kernel(r) |->
                        At(Row(img, i) + d[1], Col(img, i) + d[2]) * k[d]])
    IN  [img EXCEPT !.at = [i \in Pixels(img) |-> Pixel(i)]]

(***************************************************************************)
(* The optimized routines are unrolled: a block of code for each column    *)
(* near a border and one for the columns between, in each row near a       *)
(* border and in the rows between.  A block adds fixed offsets to the      *)
(* index of its pixel: a column of blocks has one for each column of the   *)
(* kernel, a row of blocks has one for each row of it.                     *)
(***************************************************************************)

\* Fault: the last column reads one pixel too far.
Columns3_Wide == << <<0, 0, 1>>, <<-1, 0, 1>>, <<-1, 0, 1>> >>
Columns3 == << <<0, 0, 1>>, <<-1, 0, 1>>, <<-1, 0, 0>> >>
FirstRow3 == <<0, 0, 1>>
MiddleRows3 == <<-1, 0, 1>>
LastRow3 == <<-1, 0, 0>>

Columns5 == << <<0, 0, 0, 1, 2>>, <<-1, -1, 0, 1, 2>>, <<-2, -1, 0, 1, 2>>,
               <<-2, -1, 0, 1, 1>>, <<-2, -1, 0, 0, 0>> >>
FirstRow5 == <<0, 0, 0, 1, 2>>
SecondRow5 == <<-1, -1, 0, 1, 2>>
MiddleRows5 == <<-2, -1, 0, 1, 2>>
LastRowButOne5 == <<-2, -1, 0, 1, 1>>
LastRow5 == <<-2, -1, 0, 0, 0>>

\* The access helper d.  The one of the 5x5 routine has a return statement only
\* in the branch for builds with forced access checks; without it the value is
\* undefined.
Read(img, i, r) ==
    IF i \in Pixels(img) /\ (r = 2 => ForceAccessChecks) THEN img.at[i] ELSE Garbage

\* Which of the blocks is the one of line p of n.
Block(p, n, blocks) ==
    LET r == Len(blocks) \div 2
    IN  IF p < r THEN blocks[p + 1]
        ELSE IF p >= n - r THEN blocks[p - n + Len(blocks) + 1]
        ELSE blocks[r + 1]

\* One block: v += d(i, dx, dy) * k(kx, ky) over the kernel.
BlockSum(img, i, k, y, x, r) ==
    SumFunction([d \in Kernel(r) |->
        Read(img, i + y[d[1] + r + 1] * img.cols + x[d[2] + r + 1], r) * k[d]])

\* The pixels are written in one pass, "width" blocks in each of "height" rows.
Unrolled(img, k, rows, columns, height, width) ==
    [img EXCEPT !.at = [i \in Pixels(img) |->
        BlockSum(img, i, k, Block(i \div width, height, rows), Block(i % width, width, columns),
            Len(columns) \div 2)]]

Run3x3(img, k) ==
    Unrolled(img, k, <<FirstRow3, MiddleRows3, LastRow3>>, Columns3, img.rows, img.cols)

\* The 5x5 routine takes the number of rows for that of the columns, and vice versa.
Run5x5(img, k) ==
    Unrolled(img, k, <<FirstRow5, SecondRow5, MiddleRows5, LastRowButOne5, LastRow5>>, Columns5,
             img.cols, img.rows)
=============================================================================
