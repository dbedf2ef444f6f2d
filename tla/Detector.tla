------------------------------ MODULE Detector ------------------------------
(***************************************************************************)
(* From a heatmap to the boxes around contacts: process_touch of           *)
(* core/generic/application.hpp and contacts/detection/detector.hpp with   *)
(* its algorithms.  Values are integers, in units in which the kernel is   *)
(* one of integers.  The fit of an ellipse into each box is left out.      *)
(***************************************************************************)
EXTENDS Convolution

CONSTANTS
    MODE, AVERAGE, CONSTANT_VALUE,      \* neutral::Algorithm
    Configs,            \* the configurations: neutral_value_algorithm,
                        \*   neutral_value_offset and peak_suppression_radius
    NEUTRAL_BACKOFF,    \* neutral_value_backoff
    KERNEL_BLUR,        \* m_kernel_blur
    ACTIVATION, DEACTIVATION,   \* the thresholds
    ITERATIONS,         \* how often clusters are merged
    Backgrounds,        \* frames without contacts, as the device sends them
    Heatmaps,           \* frames with contacts
    MaxFrames           \* bound on the frames

ASSUME CountAssumption ==
    NEUTRAL_BACKOFF \in Nat \ {0} /\ ITERATIONS \in Nat \ {0} /\ MaxFrames \in Nat
ASSUME ThresholdAssumption ==
    ACTIVATION \in Int /\ DEACTIVATION \in Int /\ DEACTIVATION <= ACTIVATION
ASSUME ConfigAssumption == \A c \in Configs : c.offset \in Int /\ c.radius \in Int
ASSUME KernelAssumption == KERNEL_BLUR \in [Kernel(1) -> Nat]

\* No device has a heatmap of one row or column; without any it is refused.
ASSUME HeatmapAssumption ==
    \A data \in Backgrounds \cup Heatmaps :
        /\ data.image \in [rows : Nat \ {1}, cols : Nat \ {1}, at : [Pixels(data.image) -> Int]]
        /\ data.max \in Int

VARIABLES
    m_config,
    m_heatmap,      \* the heatmap: 0 (no contact) to max - min (contact)
    m_neutral,      \* the cached neutral value
    m_counter,      \* frames until it is calculated again
    m_blurred,      \* m_img_blurred
    span_src,       \* the image clusters are spanned on
    m_maximas,      \* the local maximas, as indices of pixels
    spanned,        \* the clusters before ...
    m_clusters,     \* ... and after the overlapping ones were merged
    frames          \* the frames so far

vars == <<m_config, m_heatmap, m_neutral, m_counter, m_blurred, span_src, m_maximas,
          spanned, m_clusters, frames>>

Empty == [rows |-> 0, cols |-> 0, at |-> <<>>]

Init ==
    /\ m_config \in Configs
    /\ m_heatmap = Empty /\ m_blurred = Empty /\ span_src = Empty
    /\ m_neutral = 0 /\ m_counter = 0
    /\ m_maximas = <<>> /\ spanned = <<>> /\ m_clusters = <<>>
    /\ frames = 0

Map(img, F(_)) == [img EXCEPT !.at = [i \in Pixels(img) |-> F(i)]]

\* The device sends max (no contact) to min (contact).
Normalised(data) == Map(data.image, LAMBDA i : data.max - data.image.at[i])

-----------------------------------------------------------------------------
(* The algorithms.                                                         *)

\* The most common value; of several the one that is complete first.
StatisticalMode(img) ==
    LET At(v) == {i \in Pixels(img) : img.at[i] = v}
        Values == {img.at[i] : i \in Pixels(img)}
        Most == Max({Cardinality(At(v)) : v \in Values})
    IN  CHOOSE v \in Values :
            /\ Cardinality(At(v)) = Most
            /\ \A u \in Values \ {v} :
                   Cardinality(At(u)) = Most => Max(At(v)) < Max(At(u))

Neutral(img) ==
    m_config.offset +
    CASE m_config.algorithm = MODE -> StatisticalMode(img)
      [] m_config.algorithm = AVERAGE ->
            SumFunction(img.at) \div Cardinality(Pixels(img))
      [] OTHER -> 0

InImage(img, y, x) == y \in 0 .. img.rows - 1 /\ x \in 0 .. img.cols - 1

\* Fault: a pixel may equal none of its neighbours.
MayEqual_None(d) == FALSE

\* A pixel may equal its neighbours on the right, below, and up right.
MayEqual(d) == d \in {<<0, 1>>, <<1, 0>>, <<1, 1>>, <<-1, 1>>}

IsMaxima(img, i) ==
    /\ img.at[i] > ACTIVATION
    /\ \A d \in ((-1 .. 1) \X (-1 .. 1)) \ {<<0, 0>>} :
           InImage(img, Row(img, i) + d[1], Col(img, i) + d[2]) =>
               LET n == img.at[i + d[1] * img.cols + d[2]]
               IN  n < img.at[i] \/ (MayEqual(d) /\ n = img.at[i])

\* Numbers in ascending order.
InOrder(S) == [k \in 1 .. Cardinality(S) |-> CHOOSE i \in S : Cardinality({j \in S : j < i}) = k - 1]

FindMaximas(img) == InOrder({i \in Pixels(img) : IsMaxima(img, i)})

\* Pixels around a maxima are halved, once; the maximas themselves are not.
DarkenAroundMaximas(img, maximas, radius) ==
    LET Near(i, p) == /\ (Row(img, i) - Row(img, p)) * (Row(img, i) - Row(img, p))
                            + (Col(img, i) - Col(img, p)) * (Col(img, i) - Col(img, p))
                                <= radius * radius
    IN  Map(img, LAMBDA i :
            IF (\E p \in Range(maximas) : Near(i, p)) /\ i \notin Range(maximas)
            THEN img.at[i] \div 2
            ELSE img.at[i])

\* Fault: below the activation threshold the value may rise again.
Blocked_Never(value, previous) == value <= DEACTIVATION

\* Below the activation threshold the value may not rise any more.
Blocked(value, previous) ==
    \/ value <= DEACTIVATION
    \/ previous <= ACTIVATION /\ value > previous

\* The pixels right, left, below and above a pixel.
Around(img, i) ==
    (IF Col(img, i) < img.cols - 1 THEN {i + 1} ELSE {})
        \cup (IF Col(img, i) > 0 THEN {i - 1} ELSE {})
        \cup (IF Row(img, i) < img.rows - 1 THEN {i + img.cols} ELSE {})
        \cup (IF Row(img, i) > 0 THEN {i - img.cols} ELSE {})

\* The body of span_recursive, where span is the function itself.
SpanBody(img, span, visited, i, previous) ==
    LET Into(v, n) == IF n \in Around(img, i) THEN span[<<v, n, img.at[i]>>] ELSE v
    IN  IF Blocked(img.at[i], previous) \/ i \in visited
        THEN visited
        ELSE Into(Into(Into(Into(visited \cup {i}, i + 1), i - 1), i + img.cols), i - img.cols)

SpanRecursive(img) ==
    LET span[call \in (SUBSET Pixels(img)) \X Pixels(img) \X Int] ==
            SpanBody(img, span, call[1], call[2], call[3])
    IN  span

\* A box: both its corners belong to it.
Box(img, S) ==
    [top |-> Min({Row(img, i) : i \in S}), bottom |-> Max({Row(img, i) : i \in S}),
     left |-> Min({Col(img, i) : i \in S}), right |-> Max({Col(img, i) : i \in S})]

Span(img, i) == SpanRecursive(img)[<<{}, i, img.at[i]>>]

\* One pixel more on each side, but not beyond the image.
Extended(img, b) ==
    [top |-> Max({b.top - 1, 0}), bottom |-> Min({b.bottom + 1, img.rows - 1}),
     left |-> Max({b.left - 1, 0}), right |-> Min({b.right + 1, img.cols - 1})]

Height(b) == b.bottom - b.top + 1
Width(b) == b.right - b.left + 1

\* A cluster for each maxima, unless it is smaller than 3x3 pixels.
SpanClusters(img, maximas) ==
    LET boxes == [n \in DOMAIN maximas |-> Extended(img, Box(img, Span(img, maximas[n])))]
        large == InOrder({n \in DOMAIN boxes : Width(boxes[n]) >= 3 /\ Height(boxes[n]) >= 3})
    IN  [n \in DOMAIN large |-> boxes[large[n]]]

Area(b) == Width(b) * Height(b)

Intersection(a, b) ==
    [top |-> Max({a.top, b.top}), bottom |-> Min({a.bottom, b.bottom}),
     left |-> Max({a.left, b.left}), right |-> Min({a.right, b.right})]

\* The smallest box with all of these in it.
Merged(boxes) ==
    [top |-> Min({b.top : b \in boxes}), bottom |-> Max({b.bottom : b \in boxes}),
     left |-> Min({b.left : b \in boxes}), right |-> Max({b.right : b \in boxes})]

\* The intersection is at least half of the union.
Overlap(a, b) ==
    LET i == Intersection(a, b)
    IN  /\ Height(i) > 0 /\ Width(i) > 0
        /\ 2 * Area(i) >= Area(a) + Area(b) - Area(i)

\* One iteration: a cluster takes in those after it that overlap with it, and
\* is dropped itself if one before it overlaps with it, taken in or not.
MergeOnce(clusters) ==
    LET After(i) == {j \in DOMAIN clusters : i < j /\ Overlap(clusters[i], clusters[j])}
        Grown(i) == Merged({clusters[j] : j \in {i} \cup After(i)})
        kept == InOrder({j \in DOMAIN clusters : \A i \in DOMAIN clusters : j \notin After(i)})
    IN  [n \in DOMAIN kept |-> Grown(kept[n])]

Merge(clusters) ==
    LET merged[n \in 0 .. ITERATIONS] == IF n = 0 THEN clusters ELSE MergeOnce(merged[n - 1])
    IN  merged[ITERATIONS]

-----------------------------------------------------------------------------
(* The program.                                                            *)

\* Detector::detect.
Detect(heatmap) ==
    LET neutral == IF m_counter = 0 THEN Neutral(heatmap) ELSE m_neutral
        above == Map(heatmap, LAMBDA i : Max({heatmap.at[i] - neutral, 0}))
        blurred == Run3x3(above, KERNEL_BLUR)
        maximas == FindMaximas(blurred)
    IN  /\ m_heatmap' = heatmap
        /\ m_neutral' = neutral
        /\ m_counter' = (m_counter + 1) % NEUTRAL_BACKOFF
        /\ m_blurred' = blurred
        /\ m_maximas' = maximas
        /\ span_src' = IF m_config.radius >= 1
                       THEN DarkenAroundMaximas(blurred, maximas, m_config.radius)
                       ELSE blurred
        /\ spanned' = SpanClusters(span_src', maximas)
        /\ m_clusters' = Merge(spanned')

ProcessTouch(data) ==
    /\ data.image.rows # 0 /\ data.image.cols # 0
    /\ Detect(Normalised(data))
    /\ UNCHANGED m_config

\* Only the neutral value and the counter outlive a frame, so that all frames
\* but the last need not have contacts.
Frame ==
    /\ frames < MaxFrames
    /\ frames' = frames + 1
    /\ \E data \in IF frames' < MaxFrames THEN Backgrounds ELSE Heatmaps : ProcessTouch(data)

Next == Frame

Spec == Init /\ [][Next]_vars

-----------------------------------------------------------------------------
(* Properties.                                                             *)

TypeOK ==
    /\ m_config \in Configs
    /\ m_counter \in 0 .. NEUTRAL_BACKOFF - 1 /\ m_neutral \in Int
    /\ m_heatmap.at \in [Pixels(m_heatmap) -> Int] \cup {<<>>}
    /\ {m_blurred.at, span_src.at} \subseteq [Pixels(m_heatmap) -> Nat] \cup {<<>>}
    /\ Range(m_maximas) \subseteq Pixels(m_heatmap)
    /\ \A c \in Range(spanned) \cup Range(m_clusters) :
           /\ 0 <= c.top /\ c.top + 2 <= c.bottom /\ c.bottom < m_heatmap.rows
           /\ 0 <= c.left /\ c.left + 2 <= c.right /\ c.right < m_heatmap.cols
    /\ frames \in 0 .. MaxFrames

\* A kernel whose numbers are all different.
Skewed(r) == [d \in Kernel(r) |-> (2 * r + 1) * (d[1] + r) + d[2] + r + 1]

\* The unrolled routines compute what the generic one does: the one for 3x3
\* kernels on images of at least two rows and columns, the one for 5x5 kernels
\* only in builds with forced access checks, on images as wide as they are high.
OptimizedIsGeneric ==
    /\ m_heatmap.rows >= 2 /\ m_heatmap.cols >= 2 =>
           Run3x3(m_heatmap, Skewed(1)) = RunGeneric(m_heatmap, Skewed(1), 1)
    /\ ForceAccessChecks /\ m_heatmap.rows >= 4 /\ m_heatmap.rows = m_heatmap.cols =>
           Run5x5(m_heatmap, Skewed(2)) = RunGeneric(m_heatmap, Skewed(2), 2)

\* The pixels that can be reached from S, where next[i] are those after i.
Reach(S, next) ==
    LET reach[T \in SUBSET DOMAIN next] ==
            LET U == T \cup UNION {next[i] : i \in T} IN IF U = T THEN T ELSE reach[U]
    IN  reach[S]

Neighbours(i) ==
    {j \in Pixels(m_blurred) \ {i} :
        /\ Row(m_blurred, i) - Row(m_blurred, j) \in -1 .. 1
        /\ Col(m_blurred, i) - Col(m_blurred, j) \in -1 .. 1}

\* No peak is discarded: every summit above the threshold, be it one pixel or
\* a plateau of equal ones, has a maxima.  And no two maximas are neighbours.
PeaksFound ==
    LET Value(i) == m_blurred.at[i]
        equal == [i \in Pixels(m_blurred) |-> {j \in Neighbours(i) : Value(j) = Value(i)}]
        IsSummit(S) == \A i \in S : \A j \in Neighbours(i) : Value(j) <= Value(i)
    IN  /\ \A i \in {j \in Pixels(m_blurred) : Value(j) > ACTIVATION} :
               LET plateau == Reach({i}, equal)
               IN  IsSummit(plateau) => plateau \cap Range(m_maximas) # {}
        /\ \A i \in Range(m_maximas) : Neighbours(i) \cap Range(m_maximas) = {}

\* Two contacts are not connected to one cluster: of the pixels above the
\* activation threshold a cluster spans those that are connected to its
\* maxima by pixels above the threshold, and no others.
ContactsKeptApart ==
    LET Hot == {i \in Pixels(span_src) : span_src.at[i] > ACTIVATION}
        hotter == [i \in Hot |-> Around(span_src, i) \cap Hot]
    IN  \A i \in Range(m_maximas) : Span(span_src, i) \cap Hot = Reach({i}, hotter)

\* The iterations suffice: no two clusters that are left overlap by half.
MergedApart ==
    \A a, b \in DOMAIN m_clusters : a # b => ~Overlap(m_clusters[a], m_clusters[b])

Inside(i, b) ==
    Row(m_heatmap, i) \in b.top .. b.bottom /\ Col(m_heatmap, i) \in b.left .. b.right

\* Of two overlapping clusters one is extended and the other one is dropped:
\* a maxima that had a cluster is inside one of those that are left.
NoContactLost ==
    \A i \in Range(m_maximas) :
        (\E c \in Range(spanned) : Inside(i, c)) => \E c \in Range(m_clusters) : Inside(i, c)
=============================================================================
