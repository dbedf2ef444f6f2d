--------------------------- MODULE PipelineProofs ---------------------------
(***************************************************************************)
(* Safety of finder and daemon together, for every number of contacts: the *)
(* frames are those Daemon assumes, slots are fingers, palms stay hidden.  *)
(***************************************************************************)
EXTENDS Pipeline, TLAPS

\* What is proved of the finder alone is used here.
FP == INSTANCE FinderProofs WITH m_last <- frame

Used == {frame[k].index : k \in DOMAIN frame}

\* A contact that changed too much is not judged.
UnstableIsValid == \A k \in DOMAIN frame : frame[k].stable \/ frame[k].valid

\* Slots that are in use belong to contacts the touch device knows, which are
\* contacts of the last frame of the finder.
SlotsAreKnown == mt \subseteq m_current /\ m_current \subseteq Used

\* A touchscreen that the stylus has disabled shows nothing.
DisabledIsSilent == ~m_enabled => mt = {} /\ m_current = {}

\* PalmsAreHidden, before the step.
PalmsAreUp == \A k \in DOMAIN frame : ~frame[k].valid => frame[k].index \notin mt

IInv ==
    /\ FP!IInv
    /\ UnstableIsValid
    /\ SlotsAreKnown
    /\ DisabledIsSilent
    /\ PalmsAreUp

-----------------------------------------------------------------------------
(* The finder as Pipeline and as FinderProofs have it.                     *)

USE PipelineAssumption DEF FP!FinderAssumption

LEMMA SameTracker ==
  ASSUME NEW n, NEW match
  PROVE  F!Tracked(n, match) = FP!Tracked(n, match) /\ F!Fresh(n) = FP!Fresh(n)
  BY DEF F!Tracked, FP!Tracked, F!Fresh, FP!Fresh, F!IndicesIn, FP!IndicesIn,
         F!Cardinality, FP!Cardinality

LEMMA SameMatchings ==
  ASSUME NEW n
  PROVE  F!Matchings(n) = FP!Matchings(n)
  BY DEF F!Matchings, FP!Matchings, F!Injection, FP!Injection, F!IsInjective, FP!IsInjective,
         F!kSubset, FP!kSubset, F!Min, FP!Min, F!Cardinality, FP!Cardinality

LEMMA SameJudge ==
  ASSUME NEW i, NEW jumped, NEW fits
  PROVE  F!Judged(i, jumped, fits) = FP!Judged(i, jumped, fits)
  BY DEF F!Judged, FP!Judged, F!IsStable, FP!IsStable, F!IsValid, FP!IsValid, F!Last, FP!Last,
         F!Range, FP!Range

LEMMA SameFinder ==
  ASSUME NEW n, NEW match, NEW jumped, NEW fits, F!FindWith(n, match, jumped, fits)
  PROVE  FP!FindWith(n, match, jumped, fits)
  BY SameTracker, SameJudge DEF F!FindWith, FP!FindWith

-----------------------------------------------------------------------------
(* A frame on its way through the finder.                                  *)

\* What the daemon is handed.
Handed(n, inside) ==
    [k \in 1..n |-> [index |-> frame'[k].index, valid |-> frame'[k].valid,
                     stable |-> frame'[k].stable, inside |-> inside[k]]]

LEMMA LastFrame ==
  ASSUME IInv
  PROVE  /\ Len(frame) \in 0..MaxDetected /\ DOMAIN frame = 1..Len(frame)
         /\ \A k \in DOMAIN frame : /\ frame[k].index \in 0..(2 * MaxDetected - 2)
                                    /\ frame[k].stable \in BOOLEAN
                                    /\ frame[k].valid \in BOOLEAN
         /\ \A j, k \in DOMAIN frame : frame[j].index = frame[k].index => j = k
  BY FP!LastFrame DEF IInv, FP!IInv, FP!UniqueIndices

LEMMA NewFrame ==
  ASSUME IInv, NEW n \in 0..MaxDetected, NEW match \in F!Matchings(n),
         NEW jumped \in [1..n -> BOOLEAN], NEW fits \in [1..n -> BOOLEAN],
         F!FindWith(n, match, jumped, fits)
  PROVE  /\ FP!IInv' /\ UnstableIsValid'
         /\ DOMAIN frame' = 1..n
         /\ \A k \in 1..n : frame'[k].index = F!Tracked(n, match)[k]
         /\ \A j, k \in 1..n : frame'[j].index = frame'[k].index => j = k
<1>1. match \in FP!Matchings(n) /\ FP!FindWith(n, match, jumped, fits)
  BY SameMatchings, SameFinder
<1>2. FP!IInv'
  BY <1>1, FP!FindIInv DEF IInv
<1>3. /\ DOMAIN frame' = 1..n
      /\ frame' = [k \in 1..n |-> FP!Judged(FP!Tracked(n, match)[k], jumped[k], fits[k])]
      /\ \A k \in 1..n : frame'[k].index = FP!Tracked(n, match)[k]
  BY <1>1, FP!FoundFrame
<1>4. UnstableIsValid'
  <2> SUFFICES ASSUME NEW k \in 1..n PROVE frame'[k].stable \/ frame'[k].valid
    BY <1>3 DEF UnstableIsValid
  <2> QED
    BY <1>3 DEF FP!Judged, FP!IsValid
<1>5. \A j, k \in 1..n : frame'[j].index = frame'[k].index => j = k
  BY <1>1, <1>3, FP!TrackedIndices DEF IInv
<1> QED
  BY <1>2, <1>3, <1>4, <1>5, SameTracker

\* Contacts that are taken for none of the last frame have indices it does not use.
LEMMA FreshIsUnused ==
  ASSUME IInv, NEW n \in 0..MaxDetected, NEW match \in F!Matchings(n),
         NEW k \in (1..n) \ DOMAIN match
  PROVE  F!Tracked(n, match)[k] \notin Used
<1>1. F!Tracked(n, match)[k] = FP!Fresh(n)[k]
  BY SameTracker DEF F!Tracked
<1>2. n \in Nat /\ k \in 1..n /\ FP!TypeOK
  BY DEF IInv, FP!IInv
<1>3. FP!Fresh(n)[k] \notin FP!IndicesIn(frame)
  BY <1>2, FP!FreshIndices
<1> QED
  BY <1>1, <1>3 DEF FP!IndicesIn, Used

\* Once invalid, a contact is invalid or unstable in the next frame.
LEMMA PalmIsJudged ==
  ASSUME NEW n \in 0..MaxDetected, NEW match,
         NEW jumped \in [1..n -> BOOLEAN], NEW fits \in [1..n -> BOOLEAN],
         F!FindWith(n, match, jumped, fits),
         NEW j \in DOMAIN frame, ~frame[j].valid,
         NEW k \in 1..n, frame'[k].index = frame[j].index, frame'[k].stable
  PROVE  ~frame'[k].valid
<1> DEFINE i == F!Tracked(n, match)[k]
<1>1. frame'[k] = F!Judged(i, jumped[k], fits[k])
  BY DEF F!FindWith
<1>2. frame'[k].index = i
  BY <1>1 DEF F!Judged
<1>3. frame[j] \in F!Last(i)
  BY <1>2 DEF F!Last, F!Range
<1> HIDE DEF i
<1>4. frame'[k].stable = F!Judged(i, jumped[k], fits[k]).stable
  BY <1>1
<1>6. F!Judged(i, jumped[k], fits[k]).stable <=> F!IsStable(i, jumped[k])
  BY DEF F!Judged, F!IsStable
<1>5. frame'[k].valid = (F!IsStable(i, jumped[k]) => (\A c \in F!Last(i) : c.valid) /\ fits[k])
  BY <1>1 DEF F!Judged, F!IsValid, F!IsStable
<1> QED
  BY <1>3, <1>4, <1>5, <1>6

-----------------------------------------------------------------------------
(* The frame on its way through the touch device.                          *)
\* A contact that is shown is one that is to be shown, or one that was shown
\* before and is skipped because it is not stable.
LEMMA Shown ==
  ASSUME IInv, NEW n \in 0..MaxDetected, DOMAIN frame' = 1..n, NEW inside,
         D!OnTouch(Handed(n, inside))
  PROVE  /\ SlotsAreKnown' /\ DisabledIsSilent'
         /\ \A i \in mt' : \E k \in 1..n : /\ frame'[k].index = i
                                           /\ frame'[k].stable => frame'[k].valid
                                           /\ ~frame'[k].stable => i \in mt
<1> DEFINE f == Handed(n, inside)
<1>1. /\ DOMAIN f = 1..n
      /\ \A k \in 1..n : /\ f[k].index = frame'[k].index /\ f[k].valid = frame'[k].valid
                         /\ f[k].stable = frame'[k].stable
  BY DEF Handed
<1> HIDE DEF f
<1>2. Used' = D!IndicesOf(f)
  BY <1>1 DEF Used, D!IndicesOf
<1>3. CASE ~D!Enabled
  <2>1. ~m_enabled /\ UNCHANGED <<mt, m_current>> /\ m_enabled' = D!Enabled
    BY <1>3 DEF D!OnTouch, D!UpdateContacts, D!Enabled, f
  <2> QED
    BY <1>3, <2>1 DEF IInv, SlotsAreKnown, DisabledIsSilent
<1>4. CASE D!Enabled
  <2>1. /\ m_enabled' = D!Enabled /\ m_current' = D!IndicesOf(f) /\ m_last' = m_current
        /\ IF D!Blocked(f) THEN D!LiftAll ELSE D!Process(f)
    BY <1>4 DEF D!OnTouch, D!UpdateContacts, f
  <2>2. CASE D!LiftAll
    <3>1. mt' = {}
      BY <2>1, <2>2 DEF D!LiftAll, IInv, SlotsAreKnown
    <3> QED
      BY <1>2, <1>4, <2>1, <3>1 DEF SlotsAreKnown, DisabledIsSilent
  <2>3. CASE D!Process(f)
    <3>1. mt' = (mt \ (D!Dropped(f) \cup D!Lifted(f))) \cup D!Emitted(f)
      BY <2>3 DEF D!Process
    <3>2. ASSUME NEW i \in mt'
          PROVE  \E k \in 1..n : /\ frame'[k].index = i
                                 /\ frame'[k].stable => frame'[k].valid
                                 /\ ~frame'[k].stable => i \in mt
      <4>1. CASE i \in D!Emitted(f)
        BY <1>1, <4>1 DEF D!Emitted, D!Showable
      <4>2. CASE i \in mt /\ i \notin D!Dropped(f) /\ i \notin D!Lifted(f)
        <5>1. i \in D!IndicesOf(f)
          BY <4>2 DEF D!Lifted, IInv, SlotsAreKnown
        <5>2. PICK k \in 1..n : f[k].index = i
          BY <1>1, <5>1 DEF D!IndicesOf
        <5>3. f[k].stable => f[k].valid
          BY <1>1, <4>2, <5>2 DEF D!Dropped, D!Showable
        <5> QED
          BY <1>1, <4>2, <5>2, <5>3
      <4> QED
        BY <3>1, <4>1, <4>2
    <3>3. mt' \subseteq D!IndicesOf(f)
      BY <1>1, <3>2 DEF D!IndicesOf
    <3> QED
      BY <1>2, <1>4, <2>1, <3>2, <3>3 DEF SlotsAreKnown, DisabledIsSilent
  <2> QED
    BY <2>1, <2>2, <2>3
<1> QED
  BY <1>3, <1>4

\* What the pen and the buttons do to the touch device: nothing, or it is disabled.
LEMMA Untouched ==
  ASSUME IInv, ProcessButton \/ ProcessStylus
  PROVE  /\ mt' \subseteq mt
         /\ SlotsAreKnown /\ Used' = Used => SlotsAreKnown'
         /\ DisabledIsSilent'
<1>1. CASE ProcessButton
  BY <1>1 DEF ProcessButton, D!OnButton, D!UpdateButton, IInv, SlotsAreKnown, DisabledIsSilent
<1>2. CASE ProcessStylus
  <2>1. D!Disable \/ UNCHANGED D!touchVars
    BY <1>2 DEF ProcessStylus, D!OnStylus
  <2>2. CASE D!Disable
    <3>1. mt' = {} /\ m_current' = {}
      BY <2>2 DEF D!Disable, IInv, SlotsAreKnown
    <3> QED
      BY <3>1 DEF SlotsAreKnown, DisabledIsSilent
  <2>3. CASE UNCHANGED D!touchVars
    BY <2>3 DEF D!touchVars, IInv, SlotsAreKnown, DisabledIsSilent
  <2> QED
    BY <2>1, <2>2, <2>3
<1> QED
  BY <1>1, <1>2

-----------------------------------------------------------------------------
(* The invariant holds at first and every step preserves it.               *)

LEMMA InitIInv == ASSUME Init PROVE IInv
<1>1. frame = <<>> /\ mt = {} /\ m_current = {}
  BY DEF Init, F!Init, D!Init, D!TouchInit
<1>2. FP!IInv
  BY <1>1, FP!EmptyFrame
<1> QED
  BY <1>1, <1>2 DEF IInv, UnstableIsValid, SlotsAreKnown, DisabledIsSilent, PalmsAreUp

\* One step of the finder and the daemon, with what is chosen in it.
Processed(n, match, jumped, fits, inside) ==
    /\ F!FindWith(n, match, jumped, fits)
    /\ fresh' \in {Newcomers(was, match) : was \in Fingers(n)}
    /\ D!OnTouch(Handed(n, inside))

LEMMA ProcessTouchIInv ==
  ASSUME IInv, NEW n \in 0..MaxDetected, NEW match \in F!Matchings(n),
         NEW jumped \in [1..n -> BOOLEAN], NEW fits \in [1..n -> BOOLEAN], NEW inside,
         Processed(n, match, jumped, fits, inside)
  PROVE  IInv'
<1>1. /\ FP!IInv' /\ UnstableIsValid' /\ DOMAIN frame' = 1..n
      /\ \A j, k \in 1..n : frame'[j].index = frame'[k].index => j = k
  BY NewFrame DEF Processed
<1>2. /\ SlotsAreKnown' /\ DisabledIsSilent'
      /\ \A i \in mt' : \E k \in 1..n : /\ frame'[k].index = i
                                        /\ frame'[k].stable => frame'[k].valid
                                        /\ ~frame'[k].stable => i \in mt
  BY <1>1, Shown DEF Processed
<1>3. PalmsAreUp'
  <2> SUFFICES ASSUME NEW j \in 1..n, ~frame'[j].valid, frame'[j].index \in mt'
               PROVE  FALSE
    BY <1>1 DEF PalmsAreUp
  <2>1. PICK k \in 1..n : /\ frame'[k].index = frame'[j].index
                          /\ frame'[k].stable => frame'[k].valid
    BY <1>2
  <2>2. k = j
    BY <1>1, <2>1
  <2> QED
    BY <1>1, <2>1, <2>2 DEF UnstableIsValid
<1> QED
  BY <1>1, <1>2, <1>3 DEF IInv

LEMMA OtherIInv ==
  ASSUME IInv, ProcessButton \/ ProcessStylus, UNCHANGED frame
  PROVE  IInv'
<1>1. FP!IInv' /\ UnstableIsValid' /\ Used' = Used
  BY DEF IInv, FP!IInv, FP!TypeOK, FP!UniqueIndices, UnstableIsValid, Used
<1>2. SlotsAreKnown' /\ DisabledIsSilent' /\ mt' \subseteq mt
  BY <1>1, Untouched DEF IInv
<1>3. PalmsAreUp'
  BY <1>2 DEF IInv, PalmsAreUp
<1> QED
  BY <1>1, <1>2, <1>3 DEF IInv

LEMMA NextIInv == ASSUME IInv, [Next]_vars PROVE IInv'
<1>1. ASSUME NEW n \in 0..MaxDetected, ProcessTouch(n) PROVE IInv'
  BY <1>1, ProcessTouchIInv DEF ProcessTouch, Processed, Handed
<1>2. CASE (ProcessButton \/ ProcessStylus) /\ UNCHANGED frame
  BY <1>2, OtherIInv
<1>3. CASE UNCHANGED vars
  BY <1>3 DEF vars, daemonVars, IInv, FP!IInv, FP!TypeOK, FP!UniqueIndices, UnstableIsValid,
              SlotsAreKnown, DisabledIsSilent, PalmsAreUp, Used
<1> QED
  BY <1>1, <1>2, <1>3 DEF Next

LEMMA Inductive == Spec => []IInv
  BY InitIInv, NextIInv, PTL DEF Spec

-----------------------------------------------------------------------------
(* What follows from it.                                                   *)

\* Of every frame the daemon is handed, after any history, the indices are slots,
\* none occurs twice and only what is stable was judged: what DaemonProofs says
\* for the frames of D!Frames it says for the two together (process_touch of
\* core/generic/application.hpp).
THEOREM FramesFit == Spec => []FramesAreAsAssumed
<1>1. ASSUME IInv PROVE FramesAreAsAssumed
  <2> DEFINE n == Len(frame)
             f == [k \in DOMAIN frame |-> [index |-> frame[k].index, valid |-> frame[k].valid,
                                           stable |-> frame[k].stable, inside |-> TRUE]]
  <2>1. /\ n \in 0..MaxDetected /\ DOMAIN frame = 1..n
        /\ \A j, k \in 1..n : frame[j].index = frame[k].index => j = k
    BY <1>1, LastFrame
  <2>2. ASSUME NEW k \in 1..n PROVE f[k] \in D!Contacts
    <3>1. /\ frame[k].index \in 0..(2 * MaxDetected - 2)
          /\ frame[k].stable \in BOOLEAN /\ frame[k].valid \in BOOLEAN
          /\ frame[k].stable \/ frame[k].valid
      BY <1>1, <2>1, LastFrame DEF IInv, UnstableIsValid
    <3> QED
      BY <2>1, <3>1 DEF D!Contacts
  <2>3. f \in [1..n -> D!Contacts] /\ \A i, j \in 1..n : f[i].index = f[j].index => i = j
    BY <2>1, <2>2
  <2> HIDE DEF f, n
  <2>4. f \in D!Frames
    BY <2>1, <2>3 DEF D!Frames
  <2> QED
    BY <2>4 DEF FramesAreAsAssumed, f
<1> QED
  BY <1>1, Inductive, PTL

\* A slot of the kernel that is in use passes to a finger that came down only from
\* one that was lifted in the same frame: what is in use belongs to the last frame
\* of the finder, disabled device or not, find_new_index avoids all of that frame,
\* and an index is copied to one contact only (contacts/tracking/tracker.hpp,
\* search_lifted of apps/daemon/touch.hpp).
THEOREM SlotsStayFingers == Spec => SlotsAreFingers
<1>1. ASSUME IInv, [Next]_vars PROVE [mt \cap mt' \cap fresh' = {}]_vars
  <2>1. ASSUME NEW n \in 0..MaxDetected, ProcessTouch(n) PROVE fresh' \cap Used = {}
    <3>1. PICK match \in F!Matchings(n), jumped \in [1..n -> BOOLEAN], fits \in [1..n -> BOOLEAN] :
              /\ F!FindWith(n, match, jumped, fits)
              /\ fresh' \in {Newcomers(was, match) : was \in Fingers(n)}
      BY <2>1 DEF ProcessTouch
    <3>2. PICK was \in Fingers(n) : fresh' = Newcomers(was, match)
      BY <3>1
    <3>3. DOMAIN frame' = 1..n /\ \A k \in 1..n : frame'[k].index = F!Tracked(n, match)[k]
      BY <1>1, <3>1, NewFrame
    <3>4. ASSUME NEW k \in 1..n, k \notin DOMAIN was, frame'[k].index \in Used,
                 \A l \in DOMAIN was : l \in DOMAIN match /\ match[l] = was[l]
          PROVE  frame'[k].index \in
                     {frame[j].index : j \in DOMAIN frame \ {was[l] : l \in DOMAIN was}}
      <4>1. k \in DOMAIN match
        BY <1>1, <3>1, <3>3, <3>4, FreshIsUnused
      <4>2. match[k] \in DOMAIN frame /\ \A l \in DOMAIN match : match[l] = match[k] => l = k
        BY <4>1 DEF F!Matchings, F!Injection, F!IsInjective
      <4>3. match[k] \notin {was[l] : l \in DOMAIN was}
        BY <3>4, <4>2
      <4>4. frame'[k].index = frame[match[k]].index
        BY <3>3, <4>1 DEF F!Tracked
      <4> QED
        BY <4>2, <4>3, <4>4
    <3> QED
      BY <3>2, <3>3, <3>4 DEF Newcomers
  <2>2. mt \subseteq Used
    BY <1>1 DEF IInv, SlotsAreKnown
  <2> QED
    BY <1>1, <2>1, <2>2 DEF Next
<1> QED
  BY <1>1, Inductive, PTL DEF Spec, SlotsAreFingers

\* What the validator rejects is not shown then, nor in the frame after it, as
\* whatever it comes back: the index carries the verdict, and a contact that jumps
\* is skipped rather than shown (contacts/validation/validator.hpp, process of
\* apps/daemon/touch.hpp).
THEOREM PalmsStayHidden == Spec => PalmsAreHidden
<1> DEFINE Hidden == \A k \in DOMAIN frame : ~frame[k].valid => frame[k].index \notin mt \cup mt'
<1>1. ASSUME IInv, [Next]_vars PROVE [Hidden]_vars
  <2>1. ASSUME NEW n \in 0..MaxDetected, ProcessTouch(n) PROVE Hidden
    <3>1. PICK match \in F!Matchings(n), jumped \in [1..n -> BOOLEAN], fits \in [1..n -> BOOLEAN],
               inside \in [1..n -> BOOLEAN] :
              Processed(n, match, jumped, fits, inside)
      BY <2>1 DEF ProcessTouch, Processed, Handed
    <3>2. DOMAIN frame' = 1..n
      BY <1>1, <3>1, NewFrame DEF Processed
    <3>3. \A i \in mt' : \E k \in 1..n : /\ frame'[k].index = i
                                         /\ frame'[k].stable => frame'[k].valid
                                         /\ ~frame'[k].stable => i \in mt
      BY <1>1, <3>1, <3>2, Shown DEF Processed
    <3>4. ASSUME NEW j \in DOMAIN frame, ~frame[j].valid, frame[j].index \in mt'
          PROVE  FALSE
      <4>1. PICK k \in 1..n : /\ frame'[k].index = frame[j].index
                              /\ frame'[k].stable => frame'[k].valid
                              /\ ~frame'[k].stable => frame[j].index \in mt
        BY <3>3, <3>4
      <4>2. frame'[k].stable
        BY <1>1, <3>4, <4>1 DEF IInv, PalmsAreUp
      <4> QED
        BY <3>1, <3>4, <4>1, <4>2, PalmIsJudged DEF Processed
    <3> QED
      BY <1>1, <3>4 DEF IInv, PalmsAreUp
  <2>2. CASE ProcessButton \/ ProcessStylus
    BY <1>1, <2>2, Untouched DEF IInv, PalmsAreUp
  <2> QED
    BY <1>1, <2>1, <2>2 DEF Next
<1> QED
  BY <1>1, Inductive, PTL DEF Spec, PalmsAreHidden
=============================================================================
