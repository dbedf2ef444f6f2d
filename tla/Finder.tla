------------------------------- MODULE Finder -------------------------------
(***************************************************************************)
(* The stages of the contact finder that look at the frame before          *)
(* (contacts/finder.hpp): the tracker gives every contact an index that it *)
(* keeps from frame to frame, the stabilizer marks contacts that changed   *)
(* too much, the validator marks palms.                                    *)
(*                                                                         *)
(* The detector and all geometry are left out.  How near two contacts are, *)
(* whether one changed too much and whether its size and aspect are those  *)
(* of a finger are free choices; what the code makes of them is modelled.  *)
(***************************************************************************)
EXTENDS Integers, Sequences, FiniteSetsExt, Functions

CONSTANTS
    MaxDetected,     \* bound on the contacts the detector finds in a heatmap
    MAX_CONTACTS     \* last slot of the touch device (16)

ASSUME FinderAssumption == MaxDetected \in Nat /\ MAX_CONTACTS \in Nat

\* The last frame.  Each stage keeps its own m_last; they are copies of one
\* frame, taken as it leaves the stage, and agree on what is looked at later.
VARIABLE m_last

Init == m_last = <<>>

IndicesIn(frame) == {frame[k].index : k \in DOMAIN frame}

\* Fault: indices of the last frame are not skipped.
Fresh_Reused(n) == [k \in 1..n |-> k - 1]

\* Fault: new indices are larger than all of the last frame.
Fresh_Above(n) ==
    [k \in 1..n |-> IF m_last = <<>> THEN k - 1 ELSE k + Max(IndicesIn(m_last))]

\* find_new_index, called with a counter: the n smallest unused indices.
Fresh(n) ==
    LET Unused == 0..(n + Len(m_last)) \ IndicesIn(m_last) IN
    [k \in 1..n |-> CHOOSE i \in Unused : Cardinality({j \in Unused : j < i}) = k - 1]

\* Fault: contacts may be left unmatched although there is a partner.
Matchings_Partial(n) ==
    UNION {Injection(X, DOMAIN m_last) : X \in SUBSET (1..n)}

\* Which contacts of the new frame are taken for which of the last: as many as
\* there can be, the nearest first.
Matchings(n) ==
    UNION {Injection(X, DOMAIN m_last) : X \in kSubset(Min({n, Len(m_last)}), 1..n)}

\* track: those that are matched get the index of the last frame back.
Tracked(n, match) ==
    [k \in 1..n |-> IF k \in DOMAIN match THEN m_last[match[k]].index ELSE Fresh(n)[k]]

\* find_in_frame
Last(i) == {c \in Range(m_last) : c.index = i}

\* Stabilizer: a contact that is new is stable.
IsStable(i, jumped) == Last(i) = {} \/ ~jumped

\* Fault: the validity in the last frame is not looked at.
IsValid_Untracked(i, stable, fits) == stable => fits

\* Fault: the limits are applied to contacts that are not stable, too.
IsValid_Reversed(i, stable, fits) == (\A c \in Last(i) : c.valid) /\ fits

\* Validator, with track_validity set and both limits, as in core::Config.
IsValid(i, stable, fits) == stable => (\A c \in Last(i) : c.valid) /\ fits

Judged(i, jumped, fits) ==
    LET stable == IsStable(i, jumped) IN
    [index |-> i, stable |-> stable, valid |-> IsValid(i, stable, fits)]

\* find, once it is settled who is who, who jumped and who looks like a finger.
FindWith(n, match, jumped, fits) ==
    m_last' = [k \in 1..n |-> Judged(Tracked(n, match)[k], jumped[k], fits[k])]

Find(n) ==
    \E match \in Matchings(n), jumped \in [1..n -> BOOLEAN], fits \in [1..n -> BOOLEAN] :
        FindWith(n, match, jumped, fits)

Reset == m_last' = <<>>

Next == (\E n \in 0..MaxDetected : Find(n)) \/ Reset

Spec == Init /\ [][Next]_m_last

-----------------------------------------------------------------------------
(* Properties.                                                             *)

\* Types, and the largest index there can be: it is not the number of contacts
\* that bounds it but almost twice that number, because a new contact gets an
\* index before the contacts of the last frame give theirs back
\* (contacts/tracking/tracker.hpp, track).
TypeOK ==
    m_last \in UNION {[1..n -> [index : 0..(2 * MaxDetected - 2),
                               stable : BOOLEAN, valid : BOOLEAN]] : n \in 0..MaxDetected}

\* No two contacts of a frame have the same index, whichever were matched
\* (contacts/tracking/tracker.hpp: "Assign unique indices to all contacts").
UniqueIndices ==
    \A j, k \in DOMAIN m_last : m_last[j].index = m_last[k].index => j = k

\* A finger that stays is not renumbered by others that arrive or leave: if
\* contacts only arrived all indices go on, if they only left no new one comes
\* up (the loop over min in track).
IdentityKept ==
    [][/\ Len(m_last) <= Len(m_last') => IndicesIn(m_last) \subseteq IndicesIn(m_last')
       /\ Len(m_last') <= Len(m_last) => IndicesIn(m_last') \subseteq IndicesIn(m_last)]_m_last

-----------------------------------------------------------------------------
(* What comments say and the code does not do.                             *)

\* contacts/validation/config.hpp, track_validity: "a contact that was marked
\* as invalid once will stay invalid until it is lifted".
PalmStaysInvalid ==
    [][\A b \in Range(m_last), c \in Range(m_last') :
          b.index = c.index /\ ~b.valid => ~c.valid]_m_last

\* The touch device declares MAX_CONTACTS as the largest slot, so a frame of no
\* more contacts than there are slots should fit into them
\* (apps/daemon/touch.hpp, set_absinfo for ABS_MT_SLOT).
SlotsSuffice ==
    Len(m_last) <= MAX_CONTACTS + 1 => \A i \in IndicesIn(m_last) : i <= MAX_CONTACTS
=============================================================================
