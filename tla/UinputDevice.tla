---------------------------- MODULE UinputDevice ----------------------------
(***************************************************************************)
(* Writing keys to a virtual device (apps/daemon/uinput-device.hpp).       *)
(* Every key of a frame is an event of its own, and any write may fail.    *)
(***************************************************************************)
EXTENDS Naturals, Sequences

\* emit, called for the keys of order in turn: the keys that may be down when
\* it throws, or when what is written after the last key does.
Partly(before, order, target) ==
    {LET written == {order[i] : i \in 1..n}
     IN  (before \ written) \cup (target \cap written) : n \in 0..Len(order)}
=============================================================================
