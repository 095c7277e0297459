------------------------------ MODULE MCSyncer ------------------------------
(* One connector attached to one dataset, with its SYNC and PRUNE rows.    *)
EXTENDS Syncer, TLC

MCConnOf == [l \in Links |-> CHOOSE c \in Connectors : TRUE]
MCSlots == 1..2
\* Two changes at the source, or one and a fault.
MCBound == now + faults <= 2
MCSymmetry == Permutations(Workers)
=============================================================================
