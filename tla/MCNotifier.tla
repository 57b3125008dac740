----------------------------- MODULE MCNotifier -----------------------------
(***************************************************************************)
(* Notifier for TLC.                                                       *)
(***************************************************************************)
EXTENDS Notifier, TLC

CONSTANTS u, v

MCUuids == {u, v}

ClientSymmetry == Permutations(MCUuids)
=============================================================================
