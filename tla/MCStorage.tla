----------------------------- MODULE MCStorage ------------------------------
(***************************************************************************)
(* Storage for TLC: nested keys on disk and keys in memory.                *)
(***************************************************************************)
EXTENDS Storage

CONSTANTS a, b, none, runtime, runtimes, x, y

MCValues == {x, y}

MCRuntimePrefixed == {runtime, runtimes}

MCKeys == {<<a>>, <<a, b>>, <<a, b, b>>, <<runtime>>, <<runtime, a>>}
=============================================================================
