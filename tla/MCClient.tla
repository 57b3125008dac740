------------------------------ MODULE MCClient ------------------------------
(***************************************************************************)
(* Client for TLC.  Keys share nothing but the user's calls, so that one   *)
(* is enough; room for a second Subscriber is there to see that none is    *)
(* started.                                                                *)
(***************************************************************************)
EXTENDS Client

CONSTANTS k

MCKeys == {k}

MCUnreadable == {2}
=============================================================================
