------------------------ MODULE MCCandidateLifecycle ------------------------
(* The instance of CandidateLifecycle for TLC.  There is no symmetry: the   *)
(* run checks liveness.                                                     *)
EXTENDS CandidateLifecycle

CONSTANTS u1, u2, seeder, finder
=============================================================================
