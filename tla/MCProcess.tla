------------------------------ MODULE MCProcess ------------------------------
(***************************************************************************)
(* ProcessLifecycle for TLC.  Clients are interchangeable, so runs without *)
(* liveness properties may take them as a symmetry set.                    *)
(***************************************************************************)
EXTENDS ProcessLifecycle, TLC

ClientSymmetry == Permutations(Clients)
=============================================================================
