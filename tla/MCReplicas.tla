------------------------------ MODULE MCReplicas ------------------------------
(***************************************************************************)
(* Finite instances of Replicas: a managed name in each of two zones, and  *)
(* one that is not managed beside the first.                               *)
(***************************************************************************)
EXTENDS Replicas, TLC

CONSTANTS m1, m2, f1

\* One name goes whenever the other one comes.
MCWants == {{m1}, {m2}}
MCZoneOf == m1 :> 1 @@ m2 :> 2 @@ f1 :> 1
=============================================================================
