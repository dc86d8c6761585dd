------------------------------ MODULE MCRemote ------------------------------
(* Remote on small instances: two peers that share an operation.           *)
EXTENDS Remote, TLC

CONSTANTS r1, r2, shared, own, c1, c2

MCOffers == r1 :> {shared} @@ r2 :> {shared, own}
MCTarget == c1 :> shared @@ c2 :> own
MCTargetOne == c1 :> shared
=============================================================================
