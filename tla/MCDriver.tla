------------------------------ MODULE MCDriver ------------------------------
(* Small instances of Driver for TLC: one network, one or two endpoints. *)
EXTENDS DriverDocs, TLC

MCNetworkOf == [e \in Endpoints |-> CHOOSE n \in Networks : TRUE]

\* Endpoints are interchangeable, as all of them are on one network.
Symmetry == Permutations(Endpoints)

=============================================================================
