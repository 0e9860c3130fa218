----------------------------- MODULE MCContract -----------------------------
(* Small instances of DriverContract for TLC: one network. *)
EXTENDS DriverContract

MCNetworkOf == [e \in Endpoints |-> CHOOSE n \in Networks : TRUE]

=============================================================================
