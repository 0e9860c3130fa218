------------------------------- MODULE MCVeth -------------------------------
(* Small instances of Veth for TLC. *)
EXTENDS Veth

\* The ends of the range of subnet numbers, 1 and 16380: the 16-bit base of the
\* second is the largest there is.
MCHash == [e \in Endpoints |->
              IF e = CHOOSE f \in Endpoints : TRUE THEN 16380 ELSE 16379]

=============================================================================
