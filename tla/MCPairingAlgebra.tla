-------------------------- MODULE MCPairingAlgebra --------------------------
(***************************************************************************)
(* A small instance of PairingAlgebra for TLC: two blocks, two metadata,   *)
(* and a group of prime order.                                             *)
(***************************************************************************)
EXTENDS PairingAlgebra, TLC

(* One of the hashes is at infinity.                                       *)
Hashes == <<1, 1>> :> 0 @@ <<1, 2>> :> 1 @@ <<2, 1>> :> 2 @@ <<2, 2>> :> 4
=============================================================================
