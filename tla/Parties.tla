------------------------------ MODULE Parties -------------------------------
(***************************************************************************)
(* What the four processes share: the two data owners, the ports of the    *)
(* cloud (the querier's and one per owner), and the keys.                  *)
(***************************************************************************)
CONSTANTS
  Key,      \* the public keys that queriers send
  NoKey     \* a public key that was never received

ASSUME KeyAssumption == NoKey \notin Key

Owner  == {"A", "B"}
Thread == Owner \cup {"Q"}
=============================================================================
