-------------------------------- MODULE MCDevice ------------------------------
(***************************************************************************)
(* DeviceFlow on small sets.                                               *)
(***************************************************************************)
EXTENDS DeviceFlow, TLC

Perms == Permutations(Requests) \cup Permutations(Users)

=============================================================================
