---------------------------- MODULE MCCdbBuffer ----------------------------
(***************************************************************************)
(* Small instances of CdbBuffer for TLC.                                   *)
(***************************************************************************)
EXTENDS CdbBuffer, TLC

AllFaults == {"alloc", "grow", "reopen", "read"}

\* Addresses and instances are only compared.
Symmetry == Permutations(Handles) \cup Permutations(Address)
=============================================================================
