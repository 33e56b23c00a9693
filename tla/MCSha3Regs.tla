----------------------------- MODULE MCSha3Regs -----------------------------
(* Instance of Sha3Regs for TLC. *)
EXTENDS Sha3Regs
=============================================================================
