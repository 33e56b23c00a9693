------------------------------- MODULE RvBits -------------------------------
(***************************************************************************)
(* The bitwise operators of C and Verilog, on naturals.  They are          *)
(* parameters, with what the modules that use them need to know of them;   *)
(* the instance for TLC takes them from the Bitwise module.                *)
(***************************************************************************)
CONSTANTS BitAnd(_, _), BitOr(_, _), BitXor(_, _)
=============================================================================
