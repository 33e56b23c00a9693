----------------------------- MODULE MCTbBench ------------------------------
(* Instance of TbBench for TLC. *)
EXTENDS TbBench
=============================================================================
