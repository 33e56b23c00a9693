--------------------------- MODULE MCSha3Wrapper ---------------------------
(* Instances of Sha3Wrapper for TLC.  The words of a message are only      *)
(* compared with each other, so they are interchangeable.                  *)
EXTENDS Sha3Wrapper, TLC

WordSymmetry == Permutations(Word)
=============================================================================
