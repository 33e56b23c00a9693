--------------------------- MODULE MCAesCtrStream ---------------------------
(* Instance of AesCtrStream for TLC. *)
EXTENDS AesCtrStream
=============================================================================
