------------------------------ MODULE MCDataBus ------------------------------
(* Instances of DataBus for TLC. *)
EXTENDS DataBus

\* soc_top.v caches 1000_0000 to 1000_FFFF: the ROM is read by lines, the
\* other windows by single words.
MCRequests ==
    {[kind |-> "read", len |-> 7, to |-> "rom"]} \cup
    [kind : {"read", "write"}, len : {0}, to : {"sha", "ext", "err"}]
=============================================================================
