------------------------------ MODULE MCTbAxi -------------------------------
(* Instance of TbAxi for TLC: a line of the cache written back and filled, single words
   and bytes, and bursts of the other kinds.                                            *)
EXTENDS TbAxi

Transfer(kind, len, addr, burst, strb) ==
    [kind |-> kind, len |-> len, addr |-> addr, burst |-> burst, strb |-> strb]

MCTransfers ==
    {Transfer("write", 3, 0, "INCR", 0 .. 3), Transfer("read", 3, 0, "INCR", {}),
     Transfer("write", 0, 8, "INCR", {1}), Transfer("write", 1, 4, "FIXED", 0 .. 3),
     Transfer("write", 3, 8, "WRAP", 0 .. 3), Transfer("read", 3, 12, "WRAP", {}),
     Transfer("read", 0, 9, "INCR", {}), Transfer("read", 1, 8, "FIXED", {})}
=============================================================================
