---------------------------- MODULE MCDCacheCore ----------------------------
(* Instances of DCacheCore for TLC: two sets of two words.  Three tags meet *)
(* in set 0, so that ways are evicted; one line is in set 1.                *)
EXTENDS DCacheCore

CONSTANTS t1, t2, t3

MCAddrs == {[tag |-> t1, idx |-> 0], [tag |-> t1, idx |-> 1],
            [tag |-> t2, idx |-> 0], [tag |-> t3, idx |-> 1],
            [tag |-> t1, idx |-> 2]}
MCWatched == {[tag |-> t1, idx |-> 0]}
MCSet0 == {[tag |-> t1, idx |-> 0], [tag |-> t2, idx |-> 0],
           [tag |-> t3, idx |-> 1]}
MCNone == {}
=============================================================================
