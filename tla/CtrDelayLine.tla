---------------------------- MODULE CtrDelayLine ----------------------------
(***************************************************************************)
(* What aes256_ctr_stream.v promises: a delay line of Depth clock edges    *)
(* that accepts a block on every edge and delivers it decrypted with its   *)
(* own counter under the key that was loaded when it entered, in order,    *)
(* none lost, none duplicated.  The n-th block after a counter load uses   *)
(* counter base + n - 1.                                                   *)
(***************************************************************************)
EXTENDS Naturals

CONSTANTS Depth, Key, NoKey, Payload, CtrMod, None

VARIABLES
    key,    \* key in force
    base,   \* counter last loaded
    count,  \* blocks accepted since then
    line    \* line[s]: the block that entered s + 1 edges ago, or None

vars == <<key, base, count, line>>

Init ==
    /\ key = NoKey /\ base = 0 /\ count = 0
    /\ line = [s \in 0 .. Depth - 1 |-> None]

\* The block at the far end is the one delivered in this cycle.
Shift(b) == line' = [s \in 0 .. Depth - 1 |-> IF s = 0 THEN b ELSE line[s - 1]]

\* An edge without a block; key and counter may be loaded.
Idle ==
    /\ Shift(None)
    /\ key' \in Key \cup {NoKey}
    /\ base' \in 0 .. CtrMod - 1
    /\ \/ count' = 0
       \/ base' = base /\ count' = count

\* An edge that accepts a block, perhaps together with a counter load.
Accept ==
    /\ key' = key
    /\ base' \in 0 .. CtrMod - 1
    /\ \/ count' = 1
       \/ base' = base /\ count' = count + 1
    /\ \E p \in Payload :
           Shift([payload |-> p, ctr |-> (base' + count' - 1) % CtrMod,
                  key |-> key])

Reset ==
    /\ key' = NoKey /\ base' = 0 /\ count' = 0
    /\ line' = [s \in 0 .. Depth - 1 |-> None]

Next == Idle \/ Accept \/ Reset

Spec == Init /\ [][Next]_vars
=============================================================================
