------------------------------- MODULE Keccak -------------------------------
(***************************************************************************)
(* The SHA3-512 sponge core: keccak.v with its padder (padder.v,           *)
(* padder1.v) and its round engine (f_permutation.v).  One KeccakClk step  *)
(* is one rising clock edge of all three.                                  *)
(*                                                                         *)
(* Data is abstract.  A message word is a member of Word; what the padder  *)
(* shifts into its block buffer is a Lane: which leading bytes of which    *)
(* word it holds, whether it carries the 0x06 domain byte, and whether its *)
(* last byte has the final 0x80 bit.  The 1600-bit sponge state is the     *)
(* free term it was computed from: the lanes absorbed so far and the       *)
(* number of rounds applied to the last block.                             *)
(***************************************************************************)
EXTENDS Naturals, Sequences

CONSTANTS
    Word,       \* 32-bit message words
    NoWord,     \* what a lane holds when none of its bytes come from the user
    RateWords,  \* words per block: 18 in padder.v (576 bits)
    Rounds      \* rounds of the permutation: 24 (a 23-bit shift register)

ASSUME KeccakAssumption ==
    /\ NoWord \notin Word
    /\ RateWords \in Nat \ {0}
    /\ Rounds \in Nat \ {0, 1}

VARIABLES
    last_seen,    \* keccak.state and padder.state: two registers loaded alike
    buf,          \* padder.out and padder.i: the lanes of the block being built
    padder_done,  \* padder.done: the final block has been offered
    f_i,          \* f_permutation.i: set of the bits of the shift register
    calc,         \* f_permutation.calc
    absorbed,     \* f_permutation.out: lanes absorbed, block after block
    rounds,       \* f_permutation.out: rounds applied to the last block
    k_i,          \* keccak.i: set of the bits of the shift register
    out_ready     \* keccak.out_ready

padder_vars == <<last_seen, buf, padder_done>>
f_vars      == <<f_i, calc, absorbed, rounds>>
keccak_vars == <<padder_vars, f_vars, k_i, out_ready>>

-----------------------------------------------------------------------------
(* padder1.v and the v1 multiplexer of padder.v.                           *)

ByteNum == 0 .. 3

Lane == [word : Word \cup {NoWord}, bytes : 0 .. 4,
         pad : BOOLEAN, msb : BOOLEAN]

MkLane(w, bytes, pad, msb) ==
    [word |-> w, bytes |-> bytes, pad |-> pad, msb |-> msb]

\* A word of the message, all four bytes of it.
FullLane(w) == MkLane(w, 4, FALSE, FALSE)

\* The last word: byte_num leading bytes, then the 0x06 byte.  With
\* byte_num = 0 nothing of the word is left.
Padder1(w, byte_num, msb) ==
    MkLane(IF byte_num = 0 THEN NoWord ELSE w, byte_num, TRUE, msb)

ZeroLane(msb) == MkLane(NoWord, 0, FALSE, msb)

LastLaneLate == Len(buf) = RateWords    \* mutant: i[17] for i[16]

\* The 18th lane of the block being built is the next one (i[16]).
LastLaneNext == Len(buf) = RateWords - 1

V1(w, is_last, byte_num) ==
    IF last_seen THEN ZeroLane(LastLaneNext)
    ELSE IF is_last THEN Padder1(w, byte_num, LastLaneNext)
    ELSE FullLane(w)

-----------------------------------------------------------------------------
buffer_full == Len(buf) = RateWords

\* f_permutation takes the full buffer when it is not computing.
f_ack == buffer_full /\ ~calc

UpdateAfterDone(in_ready) ==            \* mutant: done forgotten
    (in_ready \/ last_seen) /\ ~buffer_full

PadderUpdate(in_ready) ==
    /\ \/ ~last_seen /\ in_ready /\ ~buffer_full
       \/ last_seen /\ ~buffer_full
    /\ ~padder_done

\* A one-bit shift register of Rounds - 1 bits that takes "bit" at the low end.
ShiftIn(reg, bit) ==
    {p + 1 : p \in {q \in reg : q < Rounds - 2}} \cup (IF bit THEN {0} ELSE {})

KeccakInit ==
    /\ last_seen = FALSE /\ buf = <<>> /\ padder_done = FALSE
    /\ f_i = {} /\ calc = FALSE /\ absorbed = <<>> /\ rounds = 0
    /\ k_i = {} /\ out_ready = FALSE

\* The synchronous reset of every register (rst_i | init_i of the wrapper).
KeccakReset ==
    /\ last_seen' = FALSE /\ buf' = <<>> /\ padder_done' = FALSE
    /\ f_i' = {} /\ calc' = FALSE /\ absorbed' = <<>> /\ rounds' = 0
    /\ k_i' = {} /\ out_ready' = FALSE

PadderClk(in, in_ready, is_last, byte_num) ==
    /\ buf' = IF f_ack THEN <<>>
              ELSE IF PadderUpdate(in_ready)
                   THEN Append(buf, V1(in, is_last, byte_num))
                   ELSE buf
    /\ last_seen' = (last_seen \/ is_last)
    /\ padder_done' = (padder_done \/ (last_seen /\ buffer_full))

CalcNeverEnds ==                        \* mutant: calc not cleared
    /\ f_i' = ShiftIn(f_i, f_ack)
    /\ calc' = (calc \/ f_ack)
    /\ absorbed' = IF f_ack THEN absorbed \o buf ELSE absorbed
    /\ rounds' = IF f_ack THEN 1 ELSE IF calc THEN rounds + 1 ELSE rounds

PermutationClk ==
    /\ f_i' = ShiftIn(f_i, f_ack)
    /\ calc' = ((calc /\ Rounds - 2 \notin f_i) \/ f_ack)
    /\ absorbed' = IF f_ack THEN absorbed \o buf ELSE absorbed
    /\ rounds' = IF f_ack THEN 1 ELSE IF calc THEN rounds + 1 ELSE rounds

KeccakClk(in, in_ready, is_last, byte_num) ==
    /\ PadderClk(in, in_ready, is_last, byte_num)
    /\ PermutationClk
    /\ k_i' = ShiftIn(k_i, last_seen /\ f_ack)
    /\ out_ready' = (out_ready \/ Rounds - 2 \in k_i)

-----------------------------------------------------------------------------
KeccakTypeOK ==
    /\ last_seen \in BOOLEAN /\ padder_done \in BOOLEAN
    /\ buf \in Seq(Lane) /\ Len(buf) <= RateWords
    /\ f_i \subseteq 0 .. Rounds - 2 /\ calc \in BOOLEAN
    /\ absorbed \in Seq(Lane) /\ rounds \in 0 .. Rounds
    /\ k_i \subseteq 0 .. Rounds - 2 /\ out_ready \in BOOLEAN

(***************************************************************************)
(* The lanes the padder makes of a message m, a sequence of records with   *)
(* data and byte_num, of which only the last byte_num is looked at.        *)
(***************************************************************************)
Blocks(n) == (n + RateWords - 1) \div RateWords

PaddedLane(m, j, len) ==
    IF j < Len(m) THEN FullLane(m[j].data)
    ELSE IF j = Len(m) THEN Padder1(m[j].data, m[j].byte_num, j = len)
    ELSE ZeroLane(j = len)

(***************************************************************************)
(* The reference, which knows neither lanes nor padder1.v: FIPS 202 pads a *)
(* message of n bytes to whole blocks, always by at least one byte.  The   *)
(* first byte after the message has the domain bits 0x06, the last one of  *)
(* the last block the bit 0x80, and they may be the same byte.  The n      *)
(* bytes are the leading ones of the words of m.                           *)
(***************************************************************************)
PaddedBytes(m, n) ==
    LET block == 4 * RateWords
        len   == block * (n \div block + 1)
    IN  [p \in 1 .. len |->
            IF p <= n THEN <<"message", m[(p - 1) \div 4 + 1].data, (p - 1) % 4>>
            ELSE <<"padding", p = n + 1, p = len>>]

\* Byte k of a lane, from 0: one of its word, or of the padding.
LaneByte(lane, k) ==
    IF k < lane.bytes THEN <<"message", lane.word, k>>
    ELSE <<"padding", lane.pad /\ k = lane.bytes, lane.msb /\ k = 3>>

BytesOf(lanes) ==
    [p \in 1 .. 4 * Len(lanes) |->
        LaneByte(lanes[(p - 1) \div 4 + 1], (p - 1) % 4)]

\* The bytes of m that padder1.v keeps: of the last word byte_num, so none of
\* it when byte_num is 0.
HashedLength(m) == 4 * (Len(m) - 1) + m[Len(m)].byte_num
=============================================================================
