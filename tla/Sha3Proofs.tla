----------------------------- MODULE Sha3Proofs -----------------------------
(***************************************************************************)
(* Proofs about the SHA3 unit (Sha3Wrapper.tla, Keccak.tla), its register  *)
(* file (Sha3Regs.tla) and the bus master in front of it.                  *)
(*                                                                         *)
(* The unit, for every block size, number of rounds, FIFO depth and        *)
(* message length: types and rounds first, then that UnitInv is inductive  *)
(* and what follows from it: the unit hashes what it accepted, and         *)
(* announces it until it is reset.                                         *)
(*                                                                         *)
(* Registers and master, for every size of the unit: one response per      *)
(* transfer and reads ordered behind writes; and, when a block is permuted *)
(* before its successor has arrived, no word of a message lost and the     *)
(* digest of what was sent read back. The invariant tells in which phase   *)
(* of a transfer both sides are, what the pulses of this cycle still bring *)
(* the wrapper, and how many edges the round engine and the next word have *)
(* to go.                                                                  *)
(***************************************************************************)
EXTENDS Sha3Regs, SequenceTheorems, TLAPS

USE KeccakAssumption, WrapperAssumption DEF KeccakAssumption, WrapperAssumption

-----------------------------------------------------------------------------
(* The one-bit shift registers.                                            *)

\* A bit enters an empty register at position 0.
LEMMA ShiftEmpty ==
    ASSUME NEW bit
    PROVE  ShiftIn({}, bit) = IF bit THEN {0} ELSE {}
BY DEF ShiftIn

\* A lone bit moves up by one and leaves at the top.
LEMMA ShiftOne ==
    ASSUME NEW p \in Nat, NEW bit, ~bit
    PROVE  ShiftIn({p}, bit) = IF p < Rounds - 2 THEN {p + 1} ELSE {}
BY DEF ShiftIn

-----------------------------------------------------------------------------
(* Every next state of the unit is a clock edge with some inputs.          *)

LEMMA NextCases ==
    ASSUME Next
    PROVE  \/ WrapperReset
           \/ \E start_i \in BOOLEAN, valid \in BOOLEAN, w \in Word,
                 last \in BOOLEAN, bnum \in ByteNum :
                  WrapperClk(start_i, valid, w, last, bnum)
<1>1. 0 \in ByteNum
  BY DEF ByteNum
<1>2. CASE Reset
  BY <1>2 DEF Reset
<1>3. CASE Tick
  BY <1>1, <1>3 DEF Tick
<1>4. CASE Offer
  BY <1>4 DEF Offer
<1>. QED
  BY <1>2, <1>3, <1>4 DEF Next, Clk

-----------------------------------------------------------------------------
(* Types, and the round counter that bounds "rounds".                      *)

\* RoundsInStep with what calc = 1 says of the counter and the sponge.
RoundInv ==
    /\ RoundsInStep
    /\ calc => rounds \in 1 .. Rounds - 1 /\ absorbed # <<>>

LEMMA LaneTypes ==
    ASSUME NEW w \in Word \cup {NoWord}, NEW is_last \in BOOLEAN,
           NEW b \in ByteNum
    PROVE  V1(w, is_last, b) \in Lane
<1>1. \A x \in BOOLEAN : ZeroLane(x) \in Lane
  BY DEF ZeroLane, MkLane, Lane
<1>2. \A x \in BOOLEAN : Padder1(w, b, x) \in Lane
  BY DEF Padder1, MkLane, Lane, ByteNum
<1>3. FullLane(w) \in Lane
  BY DEF FullLane, MkLane, Lane
<1>4. LastLaneNext \in BOOLEAN
  BY DEF LastLaneNext
<1>. QED
  BY <1>1, <1>2, <1>3, <1>4 DEF V1

LEMMA InitType == WrapperInit => TypeOK /\ RoundInv
BY DEF WrapperInit, KeccakInit, TypeOK, KeccakTypeOK, RoundInv, RoundsInStep

LEMMA ResetType ==
    ASSUME TypeOK, WrapperReset
    PROVE  TypeOK' /\ RoundInv'
<1>1. KeccakTypeOK'
  <2>1. /\ buf' = <<>> /\ absorbed' = <<>> /\ rounds' = 0
        /\ f_i' = {} /\ k_i' = {}
        /\ last_seen' \in BOOLEAN /\ padder_done' \in BOOLEAN
        /\ calc' \in BOOLEAN /\ out_ready' \in BOOLEAN
    BY DEF WrapperReset, KeccakReset
  <2>2. <<>> \in Seq(Lane) /\ Len(<<>>) = 0
    OBVIOUS
  <2>3. 0 <= RateWords /\ 0 \in 0 .. Rounds
    OBVIOUS
  <2>. QED
    BY <2>1, <2>2, <2>3 DEF KeccakTypeOK
<1>3. RoundInv'
  BY DEF WrapperReset, KeccakReset, RoundInv, RoundsInStep
<1>2. fifo' \in [0 .. FifoDepth - 1 -> Entry \cup {NoEntry}]
  BY DEF WrapperReset, TypeOK
<1>. QED
  BY <1>1, <1>2, <1>3 DEF WrapperReset, TypeOK

\* The permutation engine counts its rounds with the one-hot register.
LEMMA PermutationStep ==
    ASSUME KeccakTypeOK, RoundInv, PermutationClk
    PROVE  /\ RoundInv'
           /\ f_i' \subseteq 0 .. Rounds - 2 /\ calc' \in BOOLEAN
           /\ absorbed' \in Seq(Lane) /\ rounds' \in 0 .. Rounds
<1>. USE DEF KeccakTypeOK, RoundInv, RoundsInStep
<1>0. calc' \in BOOLEAN
  BY DEF PermutationClk
<1>1. CASE f_ack
  <2>1. f_i' = {0} /\ calc' /\ rounds' = 1 /\ absorbed' = absorbed \o buf
    BY <1>1, ShiftEmpty DEF PermutationClk, f_ack
  <2>2. absorbed' \in Seq(Lane) /\ absorbed' # <<>>
    BY <1>1, <2>1 DEF f_ack, buffer_full
  <2>. QED
    BY <1>0, <2>1, <2>2
<1>2. CASE ~f_ack /\ calc
  <2>1. rounds \in 1 .. Rounds - 1 /\ f_i = {rounds - 1}
    BY <1>2
  <2>2. rounds' = rounds + 1 /\ absorbed' = absorbed
    BY <1>2 DEF PermutationClk
  <2>3. f_i' = IF rounds - 1 < Rounds - 2 THEN {rounds} ELSE {}
    <3>. DEFINE p == rounds - 1
    <3>1. p \in Nat /\ p + 1 = rounds
      BY <2>1
    <3>. HIDE DEF p
    <3>2. f_i' = ShiftIn({p}, f_ack)
      BY <2>1 DEF PermutationClk, p
    <3>3. ShiftIn({p}, f_ack) = IF p < Rounds - 2 THEN {p + 1} ELSE {}
      BY <1>2, <3>1, ShiftOne
    <3>. QED
      BY <3>1, <3>2, <3>3 DEF p
  <2>4. calc' <=> rounds - 1 < Rounds - 2
    <3>1. calc' <=> Rounds - 2 \notin f_i
      BY <1>2 DEF PermutationClk
    <3>. QED
      BY <2>1, <3>1
  <2>. QED
    BY <1>0, <1>2, <2>1, <2>2, <2>3, <2>4
<1>3. CASE ~f_ack /\ ~calc
  <2>1. f_i = {} /\ f_i' = {}
    BY <1>3, ShiftEmpty DEF PermutationClk
  <2>2. ~calc' /\ rounds' = rounds /\ absorbed' = absorbed
    BY <1>3 DEF PermutationClk
  <2>. QED
    BY <1>0, <1>3, <2>1, <2>2
<1>. QED
  BY <1>1, <1>2, <1>3

\* A clock edge of the core keeps its registers in their ranges.
LEMMA KeccakStep ==
    ASSUME KeccakTypeOK, RoundInv,
           NEW in \in Word \cup {NoWord}, NEW in_ready \in BOOLEAN,
           NEW is_last \in BOOLEAN, NEW byte_num \in ByteNum,
           KeccakClk(in, in_ready, is_last, byte_num)
    PROVE  KeccakTypeOK' /\ RoundInv'
<1>1. PadderClk(in, in_ready, is_last, byte_num) /\ PermutationClk
  BY DEF KeccakClk
<1>2. /\ RoundInv'
      /\ f_i' \subseteq 0 .. Rounds - 2 /\ calc' \in BOOLEAN
      /\ absorbed' \in Seq(Lane) /\ rounds' \in 0 .. Rounds
  BY <1>1, PermutationStep
<1>3. buf' \in Seq(Lane) /\ Len(buf') <= RateWords
  <2>1. V1(in, is_last, byte_num) \in Lane
    BY LaneTypes
  <2>2. buf \in Seq(Lane) /\ Len(buf) <= RateWords
    BY DEF KeccakTypeOK
  <2>3. \/ buf' = <<>> \/ buf' = buf
        \/ Len(buf) # RateWords /\ buf' = Append(buf, V1(in, is_last, byte_num))
    BY <1>1 DEF PadderClk, PadderUpdate, buffer_full
  <2>4. CASE buf' = <<>>
    BY <2>4
  <2>5. CASE buf' = buf
    BY <2>2, <2>5
  <2>6. CASE /\ Len(buf) # RateWords
             /\ buf' = Append(buf, V1(in, is_last, byte_num))
    BY <2>1, <2>2, <2>6
  <2>. QED
    BY <2>3, <2>4, <2>5, <2>6
<1>4. last_seen' \in BOOLEAN /\ padder_done' \in BOOLEAN /\ out_ready' \in BOOLEAN
  BY <1>1 DEF PadderClk, KeccakClk
<1>5. k_i' \subseteq 0 .. Rounds - 2
  <2>1. k_i \subseteq 0 .. Rounds - 2
    BY DEF KeccakTypeOK
  <2>. QED
    BY <2>1 DEF KeccakClk, ShiftIn
<1>. QED
  BY <1>2, <1>3, <1>4, <1>5 DEF KeccakTypeOK

\* What the head of the FIFO can be.
LEMMA HeadType ==
    ASSUME TypeOK
    PROVE  /\ head.data \in Word \cup {NoWord}
           /\ head.is_last \in BOOLEAN /\ head.byte_num \in ByteNum
<1>1. head \in Entry \cup {NoEntry}
  BY DEF TypeOK, head
<1>2. CASE head \in Entry
  BY <1>2 DEF Entry
<1>3. CASE head = NoEntry
  BY <1>3 DEF NoEntry, ByteNum
<1>. QED
  BY <1>1, <1>2, <1>3

\* A clock edge of the wrapper keeps its registers in their ranges.
LEMMA ClkType ==
    ASSUME TypeOK, RoundInv,
           NEW start_i \in BOOLEAN, NEW valid \in BOOLEAN, NEW w \in Word,
           NEW last \in BOOLEAN, NEW bnum \in ByteNum,
           WrapperClk(start_i, valid, w, last, bnum)
    PROVE  TypeOK' /\ RoundInv'
<1>. DEFINE push_w == valid /\ input_ready_o
            entry  == [data |-> w, is_last |-> last,
                       byte_num |-> IF last THEN bnum ELSE 0]
<1>1. /\ KeccakClk(head.data, pop_w, pop_w /\ head.is_last, head.byte_num)
      /\ FifoClk(push_w, entry)
      /\ ControlClk(start_i, valid, push_w, last)
      /\ accepted' = IF push_w /\ ~Closed THEN Append(accepted, entry)
                     ELSE accepted
  BY DEF WrapperClk
<1>2. entry \in Entry
  BY DEF Entry, ByteNum
<1>3. KeccakTypeOK' /\ RoundInv'
  <2>1. pop_w \in BOOLEAN /\ (pop_w /\ head.is_last) \in BOOLEAN
    BY DEF pop_w
  <2>. QED
    BY <1>1, <2>1, HeadType, KeccakStep DEF TypeOK
<1>. HIDE DEF entry
<1>4. accepted' \in Seq(Entry)
  BY <1>1, <1>2 DEF TypeOK
<1>5. fifo' \in [0 .. FifoDepth - 1 -> Entry \cup {NoEntry}]
  BY <1>1, <1>2 DEF TypeOK, FifoClk
<1>6. /\ wr_ptr_q' \in 0 .. FifoDepth - 1 /\ rd_ptr_q' \in 0 .. FifoDepth - 1
      /\ fifo_count_q' \in 0 .. FifoDepth
  BY <1>1 DEF TypeOK, FifoClk, NextPtr, pop_w, input_ready_o, fifo_full_w,
              fifo_empty_w
<1>7. /\ state_q' \in {"IDLE", "RUN", "WAIT"}
      /\ saw_last_q' \in BOOLEAN /\ overflow_q' \in BOOLEAN
      /\ busy_o' \in BOOLEAN /\ done_o' \in BOOLEAN
  BY <1>1 DEF TypeOK, ControlClk
<1>. QED
  BY <1>3, <1>4, <1>5, <1>6, <1>7 DEF TypeOK

(***************************************************************************)
(* Type correctness, with the round counter that bounds "rounds": the      *)
(* registers of sha3_real_wrapper.v, padder.v and f_permutation.v stay in  *)
(* their ranges, and a block enters only a fully permuted state.           *)
(***************************************************************************)
THEOREM TypeCorrect == Spec => [](TypeOK /\ RoundsInStep)
<1>1. WrapperInit => TypeOK /\ RoundInv
  BY InitType
<1>2. TypeOK /\ RoundInv /\ [Next]_wrapper_vars => (TypeOK /\ RoundInv)'
  <2>. SUFFICES ASSUME TypeOK, RoundInv, [Next]_wrapper_vars
                PROVE  (TypeOK /\ RoundInv)'
    OBVIOUS
  <2>1. CASE Next
    BY <2>1, NextCases, ResetType, ClkType
  <2>2. CASE UNCHANGED wrapper_vars
    BY <2>2 DEF wrapper_vars, fifo_vars, control_vars, keccak_vars, padder_vars,
                f_vars, TypeOK, KeccakTypeOK, RoundInv, RoundsInStep
  <2>. QED
    BY <2>1, <2>2
<1>3. RoundInv => RoundsInStep
  BY DEF RoundInv
<1>. QED
  BY <1>1, <1>2, <1>3, PTL DEF Spec

-----------------------------------------------------------------------------
(* Arithmetic of blocks: the lanes of a message that ends in the block     *)
(* after the first b fill b + 1 blocks.                                    *)

LEMMA LastBlock ==
    ASSUME NEW b \in Nat, NEW n \in Nat,
           RateWords * b < n, n <= RateWords * b + RateWords
    PROVE  RateWords * Blocks(n) = RateWords * b + RateWords
<1>1. n + RateWords - 1 = RateWords * (b + 1) + (n - RateWords * b - 1)
  OBVIOUS
<1>2. n - RateWords * b - 1 \in 0 .. RateWords - 1
  OBVIOUS
<1>3. \A d \in Nat \ {0} : \A q \in Nat : \A r \in 0 .. d - 1 :
          (d * q + r) \div d = q
  BY Z3
<1>4. (n + RateWords - 1) \div RateWords = b + 1
  BY <1>1, <1>2, <1>3
<1>. QED
  BY <1>4 DEF Blocks

-----------------------------------------------------------------------------
(* The FIFO as a ring.                                                     *)

LEMMA SlotType ==
    ASSUME TypeOK, NEW k \in 0 .. FifoDepth
    PROVE  Slot(k) \in 0 .. FifoDepth - 1
BY DEF Slot, TypeOK

LEMMA SlotInjective ==
    ASSUME TypeOK, NEW k \in 0 .. FifoDepth - 1, NEW l \in 0 .. FifoDepth - 1,
           Slot(k) = Slot(l)
    PROVE  k = l
BY DEF Slot, TypeOK

LEMMA SlotNext ==
    ASSUME TypeOK, NEW k \in 0 .. FifoDepth - 1
    PROVE  NextPtr(Slot(k)) = Slot(k + 1)
BY DEF Slot, NextPtr, TypeOK

\* A pop moves every entry one place towards the head.
LEMMA SlotAfterPop ==
    ASSUME TypeOK, rd_ptr_q' = NextPtr(rd_ptr_q), NEW k \in 0 .. FifoDepth - 1
    PROVE  Slot(k)' = Slot(k + 1)
BY DEF Slot, NextPtr, TypeOK

LEMMA HeadIsSlotZero ==
    ASSUME TypeOK
    PROVE  head = fifo[Slot(0)]
BY DEF Slot, TypeOK, head

Pushes(valid) == valid /\ input_ready_o

NewEntry(w, last, bnum) ==
    [data |-> w, is_last |-> last, byte_num |-> IF last THEN bnum ELSE 0]

\* How many entries leave and enter at this clock edge.
Popped        == IF pop_w THEN 1 ELSE 0
Pushed(valid) == IF Pushes(valid) THEN 1 ELSE 0

\* A clock edge that does not complete a message drops the head if it pops
\* and appends the entry if it pushes.
LEMMA FifoStep ==
    ASSUME TypeOK, wr_ptr_q = Slot(fifo_count_q), ~completes_w,
           NEW valid \in BOOLEAN, NEW entry, FifoClk(Pushes(valid), entry)
    PROVE  /\ fifo_count_q' = fifo_count_q - Popped + Pushed(valid)
           /\ wr_ptr_q' = Slot(fifo_count_q)'
           /\ \A k \in 0 .. fifo_count_q - Popped + Pushed(valid) - 1 :
                  fifo'[Slot(k)'] =
                      IF Pushes(valid) /\ k = fifo_count_q - Popped THEN entry
                      ELSE fifo[Slot(k + Popped)]
<1>. DEFINE push == Pushes(valid)
            o == Popped
            i == Pushed(valid)
<1>. USE DEF Popped, Pushed
<1>0. push => input_ready_o
  BY DEF Pushes
<1>. HIDE DEF push
<1>1. /\ o \in {0, 1} /\ i \in {0, 1} /\ o <= fifo_count_q
      /\ fifo_count_q \in Nat /\ fifo_count_q + i <= FifoDepth
  BY <1>0 DEF pop_w, fifo_empty_w, input_ready_o, fifo_full_w, TypeOK, push
<1>2. fifo_count_q' = fifo_count_q - o + i
  BY <1>1 DEF FifoClk, push
<1>3. \A k \in 0 .. FifoDepth - o : Slot(k)' = Slot(k + o)
  <2>1. CASE pop_w
    BY <2>1, SlotAfterPop DEF FifoClk
  <2>2. CASE ~pop_w
    <3>1. rd_ptr_q' = rd_ptr_q
      BY <2>2 DEF FifoClk
    <3>. QED
      BY <2>2, <3>1 DEF Slot
  <2>. QED
    BY <2>1, <2>2
<1>4. wr_ptr_q' = Slot(fifo_count_q + i)
  <2>1. CASE push
    BY <1>1, <2>1, SlotNext DEF FifoClk, push
  <2>2. CASE ~push
    BY <1>1, <2>2 DEF FifoClk, push
  <2>. QED
    BY <2>1, <2>2
<1>5. wr_ptr_q' = Slot(fifo_count_q)'
  <2>1. PICK c \in 0 .. FifoDepth - o : c = fifo_count_q - o + i
    <3>. HIDE DEF Popped, Pushed
    <3>1. fifo_count_q - o + i \in 0 .. FifoDepth - o
      BY <1>1
    <3>. QED
      BY <3>1
  <2>2. Slot(c)' = Slot(fifo_count_q + i)
    <3>1. c + o = fifo_count_q + i
      BY <1>1, <2>1
    <3>. QED
      BY <1>3, <3>1
  <2>3. Slot(fifo_count_q)' = Slot(c)'
    BY <1>2, <2>1 DEF Slot
  <2>. QED
    BY <1>4, <2>2, <2>3
<1>6. ASSUME NEW k \in 0 .. fifo_count_q - o + i - 1
      PROVE  fifo'[Slot(k)'] = IF push /\ k = fifo_count_q - o THEN entry
                               ELSE fifo[Slot(k + o)]
  <2>1. /\ k \in 0 .. FifoDepth - o /\ k + o \in 0 .. FifoDepth - 1
        /\ k + o < fifo_count_q + i
    BY <1>1
  <2>2. Slot(k)' = Slot(k + o) /\ Slot(k + o) \in 0 .. FifoDepth - 1
    BY <1>3, <2>1, SlotType
  <2>3. CASE push
    <3>1. fifo' = [fifo EXCEPT ![Slot(fifo_count_q)] = entry]
      BY <2>3 DEF FifoClk, push
    <3>2. fifo_count_q \in 0 .. FifoDepth - 1
      BY <1>1, <2>3 DEF push
    <3>3. Slot(k + o) = Slot(fifo_count_q) <=> k + o = fifo_count_q
      BY <2>1, <3>2, SlotInjective
    <3>4. fifo'[Slot(k + o)] = IF k + o = fifo_count_q THEN entry
                               ELSE fifo[Slot(k + o)]
      BY <2>2, <3>1, <3>3 DEF TypeOK
    <3>. QED
      BY <1>1, <2>2, <2>3, <3>4 DEF push
  <2>4. CASE ~push
    BY <2>2, <2>4 DEF FifoClk, push
  <2>. QED
    BY <2>3, <2>4
<1>. QED
  BY <1>2, <1>5, <1>6 DEF push

-----------------------------------------------------------------------------
(* The lanes in the core.                                                  *)

LEMMA TakenType ==
    ASSUME TypeOK
    PROVE  /\ Taken \in Seq(Lane) /\ Len(Taken) = Len(absorbed) + Len(buf)
           /\ Len(Taken) \in Nat
BY ConcatProperties, LenProperties DEF TypeOK, KeccakTypeOK, Taken

\* A clock edge appends the padder's next lane or leaves the lanes alone;
\* moving a full block into the sponge does not change them.
LEMMA TakenStep ==
    ASSUME TypeOK, NEW in \in Word \cup {NoWord}, NEW in_ready \in BOOLEAN,
           NEW is_last \in BOOLEAN, NEW byte_num \in ByteNum,
           KeccakClk(in, in_ready, is_last, byte_num)
    PROVE  Taken' = IF PadderUpdate(in_ready)
                    THEN Append(Taken, V1(in, is_last, byte_num)) ELSE Taken
<1>. DEFINE v == V1(in, is_last, byte_num)
<1>1. absorbed \in Seq(Lane) /\ buf \in Seq(Lane) /\ v \in Lane
  BY LaneTypes DEF TypeOK, KeccakTypeOK
<1>. HIDE DEF v
<1>2. CASE f_ack
  <2>1. absorbed' = absorbed \o buf /\ buf' = <<>> /\ ~PadderUpdate(in_ready)
    BY <1>2 DEF KeccakClk, PermutationClk, PadderClk, PadderUpdate, f_ack
  <2>2. (absorbed \o buf) \o <<>> = absorbed \o buf
    BY <1>1, ConcatProperties, ConcatEmptySeq
  <2>. QED
    BY <2>1, <2>2 DEF Taken
<1>3. CASE ~f_ack /\ PadderUpdate(in_ready)
  <2>1. absorbed' = absorbed /\ buf' = Append(buf, v)
    BY <1>3 DEF KeccakClk, PermutationClk, PadderClk, v
  <2>2. absorbed \o Append(buf, v) = Append(absorbed \o buf, v)
    <3>1. Append(buf, v) = buf \o <<v>>
      BY <1>1
    <3>2. Append(absorbed \o buf, v) = (absorbed \o buf) \o <<v>>
      BY <1>1, ConcatProperties
    <3>3. <<v>> \in Seq(Lane)
      BY <1>1
    <3>. QED
      BY <1>1, <3>1, <3>2, <3>3, ConcatAssociative
  <2>. QED
    BY <1>3, <2>1, <2>2 DEF Taken, v
<1>4. CASE ~f_ack /\ ~PadderUpdate(in_ready)
  BY <1>4 DEF KeccakClk, PermutationClk, PadderClk, Taken
<1>. QED
  BY <1>2, <1>3, <1>4

-----------------------------------------------------------------------------
(* The controller and the FIFO, in every phase.                            *)

\* WrapperClk in terms of Pushes and NewEntry.
LEMMA ClkParts ==
    ASSUME NEW start_i, NEW valid, NEW w, NEW last, NEW bnum,
           WrapperClk(start_i, valid, w, last, bnum)
    PROVE  /\ KeccakClk(head.data, pop_w, pop_w /\ head.is_last, head.byte_num)
           /\ FifoClk(Pushes(valid), NewEntry(w, last, bnum))
           /\ ControlClk(start_i, valid, Pushes(valid), last)
           /\ accepted' = IF Pushes(valid) /\ ~Closed
                          THEN Append(accepted, NewEntry(w, last, bnum))
                          ELSE accepted
BY DEF WrapperClk, Pushes, NewEntry

\* The last word of a message leaves the FIFO alone and from the end.
LEMMA PopLast ==
    ASSUME TypeOK, FifoInv, pop_w, head.is_last
    PROVE  saw_last_q /\ fifo_count_q = 1 /\ ~input_ready_o
<1>1. 0 \in 0 .. fifo_count_q - 1
  BY DEF TypeOK, pop_w, fifo_empty_w
<1>2. fifo[Slot(0)].is_last
  BY HeadIsSlotZero
<1>3. saw_last_q /\ 0 = fifo_count_q - 1
  BY <1>1, <1>2 DEF FifoInv
<1>. QED
  BY <1>3 DEF input_ready_o, TypeOK

LEMMA ControlStep ==
    ASSUME TypeOK, StatusTruthful, FifoInv, ~completes_w,
           NEW start_i \in BOOLEAN, NEW valid \in BOOLEAN, NEW w \in Word,
           NEW last \in BOOLEAN, NEW bnum \in ByteNum,
           WrapperClk(start_i, valid, w, last, bnum)
    PROVE  StatusTruthful' /\ FifoInv'
<1>. DEFINE push == Pushes(valid)
            entry == NewEntry(w, last, bnum)
            o == Popped
            i == Pushed(valid)
<1>1. /\ FifoClk(push, entry) /\ ControlClk(start_i, valid, push, last)
      /\ last_seen' = (last_seen \/ (pop_w /\ head.is_last))
  BY ClkParts DEF KeccakClk, PadderClk
<1>2. /\ push \in BOOLEAN /\ push => input_ready_o
      /\ push => ~saw_last_q /\ state_q # "WAIT"
      /\ pop_w => state_q = "RUN" /\ fifo_count_q # 0
  BY DEF Pushes, input_ready_o, pop_w, fifo_empty_w
<1>3. fifo_count_q' = fifo_count_q - o + i
  BY <1>1, FifoStep DEF FifoInv
<1>3a. wr_ptr_q' = Slot(fifo_count_q)'
  BY <1>1, FifoStep DEF FifoInv
<1>3b. \A k \in 0 .. fifo_count_q - o + i - 1 :
           fifo'[Slot(k)'] = IF push /\ k = fifo_count_q - o THEN entry
                             ELSE fifo[Slot(k + o)]
  BY <1>1, FifoStep DEF FifoInv
<1>4. /\ entry.is_last = last
      /\ saw_last_q' = (saw_last_q \/ (push /\ last))
      /\ state_q' = IF pop_w /\ head.is_last THEN "WAIT"
                    ELSE IF push /\ state_q = "IDLE" THEN "RUN" ELSE state_q
      /\ busy_o' = (busy_o \/ (push /\ state_q = "IDLE"))
      /\ done_o' = (done_o /\ ~(state_q = "IDLE" /\ (start_i \/ push)))
  BY <1>1 DEF ControlClk, NewEntry
<1>5. fifo_count_q \in Nat /\ o \in {0, 1} /\ i \in {0, 1} /\ o <= fifo_count_q
  BY <1>2 DEF TypeOK, Popped, Pushed
<1>6. pop_w /\ head.is_last => saw_last_q /\ fifo_count_q = 1 /\ ~push
  BY PopLast DEF Pushes
<1>5b. (o = 1 <=> pop_w) /\ (i = 1 <=> push)
  BY DEF Popped, Pushed
<1>. HIDE DEF push, entry, o, i
<1>5c. ~pop_w /\ ~push => fifo_count_q' = fifo_count_q
  BY <1>3, <1>5, <1>5b
<1>5d. fifo_count_q = 1 /\ pop_w /\ ~push => fifo_count_q' = 0
  BY <1>3, <1>5, <1>5b
<1>7. StatusTruthful'
  <2>1. busy_o' <=> state_q' # "IDLE"
    BY <1>2, <1>4 DEF StatusTruthful, TypeOK
  <2>2. busy_o' => ~done_o'
    BY <1>4 DEF StatusTruthful
  <2>3. state_q' = "WAIT" => saw_last_q' /\ last_seen' /\ fifo_count_q' = 0
    <3>1. CASE pop_w /\ head.is_last
      <4>1. fifo_count_q' = 0
        BY <1>5d, <1>6, <3>1
      <4>2. saw_last_q' /\ last_seen'
        BY <1>1, <1>4, <1>6, <3>1
      <4>. QED
        BY <4>1, <4>2
    <3>2. CASE ~(pop_w /\ head.is_last) /\ state_q = "WAIT"
      <4>1. ~pop_w /\ ~push
        BY <1>2, <3>2
      <4>2. fifo_count_q' = 0
        BY <1>5c, <3>2, <4>1 DEF StatusTruthful, fifo_empty_w
      <4>3. saw_last_q' /\ last_seen'
        BY <1>1, <1>4, <3>2 DEF StatusTruthful
      <4>. QED
        BY <4>2, <4>3
    <3>. QED
      BY <1>4, <3>1, <3>2
  <2>4. state_q' = "IDLE" => fifo_count_q' = 0 /\ ~saw_last_q'
    <3>. SUFFICES ASSUME state_q' = "IDLE"
                  PROVE  fifo_count_q' = 0 /\ ~saw_last_q'
      OBVIOUS
    <3>1. state_q = "IDLE" /\ ~push /\ ~pop_w
      BY <1>2, <1>4
    <3>2. fifo_count_q' = 0
      BY <1>5c, <3>1 DEF StatusTruthful, fifo_empty_w
    <3>3. ~saw_last_q'
      BY <1>4, <3>1 DEF StatusTruthful
    <3>. QED
      BY <3>2, <3>3
  <2>. QED
    BY <2>1, <2>2, <2>3, <2>4 DEF StatusTruthful, fifo_empty_w
<1>8. ASSUME NEW k \in 0 .. fifo_count_q' - 1
      PROVE  fifo'[Slot(k)'].is_last <=> (saw_last_q' /\ k = fifo_count_q' - 1)
  <2>0. k \in 0 .. fifo_count_q - o + i - 1
    BY <1>3, <1>5
  <2>1. CASE push /\ k = fifo_count_q - o
    <3>1. fifo'[Slot(k)'] = entry
      BY <1>3b, <2>0, <2>1
    <3>. QED
      BY <1>2, <1>3, <1>4, <1>5, <1>5b, <2>1, <3>1
  <2>2. CASE ~(push /\ k = fifo_count_q - o)
    <3>1. fifo'[Slot(k)'] = fifo[Slot(k + o)]
      BY <1>3b, <2>0, <2>2
    <3>2. k + o \in 0 .. fifo_count_q - 1
      BY <1>5, <1>5b, <2>0, <2>2
    <3>3. fifo[Slot(k + o)].is_last <=> (saw_last_q /\ k + o = fifo_count_q - 1)
      BY <3>2 DEF FifoInv
    <3>. QED
      <4>1. CASE push
        <5>1. ~saw_last_q /\ k # fifo_count_q' - 1
          BY <1>2, <1>3, <1>5, <1>5b, <2>2, <3>2, <4>1
        <5>. QED
          BY <3>1, <3>3, <5>1
      <4>2. CASE ~push
        <5>1. k + o = fifo_count_q - 1 <=> k = fifo_count_q' - 1
          BY <1>3, <1>5, <1>5b, <3>2, <4>2
        <5>2. saw_last_q' <=> saw_last_q
          BY <1>4, <4>2
        <5>. QED
          BY <3>1, <3>3, <5>1, <5>2
      <4>. QED
        BY <4>1, <4>2
  <2>. QED
    BY <2>1, <2>2
<1>9. state_q' = "RUN" /\ saw_last_q' => fifo_count_q' # 0
  <2>. SUFFICES ASSUME state_q' = "RUN", saw_last_q'
                PROVE  fifo_count_q' # 0
    OBVIOUS
  <2>1. CASE push
    BY <1>3, <1>5, <1>5b, <2>1
  <2>2. CASE ~push
    <3>1. saw_last_q /\ state_q = "RUN" /\ ~(pop_w /\ head.is_last)
      BY <1>4, <2>2
    <3>2. fifo_count_q # 0
      BY <3>1 DEF FifoInv, fifo_empty_w
    <3>3. pop_w => fifo_count_q # 1
      <4>1. 0 \in 0 .. fifo_count_q - 1
        BY <1>5, <3>2
      <4>2. fifo[Slot(0)].is_last <=> 0 = fifo_count_q - 1
        BY <3>1, <4>1 DEF FifoInv
      <4>. QED
        BY <1>5, <3>1, <4>2, HeadIsSlotZero
    <3>. QED
      BY <1>3, <1>5, <1>5b, <2>2, <3>2, <3>3
  <2>. QED
    BY <2>1, <2>2
<1>10. FifoInv'
  BY <1>3a, <1>8, <1>9 DEF FifoInv, fifo_empty_w
<1>. QED
  BY <1>7, <1>10

-----------------------------------------------------------------------------
(* The message and the blocks, in every phase.                             *)

LEMMA BlocksStep ==
    ASSUME TypeOK, BlocksInv, PermutationClk
    PROVE  BlocksInv'
<1>1. PICK b \in 0 .. Len(absorbed) : Len(absorbed) = RateWords * b
  BY DEF BlocksInv
<1>2. absorbed \in Seq(Lane) /\ buf \in Seq(Lane) /\ Len(absorbed) \in Nat
  BY LenProperties DEF TypeOK, KeccakTypeOK
<1>3. CASE f_ack
  <2>1. absorbed' = absorbed \o buf /\ Len(buf) = RateWords
    BY <1>3 DEF PermutationClk, f_ack, buffer_full
  <2>2. Len(absorbed') = Len(absorbed) + RateWords
    BY <1>2, <2>1, ConcatProperties
  <2>3. b + 1 \in 0 .. Len(absorbed') /\ Len(absorbed') = RateWords * (b + 1)
    BY <1>1, <1>2, <2>2
  <2>. QED
    BY <2>3 DEF BlocksInv
<1>4. CASE ~f_ack
  <2>1. absorbed' = absorbed
    BY <1>4 DEF PermutationClk
  <2>. QED
    BY <2>1 DEF BlocksInv
<1>. QED
  BY <1>3, <1>4

\* What the ghost message does: it grows by a pushed word until it is closed.
LEMMA MessageStep ==
    ASSUME TypeOK, MessageInv, NEW valid \in BOOLEAN, NEW entry \in Entry,
           accepted' = IF Pushes(valid) /\ ~Closed THEN Append(accepted, entry)
                       ELSE accepted
    PROVE  MessageInv'
<1>1. accepted \in Seq(Entry) /\ Len(accepted) \in Nat
  BY LenProperties DEF TypeOK
<1>2. CASE Pushes(valid) /\ ~Closed
  <2>1. accepted' = Append(accepted, entry)
    BY <1>2
  <2>2. Len(accepted') = Len(accepted) + 1
    BY <1>1, <2>1
  <2>3. ASSUME NEW j \in 1 .. Len(accepted)
        PROVE  accepted'[j] = accepted[j] /\ ~accepted[j].is_last
    <3>1. accepted'[j] = accepted[j]
      BY <1>1, <2>1
    <3>2. accepted # <<>>
      BY <1>1
    <3>3. CASE j = Len(accepted)
      BY <1>2, <3>1, <3>2, <3>3 DEF Closed
    <3>4. CASE j # Len(accepted)
      <4>1. j \in 1 .. Len(accepted) - 1
        BY <1>1, <3>4
      <4>. QED
        BY <3>1, <4>1 DEF MessageInv
    <3>. QED
      BY <3>3, <3>4
  <2>. QED
    BY <1>1, <2>2, <2>3 DEF MessageInv
<1>3. CASE ~(Pushes(valid) /\ ~Closed)
  BY <1>3 DEF MessageInv
<1>. QED
  BY <1>2, <1>3

-----------------------------------------------------------------------------
(* Collecting: last_seen = 0.                                              *)

\* What a clock edge does to the message, the lanes and the flags while the
\* last word has not left the FIFO.
LEMMA CollectParts ==
    ASSUME TypeOK, UnitInv, ~last_seen,
           NEW start_i \in BOOLEAN, NEW valid \in BOOLEAN, NEW w \in Word,
           NEW last \in BOOLEAN, NEW bnum \in ByteNum,
           WrapperClk(start_i, valid, w, last, bnum)
    PROVE  /\ ~completes_w
           /\ accepted' = IF Pushes(valid)
                          THEN Append(accepted, NewEntry(w, last, bnum))
                          ELSE accepted
           /\ Taken' = IF pop_w
                       THEN Append(Taken, V1(head.data, pop_w /\ head.is_last,
                                             head.byte_num))
                       ELSE Taken
           /\ pop_w => head = accepted[Len(Taken) + 1]
           /\ ~padder_done' /\ ~out_ready' /\ k_i' = {} /\ ~done_o'
           /\ last_seen' <=> pop_w /\ head.is_last
<1>1. /\ KeccakClk(head.data, pop_w, pop_w /\ head.is_last, head.byte_num)
      /\ ControlClk(start_i, valid, Pushes(valid), last)
      /\ accepted' = IF Pushes(valid) /\ ~Closed
                     THEN Append(accepted, NewEntry(w, last, bnum))
                     ELSE accepted
  BY ClkParts
<1>2. /\ ~padder_done /\ ~out_ready /\ k_i = {} /\ state_q # "WAIT"
      /\ saw_last_q <=> Closed
  BY DEF UnitInv, CollectInv
<1>3. ~completes_w
  BY <1>2 DEF completes_w
<1>4. Pushes(valid) => ~Closed
  BY <1>2 DEF Pushes, input_ready_o
<1>5. PadderUpdate(pop_w) <=> pop_w
  BY <1>2 DEF PadderUpdate, pop_w
<1>6. Taken' = IF PadderUpdate(pop_w)
               THEN Append(Taken, V1(head.data, pop_w /\ head.is_last,
                                     head.byte_num))
               ELSE Taken
  <2>1. pop_w \in BOOLEAN /\ (pop_w /\ head.is_last) \in BOOLEAN
    BY DEF pop_w
  <2>. QED
    BY <1>1, <2>1, HeadType, TakenStep
<1>7. pop_w => head = accepted[Len(Taken) + 1]
  <2>. SUFFICES ASSUME pop_w
                PROVE  head = accepted[Len(Taken) + 1]
    OBVIOUS
  <2>1. 0 \in 0 .. fifo_count_q - 1
    BY DEF pop_w, fifo_empty_w, TypeOK
  <2>2. fifo[Slot(0)] = accepted[Len(Taken) + 0 + 1]
    BY <2>1 DEF UnitInv, NothingLost
  <2>. QED
    BY <2>2, HeadIsSlotZero, TakenType
<1>8. k_i' = {}
  BY <1>1, <1>2, ShiftEmpty DEF KeccakClk
<1>9. ~padder_done' /\ ~out_ready'
  BY <1>1, <1>2 DEF KeccakClk, PadderClk
<1>10. ~done_o'
  BY <1>1, <1>2, <1>3 DEF ControlClk, UnitInv
<1>11. last_seen' <=> pop_w /\ head.is_last
  BY <1>1 DEF KeccakClk, PadderClk
<1>. QED
  BY <1>1, <1>3, <1>4, <1>5, <1>6, <1>7, <1>8, <1>9, <1>10, <1>11

\* Still collecting after the edge: words move from the host through the FIFO
\* into the core, none lost.
LEMMA CollectStep ==
    ASSUME TypeOK, UnitInv, ~last_seen, ~last_seen',
           NEW start_i \in BOOLEAN, NEW valid \in BOOLEAN, NEW w \in Word,
           NEW last \in BOOLEAN, NEW bnum \in ByteNum,
           WrapperClk(start_i, valid, w, last, bnum)
    PROVE  NothingLost' /\ CollectInv'
<1>. DEFINE push == Pushes(valid)
            entry == NewEntry(w, last, bnum)
            n == Len(Taken)
            m == Len(accepted)
            o == Popped
            i == Pushed(valid)
<1>1. /\ accepted' = IF push THEN Append(accepted, entry) ELSE accepted
      /\ pop_w => head = accepted[n + 1] /\ ~head.is_last
  BY CollectParts
<1>2. Taken' = IF pop_w THEN Append(Taken, FullLane(head.data)) ELSE Taken
  <2>1. V1(head.data, pop_w /\ head.is_last, head.byte_num) = FullLane(head.data)
        \/ ~pop_w
    BY <1>1 DEF V1
  <2>. QED
    BY <2>1, CollectParts
<1>3. /\ accepted \in Seq(Entry) /\ m \in Nat /\ entry \in Entry
      /\ Taken \in Seq(Lane) /\ n \in Nat /\ FullLane(head.data) \in Lane
  <2>1. FullLane(head.data) \in Lane
    BY HeadType DEF FullLane, MkLane, Lane
  <2>2. entry \in Entry
    BY DEF NewEntry, Entry, ByteNum
  <2>. QED
    BY <2>1, <2>2, LenProperties, TakenType DEF TypeOK
<1>4. /\ m = n + fifo_count_q
      /\ \A j \in 1 .. n : Taken[j] = FullLane(accepted[j].data)
      /\ \A k \in 0 .. fifo_count_q - 1 : fifo[Slot(k)] = accepted[n + k + 1]
  BY DEF UnitInv, NothingLost
<1>5. /\ FifoClk(push, entry) /\ ControlClk(start_i, valid, push, last)
      /\ ~completes_w /\ wr_ptr_q = Slot(fifo_count_q)
  BY ClkParts, CollectParts DEF UnitInv, FifoInv
<1>6. fifo_count_q' = fifo_count_q - o + i
  BY <1>5, FifoStep
<1>7. \A k \in 0 .. fifo_count_q - o + i - 1 :
          fifo'[Slot(k)'] = IF push /\ k = fifo_count_q - o THEN entry
                            ELSE fifo[Slot(k + o)]
  BY <1>5, FifoStep
<1>8. /\ fifo_count_q \in Nat /\ o \in {0, 1} /\ i \in {0, 1}
      /\ o <= fifo_count_q /\ (o = 1 <=> pop_w) /\ (i = 1 <=> push)
  BY DEF TypeOK, Popped, Pushed, pop_w, fifo_empty_w
<1>. HIDE DEF push, entry, n, m, o, i
<1>9. Len(accepted') = m + i /\ Len(Taken') = n + o
  <2>1. Len(accepted') = m + i
    BY <1>1, <1>3, <1>8 DEF m
  <2>2. Len(Taken') = n + o
    BY <1>2, <1>3, <1>8 DEF n
  <2>. QED
    BY <2>1, <2>2
<1>10. \A j \in 1 .. m : accepted'[j] = accepted[j]
  BY <1>1, <1>3 DEF m
<1>11. ASSUME NEW j \in 1 .. n + o
       PROVE  Taken'[j] = FullLane(accepted'[j].data)
  <2>1. j \in 1 .. m
    BY <1>3, <1>4, <1>8
  <2>2. CASE j \in 1 .. n
    <3>1. Taken'[j] = Taken[j]
      BY <1>2, <1>3, <2>2 DEF n
    <3>. QED
      BY <1>4, <1>10, <2>1, <2>2, <3>1
  <2>3. CASE j \notin 1 .. n
    <3>1. pop_w /\ j = n + 1
      BY <1>3, <1>8, <2>3
    <3>2. Taken'[j] = FullLane(head.data)
      BY <1>2, <1>3, <3>1 DEF n
    <3>. QED
      BY <1>1, <1>10, <2>1, <3>1, <3>2
  <2>. QED
    BY <2>2, <2>3
<1>12. ASSUME NEW k \in 0 .. fifo_count_q - o + i - 1
       PROVE  fifo'[Slot(k)'] = accepted'[n + o + k + 1]
  <2>1. CASE push /\ k = fifo_count_q - o
    <3>1. n + o + k + 1 = m + 1
      BY <1>3, <1>4, <1>8, <2>1
    <3>2. accepted'[m + 1] = entry
      BY <1>1, <1>3, <2>1 DEF m
    <3>3. fifo'[Slot(k)'] = entry
      BY <1>7, <2>1
    <3>. QED
      BY <3>1, <3>2, <3>3
  <2>2. CASE ~(push /\ k = fifo_count_q - o)
    <3>1. k + o \in 0 .. fifo_count_q - 1
      BY <1>8, <2>2
    <3>2. fifo'[Slot(k)'] = fifo[Slot(k + o)]
      BY <1>7, <2>2
    <3>3. fifo[Slot(k + o)] = accepted[n + (k + o) + 1]
      BY <1>4, <3>1
    <3>4. n + (k + o) + 1 = n + o + k + 1 /\ n + o + k + 1 \in 1 .. m
      BY <1>3, <1>4, <1>8, <3>1
    <3>5. accepted'[n + o + k + 1] = accepted[n + o + k + 1]
      BY <1>10, <3>4
    <3>. QED
      BY <3>2, <3>3, <3>4, <3>5
  <2>. QED
    BY <2>1, <2>2
<1>13. NothingLost'
  <2>1. Len(accepted') = Len(Taken') + fifo_count_q'
    BY <1>3, <1>4, <1>6, <1>8, <1>9
  <2>2. \A j \in 1 .. Len(Taken') : Taken'[j] = FullLane(accepted'[j].data)
    BY <1>9, <1>11
  <2>3. ASSUME NEW k \in 0 .. fifo_count_q' - 1
        PROVE  fifo'[Slot(k)'] = accepted'[Len(Taken') + k + 1]
    <3>1. k \in 0 .. fifo_count_q - o + i - 1
      BY <1>6, <1>8
    <3>. QED
      BY <1>9, <1>12, <3>1
  <2>. QED
    BY <2>1, <2>2, <2>3 DEF NothingLost
<1>14. CollectInv'
  <2>1. /\ state_q # "WAIT" /\ (state_q = "IDLE" <=> accepted = <<>>)
        /\ (saw_last_q <=> Closed)
    BY DEF UnitInv, CollectInv
  <2>2. state_q' = IF push /\ state_q = "IDLE" THEN "RUN" ELSE state_q
    BY <1>1, <1>5 DEF ControlClk
  <2>3. saw_last_q' <=> saw_last_q \/ (push /\ last)
    BY <1>5 DEF ControlClk
  <2>4. CASE push
    <3>1. accepted' = Append(accepted, entry) /\ entry.is_last = last
      BY <1>1, <2>4 DEF entry, NewEntry
    <3>2. accepted' # <<>> /\ accepted'[Len(accepted')] = entry
      BY <1>3, <3>1
    <3>3. ~saw_last_q
      BY <2>4 DEF push, Pushes, input_ready_o
    <3>4. saw_last_q' <=> Closed'
      BY <2>3, <2>4, <3>1, <3>2, <3>3 DEF Closed
    <3>5. state_q' # "WAIT" /\ state_q' # "IDLE"
      BY <2>1, <2>2, <2>4
    <3>. QED
      BY <3>2, <3>4, <3>5, CollectParts DEF CollectInv
  <2>5. CASE ~push
    <3>1. accepted' = accepted /\ state_q' = state_q /\ (saw_last_q' <=> saw_last_q)
      BY <1>1, <2>2, <2>3, <2>5
    <3>. QED
      BY <2>1, <3>1, CollectParts DEF CollectInv, Closed
  <2>. QED
    BY <2>4, <2>5
<1>. QED
  BY <1>13, <1>14

\* The last word leaves the FIFO: its block is the final one.
LEMMA PadStart ==
    ASSUME TypeOK, UnitInv, ~last_seen, last_seen',
           NEW start_i \in BOOLEAN, NEW valid \in BOOLEAN, NEW w \in Word,
           NEW last \in BOOLEAN, NEW bnum \in ByteNum,
           WrapperClk(start_i, valid, w, last, bnum)
    PROVE  PaddingInv'
<1>. DEFINE n == Len(Taken)
            m == Len(accepted)
            v == Padder1(head.data, head.byte_num, LastLaneNext)
<1>1. pop_w /\ head.is_last
  BY CollectParts
<1>2. saw_last_q /\ fifo_count_q = 1 /\ ~Pushes(valid)
  BY <1>1, PopLast DEF UnitInv, Pushes
<1>3. accepted' = accepted /\ head = accepted[n + 1] /\ Closed
  BY <1>1, <1>2, CollectParts DEF UnitInv, CollectInv
<1>4. Taken \in Seq(Lane) /\ buf \in Seq(Lane)
  BY TakenType DEF TypeOK, KeccakTypeOK
<1>4n. /\ m \in Nat /\ n \in Nat /\ n = Len(absorbed) + Len(buf)
       /\ Len(absorbed) \in Nat /\ Len(buf) \in Nat /\ Len(buf) <= RateWords
  BY LenProperties, TakenType DEF TypeOK, KeccakTypeOK
<1>5. m = n + 1 /\ \A j \in 1 .. n : Taken[j] = FullLane(accepted[j].data)
  BY <1>2 DEF UnitInv, NothingLost
<1>6. V1(head.data, pop_w /\ head.is_last, head.byte_num) = v
  BY <1>1 DEF V1
<1>7. Taken' = Append(Taken, v) /\ v \in Lane
  <2>1. V1(head.data, pop_w /\ head.is_last, head.byte_num) \in Lane
    BY <1>1, HeadType, LaneTypes
  <2>. QED
    BY <1>1, <1>6, <2>1, CollectParts
<1>8. KeccakClk(head.data, pop_w, pop_w /\ head.is_last, head.byte_num)
  BY ClkParts
<1>9. ~buffer_full /\ ~f_ack
  BY <1>1 DEF pop_w, f_ack
<1>10. absorbed' = absorbed /\ buf' = Append(buf, v)
  <2>1. PadderUpdate(pop_w)
    BY <1>1, <1>9 DEF PadderUpdate, UnitInv, CollectInv
  <2>. QED
    BY <1>6, <1>8, <1>9, <2>1 DEF KeccakClk, PadderClk, PermutationClk
<1>11. Total = Len(absorbed) + RateWords
  <2>1. PICK b \in 0 .. Len(absorbed) : Len(absorbed) = RateWords * b
    BY DEF UnitInv, BlocksInv
  <2>2. b \in Nat /\ RateWords * b < m /\ m <= RateWords * b + RateWords
    BY <1>4n, <1>5, <1>9, <2>1 DEF buffer_full
  <2>. QED
    BY <1>4n, <2>1, <2>2, LastBlock DEF Total
<1>. HIDE DEF n, m, v
<1>12. LastLaneNext <=> m = Total
  <2>1. Len(buf) = RateWords - 1 <=> n + 1 = Len(absorbed) + RateWords
    BY <1>4n
  <2>2. LastLaneNext <=> Len(buf) = RateWords - 1
    BY DEF LastLaneNext
  <2>. QED
    BY <1>5, <1>11, <2>1, <2>2
<1>13. ASSUME NEW j \in 1 .. n + 1
       PROVE  Taken'[j] = PaddedLane(accepted, j, Total)
  <2>1. CASE j \in 1 .. n
    <3>1. Taken'[j] = Taken[j]
      BY <1>4, <1>4n, <1>7, <2>1 DEF n
    <3>2. j < Len(accepted)
      BY <1>4n, <1>5, <2>1 DEF m
    <3>. QED
      BY <1>5, <2>1, <3>1, <3>2 DEF PaddedLane
  <2>2. CASE j = n + 1
    <3>1. Taken'[j] = v
      BY <1>4, <1>4n, <1>7, <2>2 DEF n
    <3>2. j = Len(accepted) /\ ~(j < Len(accepted)) /\ head = accepted[j]
      BY <1>3, <1>4n, <1>5, <2>2 DEF m
    <3>3. PaddedLane(accepted, j, Total)
            = Padder1(head.data, head.byte_num, j = Total)
      BY <3>2 DEF PaddedLane
    <3>4. LastLaneNext <=> j = Total
      BY <1>12, <3>2 DEF m
    <3>5. v = Padder1(head.data, head.byte_num, j = Total)
      BY <3>4 DEF v, Padder1, MkLane, LastLaneNext
    <3>. QED
      BY <3>1, <3>3, <3>5
  <2>. QED
    BY <1>4n, <2>1, <2>2
<1>14. Len(Taken') = n + 1 /\ buf' # <<>>
  <2>1. Len(Taken') = n + 1
    BY <1>4, <1>4n, <1>7 DEF n
  <2>2. Append(buf, v) # <<>>
    <3>1. v \in Lane
      BY <1>7
    <3>2. buf \in Seq(Lane)
      BY <1>4
    <3>3. Len(Append(buf, v)) = Len(buf) + 1
      BY <3>1, <3>2
    <3>4. Len(buf) + 1 # 0
      BY <1>4n
    <3>5. Len(<<>>) = 0
      OBVIOUS
    <3>. QED
      BY <3>3, <3>4, <3>5, Zenon
  <2>. QED
    BY <1>10, <2>1, <2>2
<1>15. Closed' /\ Total' = Total /\ Len(accepted') <= Len(Taken')
  <2>1. Closed' /\ Total' = Total
    BY <1>3 DEF Closed, Total
  <2>2. Len(accepted') <= Len(Taken')
    BY <1>3, <1>4n, <1>5, <1>14 DEF m
  <2>. QED
    BY <2>1, <2>2
<1>16. \A j \in 1 .. Len(Taken') : Taken'[j] = PaddedLane(accepted, j, Total)'
  BY <1>3, <1>13, <1>14, <1>15 DEF PaddedLane
<1>17. ~padder_done' /\ ~out_ready' /\ k_i' = {} /\ ~completes_w
  BY CollectParts
<1>18. state_q' = "WAIT"
  BY <1>1, <1>17, ClkParts DEF ControlClk
<1>19. Len(absorbed') + RateWords = Total'
  BY <1>4n, <1>10, <1>11, <1>15
<1>. QED
  BY <1>14, <1>15, <1>16, <1>17, <1>18, <1>19 DEF PaddingInv

-----------------------------------------------------------------------------
(* Padding and permuting: last_seen = 1.                                   *)

\* The final block fills up with zero lanes, enters the sponge once and is
\* permuted; then the core is idle whatever the host sends.
LEMMA PadStep ==
    ASSUME TypeOK, RoundInv, UnitInv, last_seen,
           NEW start_i \in BOOLEAN, NEW valid \in BOOLEAN, NEW w \in Word,
           NEW last \in BOOLEAN, NEW bnum \in ByteNum,
           WrapperClk(start_i, valid, w, last, bnum)
    PROVE  PaddingInv' /\ last_seen' /\ accepted' = accepted
           /\ (out_ready => out_ready')
<1>. DEFINE n == Len(Taken)
            m == Len(accepted)
            in == head.data
            is_last == pop_w /\ head.is_last
            filled == padder_done /\ buf = <<>>
<1>1. /\ KeccakClk(in, pop_w, is_last, head.byte_num)
      /\ ControlClk(start_i, valid, Pushes(valid), last)
      /\ accepted' = IF Pushes(valid) /\ ~Closed
                     THEN Append(accepted, NewEntry(w, last, bnum))
                     ELSE accepted
  BY ClkParts
<1>2. /\ Closed /\ m <= n
      /\ padder_done => buf = <<>> \/ buffer_full
      /\ state_q # "WAIT" => out_ready
  BY DEF UnitInv, PaddingInv
<1>3. \A j \in 1 .. n : Taken[j] = PaddedLane(accepted, j, Total)
  BY DEF UnitInv, PaddingInv
<1>4. filled => Len(absorbed) = Total /\ k_i = f_i /\ (out_ready <=> ~calc)
  BY DEF UnitInv, PaddingInv
<1>5. ~filled => Len(absorbed) + RateWords = Total /\ k_i = {} /\ ~out_ready
  BY DEF UnitInv, PaddingInv
<1>6. accepted' = accepted /\ last_seen' /\ Closed' /\ Total' = Total
  <2>1. accepted' = accepted
    BY <1>1, <1>2
  <2>2. last_seen'
    BY <1>1 DEF KeccakClk, PadderClk
  <2>. QED
    BY <1>2, <2>1, <2>2 DEF Closed, Total
<1>7. /\ m \in Nat /\ n \in Nat /\ n = Len(absorbed) + Len(buf)
      /\ Len(absorbed) \in Nat /\ Len(buf) \in Nat /\ Len(buf) <= RateWords
  BY LenProperties, TakenType DEF TypeOK, KeccakTypeOK
<1>8. Taken \in Seq(Lane) /\ buf \in Seq(Lane) /\ absorbed \in Seq(Lane)
  BY TakenType DEF TypeOK, KeccakTypeOK
<1>9. Taken' = IF PadderUpdate(pop_w)
               THEN Append(Taken, ZeroLane(LastLaneNext)) ELSE Taken
  <2>1. pop_w \in BOOLEAN /\ is_last \in BOOLEAN
    BY DEF pop_w
  <2>2. V1(in, is_last, head.byte_num) = ZeroLane(LastLaneNext)
    BY DEF V1
  <2>. QED
    BY <1>1, <2>1, <2>2, HeadType, TakenStep
<1>10. PadderUpdate(pop_w) <=> ~buffer_full /\ ~padder_done
  BY DEF PadderUpdate
<1>11. out_ready => out_ready'
  BY <1>1 DEF KeccakClk
<1>12. state_q' # "WAIT" => state_q # "WAIT" \/ completes_w
  BY <1>1 DEF ControlClk
<1>13. k_i' = ShiftIn(k_i, last_seen /\ f_ack) /\ f_i' = ShiftIn(f_i, f_ack)
  BY <1>1 DEF KeccakClk, PermutationClk
<1>14. /\ padder_done' <=> padder_done \/ buffer_full
       /\ out_ready' <=> out_ready \/ Rounds - 2 \in k_i
       /\ calc' <=> (calc /\ Rounds - 2 \notin f_i) \/ f_ack
  BY <1>1 DEF KeccakClk, PadderClk, PermutationClk
<1>. HIDE DEF n, m, in, is_last
<1>15. CASE filled
  <2>1. ~buffer_full /\ ~f_ack
    <3>1. Len(buf) = 0
      BY <1>15
    <3>. QED
      BY <3>1 DEF buffer_full, f_ack
  <2>2. buf' = buf /\ absorbed' = absorbed /\ padder_done' /\ Taken' = Taken
    <3>1. ~PadderUpdate(pop_w)
      BY <1>10, <1>15
    <3>2. buf' = buf /\ absorbed' = absorbed
      BY <1>1, <2>1, <3>1 DEF KeccakClk, PadderClk, PermutationClk
    <3>. QED
      BY <1>9, <1>14, <1>15, <3>1, <3>2
  <2>3. k_i' = f_i'
    <3>1. k_i = f_i
      BY <1>4, <1>15
    <3>2. (last_seen /\ f_ack) = f_ack
      BY <2>1 DEF f_ack
    <3>. QED
      BY <1>13, <3>1, <3>2
  <2>4. out_ready' <=> ~calc'
    BY <1>4, <1>14, <1>15, <2>1
  <2>5. state_q' # "WAIT" => out_ready'
    BY <1>2, <1>11, <1>12 DEF completes_w
  <2>6. \A j \in 1 .. Len(Taken') : Taken'[j] = PaddedLane(accepted, j, Total)'
    BY <1>3, <1>6, <2>2 DEF PaddedLane, n
  <2>7. Len(accepted') <= Len(Taken') /\ Len(absorbed') = Total'
    BY <1>2, <1>4, <1>6, <1>15, <2>2 DEF m, n
  <2>. QED
    BY <1>6, <1>11, <1>15, <2>2, <2>3, <2>4, <2>5, <2>6, <2>7 DEF PaddingInv
<1>16. CASE ~filled
  <2>1. /\ ~out_ready' /\ ~out_ready /\ state_q' = "WAIT"
        /\ Len(absorbed) + RateWords = Total /\ k_i = {}
    <3>1. ~out_ready /\ k_i = {} /\ Len(absorbed) + RateWords = Total
      BY <1>5, <1>16
    <3>. QED
      BY <1>2, <1>12, <1>14, <3>1 DEF completes_w
  <2>2. CASE f_ack
    <3>1. buffer_full /\ ~calc
      BY <2>2 DEF f_ack
    <3>2. buf' = <<>> /\ absorbed' = absorbed \o buf /\ padder_done' /\ calc'
      BY <1>1, <1>14, <2>2, <3>1 DEF KeccakClk, PadderClk, PermutationClk
    <3>3. Taken' = Taken
      BY <1>9, <1>10, <3>1
    <3>4. Len(absorbed') = Total'
      <4>1. Len(absorbed') = Len(absorbed) + Len(buf)
        BY <1>8, <3>2, ConcatProperties
      <4>. QED
        BY <1>6, <2>1, <3>1, <4>1 DEF buffer_full
    <3>5. k_i' = f_i'
      <4>1. f_i = {}
        BY <3>1 DEF RoundInv, RoundsInStep
      <4>2. f_i' = {0}
        BY <1>13, <2>2, <4>1, ShiftEmpty
      <4>3. k_i' = {0}
        BY <1>13, <2>1, <2>2, ShiftEmpty
      <4>. QED
        BY <4>2, <4>3
    <3>6. \A j \in 1 .. Len(Taken') : Taken'[j] = PaddedLane(accepted, j, Total)'
      BY <1>3, <1>6, <3>3 DEF PaddedLane, n
    <3>7. Len(accepted') <= Len(Taken')
      BY <1>2, <1>6, <3>3 DEF m, n
    <3>. QED
      BY <1>6, <2>1, <3>2, <3>4, <3>5, <3>6, <3>7 DEF PaddingInv
  <2>3. CASE ~f_ack
    <3>1. absorbed' = absorbed /\ k_i' = {}
      BY <1>1, <1>13, <2>1, <2>3, ShiftEmpty DEF KeccakClk, PermutationClk
    <3>2. Len(absorbed') + RateWords = Total'
      BY <1>6, <2>1, <3>1
    <3>3. CASE PadderUpdate(pop_w)
      <4>1. ~buffer_full /\ ~padder_done /\ ~padder_done'
        BY <1>10, <1>14, <3>3
      <4>2. LastLaneNext \in BOOLEAN /\ ZeroLane(LastLaneNext) \in Lane
        BY DEF LastLaneNext, ZeroLane, MkLane, Lane
      <4>3. Taken' = Append(Taken, ZeroLane(LastLaneNext))
        BY <1>9, <3>3
      <4>4. Len(Taken') = n + 1
        BY <1>8, <4>2, <4>3 DEF n
      <4>5. LastLaneNext <=> n + 1 = Total
        <5>1. Len(buf) = RateWords - 1 <=> n + 1 = Total
          BY <1>7, <2>1
        <5>. QED
          BY <5>1 DEF LastLaneNext
      <4>6. ASSUME NEW j \in 1 .. n + 1
            PROVE  Taken'[j] = PaddedLane(accepted, j, Total)
        <5>1. CASE j \in 1 .. n
          <6>1. Taken'[j] = Taken[j]
            BY <1>8, <4>2, <4>3, <5>1 DEF n
          <6>. QED
            BY <1>3, <5>1, <6>1
        <5>2. CASE j = n + 1
          <6>1. Taken'[j] = ZeroLane(LastLaneNext)
            BY <1>8, <4>2, <4>3, <5>2 DEF n
          <6>2. ~(j < m) /\ j # m
            BY <1>2, <1>7, <5>2
          <6>3. PaddedLane(accepted, j, Total) = ZeroLane(j = Total)
            BY <6>2 DEF PaddedLane, m
          <6>4. ZeroLane(LastLaneNext) = ZeroLane(j = Total)
            BY <4>5, <5>2 DEF ZeroLane, MkLane, LastLaneNext
          <6>. QED
            BY <6>1, <6>3, <6>4
        <5>. QED
          BY <1>7, <5>1, <5>2
      <4>7. \A j \in 1 .. Len(Taken') :
                Taken'[j] = PaddedLane(accepted, j, Total)'
        BY <1>6, <4>4, <4>6 DEF PaddedLane
      <4>8. Len(accepted') <= Len(Taken')
        BY <1>2, <1>6, <1>7, <4>4 DEF m
      <4>. QED
        BY <1>6, <2>1, <3>1, <3>2, <4>1, <4>7, <4>8 DEF PaddingInv
    <3>4. CASE ~PadderUpdate(pop_w)
      <4>1. buffer_full
        BY <1>2, <1>10, <1>16, <3>4
      <4>2. buf' = buf /\ Taken' = Taken
        BY <1>1, <1>9, <2>3, <3>4 DEF KeccakClk, PadderClk
      <4>3. buffer_full' /\ buf' # <<>>
        BY <4>1, <4>2 DEF buffer_full
      <4>4. \A j \in 1 .. Len(Taken') :
                Taken'[j] = PaddedLane(accepted, j, Total)'
        BY <1>3, <1>6, <4>2 DEF PaddedLane, n
      <4>5. Len(accepted') <= Len(Taken')
        BY <1>2, <1>6, <4>2 DEF m, n
      <4>. QED
        BY <1>6, <2>1, <3>1, <3>2, <4>3, <4>4, <4>5 DEF PaddingInv
    <3>. QED
      BY <3>3, <3>4
  <2>. QED
    BY <1>6, <1>11, <2>2, <2>3
<1>. QED
  BY <1>6, <1>11, <1>15, <1>16

-----------------------------------------------------------------------------
(* All phases together.                                                    *)

\* The clock edge that ends a message empties the FIFO.
LEMMA CompleteStep ==
    ASSUME TypeOK, UnitInv, completes_w,
           NEW start_i \in BOOLEAN, NEW valid \in BOOLEAN, NEW w \in Word,
           NEW last \in BOOLEAN, NEW bnum \in ByteNum,
           WrapperClk(start_i, valid, w, last, bnum)
    PROVE  StatusTruthful' /\ FifoInv'
<1>1. /\ FifoClk(Pushes(valid), NewEntry(w, last, bnum))
      /\ ControlClk(start_i, valid, Pushes(valid), last)
  BY ClkParts
<1>2. wr_ptr_q' = 0 /\ rd_ptr_q' = 0 /\ fifo_count_q' = 0
  BY <1>1 DEF FifoClk
<1>3. state_q' = "IDLE" /\ ~saw_last_q' /\ ~busy_o'
  BY <1>1 DEF ControlClk
<1>4. Slot(fifo_count_q)' = 0
  BY <1>2 DEF Slot
<1>. QED
  BY <1>2, <1>3, <1>4 DEF StatusTruthful, FifoInv, fifo_empty_w

LEMMA UnitInvInit == WrapperInit => UnitInv
<1>. SUFFICES ASSUME WrapperInit PROVE UnitInv
  OBVIOUS
<1>1. /\ last_seen = FALSE /\ buf = <<>> /\ absorbed = <<>> /\ accepted = <<>>
      /\ fifo_count_q = 0 /\ rd_ptr_q = 0 /\ wr_ptr_q = 0 /\ k_i = {}
      /\ ~padder_done /\ ~out_ready /\ ~saw_last_q /\ ~busy_o /\ ~done_o
      /\ state_q = "IDLE"
  BY DEF WrapperInit, KeccakInit
<1>2. Len(accepted) = 0 /\ Len(absorbed) = 0 /\ Len(Taken) = 0
  BY <1>1, TakenType, InitType DEF RoundInv
<1>3. StatusTruthful /\ FifoInv
  BY <1>1 DEF StatusTruthful, FifoInv, Slot, fifo_empty_w
<1>4. MessageInv /\ NothingLost
  BY <1>1, <1>2 DEF MessageInv, NothingLost
<1>5. CollectInv /\ PaddingInv
  BY <1>1 DEF CollectInv, PaddingInv, Closed
<1>6. BlocksInv
  <2>1. 0 \in 0 .. Len(absorbed) /\ Len(absorbed) = RateWords * 0
    BY <1>2
  <2>. QED
    BY <2>1 DEF BlocksInv
<1>. QED
  BY <1>1, <1>3, <1>4, <1>5, <1>6 DEF UnitInv

LEMMA UnitInvReset ==
    ASSUME WrapperReset, TypeOK'
    PROVE  UnitInv'
<1>1. /\ ~last_seen' /\ buf' = <<>> /\ absorbed' = <<>> /\ accepted' = <<>>
      /\ fifo_count_q' = 0 /\ rd_ptr_q' = 0 /\ wr_ptr_q' = 0 /\ k_i' = {}
      /\ ~padder_done' /\ ~out_ready' /\ ~saw_last_q' /\ ~busy_o' /\ ~done_o'
      /\ state_q' = "IDLE"
  BY DEF WrapperReset, KeccakReset
<1>2. Len(accepted') = 0 /\ Len(absorbed') = 0 /\ Len(Taken') = 0
  <2>1. <<>> \o <<>> = <<>>
    OBVIOUS
  <2>. QED
    BY <1>1, <2>1 DEF Taken
<1>3. StatusTruthful' /\ FifoInv'
  BY <1>1 DEF StatusTruthful, FifoInv, Slot, fifo_empty_w
<1>4. MessageInv' /\ NothingLost'
  BY <1>1, <1>2 DEF MessageInv, NothingLost
<1>5. CollectInv' /\ PaddingInv'
  BY <1>1 DEF CollectInv, PaddingInv, Closed
<1>6. BlocksInv'
  <2>1. 0 \in 0 .. Len(absorbed') /\ Len(absorbed') = RateWords * 0
    BY <1>2
  <2>. QED
    BY <2>1 DEF BlocksInv
<1>. QED
  BY <1>1, <1>3, <1>4, <1>5, <1>6 DEF UnitInv

LEMMA UnitInvClk ==
    ASSUME TypeOK, RoundInv, UnitInv,
           NEW start_i \in BOOLEAN, NEW valid \in BOOLEAN, NEW w \in Word,
           NEW last \in BOOLEAN, NEW bnum \in ByteNum,
           WrapperClk(start_i, valid, w, last, bnum)
    PROVE  UnitInv'
<1>1. StatusTruthful' /\ FifoInv'
  BY ControlStep, CompleteStep DEF UnitInv
<1>2. BlocksInv'
  <2>1. PermutationClk
    BY ClkParts DEF KeccakClk
  <2>. QED
    BY <2>1, BlocksStep DEF UnitInv
<1>3. MessageInv'
  <2>1. NewEntry(w, last, bnum) \in Entry
    BY DEF NewEntry, Entry, ByteNum
  <2>. QED
    BY <2>1, ClkParts, MessageStep DEF UnitInv
<1>4. CASE ~last_seen /\ ~last_seen'
  BY <1>1, <1>2, <1>3, <1>4, CollectStep, CollectParts DEF UnitInv, PaddingInv
<1>5. CASE ~last_seen /\ last_seen'
  BY <1>1, <1>2, <1>3, <1>5, PadStart, CollectParts
     DEF UnitInv, NothingLost, CollectInv
<1>6. CASE last_seen
  <2>1. PaddingInv' /\ last_seen' /\ (out_ready => out_ready')
    BY <1>6, PadStep
  <2>2. done_o' => out_ready
    BY ClkParts DEF ControlClk, completes_w, UnitInv
  <2>. QED
    BY <1>1, <1>2, <1>3, <2>1, <2>2 DEF UnitInv, NothingLost, CollectInv
<1>. QED
  BY <1>4, <1>5, <1>6

(***************************************************************************)
(* The FIFO, the controller and the core agree in every reachable state.   *)
(***************************************************************************)
THEOREM UnitInvariant == Spec => [](TypeOK /\ RoundInv /\ UnitInv)
<1>1. WrapperInit => TypeOK /\ RoundInv /\ UnitInv
  BY InitType, UnitInvInit
<1>2. TypeOK /\ RoundInv /\ UnitInv /\ [Next]_wrapper_vars
        => (TypeOK /\ RoundInv /\ UnitInv)'
  <2>. SUFFICES ASSUME TypeOK, RoundInv, UnitInv, [Next]_wrapper_vars
                PROVE  (TypeOK /\ RoundInv /\ UnitInv)'
    OBVIOUS
  <2>1. CASE WrapperReset
    BY <2>1, ResetType, UnitInvReset
  <2>2. CASE \E start_i \in BOOLEAN, valid \in BOOLEAN, w \in Word,
                last \in BOOLEAN, bnum \in ByteNum :
                 WrapperClk(start_i, valid, w, last, bnum)
    BY <2>2, ClkType, UnitInvClk
  <2>3. CASE UNCHANGED wrapper_vars
    <3>. USE <2>3 DEF wrapper_vars, fifo_vars, control_vars, keccak_vars,
                      padder_vars, f_vars
    <3>1. TypeOK' /\ RoundInv'
      BY DEF TypeOK, KeccakTypeOK, RoundInv, RoundsInStep
    <3>2. StatusTruthful' /\ FifoInv' /\ MessageInv' /\ BlocksInv'
      BY DEF UnitInv, StatusTruthful, FifoInv, MessageInv, BlocksInv, Slot,
             fifo_empty_w
    <3>3. NothingLost' /\ CollectInv' /\ (done_o => out_ready)'
      BY DEF UnitInv, NothingLost, CollectInv, Slot, Taken, Closed
    <3>4. PaddingInv'
      BY DEF UnitInv, PaddingInv, Taken, Closed, Total, PaddedLane, buffer_full
    <3>. QED
      BY <3>1, <3>2, <3>3, <3>4 DEF UnitInv
  <2>. QED
    BY <2>1, <2>2, <2>3, NextCases
<1>. QED
  BY <1>1, <1>2, PTL DEF Spec

-----------------------------------------------------------------------------
(* From lanes to bytes.                                                    *)

\* The lanes of a whole message.
PaddedMessage(m) ==
    LET len == RateWords * Blocks(Len(m))
    IN  [j \in 1 .. len |-> PaddedLane(m, j, len)]

\* Quotient and remainder are the only ones.
LEMMA QuotientIs ==
    ASSUME NEW d \in Nat \ {0}, NEW q \in Nat, NEW r \in 0 .. d - 1
    PROVE  (d * q + r) \div d = q
BY Z3

\* The last word and the 0x80 bit are in the last block: as many blocks by
\* words as FIPS 202 has by bytes.
LEMMA SameBlocks ==
    ASSUME NEW len \in Nat \ {0}, NEW b \in ByteNum
    PROVE  4 * (RateWords * Blocks(len))
               = 4 * RateWords * ((4 * (len - 1) + b) \div (4 * RateWords) + 1)
<1>. DEFINE q == (len - 1) \div RateWords
            r == (len - 1) % RateWords
<1>1. q \in Nat /\ r \in 0 .. RateWords - 1 /\ len - 1 = RateWords * q + r
  BY Z3
<1>. HIDE DEF q, r
<1>. DEFINE z == RateWords * q
<1>2. z \in Nat
  BY <1>1
<1>3. z < len /\ len <= z + RateWords
  <2>1. len - 1 = z + r
    BY <1>1
  <2>. HIDE DEF z
  <2>. QED
    BY <1>1, <1>2, <2>1
<1>4. RateWords * Blocks(len) = z + RateWords
  BY <1>1, <1>3, LastBlock
<1>5. 4 * (len - 1) + b = (4 * RateWords) * q + (4 * r + b)
  <2>1. (4 * RateWords) * q = 4 * z
    BY <1>1
  <2>2. len - 1 = z + r
    BY <1>1
  <2>. HIDE DEF z
  <2>. QED
    BY <1>1, <1>2, <2>1, <2>2 DEF ByteNum
<1>6. (4 * (len - 1) + b) \div (4 * RateWords) = q
  <2>1. 4 * r + b \in 0 .. 4 * RateWords - 1
    BY <1>1 DEF ByteNum
  <2>2. 4 * RateWords \in Nat \ {0}
    OBVIOUS
  <2>. QED
    BY <1>1, <1>5, <2>1, <2>2, QuotientIs
<1>7. 4 * RateWords * (q + 1) = 4 * (z + RateWords)
  BY <1>1
<1>. QED
  BY <1>4, <1>6, <1>7

\* Byte number p is byte k of lane j.
LEMMA BytePlace ==
    ASSUME NEW len \in Nat, NEW p \in 1 .. 4 * len
    PROVE  /\ (p - 1) \div 4 + 1 \in 1 .. len /\ (p - 1) % 4 \in 0 .. 3
           /\ p = 4 * ((p - 1) \div 4 + 1) + ((p - 1) % 4) - 3
<1>. DEFINE x == p - 1
<1>1. x \in Nat /\ x < 4 * len /\ p = x + 1
  OBVIOUS
<1>. HIDE DEF x
<1>2. /\ x \div 4 \in Nat /\ x % 4 \in 0 .. 3
      /\ x = 4 * (x \div 4) + (x % 4)
  BY <1>1, Z3
<1>3. x \div 4 + 1 \in 1 .. len /\ p = 4 * (x \div 4 + 1) + (x % 4) - 3
  BY <1>1, <1>2
<1>. QED
  BY <1>2, <1>3 DEF x

\* The bytes of the padder's lanes are those of the padded message.
LEMMA BytesPadded ==
    ASSUME NEW m \in Seq(Entry), m # <<>>
    PROVE  BytesOf(PaddedMessage(m)) = PaddedBytes(m, HashedLength(m))
<1>. DEFINE L == Len(m)
            b == m[L].byte_num
            n == 4 * (L - 1) + b
            len == RateWords * Blocks(L)
            Word4(p) == (p - 1) \div 4 + 1
            At(p) == (p - 1) % 4
<1>1. L \in Nat \ {0}
  BY EmptySeq, LenProperties
<1>2. b \in ByteNum /\ b \in 0 .. 3
  <2>1. m[L] \in Entry
    BY <1>1, ElementOfSeq
  <2>. QED
    BY <2>1 DEF Entry, ByteNum
<1>3. len \in Nat /\ L <= len
  <2>1. Blocks(L) \in Nat /\ L <= RateWords * Blocks(L)
    <3>. DEFINE x == L + RateWords - 1
    <3>1. x \in Nat
      BY <1>1
    <3>. HIDE DEF x, L
    <3>2. x \div RateWords \in Nat /\ x < RateWords * (x \div RateWords) + RateWords
      BY <3>1, Z3
    <3>. QED
      BY <1>1, <3>2 DEF x, Blocks
  <2>. HIDE DEF L
  <2>. QED
    BY <2>1
<1>4. 4 * len = 4 * RateWords * (n \div (4 * RateWords) + 1)
  <2>. HIDE DEF L, b
  <2>. QED
    BY <1>1, <1>2, SameBlocks
<1>5. /\ Len(PaddedMessage(m)) = len
      /\ \A j \in 1 .. len : PaddedMessage(m)[j] = PaddedLane(m, j, len)
  <2>1. PaddedMessage(m) = [j \in 1 .. len |-> PaddedLane(m, j, len)]
    BY DEF PaddedMessage
  <2>. HIDE DEF len
  <2>. QED
    BY <1>3, <2>1
<1>6. HashedLength(m) = n
  BY DEF HashedLength
<1>7. PaddedBytes(m, n) =
          [p \in 1 .. 4 * len |->
              IF p <= n THEN <<"message", m[Word4(p)].data, At(p)>>
              ELSE <<"padding", p = n + 1, p = 4 * len>>]
  <2>. HIDE DEF n, len, L, b
  <2>. QED
    BY <1>4 DEF PaddedBytes
<1>8. BytesOf(PaddedMessage(m)) =
          [p \in 1 .. 4 * len |-> LaneByte(PaddedLane(m, Word4(p), len), At(p))]
  <2>1. \A p \in 1 .. 4 * len : Word4(p) \in 1 .. len
    BY <1>3, BytePlace
  <2>. HIDE DEF len, Word4, At
  <2>2. \A p \in 1 .. 4 * len : PaddedMessage(m)[Word4(p)] = PaddedLane(m, Word4(p), len)
    BY <1>5, <2>1
  <2>3. BytesOf(PaddedMessage(m)) =
            [p \in 1 .. 4 * len |-> LaneByte(PaddedMessage(m)[Word4(p)], At(p))]
    BY <1>5 DEF BytesOf, Word4, At
  <2>. QED
    BY <2>2, <2>3
<1>9. ASSUME NEW p \in 1 .. 4 * len
      PROVE  LaneByte(PaddedLane(m, Word4(p), len), At(p))
                 = IF p <= n THEN <<"message", m[Word4(p)].data, At(p)>>
                   ELSE <<"padding", p = n + 1, p = 4 * len>>
  <2>. DEFINE j == Word4(p)
              k == At(p)
  <2>1. j \in 1 .. len /\ k \in 0 .. 3 /\ p = 4 * j + k - 3
    BY <1>3, BytePlace
  <2>. HIDE DEF j, k, len, L, b
  <2>2. CASE j < L
    <3>1. p <= n
      BY <1>1, <1>2, <2>1, <2>2
    <3>2. PaddedLane(m, j, len) = FullLane(m[j].data)
      BY <2>2 DEF PaddedLane, L
    <3>3. LaneByte(FullLane(m[j].data), k) = <<"message", m[j].data, k>>
      BY <2>1 DEF LaneByte, FullLane, MkLane
    <3>. QED
      BY <3>1, <3>2, <3>3 DEF j, k
  <2>3. CASE j = L
    <3>1. PaddedLane(m, j, len) = Padder1(m[j].data, b, j = len)
      BY <2>3 DEF PaddedLane, L, b
    <3>2. CASE k < b
      <4>1. p <= n
        BY <1>1, <1>2, <2>1, <2>3, <3>2
      <4>2. b # 0
        BY <1>2, <2>1, <3>2
      <4>3. LaneByte(Padder1(m[j].data, b, j = len), k) = <<"message", m[j].data, k>>
        BY <3>2, <4>2 DEF LaneByte, Padder1, MkLane
      <4>. QED
        BY <3>1, <4>1, <4>3 DEF j, k
    <3>3. CASE ~(k < b)
      <4>1. ~(p <= n) /\ (p = n + 1 <=> k = b) /\ (p = 4 * len <=> j = len /\ k = 3)
        BY <1>1, <1>2, <1>3, <2>1, <2>3, <3>3
      <4>2. LaneByte(Padder1(m[j].data, b, j = len), k)
                = <<"padding", k = b, j = len /\ k = 3>>
        BY <3>3 DEF LaneByte, Padder1, MkLane
      <4>. QED
        BY <3>1, <4>1, <4>2 DEF j, k
    <3>. QED
      BY <3>2, <3>3
  <2>4. CASE L < j
    <3>1. PaddedLane(m, j, len) = ZeroLane(j = len)
      BY <1>1, <2>1, <2>4 DEF PaddedLane, L
    <3>2. LaneByte(ZeroLane(j = len), k) = <<"padding", FALSE, j = len /\ k = 3>>
      <4>1. /\ ZeroLane(j = len).bytes = 0 /\ ZeroLane(j = len).pad = FALSE
            /\ ZeroLane(j = len).msb = (j = len)
        BY DEF ZeroLane, MkLane
      <4>2. ~(k < 0)
        BY <2>1
      <4>. QED
        BY <4>1, <4>2 DEF LaneByte
    <3>3. ~(p <= n) /\ p # n + 1 /\ (p = 4 * len <=> j = len /\ k = 3)
      BY <1>1, <1>2, <1>3, <2>1, <2>4
    <3>. QED
      BY <3>1, <3>2, <3>3 DEF j, k
  <2>. QED
    BY <1>1, <2>1, <2>2, <2>3, <2>4
<1>. HIDE DEF n, len, L, b, Word4, At
<1>. QED
  BY <1>6, <1>7, <1>8, <1>9

\* What UnitInv says of an announced digest.
LEMMA DigestLanes ==
    ASSUME TypeOK, RoundInv, UnitInv, out_ready \/ done_o
    PROVE  /\ out_ready /\ Closed /\ absorbed \in Seq(Lane)
           /\ absorbed = PaddedMessage(accepted)
           /\ rounds = Rounds /\ ~calc
<1>1. out_ready /\ last_seen
  BY DEF UnitInv, CollectInv
<1>2. padder_done /\ buf = <<>> /\ Len(absorbed) = Total /\ ~calc /\ Closed
  BY <1>1 DEF UnitInv, PaddingInv
<1>3. absorbed \in Seq(Lane) /\ Taken = absorbed
  <2>1. absorbed \in Seq(Lane)
    BY DEF TypeOK, KeccakTypeOK
  <2>. QED
    BY <1>2, <2>1, ConcatEmptySeq DEF Taken
<1>4. \A j \in 1 .. Total : absorbed[j] = PaddedLane(accepted, j, Total)
  BY <1>1, <1>2, <1>3 DEF UnitInv, PaddingInv
<1>5. absorbed = [j \in 1 .. Total |-> PaddedLane(accepted, j, Total)]
  <2>1. absorbed \in [1 .. Total -> Lane]
    BY <1>2, <1>3, LenProperties
  <2>. QED
    BY <1>4, <2>1
<1>6. absorbed = PaddedMessage(accepted)
  BY <1>5 DEF PaddedMessage, Total
<1>7. rounds = Rounds
  <2>1. Len(accepted) \in Nat /\ Len(accepted) # 0
    BY <1>2, LenProperties, EmptySeq DEF TypeOK, Closed
  <2>2. Len(accepted) <= Len(absorbed)
    BY <1>1, <1>3 DEF UnitInv, PaddingInv
  <2>3. absorbed # <<>>
    BY <2>1, <2>2
  <2>. QED
    BY <1>2, <2>3 DEF RoundInv, RoundsInStep
<1>. QED
  BY <1>1, <1>2, <1>3, <1>6, <1>7

\* The digest the core announces is that of the message it accepted.
LEMMA DigestFromInv ==
    ASSUME TypeOK, RoundInv, UnitInv
    PROVE  DigestIsFirstMessage
<1>. SUFFICES ASSUME out_ready \/ done_o
              PROVE  /\ out_ready /\ Closed
                     /\ BytesOf(absorbed)
                            = PaddedBytes(accepted, HashedLength(accepted))
                     /\ rounds = Rounds /\ ~calc
  BY DEF DigestIsFirstMessage
<1>1. /\ out_ready /\ Closed
      /\ absorbed = PaddedMessage(accepted)
      /\ rounds = Rounds /\ ~calc
  BY DigestLanes
<1>2. accepted \in Seq(Entry) /\ accepted # <<>>
  BY <1>1 DEF TypeOK, Closed
<1>3. BytesOf(PaddedMessage(accepted))
          = PaddedBytes(accepted, HashedLength(accepted))
  BY <1>2, BytesPadded
<1>. QED
  BY <1>1, <1>3

(***************************************************************************)
(* The digest the unit reports is the padding of exactly the message it    *)
(* accepted since init, fully permuted, and no word is lost on the way.    *)
(***************************************************************************)
THEOREM DigestCorrect == Spec => [](DigestIsFirstMessage /\ NothingLost)
<1>1. TypeOK /\ RoundInv /\ UnitInv => DigestIsFirstMessage /\ NothingLost
  BY DigestFromInv DEF UnitInv
<1>. QED
  BY <1>1, UnitInvariant, PTL

\* A core that announces a digest is idle.
LEMMA FrozenEdge ==
    ASSUME TypeOK, UnitInv, out_ready, KeccakClk(head.data, pop_w,
               pop_w /\ head.is_last, head.byte_num)
    PROVE  out_ready' /\ UNCHANGED <<absorbed, rounds>>
<1>1. last_seen
  BY DEF UnitInv, CollectInv
<1>2. buf = <<>> /\ ~calc
  BY <1>1 DEF UnitInv, PaddingInv
<1>3. ~f_ack
  <2>1. Len(buf) = 0
    BY <1>2
  <2>. QED
    BY <2>1 DEF f_ack, buffer_full
<1>. QED
  BY <1>2, <1>3 DEF KeccakClk, PermutationClk

(***************************************************************************)
(* Once announced, a digest stays as it is until a reset or an init,       *)
(* whatever the host sends meanwhile (out_ready of keccak.v).              *)
(***************************************************************************)
THEOREM DigestFrozenCorrect == Spec => DigestFrozen
<1>1. ASSUME TypeOK, UnitInv, [Next]_wrapper_vars
      PROVE  [out_ready /\ ~Reset => /\ out_ready'
                                     /\ UNCHANGED <<absorbed, rounds>>]_wrapper_vars
  <2>1. CASE WrapperReset
    BY <2>1 DEF Reset
  <2>2. CASE \E start_i \in BOOLEAN, valid \in BOOLEAN, w \in Word,
                last \in BOOLEAN, bnum \in ByteNum :
                 WrapperClk(start_i, valid, w, last, bnum)
    BY <1>1, <2>2, ClkParts, FrozenEdge
  <2>3. CASE UNCHANGED wrapper_vars
    BY <2>3
  <2>. QED
    BY <1>1, <2>1, <2>2, <2>3, NextCases
<1>. QED
  BY <1>1, UnitInvariant, PTL DEF Spec, DigestFrozen

-----------------------------------------------------------------------------
(* The registers and the bus master.                                       *)

USE RegsAssumption, NoReqAssumption DEF RegsAssumption, NoReqAssumption

\* A block is permuted in the time its successor takes to arrive, one word in
\* four cycles: 24 rounds against 18 words.
RoundsFit == Rounds <= 4 * RateWords

-----------------------------------------------------------------------------
(* The invariant.                                                          *)

\* The types of the register file and the master, without the unit's.
RegTypes ==
    /\ bresp_o \in {"OKAY", "SLVERR"}
    /\ last_byte_num_cfg_q \in 0 .. 3 /\ msg_word_count_q \in 0 .. CountMod - 1
    /\ sent \in Seq(Entry)
    /\ m_saw_done \in BOOLEAN

\* What the pulses of this cycle carry.
PulseInv ==
    /\ sha.init \in BOOLEAN /\ sha.start \in BOOLEAN /\ sha.valid \in BOOLEAN
    /\ sha.is_last \in BOOLEAN /\ sha.byte_num \in ByteNum
    /\ sha.valid => sha.data \in Word
    /\ ~sha.is_last => sha.byte_num = 0

NoPulses == ~sha.init /\ ~sha.start /\ ~sha.valid

WritesQuiet == /\ m_aw = NoReq /\ m_w = NoReq /\ aw_q = NoReq /\ w_q = NoReq
               /\ awready_o = TRUE /\ wready_o = TRUE /\ bvalid_o = FALSE

ReadsQuiet == m_ar = NoReq /\ arready_o = TRUE /\ rvalid_o = FALSE

\* Nothing is under way.
RestPhase == m_busy = FALSE /\ WritesQuiet /\ ReadsQuiet /\ NoPulses

\* A write: its address, and its data, are still with the master or already
\* held.
AwPending == m_aw \in AwReq /\ awready_o = TRUE /\ aw_q = NoReq
AwHeld    == m_aw = NoReq /\ awready_o = FALSE /\ aw_q \in AwReq
WPending  == m_w \in WReq /\ wready_o = TRUE /\ w_q = NoReq
WHeld     == m_w = NoReq /\ wready_o = FALSE /\ w_q \in WReq

\* A write to a data register carries a word.
WordFits(aw, w) == aw.offset \in {"word", "last"} => w.word \in Word

WritePhase ==
    /\ m_busy = TRUE /\ bvalid_o = FALSE /\ ReadsQuiet /\ NoPulses
    /\ m_saw_done = FALSE
    /\ AwPending \/ AwHeld
    /\ WPending \/ WHeld
    /\ WordFits(IF m_aw = NoReq THEN aw_q ELSE m_aw,
                IF m_w = NoReq THEN w_q ELSE m_w)

\* Its response waits; its effect is on the way to the wrapper, or there.
ResponsePhase ==
    /\ m_busy = TRUE /\ bvalid_o = TRUE /\ ReadsQuiet /\ m_saw_done = FALSE
    /\ m_aw = NoReq /\ m_w = NoReq /\ aw_q = NoReq /\ w_q = NoReq
    /\ awready_o = FALSE /\ wready_o = FALSE

\* A read is asked for, or answered.
ArPending == m_ar \in ArReq /\ arready_o = TRUE /\ rvalid_o = FALSE
Answered  == m_ar = NoReq /\ arready_o = FALSE /\ rvalid_o = TRUE

ReadPhase ==
    /\ m_busy = TRUE /\ WritesQuiet /\ NoPulses
    /\ ArPending \/ Answered

Transfer == RestPhase \/ WritePhase \/ ResponsePhase \/ ReadPhase

\* The register file and its master, and the unit behind them.
UnitOK == TypeOK /\ RoundInv /\ UnitInv
FileOK == RegTypes /\ PulseInv /\ Transfer

\* What has been sent, and what the pulse of this cycle still brings.
Pulse == NewEntry(sha.data, sha.is_last, sha.byte_num)

SentInv ==
    IF sha.init THEN sent = <<>>
    ELSE IF sha.valid /\ ~Closed THEN sent = Append(accepted, Pulse)
    ELSE sent = accepted

\* The clock edges to go before the next word can enter the FIFO.
Ahead == IF sha.valid THEN 1
         ELSE IF execute_w THEN 2
         ELSE IF m_aw # NoReq \/ m_w # NoReq THEN 3 ELSE 4

\* The edges to go until the round engine is idle, and the words that miss in
\* the block being built once the next one is in.
Busy == Rounds - rounds
Missing == RateWords - Len(buf) - 1

\* A block is full only when the engine is idle.
Timely ==
    ~Closed =>
        /\ fifo_count_q \in {0, 1}
        /\ fifo_count_q = 1 => Ahead = 4 /\ ~buffer_full
        /\ buffer_full => ~calc /\ fifo_count_q = 0 /\ Ahead >= 3
        /\ calc /\ fifo_count_q = 0 => Busy <= Ahead + 4 * Missing + 1
        /\ calc /\ fifo_count_q = 1 => Busy <= 4 * Missing + 1

\* What a read has returned is still so while no write intervenes.
ReadInv ==
    /\ rvalid_o /\ rdata_o[1] = "status" /\ rdata_o[2] => done_o
    /\ m_saw_done => done_o
    /\ rvalid_o /\ m_saw_done /\ rdata_o[1] = "digest" =>
           rdata_o = <<"digest", PaddedMessage(sent), Rounds>>

RInv == UnitOK /\ FileOK /\ SentInv /\ Timely /\ ReadInv

-----------------------------------------------------------------------------
(* The register file and its master.                                       *)

\* A request on a channel is none of the idle value, and a write is one beat.
LEMMA RequestTypes ==
    /\ \A r \in AwReq : r # NoReq /\ r.len = 0 /\ r.offset \in
                            {"ctrl", "word", "last", "cfg", "other"}
    /\ \A r \in WReq : r # NoReq /\ r.low \in 0 .. 3 /\ r.wlast = TRUE
    /\ \A r \in ArReq : r # NoReq
BY DEF AwReq, WReq

\* Without a write to execute an edge sends no pulse and leaves the registers.
LEMMA NoPulsesNoEffect ==
    ASSUME RegisterClk, ~execute_w
    PROVE  /\ sha'.init = FALSE /\ sha'.start = FALSE /\ sha'.valid = FALSE
           /\ sha'.is_last = FALSE /\ sha'.byte_num = 0
           /\ last_byte_num_cfg_q' = last_byte_num_cfg_q
           /\ msg_word_count_q' = msg_word_count_q /\ sent' = sent
<1>1. \A o : WriteTo(o) = FALSE
  BY DEF WriteTo
<1>2. InitWrite = FALSE /\ StartWrite = FALSE /\ DataWrite = FALSE
  BY <1>1 DEF InitWrite, StartWrite, DataWrite
<1>. QED
  BY <1>1, <1>2 DEF RegisterClk

\* The write channels stay idle while nothing is offered.
LEMMA RestingWrites ==
    ASSUME WritesQuiet, NEW bready \in BOOLEAN,
           WriteChannelClk(FALSE, FALSE, bready)
    PROVE  /\ aw_q' = NoReq /\ w_q' = NoReq /\ awready_o' = TRUE
           /\ wready_o' = TRUE /\ bvalid_o' = FALSE /\ ~execute_w
           /\ bresp_o' = bresp_o
BY DEF WritesQuiet, WriteChannelClk, execute_w, BValidNext

\* So does the read channel.
LEMMA RestingReads ==
    ASSUME ReadsQuiet, NEW rready \in BOOLEAN, ReadChannelClk(FALSE, rready)
    PROVE  arready_o' = TRUE /\ rvalid_o' = FALSE
BY DEF ReadsQuiet, ReadChannelClk

\* The writes of the master carry a word where the register takes one.
LEMMA MasterWriteTypes ==
    ASSUME NEW r \in MasterWrites
    PROVE  LET aw == [offset |-> r.offset, len |-> 0]
               w  == [word |-> r.word, low |-> r.low, strb |-> r.strb,
                      wlast |-> TRUE]
           IN  aw \in AwReq /\ w \in WReq /\ WordFits(aw, w)
<1>1. r.offset \in {"ctrl", "word", "last", "cfg", "other"}
  BY DEF MasterWrites
<1>2. r.word \in Word \cup {NoWord} /\ r.low \in 0 .. 3 /\ r.strb \in {{1}, 0 .. 3}
  BY DEF MasterWrites
<1>3. r.offset \in {"word", "last"} => r.word \in Word
  BY DEF MasterWrites
<1>. QED
  BY <1>1, <1>2, <1>3 DEF AwReq, WReq, WordFits

\* Nothing is under way before the edge: the master may begin a transfer.
LEMMA RestStep ==
    ASSUME RestPhase, Cycle
    PROVE  /\ ~execute_w /\ ReadChannelClk(FALSE, FALSE) /\ bresp_o' = bresp_o
           /\ \/ RestPhase' /\ m_saw_done' = m_saw_done
              \/ WritePhase' /\ m_aw' # NoReq
              \/ ReadPhase' /\ m_saw_done' = m_saw_done /\ rvalid_o' = FALSE
<1>1. m_busy = FALSE /\ WritesQuiet /\ ReadsQuiet
  BY DEF RestPhase
<1>2. SlaveClk(FALSE, FALSE, FALSE, FALSE, FALSE)
  BY <1>1 DEF Cycle, IdleCycle, IssueCycle, TransferCycle
<1>3. /\ aw_q' = NoReq /\ w_q' = NoReq /\ awready_o' = TRUE
      /\ wready_o' = TRUE /\ bvalid_o' = FALSE /\ ~execute_w
      /\ bresp_o' = bresp_o
  BY <1>1, <1>2, RestingWrites DEF SlaveClk
<1>4. arready_o' = TRUE /\ rvalid_o' = FALSE /\ ReadChannelClk(FALSE, FALSE)
  BY <1>1, <1>2, RestingReads DEF SlaveClk
<1>5. NoPulses'
  BY <1>2, <1>3, NoPulsesNoEffect DEF SlaveClk, NoPulses
<1>6. m_aw = NoReq /\ m_w = NoReq /\ m_ar = NoReq
  BY <1>1 DEF WritesQuiet, ReadsQuiet
<1>7. CASE IdleCycle
  <2>1. m_aw' = NoReq /\ m_w' = NoReq /\ m_ar' = NoReq /\ m_busy' = FALSE
        /\ m_saw_done' = m_saw_done
    BY <1>1, <1>6, <1>7 DEF IdleCycle, master_vars
  <2>2. RestPhase'
    BY <1>3, <1>4, <1>5, <2>1 DEF RestPhase, WritesQuiet, ReadsQuiet
  <2>. QED
    BY <1>3, <1>4, <2>1, <2>2
<1>8. CASE IssueWrite
  <2>1. PICK r \in MasterWrites :
          /\ m_aw' = [offset |-> r.offset, len |-> 0]
          /\ m_w' = [word |-> r.word, low |-> r.low, strb |-> r.strb,
                     wlast |-> TRUE]
          /\ m_busy' = TRUE /\ m_saw_done' = FALSE
          /\ m_ar' = m_ar
    BY <1>8 DEF IssueWrite
  <2>2. m_aw' \in AwReq /\ m_w' \in WReq /\ WordFits(m_aw', m_w')
    BY <2>1, MasterWriteTypes
  <2>3. m_aw' # NoReq /\ m_w' # NoReq
    BY <2>2, RequestTypes
  <2>4. WordFits(m_aw, m_w)' /\ AwPending' /\ WPending'
    BY <1>3, <2>2 DEF WordFits, AwPending, WPending
  <2>5. WordFits(IF m_aw = NoReq THEN aw_q ELSE m_aw,
                 IF m_w = NoReq THEN w_q ELSE m_w)'
    BY <2>3, <2>4 DEF WordFits
  <2>6. ReadsQuiet'
    BY <1>4, <1>6, <2>1 DEF ReadsQuiet
  <2>7. WritePhase'
    BY <1>3, <1>5, <2>1, <2>4, <2>5, <2>6 DEF WritePhase
  <2>. QED
    BY <1>3, <1>4, <2>3, <2>7
<1>9. CASE IssueRead
  <2>1. /\ m_ar' \in ArReq /\ m_busy' = TRUE
        /\ m_aw' = m_aw /\ m_w' = m_w /\ m_saw_done' = m_saw_done
    BY <1>9 DEF IssueRead, ArReq
  <2>2. ReadPhase'
    BY <1>3, <1>4, <1>5, <1>6, <2>1 DEF ReadPhase, WritesQuiet, ArPending
  <2>. QED
    BY <1>3, <1>4, <2>1, <2>2
<1>. QED
  BY <1>1, <1>7, <1>8, <1>9 DEF Cycle, IssueCycle, TransferCycle

\* A transfer goes on.
LEMMA TransferParts ==
    ASSUME m_busy = TRUE, Cycle
    PROVE  \E awv, wv, arv, bready, rready \in BOOLEAN :
               /\ awv => m_aw # NoReq
               /\ wv => m_w # NoReq
               /\ arv => m_ar # NoReq
               /\ WriteChannelClk(awv, wv, bready) /\ RegisterClk
               /\ ReadChannelClk(arv, rready)
               /\ Proceed(awv, wv, arv, bready, rready)
BY DEF Cycle, IdleCycle, IssueCycle, TransferCycle, SlaveClk

\* The two halves of a write: each moves from the master to the slave, and
\* with both held the write executes and frees the channels' registers.
LEMMA WriteRequestStep ==
    ASSUME AwPending \/ AwHeld, WPending \/ WHeld, bvalid_o = FALSE,
           NEW awv \in BOOLEAN, NEW wv \in BOOLEAN, NEW arv \in BOOLEAN,
           NEW bready \in BOOLEAN, NEW rready \in BOOLEAN,
           awv => m_aw # NoReq, wv => m_w # NoReq,
           WriteChannelClk(awv, wv, bready),
           Proceed(awv, wv, arv, bready, rready)
    PROVE  /\ execute_w <=> AwHeld /\ WHeld
           /\ execute_w =>
                 /\ m_aw' = NoReq /\ m_w' = NoReq /\ aw_q' = NoReq /\ w_q' = NoReq
                 /\ awready_o' = FALSE /\ wready_o' = FALSE /\ bvalid_o' = TRUE
           /\ ~execute_w =>
                 /\ AwPending' \/ AwHeld'
                 /\ WPending' \/ WHeld'
                 /\ bvalid_o' = FALSE
                 /\ (IF m_aw = NoReq THEN aw_q ELSE m_aw)'
                       = (IF m_aw = NoReq THEN aw_q ELSE m_aw)
                 /\ (IF m_w = NoReq THEN w_q ELSE m_w)'
                       = (IF m_w = NoReq THEN w_q ELSE m_w)
                 /\ m_aw = NoReq => AwHeld
                 /\ m_w = NoReq => WHeld
<1>1. (m_aw \in AwReq => m_aw # NoReq) /\ (aw_q \in AwReq => aw_q # NoReq)
      /\ (m_w \in WReq => m_w # NoReq) /\ (w_q \in WReq => w_q # NoReq)
  OBVIOUS
<1>2. execute_w <=> AwHeld /\ WHeld
  BY <1>1 DEF execute_w, AwPending, AwHeld, WPending, WHeld
<1>3. CASE execute_w
  BY <1>1, <1>2, <1>3 DEF AwHeld, WHeld, WriteChannelClk, BValidNext, Proceed
<1>4. CASE ~execute_w
  <2>1. bvalid_o' = FALSE
    BY <1>4 DEF WriteChannelClk, BValidNext
  <2>2. /\ AwPending' \/ AwHeld'
        /\ (IF m_aw = NoReq THEN aw_q ELSE m_aw)'
              = (IF m_aw = NoReq THEN aw_q ELSE m_aw)
    BY <1>1, <1>4 DEF WriteChannelClk, Proceed, AwPending, AwHeld
  <2>3. /\ WPending' \/ WHeld'
        /\ (IF m_w = NoReq THEN w_q ELSE m_w)'
              = (IF m_w = NoReq THEN w_q ELSE m_w)
    BY <1>1, <1>4 DEF WriteChannelClk, Proceed, WPending, WHeld
  <2>4. (m_aw = NoReq => AwHeld) /\ (m_w = NoReq => WHeld)
    BY <1>1 DEF AwPending, WPending
  <2>. QED
    BY <1>2, <1>4, <2>1, <2>2, <2>3, <2>4
<1>. QED
  BY <1>3, <1>4, <1>2

\* A write under way goes on or, executed, waits for its response to be taken.
LEMMA WriteStep ==
    ASSUME WritePhase, Cycle
    PROVE  /\ ReadsQuiet'
           /\ \/ ~execute_w /\ WritePhase' /\ bresp_o' = bresp_o
              \/ /\ execute_w /\ ResponsePhase' /\ aw_q \in AwReq /\ w_q \in WReq
                 /\ WordFits(aw_q, w_q) /\ bresp_o' = "OKAY"
<1>1. /\ m_busy = TRUE /\ bvalid_o = FALSE /\ ReadsQuiet /\ m_saw_done = FALSE
      /\ AwPending \/ AwHeld
      /\ WPending \/ WHeld
      /\ WordFits(IF m_aw = NoReq THEN aw_q ELSE m_aw,
                  IF m_w = NoReq THEN w_q ELSE m_w)
  BY DEF WritePhase
<1>2. PICK awv, wv, arv, bready, rready \in BOOLEAN :
          /\ awv => m_aw # NoReq
          /\ wv => m_w # NoReq
          /\ arv => m_ar # NoReq
          /\ WriteChannelClk(awv, wv, bready) /\ RegisterClk
          /\ ReadChannelClk(arv, rready)
          /\ Proceed(awv, wv, arv, bready, rready)
  BY <1>1, TransferParts
<1>3. arv = FALSE
  BY <1>1, <1>2 DEF ReadsQuiet
<1>4. arready_o' = TRUE /\ rvalid_o' = FALSE
  BY <1>1, <1>2, <1>3, RestingReads
<1>5. m_ar' = NoReq /\ m_busy' = TRUE /\ m_saw_done' = FALSE
  BY <1>1, <1>2 DEF Proceed, ReadsQuiet
<1>6. ReadsQuiet'
  BY <1>4, <1>5 DEF ReadsQuiet
<1>7. CASE execute_w
  <2>1. ResponsePhase'
    BY <1>1, <1>2, <1>5, <1>6, <1>7, WriteRequestStep DEF ResponsePhase
  <2>2. AwHeld /\ WHeld
    BY <1>1, <1>2, <1>7, WriteRequestStep
  <2>3. WordFits(aw_q, w_q) /\ aw_q \in AwReq /\ w_q \in WReq
    BY <1>1, <2>2 DEF AwHeld, WHeld
  <2>4. single_beat_w
    BY <2>3, RequestTypes DEF single_beat_w
  <2>5. bresp_o' = "OKAY"
    BY <1>2, <1>7, <2>4 DEF WriteChannelClk
  <2>. QED
    BY <1>6, <1>7, <2>1, <2>3, <2>5
<1>8. CASE ~execute_w
  <2>1. NoPulses'
    BY <1>2, <1>8, NoPulsesNoEffect DEF NoPulses
  <2>2. /\ AwPending' \/ AwHeld'
        /\ WPending' \/ WHeld'
        /\ bvalid_o' = FALSE
        /\ (IF m_aw = NoReq THEN aw_q ELSE m_aw)'
              = (IF m_aw = NoReq THEN aw_q ELSE m_aw)
        /\ (IF m_w = NoReq THEN w_q ELSE m_w)'
              = (IF m_w = NoReq THEN w_q ELSE m_w)
    BY <1>1, <1>2, <1>8, WriteRequestStep
  <2>3. WordFits(IF m_aw = NoReq THEN aw_q ELSE m_aw,
                 IF m_w = NoReq THEN w_q ELSE m_w)'
    BY <1>1, <2>2 DEF WordFits
  <2>4. WritePhase'
    BY <1>5, <1>6, <2>1, <2>2, <2>3 DEF WritePhase
  <2>5. bresp_o' = bresp_o
    BY <1>2, <1>8 DEF WriteChannelClk
  <2>. QED
    BY <1>6, <1>8, <2>4, <2>5
<1>. QED
  BY <1>7, <1>8

\* The response ends the transfer; its pulses last one cycle.
LEMMA ResponseStep ==
    ASSUME ResponsePhase, Cycle
    PROVE  /\ ~execute_w /\ NoPulses' /\ ReadsQuiet' /\ bresp_o' = bresp_o
           /\ ResponsePhase' \/ (RestPhase' /\ m_saw_done' = FALSE)
<1>1. /\ m_busy = TRUE /\ bvalid_o = TRUE /\ ReadsQuiet /\ m_saw_done = FALSE
      /\ m_aw = NoReq /\ m_w = NoReq /\ aw_q = NoReq /\ w_q = NoReq
      /\ awready_o = FALSE /\ wready_o = FALSE
  BY DEF ResponsePhase
<1>2. PICK awv, wv, arv, bready, rready \in BOOLEAN :
          /\ awv => m_aw # NoReq
          /\ wv => m_w # NoReq
          /\ arv => m_ar # NoReq
          /\ WriteChannelClk(awv, wv, bready) /\ RegisterClk
          /\ ReadChannelClk(arv, rready)
          /\ Proceed(awv, wv, arv, bready, rready)
  BY <1>1, TransferParts
<1>3. arv = FALSE /\ awv = FALSE /\ wv = FALSE
  BY <1>1, <1>2 DEF ReadsQuiet
<1>4. arready_o' = TRUE /\ rvalid_o' = FALSE
  BY <1>1, <1>2, <1>3, RestingReads
<1>5. m_ar' = NoReq /\ m_aw' = NoReq /\ m_w' = NoReq /\ m_saw_done' = FALSE
  BY <1>1, <1>2 DEF Proceed, ReadsQuiet
<1>6. ReadsQuiet'
  BY <1>4, <1>5 DEF ReadsQuiet
<1>7. ~execute_w
  BY <1>1 DEF execute_w
<1>8. NoPulses'
  BY <1>2, <1>7, NoPulsesNoEffect DEF NoPulses
<1>9. aw_q' = NoReq /\ w_q' = NoReq /\ bresp_o' = bresp_o
  BY <1>1, <1>2, <1>3, <1>7 DEF WriteChannelClk
<1>10. CASE bready
  <2>1. m_busy' = FALSE
    BY <1>1, <1>2, <1>10 DEF Proceed
  <2>2. bvalid_o' = FALSE /\ awready_o' = TRUE /\ wready_o' = TRUE
    BY <1>1, <1>2, <1>7, <1>10 DEF WriteChannelClk, BValidNext
  <2>3. RestPhase'
    BY <1>5, <1>6, <1>8, <1>9, <2>1, <2>2 DEF RestPhase, WritesQuiet
  <2>. QED
    BY <1>5, <1>6, <1>7, <1>8, <1>9, <2>3
<1>11. CASE ~bready
  <2>1. m_busy' = TRUE
    BY <1>1, <1>2, <1>11 DEF Proceed, ReadsQuiet
  <2>2. bvalid_o' = TRUE /\ awready_o' = FALSE /\ wready_o' = FALSE
    BY <1>1, <1>2, <1>7, <1>11 DEF WriteChannelClk, BValidNext
  <2>3. ResponsePhase'
    BY <1>5, <1>6, <1>9, <2>1, <2>2 DEF ResponsePhase
  <2>. QED
    BY <1>6, <1>7, <1>8, <1>9, <2>3
<1>. QED
  BY <1>10, <1>11

\* A read: asked for, answered with what was sampled, and taken.
LEMMA ReadStep ==
    ASSUME ReadPhase, Cycle, m_saw_done \in BOOLEAN
    PROVE  /\ ~execute_w /\ bresp_o' = bresp_o
           /\ \/ /\ ArPending /\ ReadPhase' /\ m_saw_done' = m_saw_done
                 /\ rvalid_o' = FALSE
              \/ /\ ArPending /\ ReadPhase' /\ m_saw_done' = m_saw_done
                 /\ rdata_o' = ReadData(m_ar)
              \/ /\ Answered /\ ReadPhase' /\ m_saw_done' = m_saw_done
                 /\ rdata_o' = rdata_o
              \/ /\ Answered /\ RestPhase'
                 /\ m_saw_done' = (m_saw_done \/ (rdata_o[1] = "status" /\ rdata_o[2]))
<1>1. m_busy = TRUE /\ WritesQuiet /\ (ArPending \/ Answered)
  BY DEF ReadPhase
<1>2. PICK awv, wv, arv, bready, rready \in BOOLEAN :
          /\ awv => m_aw # NoReq
          /\ wv => m_w # NoReq
          /\ arv => m_ar # NoReq
          /\ WriteChannelClk(awv, wv, bready) /\ RegisterClk
          /\ ReadChannelClk(arv, rready)
          /\ Proceed(awv, wv, arv, bready, rready)
  BY <1>1, TransferParts
<1>3. awv = FALSE /\ wv = FALSE
  BY <1>1, <1>2 DEF WritesQuiet
<1>4. /\ aw_q' = NoReq /\ w_q' = NoReq /\ awready_o' = TRUE
      /\ wready_o' = TRUE /\ bvalid_o' = FALSE /\ ~execute_w
      /\ bresp_o' = bresp_o
  BY <1>1, <1>2, <1>3, RestingWrites
<1>5. m_aw' = NoReq /\ m_w' = NoReq
  BY <1>1, <1>2 DEF WritesQuiet, Proceed
<1>6. WritesQuiet'
  BY <1>4, <1>5 DEF WritesQuiet
<1>7. NoPulses'
  BY <1>2, <1>4, NoPulsesNoEffect DEF NoPulses
<1>8. bvalid_o = FALSE
  BY <1>1 DEF WritesQuiet
<1>9. CASE ArPending /\ arv
  <2>1. m_ar' = NoReq /\ m_busy' = TRUE /\ m_saw_done' = m_saw_done
    BY <1>2, <1>8, <1>9 DEF Proceed, ArPending
  <2>2. arready_o' = FALSE /\ rvalid_o' = TRUE /\ rdata_o' = ReadData(m_ar)
    BY <1>2, <1>9 DEF ReadChannelClk, ArPending
  <2>. QED
    BY <1>4, <1>6, <1>7, <1>9, <2>1, <2>2 DEF ReadPhase, Answered
<1>10. CASE ArPending /\ ~arv
  <2>1. m_ar' = m_ar /\ m_busy' = TRUE /\ m_saw_done' = m_saw_done
    BY <1>2, <1>8, <1>10 DEF Proceed, ArPending
  <2>2. arready_o' = TRUE /\ rvalid_o' = FALSE
    BY <1>2, <1>10 DEF ReadChannelClk, ArPending
  <2>3. ArPending'
    BY <1>10, <2>1, <2>2 DEF ArPending
  <2>. QED
    BY <1>4, <1>6, <1>7, <1>10, <2>1, <2>2, <2>3 DEF ReadPhase
<1>11. CASE Answered /\ ~rready
  <2>1. m_ar' = NoReq /\ m_busy' = TRUE /\ m_saw_done' = m_saw_done
    BY <1>2, <1>8, <1>11 DEF Proceed, Answered
  <2>2. arready_o' = FALSE /\ rvalid_o' = TRUE /\ rdata_o' = rdata_o
    BY <1>2, <1>11 DEF ReadChannelClk, Answered
  <2>. QED
    BY <1>4, <1>6, <1>7, <1>11, <2>1, <2>2 DEF ReadPhase, Answered
<1>12. CASE Answered /\ rready
  <2>1. m_ar' = NoReq /\ m_busy' = FALSE
    BY <1>2, <1>8, <1>12 DEF Proceed, Answered
  <2>2. m_saw_done' = (m_saw_done \/ (rdata_o[1] = "status" /\ rdata_o[2]))
    BY <1>2, <1>12 DEF Proceed, Answered
  <2>3. arready_o' = TRUE /\ rvalid_o' = FALSE
    BY <1>2, <1>12 DEF ReadChannelClk, Answered
  <2>. QED
    BY <1>4, <1>6, <1>7, <1>12, <2>1, <2>2, <2>3 DEF RestPhase, ReadsQuiet
<1>. QED
  BY <1>1, <1>9, <1>10, <1>11, <1>12

\* A write that executes: its pulses, and the message it belongs to.
LEMMA ExecuteStep ==
    ASSUME RegTypes, RegisterClk, execute_w, aw_q \in AwReq, w_q \in WReq,
           WordFits(aw_q, w_q)
    PROVE  /\ PulseInv'
           /\ last_byte_num_cfg_q' \in 0 .. 3
           /\ msg_word_count_q' \in 0 .. CountMod - 1
           /\ sent' \in Seq(Entry)
           /\ sent' = IF sha'.init THEN <<>>
                      ELSE IF sha'.valid /\ ~SentClosed THEN Append(sent, Pulse')
                      ELSE sent
<1>. DEFINE init == InitWrite
            start == StartWrite
            valid == DataWrite
            last == WriteTo("last")
            data == IF DataWrite THEN w_q.word ELSE NoWord
            bnum == IF WriteTo("last") THEN last_byte_num_cfg_q ELSE 0
<1>1. init \in BOOLEAN /\ start \in BOOLEAN /\ valid \in BOOLEAN /\ last \in BOOLEAN
  BY DEF InitWrite, StartWrite, DataWrite, WriteTo
<1>2. bnum \in ByteNum /\ (~last => bnum = 0)
  BY DEF RegTypes, ByteNum
<1>3. valid => data \in Word
  BY DEF DataWrite, WriteTo, WordFits
<1>4. init => ~valid
  BY DEF InitWrite, DataWrite, WriteTo
<1>5. sha' = [init |-> init, start |-> start, valid |-> valid, data |-> data,
              is_last |-> last, byte_num |-> bnum]
  BY DEF RegisterClk
<1>6. last_byte_num_cfg_q' \in 0 .. 3
  BY RequestTypes DEF RegTypes, RegisterClk
<1>7. msg_word_count_q' \in 0 .. CountMod - 1
  BY DEF RegTypes, RegisterClk
<1>8. sent' = IF init THEN <<>>
              ELSE IF valid /\ ~SentClosed
              THEN Append(sent, [data |-> sha'.data, is_last |-> sha'.is_last,
                                 byte_num |-> sha'.byte_num])
              ELSE sent
  BY DEF RegisterClk
<1>. HIDE DEF init, start, valid, last, data, bnum
<1>9. /\ sha'.init = init /\ sha'.start = start /\ sha'.valid = valid
      /\ sha'.data = data /\ sha'.is_last = last /\ sha'.byte_num = bnum
  BY <1>5
<1>10. PulseInv'
  BY <1>1, <1>2, <1>3, <1>9 DEF PulseInv
<1>11. Pulse' = [data |-> sha'.data, is_last |-> sha'.is_last,
                 byte_num |-> sha'.byte_num]
  <2>1. (IF sha'.is_last THEN sha'.byte_num ELSE 0) = sha'.byte_num
    BY <1>2, <1>9
  <2>2. Pulse' = [data |-> sha'.data, is_last |-> sha'.is_last,
                  byte_num |-> IF sha'.is_last THEN sha'.byte_num ELSE 0]
    BY DEF Pulse, NewEntry
  <2>. QED
    BY <2>1, <2>2
<1>12. sent' = IF sha'.init THEN <<>>
               ELSE IF sha'.valid /\ ~SentClosed THEN Append(sent, Pulse')
               ELSE sent
  BY <1>8, <1>9, <1>11
<1>13. sha'.valid => Pulse' \in Entry
  BY <1>10, <1>11 DEF PulseInv, Entry
<1>14. sent' \in Seq(Entry)
  BY <1>12, <1>13 DEF RegTypes
<1>. QED
  BY <1>6, <1>7, <1>10, <1>12, <1>14

\* In every cycle either nothing executes, or the write held does.
LEMMA CycleCases ==
    ASSUME FileOK, Cycle
    PROVE  /\ RegisterClk /\ UnitClk
           /\ execute_w => /\ WritePhase /\ ResponsePhase'
                           /\ aw_q \in AwReq /\ w_q \in WReq
                           /\ WordFits(aw_q, w_q)
           /\ Transfer' /\ m_saw_done' \in BOOLEAN
           /\ bresp_o' \in {"OKAY", "SLVERR"}
<1>1. RegisterClk /\ UnitClk
  BY DEF Cycle, IdleCycle, IssueCycle, TransferCycle, SlaveClk
<1>2. m_saw_done \in BOOLEAN /\ bresp_o \in {"OKAY", "SLVERR"} /\ Transfer
  BY DEF FileOK, RegTypes
<1>3. CASE RestPhase
  BY <1>1, <1>2, <1>3, RestStep DEF Transfer, WritePhase
<1>4. CASE WritePhase
  BY <1>1, <1>2, <1>4, WriteStep DEF Transfer, WritePhase, ResponsePhase
<1>5. CASE ResponsePhase
  BY <1>1, <1>2, <1>5, ResponseStep DEF Transfer, ResponsePhase
<1>6. CASE ReadPhase
  <2>1. (m_saw_done \/ (rdata_o[1] = "status" /\ rdata_o[2])) \in BOOLEAN
    OBVIOUS
  <2>2. m_saw_done' \in BOOLEAN
    BY <1>2, <1>6, <2>1, ReadStep
  <2>. QED
    BY <1>1, <1>2, <1>6, <2>2, ReadStep DEF Transfer
<1>. QED
  BY <1>2, <1>3, <1>4, <1>5, <1>6 DEF Transfer

\* Registers, pulses and phases after an edge.
LEMMA FileStep ==
    ASSUME FileOK, Cycle
    PROVE  FileOK'
<1>1. RegTypes
  BY DEF FileOK
<1>2. CASE execute_w
  BY <1>1, <1>2, CycleCases, ExecuteStep DEF FileOK, RegTypes
<1>3. CASE ~execute_w
  <2>1. /\ sha'.init = FALSE /\ sha'.start = FALSE /\ sha'.valid = FALSE
        /\ sha'.is_last = FALSE /\ sha'.byte_num = 0
        /\ last_byte_num_cfg_q' = last_byte_num_cfg_q
        /\ msg_word_count_q' = msg_word_count_q /\ sent' = sent
    BY <1>3, CycleCases, NoPulsesNoEffect
  <2>2. sha'.byte_num \in ByteNum
    BY <2>1 DEF ByteNum
  <2>3. PulseInv'
    BY <2>1, <2>2, Zenon DEF PulseInv
  <2>. QED
    BY <1>1, <2>1, <2>3, CycleCases DEF FileOK, RegTypes
<1>. QED
  BY <1>2, <1>3

\* Without an edge they stay.
LEMMA FileStutter ==
    ASSUME FileOK, UNCHANGED vars
    PROVE  FileOK'
<1>. USE DEF vars, write_vars, read_vars, reg_vars, master_vars
<1>1. RegTypes' /\ PulseInv'
  BY DEF FileOK, RegTypes, PulseInv
<1>2. RestPhase => RestPhase'
  BY DEF RestPhase, WritesQuiet, ReadsQuiet, NoPulses
<1>3. WritePhase => WritePhase'
  <2>. SUFFICES ASSUME WritePhase PROVE WritePhase'
    OBVIOUS
  <2>1. /\ AwPending \/ AwHeld => AwPending' \/ AwHeld'
        /\ WPending \/ WHeld => WPending' \/ WHeld'
    BY DEF AwPending, AwHeld, WPending, WHeld
  <2>. QED
    BY <2>1 DEF WritePhase, ReadsQuiet, NoPulses, WordFits
<1>4. ResponsePhase => ResponsePhase'
  BY DEF ResponsePhase, ReadsQuiet
<1>5. ReadPhase => ReadPhase'
  BY DEF ReadPhase, WritesQuiet, NoPulses, ArPending, Answered
<1>. QED
  BY <1>1, <1>2, <1>3, <1>4, <1>5 DEF FileOK, Transfer

\* And they are so at reset.
LEMMA FileInit == BusInit => FileOK
<1>. SUFFICES ASSUME BusInit PROVE FileOK
  OBVIOUS
<1>1. RegsInit /\ MasterInit
  BY DEF BusInit
<1>2. sha.init = FALSE /\ sha.start = FALSE /\ sha.valid = FALSE
      /\ sha.is_last = FALSE /\ sha.byte_num = 0
  BY <1>1 DEF RegsInit, NoPulse
<1>3. RestPhase
  BY <1>1, <1>2 DEF RegsInit, MasterInit, RestPhase, WritesQuiet, ReadsQuiet, NoPulses
<1>4. PulseInv
  <2>1. sha.byte_num \in ByteNum
    BY <1>2 DEF ByteNum
  <2>. QED
    BY <1>2, <2>1, Zenon DEF PulseInv
<1>5. RegTypes
  <2>1. <<>> \in Seq(Entry)
    OBVIOUS
  <2>2. sent \in Seq(Entry)
    BY <1>1, <2>1 DEF RegsInit
  <2>3. last_byte_num_cfg_q \in 0 .. 3 /\ msg_word_count_q \in 0 .. CountMod - 1
    BY <1>1 DEF RegsInit
  <2>4. m_saw_done \in BOOLEAN /\ bresp_o \in {"OKAY", "SLVERR"}
    BY <1>1 DEF RegsInit, MasterInit
  <2>. QED
    BY <2>2, <2>3, <2>4 DEF RegTypes
<1>. QED
  BY <1>3, <1>4, <1>5 DEF FileOK, Transfer

-----------------------------------------------------------------------------
(* The unit under the pulses.                                              *)

\* The wrapper sees an edge of Sha3Wrapper: what it is offered without a valid
\* pulse does not matter, and with one it is a word.
LEMMA UnitEdge ==
    ASSUME PulseInv, UnitClk, ~sha.init
    PROVE  \E w \in Word :
               /\ sha.valid => w = sha.data
               /\ WrapperClk(sha.start, sha.valid, w, sha.is_last, sha.byte_num)
<1>1. WrapperClk(sha.start, sha.valid, sha.data, sha.is_last, sha.byte_num)
  BY DEF UnitClk
<1>2. CASE sha.valid
  BY <1>1, <1>2 DEF PulseInv
<1>3. CASE ~sha.valid
  <2>1. PICK w \in Word : TRUE
    OBVIOUS
  <2>2. \A push, e, f : push = FALSE => (FifoClk(push, e) <=> FifoClk(push, f))
    BY DEF FifoClk
  <2>3. WrapperClk(sha.start, sha.valid, w, sha.is_last, sha.byte_num)
    <3>. DEFINE push == sha.valid /\ input_ready_o
                e == [data |-> sha.data, is_last |-> sha.is_last,
                      byte_num |-> IF sha.is_last THEN sha.byte_num ELSE 0]
                f == [data |-> w, is_last |-> sha.is_last,
                      byte_num |-> IF sha.is_last THEN sha.byte_num ELSE 0]
    <3>1. push = FALSE
      BY <1>3
    <3>2. /\ KeccakClk(head.data, pop_w, pop_w /\ head.is_last, head.byte_num)
          /\ FifoClk(push, e)
          /\ ControlClk(sha.start, sha.valid, push, sha.is_last)
          /\ accepted' = IF push /\ ~Closed THEN Append(accepted, e) ELSE accepted
      BY <1>1 DEF WrapperClk
    <3>3. /\ KeccakClk(head.data, pop_w, pop_w /\ head.is_last, head.byte_num)
          /\ FifoClk(push, f)
          /\ ControlClk(sha.start, sha.valid, push, sha.is_last)
          /\ accepted' = IF push /\ ~Closed THEN Append(accepted, f) ELSE accepted
      <4>. HIDE DEF push, e, f
      <4>. QED
        BY <2>2, <3>1, <3>2
    <3>. QED
      BY <3>3 DEF WrapperClk
  <2>. QED
    BY <1>3, <2>3
<1>. QED
  BY <1>2, <1>3

\* So what is proved of the wrapper with any host holds with this one.
LEMMA UnitStep ==
    ASSUME UnitOK, PulseInv, UnitClk
    PROVE  UnitOK'
<1>1. CASE sha.init
  <2>1. WrapperReset
    BY <1>1 DEF UnitClk
  <2>. QED
    BY <2>1, ResetType, UnitInvReset DEF UnitOK
<1>2. CASE ~sha.init
  <2>1. PICK w \in Word :
            WrapperClk(sha.start, sha.valid, w, sha.is_last, sha.byte_num)
    BY <1>2, UnitEdge
  <2>2. /\ sha.start \in BOOLEAN /\ sha.valid \in BOOLEAN
        /\ sha.is_last \in BOOLEAN /\ sha.byte_num \in ByteNum
    BY DEF PulseInv
  <2>. QED
    BY <2>1, <2>2, ClkType, UnitInvClk DEF UnitOK
<1>. QED
  BY <1>1, <1>2

\* Without an edge it stays.
LEMMA UnitStutter ==
    ASSUME UnitOK, UNCHANGED wrapper_vars
    PROVE  UnitOK'
<1>. USE DEF wrapper_vars, fifo_vars, control_vars, keccak_vars, padder_vars,
             f_vars, UnitOK
<1>1. TypeOK' /\ RoundInv'
  BY DEF TypeOK, KeccakTypeOK, RoundInv, RoundsInStep
<1>2. StatusTruthful' /\ FifoInv' /\ MessageInv' /\ BlocksInv'
  BY DEF UnitInv, StatusTruthful, FifoInv, MessageInv, BlocksInv, Slot,
         fifo_empty_w
<1>3. NothingLost' /\ CollectInv' /\ (done_o => out_ready)'
  BY DEF UnitInv, NothingLost, CollectInv, Slot, Taken, Closed
<1>4. PaddingInv'
  BY DEF UnitInv, PaddingInv, Taken, Closed, Total, PaddedLane, buffer_full
<1>. QED
  BY <1>1, <1>2, <1>3, <1>4 DEF UnitInv

-----------------------------------------------------------------------------
(* The register file as its master sees it.                                *)

\* The unit and the register file together.
LEMMA UnitFileInductive ==
    /\ BusInit => UnitOK /\ FileOK
    /\ UnitOK /\ FileOK /\ [Cycle]_vars => UnitOK' /\ FileOK'
<1>1. BusInit => UnitOK /\ FileOK
  BY FileInit, InitType, UnitInvInit DEF BusInit, UnitOK
<1>2. ASSUME UnitOK, FileOK, Cycle PROVE UnitOK' /\ FileOK'
  <2>1. UnitClk /\ PulseInv
    BY <1>2, CycleCases DEF FileOK
  <2>. QED
    BY <1>2, <2>1, UnitStep, FileStep
<1>3. ASSUME UnitOK, FileOK, UNCHANGED vars PROVE UnitOK' /\ FileOK'
  <2>1. UNCHANGED wrapper_vars
    BY <1>3 DEF vars
  <2>. QED
    BY <1>3, <2>1, UnitStutter, FileStutter
<1>. QED
  BY <1>1, <1>2, <1>3

\* What the phases say of every register.
LEMMA PhasesOK ==
    ASSUME Transfer
    PROVE  /\ {awready_o, wready_o, bvalid_o, arready_o, rvalid_o, m_busy}
                 \subseteq BOOLEAN
           /\ {aw_q, m_aw} \subseteq AwReq \cup {NoReq}
           /\ {w_q, m_w} \subseteq WReq \cup {NoReq}
           /\ m_ar \in ArReq \cup {NoReq}
           /\ OneResponsePerTransfer
           /\ m_ar # NoReq => NoPulses
<1>. USE RequestTypes
<1>1. CASE RestPhase
  BY <1>1 DEF RestPhase, WritesQuiet, ReadsQuiet, OneResponsePerTransfer
<1>2. CASE WritePhase
  BY <1>2 DEF WritePhase, ReadsQuiet, OneResponsePerTransfer, AwPending, AwHeld,
              WPending, WHeld
<1>3. CASE ResponsePhase
  BY <1>3 DEF ResponsePhase, ReadsQuiet, OneResponsePerTransfer
<1>4. CASE ReadPhase
  BY <1>4 DEF ReadPhase, WritesQuiet, OneResponsePerTransfer, ArPending, Answered
<1>. QED
  BY <1>1, <1>2, <1>3, <1>4 DEF Transfer

(***************************************************************************)
(* RegsInv of every state: the registers keep their widths, every transfer *)
(* has one response with the channels free after it, and no read is taken  *)
(* while a pulse is under way. For every size of the unit and every set of *)
(* offsets.                                                                *)
(***************************************************************************)
THEOREM RegsInvCorrect == RegsSpec => []RegsInv
<1>1. UnitOK /\ FileOK => RegsInv
  <2>. SUFFICES ASSUME UnitOK, FileOK PROVE RegsInv
    OBVIOUS
  <2>1. RegsTypeOK
    BY PhasesOK DEF RegsTypeOK, UnitOK, FileOK, RegTypes
  <2>2. OneResponsePerTransfer /\ ReadSeesAllWrites
    BY PhasesOK DEF FileOK, ReadSeesAllWrites, NoPulses
  <2>. QED
    BY <2>1, <2>2 DEF RegsInv
<1>. QED
  BY <1>1, UnitFileInductive, PTL DEF RegsSpec

-----------------------------------------------------------------------------
(* Timing: the next word and the round engine.                             *)

\* An edge without pulses leaves the message and the done flag alone.
LEMMA QuietEdge ==
    ASSUME PulseInv, NoPulses, UnitClk
    PROVE  accepted' = accepted /\ (done_o => done_o')
<1>1. PICK w \in Word :
          WrapperClk(sha.start, sha.valid, w, sha.is_last, sha.byte_num)
  BY UnitEdge DEF NoPulses
<1>2. /\ ControlClk(sha.start, sha.valid, Pushes(sha.valid), sha.is_last)
      /\ ~Pushes(sha.valid) => accepted' = accepted
  BY <1>1, ClkParts
<1>3. ~Pushes(sha.valid)
  BY DEF Pushes, NoPulses
<1>4. done_o => done_o'
  BY <1>2, <1>3 DEF ControlClk, NoPulses
<1>. QED
  BY <1>2, <1>3, <1>4

\* A message with its last word grows no more.
LEMMA ClosedEdge ==
    ASSUME PulseInv, Closed, ~sha.init, UnitClk
    PROVE  accepted' = accepted /\ Closed'
<1>1. PICK w \in Word :
          WrapperClk(sha.start, sha.valid, w, sha.is_last, sha.byte_num)
  BY UnitEdge
<1>2. accepted' = accepted
  BY <1>1, ClkParts
<1>. QED
  BY <1>2 DEF Closed

\* The edge of the unit while a message is collected.
LEMMA CollectEdge ==
    ASSUME UnitOK, PulseInv, ~Closed, ~sha.init, UnitClk
    PROVE  /\ sha.valid /\ fifo_count_q # FifoDepth =>
                  accepted' = Append(accepted, Pulse)
           /\ ~sha.valid => accepted' = accepted
           /\ fifo_count_q' = fifo_count_q - Popped + Pushed(sha.valid)
           /\ pop_w <=> fifo_count_q # 0 /\ ~buffer_full
           /\ Pushes(sha.valid) <=> sha.valid /\ fifo_count_q # FifoDepth
           /\ f_ack => Len(buf') = 0 /\ calc' /\ rounds' = 1
           /\ ~f_ack => /\ Len(buf') = Len(buf) + Popped
                        /\ calc' <=> calc /\ rounds # Rounds - 1
                        /\ calc => rounds' = rounds + 1
<1>1. PICK w \in Word :
          /\ sha.valid => w = sha.data
          /\ WrapperClk(sha.start, sha.valid, w, sha.is_last, sha.byte_num)
  BY UnitEdge
<1>2. /\ KeccakClk(head.data, pop_w, pop_w /\ head.is_last, head.byte_num)
      /\ FifoClk(Pushes(sha.valid), NewEntry(w, sha.is_last, sha.byte_num))
      /\ accepted' = IF Pushes(sha.valid) /\ ~Closed
                     THEN Append(accepted, NewEntry(w, sha.is_last, sha.byte_num))
                     ELSE accepted
  BY <1>1, ClkParts
<1>3. ~last_seen
  BY DEF UnitOK, UnitInv, PaddingInv
<1>4. ~padder_done /\ state_q # "WAIT" /\ ~saw_last_q
  BY <1>3 DEF UnitOK, UnitInv, CollectInv
<1>5. fifo_count_q # 0 => state_q = "RUN"
  BY <1>4 DEF UnitOK, UnitInv, StatusTruthful, TypeOK, fifo_empty_w
<1>6. pop_w <=> fifo_count_q # 0 /\ ~buffer_full
  BY <1>5 DEF pop_w, fifo_empty_w
<1>7. Pushes(sha.valid) <=> sha.valid /\ fifo_count_q # FifoDepth
  BY <1>4 DEF Pushes, input_ready_o, fifo_full_w
<1>8. fifo_count_q' = fifo_count_q - Popped + Pushed(sha.valid)
  <2>1. ~completes_w /\ wr_ptr_q = Slot(fifo_count_q) /\ sha.valid \in BOOLEAN
    BY <1>4 DEF completes_w, UnitOK, UnitInv, FifoInv, PulseInv
  <2>. QED
    BY <1>2, <2>1, FifoStep DEF UnitOK
<1>9. sha.valid /\ fifo_count_q # FifoDepth => accepted' = Append(accepted, Pulse)
  BY <1>1, <1>2, <1>7 DEF Pulse
<1>10. ~sha.valid => accepted' = accepted
  BY <1>2, <1>7
<1>11. PadderUpdate(pop_w) <=> pop_w
  BY <1>3, <1>4 DEF PadderUpdate, pop_w
<1>12. PadderClk(head.data, pop_w, pop_w /\ head.is_last, head.byte_num)
       /\ PermutationClk
  BY <1>2 DEF KeccakClk
<1>13. f_ack => Len(buf') = 0 /\ calc' /\ rounds' = 1
  <2>1. f_ack => buf' = <<>> /\ calc' /\ rounds' = 1
    BY <1>12 DEF PadderClk, PermutationClk
  <2>. QED
    BY <2>1
<1>14. ASSUME ~f_ack
       PROVE  Len(buf') = Len(buf) + Popped
  <2>1. buf \in Seq(Lane) /\ Len(buf) \in Nat
    BY LenProperties DEF UnitOK, TypeOK, KeccakTypeOK
  <2>2. CASE pop_w
    <3>. DEFINE v == V1(head.data, pop_w /\ head.is_last, head.byte_num)
    <3>1. v \in Lane
      <4>1. (pop_w /\ head.is_last) \in BOOLEAN
        BY DEF pop_w
      <4>. QED
        BY <4>1, HeadType, LaneTypes DEF UnitOK
    <3>2. buf' = Append(buf, v)
      BY <1>11, <1>12, <1>14, <2>2 DEF PadderClk
    <3>. HIDE DEF v
    <3>3. Len(buf') = Len(buf) + 1
      BY <2>1, <3>1, <3>2
    <3>. QED
      BY <2>2, <3>3 DEF Popped
  <2>3. CASE ~pop_w
    <3>1. buf' = buf
      BY <1>11, <1>12, <1>14, <2>3 DEF PadderClk
    <3>. QED
      BY <2>1, <2>3, <3>1 DEF Popped
  <2>. QED
    BY <2>2, <2>3
<1>15. ASSUME ~f_ack
       PROVE  (calc' <=> calc /\ rounds # Rounds - 1) /\ (calc => rounds' = rounds + 1)
  <2>1. calc' <=> calc /\ Rounds - 2 \notin f_i
    BY <1>12, <1>15 DEF PermutationClk
  <2>2. calc => rounds' = rounds + 1
    BY <1>12, <1>15 DEF PermutationClk
  <2>3. calc => f_i = {rounds - 1} /\ rounds \in 1 .. Rounds - 1
    BY DEF UnitOK, RoundInv, RoundsInStep
  <2>4. calc => (Rounds - 2 \notin f_i <=> rounds # Rounds - 1)
    BY <2>3
  <2>. QED
    BY <2>1, <2>2, <2>4
<1>. QED
  BY <1>6, <1>7, <1>8, <1>9, <1>10, <1>13, <1>14, <1>15

\* Between two words lie at least four edges.
LEMMA AheadStep ==
    ASSUME FileOK, Cycle
    PROVE  /\ Ahead \in 1 .. 4 /\ Ahead' \in 1 .. 4
           /\ sha.valid <=> Ahead = 1
           /\ Ahead = 1 => Ahead' = 4
           /\ Ahead - 1 <= Ahead'
<1>1. /\ Ahead \in 1 .. 4 /\ (sha.valid <=> Ahead = 1)
      /\ Ahead' \in 1 .. 4 /\ (~sha'.valid => Ahead' # 1)
  BY DEF Ahead
<1>2. Transfer /\ m_saw_done \in BOOLEAN
  BY DEF FileOK, RegTypes
<1>3. ~execute_w => ~sha'.valid
  BY CycleCases, NoPulsesNoEffect
<1>4. CASE execute_w
  <2>1. ~sha.valid
    BY <1>4, CycleCases DEF WritePhase, NoPulses
  <2>2. Ahead = 2
    BY <1>4, <2>1 DEF Ahead
  <2>. QED
    BY <1>1, <2>2
<1>5. CASE ~execute_w /\ (RestPhase \/ ReadPhase)
  <2>1. Ahead = 4
    BY <1>5 DEF Ahead, RestPhase, ReadPhase, WritesQuiet, NoPulses
  <2>2. CASE RestPhase' \/ ReadPhase'
    <3>1. m_aw' = NoReq /\ m_w' = NoReq /\ aw_q' = NoReq
      BY <2>2 DEF RestPhase, ReadPhase, WritesQuiet
    <3>2. Ahead' = 4
      BY <1>3, <1>5, <3>1 DEF Ahead, execute_w
    <3>. QED
      BY <1>1, <2>1, <3>2
  <2>3. CASE WritePhase' /\ m_aw' # NoReq
    <3>1. aw_q' = NoReq
      BY <2>3 DEF WritePhase, AwPending, AwHeld
    <3>2. Ahead' = 3
      BY <1>3, <1>5, <2>3, <3>1 DEF Ahead, execute_w
    <3>. QED
      BY <1>1, <2>1, <3>2
  <2>4. RestPhase' \/ ReadPhase' \/ (WritePhase' /\ m_aw' # NoReq)
    BY <1>2, <1>5, RestStep, ReadStep
  <2>. QED
    BY <2>2, <2>3, <2>4
<1>6. CASE ~execute_w /\ WritePhase
  <2>1. m_aw # NoReq \/ m_w # NoReq
    BY <1>6, RequestTypes
       DEF WritePhase, AwPending, AwHeld, WPending, WHeld, execute_w
  <2>2. Ahead = 3
    BY <1>6, <2>1 DEF Ahead, WritePhase, NoPulses
  <2>. QED
    BY <1>1, <1>3, <1>6, <2>2
<1>7. CASE ~execute_w /\ ResponsePhase
  <2>1. Ahead = 1 \/ Ahead = 4
    BY <1>7 DEF Ahead, ResponsePhase
  <2>2. ResponsePhase' \/ RestPhase'
    BY <1>7, ResponseStep
  <2>3. m_aw' = NoReq /\ m_w' = NoReq /\ aw_q' = NoReq
    BY <2>2 DEF ResponsePhase, RestPhase, WritesQuiet
  <2>4. Ahead' = 4
    BY <1>3, <1>7, <2>3 DEF Ahead, execute_w
  <2>. QED
    BY <1>1, <2>1, <2>4
<1>. QED
  BY <1>2, <1>4, <1>5, <1>6, <1>7 DEF Transfer

\* The round engine keeps ahead of the words. The tight case is a full block
\* that enters while the next write is held: its successor is full after 4 *
\* RateWords more edges.
LEMMA TimelyStep ==
    ASSUME RoundsFit, UnitOK, FileOK, Timely, Cycle
    PROVE  Timely'
<1>1. UnitClk /\ PulseInv
  BY CycleCases DEF FileOK
<1>2. CASE sha.init
  <2>1. buf' = <<>> /\ fifo_count_q' = 0 /\ calc' = FALSE
    BY <1>1, <1>2 DEF UnitClk, WrapperReset, KeccakReset
  <2>2. Len(buf') = 0
    BY <2>1
  <2>3. ~buffer_full'
    BY <2>2 DEF buffer_full
  <2>. QED
    BY <2>1, <2>3 DEF Timely
<1>3. CASE Closed /\ ~sha.init
  BY <1>1, <1>3, ClosedEdge DEF Timely
<1>4. CASE ~Closed /\ ~sha.init
  <2>1. /\ Ahead \in 1 .. 4 /\ Ahead' \in 1 .. 4
        /\ sha.valid <=> Ahead = 1
        /\ Ahead = 1 => Ahead' = 4
        /\ Ahead - 1 <= Ahead'
    BY AheadStep
  <2>2. /\ fifo_count_q \in {0, 1}
        /\ fifo_count_q = 1 => Ahead = 4 /\ ~buffer_full
        /\ buffer_full => ~calc /\ fifo_count_q = 0 /\ Ahead >= 3
        /\ calc /\ fifo_count_q = 0 => Busy <= Ahead + 4 * Missing + 1
        /\ calc /\ fifo_count_q = 1 => Busy <= 4 * Missing + 1
    BY <1>4 DEF Timely
  <2>3. /\ fifo_count_q' = fifo_count_q - Popped + Pushed(sha.valid)
        /\ pop_w <=> fifo_count_q # 0 /\ ~buffer_full
        /\ Pushes(sha.valid) <=> sha.valid /\ fifo_count_q # FifoDepth
        /\ f_ack => Len(buf') = 0 /\ calc' /\ rounds' = 1
        /\ ~f_ack => /\ Len(buf') = Len(buf) + Popped
                     /\ calc' <=> calc /\ rounds # Rounds - 1
                     /\ calc => rounds' = rounds + 1
    BY <1>1, <1>4, CollectEdge
  <2>4. /\ Len(buf) \in Nat /\ Len(buf) <= RateWords
        /\ calc => rounds \in 1 .. Rounds - 1
    BY LenProperties DEF UnitOK, TypeOK, KeccakTypeOK, RoundInv
  <2>5. Popped = IF fifo_count_q = 1 THEN 1 ELSE 0
    BY <2>2, <2>3 DEF Popped
  <2>6. Pushed(sha.valid) = IF Ahead = 1 THEN 1 ELSE 0
    BY <2>1, <2>2, <2>3 DEF Pushed
  <2>7. Busy' = Rounds - rounds' /\ Missing' = RateWords - Len(buf') - 1
        /\ (buffer_full' <=> Len(buf') = RateWords)
    BY DEF Busy, Missing, buffer_full
  <2>8. (f_ack <=> Len(buf) = RateWords /\ ~calc)
        /\ (buffer_full <=> Len(buf) = RateWords)
    BY DEF f_ack, buffer_full
  <2>9. CASE f_ack
    <3>1. fifo_count_q = 0 /\ Ahead >= 3 /\ ~calc
      BY <2>2, <2>8, <2>9
    <3>2. fifo_count_q' = 0 /\ Len(buf') = 0 /\ rounds' = 1
      BY <2>1, <2>3, <2>5, <2>6, <2>9, <3>1
    <3>3. ~buffer_full' /\ Busy' = Rounds - 1 /\ Missing' = RateWords - 1
      BY <2>7, <3>2
    <3>4. Busy' <= Ahead' + 4 * Missing' + 1
      <4>1. Ahead' \in 2 .. 4
        BY <2>1, <3>1
      <4>2. \A a \in 2 .. 4 : Rounds - 1 <= a + 4 * (RateWords - 1) + 1
        BY DEF RoundsFit
      <4>. QED
        BY <3>3, <4>1, <4>2
    <3>. QED
      BY <3>2, <3>3, <3>4 DEF Timely
  <2>10. CASE ~f_ack /\ fifo_count_q = 1
    <3>1. Ahead = 4 /\ Len(buf) < RateWords
      BY <2>2, <2>4, <2>8, <2>10
    <3>2. fifo_count_q' = 0 /\ Len(buf') = Len(buf) + 1 /\ Ahead' >= 3
      BY <2>1, <2>3, <2>4, <2>5, <2>6, <2>10, <3>1
    <3>3. ASSUME calc'
          PROVE  Busy' <= 4 * Missing + 1 - 1 /\ Missing' = Missing - 1
      <4>1. calc /\ rounds' = rounds + 1 /\ rounds \in 1 .. Rounds - 1
        BY <2>3, <2>4, <2>10, <3>3
      <4>2. Rounds - rounds <= 4 * Missing + 1
        BY <2>2, <2>10, <4>1 DEF Busy
      <4>3. Missing \in Int /\ Missing' = Missing - 1
        BY <2>4, <2>7, <3>2 DEF Missing
      <4>. QED
        BY <2>7, <4>1, <4>2, <4>3
    <3>4. calc' => Busy' <= Ahead' + 4 * Missing' + 1
      <4>1. Ahead' \in 3 .. 4 /\ Missing \in Int
        BY <2>1, <2>4, <3>2 DEF Missing
      <4>2. \A a \in 3 .. 4, b, m \in Int :
                b <= 4 * m + 1 - 1 => b <= a + 4 * (m - 1) + 1
        OBVIOUS
      <4>3. calc' => Busy' \in Int
        <5>1. calc' => rounds' = rounds + 1 /\ rounds \in 1 .. Rounds - 1
          BY <2>3, <2>4, <2>10
        <5>. QED
          BY <2>7, <5>1
      <4>. QED
        BY <3>3, <4>1, <4>2, <4>3
    <3>5. buffer_full' => ~calc'
      <4>. SUFFICES ASSUME buffer_full', calc' PROVE FALSE
        OBVIOUS
      <4>1. Missing = 0
        BY <2>4, <2>7, <3>2 DEF Missing
      <4>2. calc /\ rounds # Rounds - 1 /\ rounds \in 1 .. Rounds - 1
        BY <2>3, <2>4, <2>10
      <4>3. Rounds - rounds <= 1
        BY <2>2, <2>10, <4>1, <4>2 DEF Busy
      <4>. QED
        BY <4>2, <4>3
    <3>. QED
      BY <2>1, <3>2, <3>4, <3>5 DEF Timely
  <2>11. CASE ~f_ack /\ fifo_count_q = 0
    <3>1. /\ Len(buf') = Len(buf)
          /\ fifo_count_q' = IF Ahead = 1 THEN 1 ELSE 0
      BY <2>3, <2>4, <2>5, <2>6, <2>8, <2>11
    <3>2. Len(buf) # RateWords
      BY <2>2, <2>8, <2>11
    <3>3. Len(buf') = Len(buf) /\ ~buffer_full' /\ Missing' = Missing
      BY <2>3, <2>4, <2>5, <2>7, <2>11, <3>2 DEF Missing
    <3>4. ASSUME calc'
          PROVE  Busy' <= Ahead + 4 * Missing'
      <4>1. calc /\ rounds' = rounds + 1 /\ rounds \in 1 .. Rounds - 1
        BY <2>3, <2>4, <2>11, <3>4
      <4>2. Rounds - rounds <= Ahead + 4 * Missing + 1
        BY <2>2, <2>11, <4>1 DEF Busy
      <4>3. Missing \in Int
        BY <2>4 DEF Missing
      <4>. QED
        BY <2>1, <2>7, <3>3, <4>1, <4>2, <4>3
    <3>5. Missing' \in Int
      BY <2>4, <3>3 DEF Missing
    <3>6. CASE Ahead = 1
      <4>1. fifo_count_q' = 1 /\ Ahead' = 4
        BY <2>1, <3>1, <3>6
      <4>2. calc' => Busy' <= 4 * Missing' + 1
        BY <3>4, <3>5, <3>6
      <4>. QED
        BY <3>3, <4>1, <4>2 DEF Timely
    <3>7. CASE Ahead # 1
      <4>1. fifo_count_q' = 0
        BY <3>1, <3>7
      <4>2. ASSUME calc' PROVE Busy' <= Ahead' + 4 * Missing' + 1
        <5>1. Busy' <= Ahead + 4 * Missing'
          BY <3>4, <4>2
        <5>2. Busy' \in Int
          <6>1. rounds' = rounds + 1 /\ rounds \in 1 .. Rounds - 1
            BY <2>3, <2>4, <2>11, <4>2
          <6>. QED
            BY <2>7, <6>1
        <5>3. \A a, c \in 1 .. 4, b, m \in Int :
                  a - 1 <= c /\ b <= a + 4 * m => b <= c + 4 * m + 1
          OBVIOUS
        <5>. QED
          BY <2>1, <3>5, <5>1, <5>2, <5>3
      <4>. QED
        BY <3>3, <4>1, <4>2 DEF Timely
    <3>. QED
      BY <3>6, <3>7
  <2>. QED
    BY <2>2, <2>9, <2>10, <2>11
<1>. QED
  BY <1>2, <1>3, <1>4

-----------------------------------------------------------------------------
(* What the driver has sent and what it reads.                             *)

\* The edge brings the wrapper what was sent.
LEMMA SentArrives ==
    ASSUME UnitOK, FileOK, SentInv, Timely, Cycle
    PROVE  sent = accepted'
<1>1. UnitClk /\ PulseInv
  BY CycleCases DEF FileOK
<1>2. CASE sha.init
  BY <1>1, <1>2 DEF UnitClk, WrapperReset, SentInv
<1>3. CASE ~sha.init /\ Closed
  BY <1>1, <1>3, ClosedEdge DEF SentInv
<1>4. CASE ~sha.init /\ ~Closed /\ ~sha.valid
  BY <1>1, <1>4, CollectEdge DEF SentInv
<1>5. CASE ~sha.init /\ ~Closed /\ sha.valid
  <2>1. Ahead = 1
    BY <1>5 DEF Ahead
  <2>2. fifo_count_q = 0
    BY <1>5, <2>1 DEF Timely
  <2>3. accepted' = Append(accepted, Pulse)
    BY <1>1, <1>5, <2>2, CollectEdge
  <2>. QED
    BY <1>5, <2>3 DEF SentInv
<1>. QED
  BY <1>2, <1>3, <1>4, <1>5

\* A word written is in the message when its pulse is over.
LEMMA SentStep ==
    ASSUME UnitOK, FileOK, SentInv, Timely, Cycle
    PROVE  SentInv'
<1>1. sent = accepted'
  BY SentArrives
<1>2. SentClosed <=> Closed'
  BY <1>1 DEF SentClosed, Closed
<1>3. CASE execute_w
  <2>1. sent' = IF sha'.init THEN <<>>
                ELSE IF sha'.valid /\ ~SentClosed THEN Append(sent, Pulse')
                ELSE sent
    BY <1>3, CycleCases, ExecuteStep DEF FileOK
  <2>2. sent' = IF sha'.init THEN <<>>
                ELSE IF sha'.valid /\ ~Closed' THEN Append(accepted', Pulse')
                ELSE accepted'
    BY <1>1, <1>2, <2>1
  <2>. QED
    BY <2>2 DEF SentInv
<1>4. CASE ~execute_w
  BY <1>1, <1>4, CycleCases, NoPulsesNoEffect DEF SentInv
<1>. QED
  BY <1>3, <1>4

\* While a driver that has seen done = 1 only reads, the digest register holds
\* the digest of what it sent.
LEMMA DigestRegister ==
    ASSUME UnitOK, SentInv, NoPulses, done_o
    PROVE  ReadData("digest") = <<"digest", PaddedMessage(sent), Rounds>>
<1>2. absorbed = PaddedMessage(accepted) /\ rounds = Rounds
  BY DigestLanes DEF UnitOK
<1>3. sent = accepted
  BY DEF SentInv, NoPulses
<1>4. ReadData("digest") = <<"digest", absorbed, rounds>>
  BY DEF ReadData
<1>. QED
  BY <1>2, <1>3, <1>4

\* A value read tells which register it was read from.
LEMMA ReadDataTag ==
    ASSUME NEW o \in ArReq
    PROVE  /\ ReadData(o)[1] = "status" => ReadData(o)[2] = done_o
           /\ ReadData(o)[1] = "digest" => o = "digest"
<1>1. o \in {"status", "last", "cfg", "digest", "other"}
  BY DEF ArReq
<1>2. CASE o = "status"
  BY <1>2 DEF ReadData
<1>3. CASE o = "last"
  BY <1>3 DEF ReadData
<1>4. CASE o = "cfg"
  BY <1>4 DEF ReadData
<1>5. CASE o = "digest"
  BY <1>5 DEF ReadData
<1>6. CASE o = "other"
  BY <1>6 DEF ReadData
<1>. QED
  BY <1>1, <1>2, <1>3, <1>4, <1>5, <1>6

\* What was read stays true while the master only reads.
LEMMA ReadInvStep ==
    ASSUME UnitOK, FileOK, SentInv, ReadInv, Cycle
    PROVE  ReadInv'
<1>1. UnitClk /\ PulseInv /\ m_saw_done \in BOOLEAN /\ RegisterClk
  BY CycleCases DEF FileOK, RegTypes
<1>2. NoPulses => (done_o => done_o')
  BY <1>1, QuietEdge
<1>3. m_saw_done => done_o
  BY DEF ReadInv
<1>4. CASE RestPhase
  <2>1. NoPulses
    BY <1>4 DEF RestPhase
  <2>2. ~rvalid_o'
    BY <1>4, RestStep DEF RestPhase, WritePhase, ReadsQuiet
  <2>3. m_saw_done' => done_o'
    BY <1>2, <1>3, <1>4, <2>1, RestStep DEF WritePhase
  <2>. QED
    BY <2>2, <2>3 DEF ReadInv
<1>5. CASE WritePhase
  <2>1. ~rvalid_o'
    BY <1>5, WriteStep DEF ReadsQuiet
  <2>2. ~m_saw_done'
    BY <1>5, WriteStep DEF WritePhase, ResponsePhase
  <2>. QED
    BY <2>1, <2>2 DEF ReadInv
<1>6. CASE ResponsePhase
  <2>1. ~rvalid_o'
    BY <1>6, ResponseStep DEF ReadsQuiet
  <2>2. ~m_saw_done'
    BY <1>6, ResponseStep DEF ResponsePhase
  <2>. QED
    BY <2>1, <2>2 DEF ReadInv
<1>7. CASE ReadPhase
  <2>1. NoPulses /\ (done_o => done_o')
    BY <1>2, <1>7 DEF ReadPhase
  <2>2. ~execute_w
    BY <1>1, <1>7, ReadStep
  <2>3. sent' = sent
    BY <1>1, <2>2, NoPulsesNoEffect
  <2>4. CASE ReadPhase' /\ m_saw_done' = m_saw_done /\ rvalid_o' = FALSE
    BY <1>3, <2>1, <2>4 DEF ReadInv
  <2>5. CASE ArPending /\ m_saw_done' = m_saw_done /\ rdata_o' = ReadData(m_ar)
    <3>1. m_ar \in ArReq
      BY <2>5 DEF ArPending
    <3>2. rdata_o'[1] = "status" /\ rdata_o'[2] => done_o'
      BY <2>1, <2>5, <3>1, ReadDataTag
    <3>3. ASSUME rdata_o'[1] = "digest", m_saw_done'
          PROVE  rdata_o' = <<"digest", PaddedMessage(sent), Rounds>>
      <4>1. m_ar = "digest" /\ done_o
        BY <1>3, <2>5, <3>1, <3>3, ReadDataTag
      <4>. QED
        BY <2>1, <2>5, <4>1, DigestRegister
    <3>4. rdata_o'[1] = "digest" /\ m_saw_done' =>
              rdata_o' = <<"digest", PaddedMessage(sent'), Rounds>>
      BY <2>3, <3>3
    <3>5. m_saw_done' => done_o'
      BY <1>3, <2>1, <2>5
    <3>. QED
      BY <3>2, <3>4, <3>5 DEF ReadInv
  <2>6. CASE Answered /\ m_saw_done' = m_saw_done /\ rdata_o' = rdata_o
    <3>1. rvalid_o
      BY <2>6 DEF Answered
    <3>2. rdata_o'[1] = "status" /\ rdata_o'[2] => done_o'
      BY <2>1, <2>6, <3>1 DEF ReadInv
    <3>3. rdata_o'[1] = "digest" /\ m_saw_done' =>
              rdata_o' = <<"digest", PaddedMessage(sent'), Rounds>>
      BY <2>3, <2>6, <3>1 DEF ReadInv
    <3>4. m_saw_done' => done_o'
      BY <1>3, <2>1, <2>6
    <3>. QED
      BY <3>2, <3>3, <3>4 DEF ReadInv
  <2>7. CASE /\ Answered /\ RestPhase'
             /\ m_saw_done' = (m_saw_done \/ (rdata_o[1] = "status" /\ rdata_o[2]))
    <3>1. rvalid_o /\ ~rvalid_o'
      BY <2>7 DEF Answered, RestPhase, ReadsQuiet
    <3>2. m_saw_done' => done_o'
      BY <1>3, <2>1, <2>7, <3>1 DEF ReadInv
    <3>. QED
      BY <3>1, <3>2 DEF ReadInv
  <2>. QED
    BY <1>1, <1>7, <2>4, <2>5, <2>6, <2>7, ReadStep
<1>. QED
  BY <1>4, <1>5, <1>6, <1>7 DEF FileOK, Transfer

-----------------------------------------------------------------------------
(* All together.                                                           *)

\* The invariant holds at reset.
LEMMA RInvInit == BusInit => RInv
<1>. SUFFICES ASSUME BusInit PROVE RInv
  OBVIOUS
<1>1. UnitOK /\ FileOK
  BY UnitFileInductive
<1>2. /\ accepted = <<>> /\ sent = <<>> /\ sha = NoPulse /\ ~rvalid_o
      /\ ~m_saw_done /\ fifo_count_q = 0 /\ buf = <<>> /\ ~calc
  BY DEF BusInit, WrapperInit, KeccakInit, RegsInit, MasterInit
<1>3. SentInv
  BY <1>2 DEF SentInv, NoPulse
<1>4. ~buffer_full
  <2>1. Len(buf) = 0
    BY <1>2
  <2>. QED
    BY <2>1 DEF buffer_full
<1>. QED
  BY <1>1, <1>2, <1>3, <1>4 DEF RInv, Timely, ReadInv

\* And after every edge.
LEMMA RInvStep ==
    ASSUME RoundsFit, RInv, [Cycle]_vars
    PROVE  RInv'
<1>1. UnitOK /\ FileOK /\ SentInv /\ Timely /\ ReadInv
  BY DEF RInv
<1>2. UnitOK' /\ FileOK'
  BY <1>1, UnitFileInductive
<1>3. CASE Cycle
  BY <1>1, <1>2, <1>3, SentStep, TimelyStep, ReadInvStep DEF RInv
<1>4. CASE UNCHANGED vars
  <2>. USE <1>4 DEF vars, write_vars, read_vars, reg_vars, master_vars,
                    wrapper_vars, fifo_vars, control_vars, keccak_vars,
                    padder_vars, f_vars
  <2>1. SentInv'
    BY <1>1 DEF SentInv, Closed, Pulse
  <2>2. Ahead' = Ahead /\ Busy' = Busy /\ Missing' = Missing
        /\ (Closed' <=> Closed) /\ (buffer_full' <=> buffer_full)
    BY DEF Ahead, execute_w, Busy, Missing, Closed, buffer_full
  <2>3. Timely'
    BY <1>1, <2>2 DEF Timely
  <2>4. ReadInv'
    BY <1>1 DEF ReadInv
  <2>. QED
    BY <1>2, <2>1, <2>3, <2>4 DEF RInv
<1>. QED
  BY <1>3, <1>4

(***************************************************************************)
(* Without anybody looking at input_ready_o or overflow_o no word is lost, *)
(* if a block is permuted in the time of RateWords writes (24 rounds, 18   *)
(* words of four cycles in the build).                                     *)
(***************************************************************************)
THEOREM EveryWordAcceptedCorrect ==
    ASSUME RoundsFit
    PROVE  RegsSpec => []EveryWordAccepted
<1>1. RInv => EveryWordAccepted
  BY DEF RInv, SentInv, EveryWordAccepted
<1>2. RInv /\ [Cycle]_vars => RInv'
  BY RInvStep
<1>. QED
  BY <1>1, <1>2, RInvInit, PTL DEF RegsSpec

\* A driver that reads the digest after done has read that of its message.
LEMMA DigestReadIs ==
    ASSUME RInv
    PROVE  DriverReadsItsDigest
<1>. SUFFICES ASSUME DigestRead
              PROVE  /\ sent # <<>>
                     /\ IF sent[Len(sent)].byte_num # 0
                        THEN ReadsDigestOf(sent, DocumentedLength(sent))
                        ELSE ReadsDigestOf(sent, 4 * (Len(sent) - 1))
  BY DEF DriverReadsItsDigest
<1>1. rvalid_o /\ m_saw_done /\ rdata_o[1] = "digest"
  BY DEF DigestRead
<1>2. rdata_o = <<"digest", PaddedMessage(sent), Rounds>> /\ done_o
  BY <1>1 DEF RInv, ReadInv
<1>3. NoPulses
  <2>1. ReadPhase
    BY <1>1 DEF RInv, FileOK, Transfer, RestPhase, WritePhase, ResponsePhase,
                ReadsQuiet
  <2>. QED
    BY <2>1 DEF ReadPhase
<1>4. sent = accepted
  BY <1>3 DEF RInv, SentInv, NoPulses
<1>5. Closed /\ accepted \in Seq(Entry)
  BY <1>2, DigestLanes DEF RInv, UnitOK, TypeOK
<1>6. sent \in Seq(Entry) /\ sent # <<>>
  BY <1>4, <1>5 DEF Closed
<1>7. ReadsDigestOf(sent, HashedLength(sent))
  <2>1. BytesOf(PaddedMessage(sent)) = PaddedBytes(sent, HashedLength(sent))
    BY <1>6, BytesPadded
  <2>. QED
    BY <1>2, <2>1 DEF ReadsDigestOf
<1>8. Len(sent) \in Nat
  BY <1>6, LenProperties
<1>9. CASE sent[Len(sent)].byte_num # 0
  BY <1>6, <1>7, <1>9 DEF HashedLength, DocumentedLength
<1>10. CASE sent[Len(sent)].byte_num = 0
  <2>1. HashedLength(sent) = 4 * (Len(sent) - 1)
    BY <1>8, <1>10 DEF HashedLength
  <2>. QED
    BY <1>6, <1>7, <1>10, <2>1
<1>. QED
  BY <1>9, <1>10

(***************************************************************************)
(* Under the same condition, a driver that reads done = 1 and then,        *)
(* without writing, the digest reads the digest of the message it sent:    *)
(* the documented one if the byte count of cfg is 1, 2 or 3, and that of   *)
(* the message without its last word if it is 0.                           *)
(***************************************************************************)
THEOREM DriverReadsItsDigestCorrect ==
    ASSUME RoundsFit
    PROVE  RegsSpec => []DriverReadsItsDigest
<1>1. RInv => DriverReadsItsDigest
  BY DigestReadIs
<1>2. RInv /\ [Cycle]_vars => RInv'
  BY RInvStep
<1>. QED
  BY <1>1, <1>2, RInvInit, PTL DEF RegsSpec
=============================================================================
