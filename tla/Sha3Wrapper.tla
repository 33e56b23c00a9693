----------------------------- MODULE Sha3Wrapper -----------------------------
(***************************************************************************)
(* sha3_real_wrapper.v: the word FIFO in front of the SHA3-512 core and    *)
(* the IDLE / RUN / WAIT controller that feeds it.  One step is one rising *)
(* clock edge of the wrapper and of the core it instantiates.              *)
(*                                                                         *)
(* Only the ghost variable "accepted" has no register: it is the message   *)
(* the wrapper has taken since the last rst_i or init_i, up to and         *)
(* including its last word.                                                *)
(***************************************************************************)
EXTENDS Keccak

CONSTANTS
    FifoDepth,  \* FIFO_DEPTH (8 in the build)
    MaxWords    \* bound: length of the message offered since the last init

ASSUME WrapperAssumption ==
    /\ FifoDepth \in Nat \ {0, 1}
    /\ MaxWords \in Nat

VARIABLES
    state_q, fifo, wr_ptr_q, rd_ptr_q, fifo_count_q,
    saw_last_q, overflow_q, busy_o, done_o,
    accepted

fifo_vars    == <<fifo, wr_ptr_q, rd_ptr_q, fifo_count_q>>
control_vars == <<state_q, saw_last_q, overflow_q, busy_o, done_o>>
wrapper_vars == <<fifo_vars, control_vars, keccak_vars, accepted>>

Entry == [data : Word, is_last : BOOLEAN, byte_num : ByteNum]

\* An entry of the FIFO memories before anything was written to it.
NoEntry == [data |-> NoWord, is_last |-> FALSE, byte_num |-> 0]

-----------------------------------------------------------------------------
fifo_empty_w  == fifo_count_q = 0
fifo_full_w   == fifo_count_q = FifoDepth
head          == fifo[rd_ptr_q]

input_ready_o == ~fifo_full_w /\ ~saw_last_q /\ state_q # "WAIT"

PopKeepsOne == state_q = "RUN" /\ fifo_count_q > 1 /\ ~buffer_full  \* mutant
pop_w       == state_q = "RUN" /\ ~fifo_empty_w /\ ~buffer_full

CompletesEarly == state_q = "WAIT"                         \* mutant
completes_w    == state_q = "WAIT" /\ out_ready

NextPtr(p) == IF p = FifoDepth - 1 THEN 0 ELSE p + 1

\* The whole message has been taken: its last word is among "accepted".
Closed == accepted # <<>> /\ accepted[Len(accepted)].is_last

WrapperInit ==
    /\ KeccakInit
    /\ state_q = "IDLE" /\ saw_last_q = FALSE /\ overflow_q = FALSE
    /\ busy_o = FALSE /\ done_o = FALSE
    /\ fifo = [p \in 0 .. FifoDepth - 1 |-> NoEntry]
    /\ wr_ptr_q = 0 /\ rd_ptr_q = 0 /\ fifo_count_q = 0
    /\ accepted = <<>>

InitKeepsDone ==                                           \* mutant
    /\ KeccakReset
    /\ state_q' = "IDLE" /\ saw_last_q' = FALSE /\ overflow_q' = FALSE
    /\ busy_o' = FALSE
    /\ wr_ptr_q' = 0 /\ rd_ptr_q' = 0 /\ fifo_count_q' = 0
    /\ UNCHANGED <<fifo, done_o>>
    /\ accepted' = <<>>

\* rst_i or init_i: every register but the FIFO memories.
WrapperReset ==
    /\ KeccakReset
    /\ state_q' = "IDLE" /\ saw_last_q' = FALSE /\ overflow_q' = FALSE
    /\ busy_o' = FALSE /\ done_o' = FALSE
    /\ wr_ptr_q' = 0 /\ rd_ptr_q' = 0 /\ fifo_count_q' = 0
    /\ UNCHANGED fifo
    /\ accepted' = <<>>

\* The FIFO memories, pointers and count; completion clears the last three.
FifoClk(push_w, entry) ==
    /\ fifo' = IF push_w THEN [fifo EXCEPT ![wr_ptr_q] = entry] ELSE fifo
    /\ wr_ptr_q' = IF completes_w THEN 0
                   ELSE IF push_w THEN NextPtr(wr_ptr_q) ELSE wr_ptr_q
    /\ rd_ptr_q' = IF completes_w THEN 0
                   ELSE IF pop_w THEN NextPtr(rd_ptr_q) ELSE rd_ptr_q
    /\ fifo_count_q' = IF completes_w THEN 0
                       ELSE IF push_w /\ ~pop_w THEN fifo_count_q + 1
                       ELSE IF pop_w /\ ~push_w THEN fifo_count_q - 1
                       ELSE fifo_count_q

\* state_q and the flags.  The later assignments of the always block win:
\* completion over everything, a pop of the last word over a push.
ControlClk(start_i, valid, push_w, last) ==
    /\ state_q' = IF completes_w THEN "IDLE"
                  ELSE IF pop_w /\ head.is_last THEN "WAIT"
                  ELSE IF push_w /\ state_q = "IDLE" THEN "RUN"
                  ELSE state_q
    /\ saw_last_q' = (~completes_w /\ (saw_last_q \/ (push_w /\ last)))
    /\ overflow_q' = (~completes_w /\ (overflow_q \/ (valid /\ ~input_ready_o)))
    /\ busy_o' = (~completes_w /\ (busy_o \/ (push_w /\ state_q = "IDLE")))
    /\ done_o' = (completes_w \/ (done_o /\ ~(/\ state_q = "IDLE"
                                              /\ start_i \/ push_w)))

\* A clock edge without reset: start_i, data_valid_i with data_i,
\* data_is_last_i and data_byte_num_i.
WrapperClk(start_i, valid, data, last, bnum) ==
    LET push_w == valid /\ input_ready_o
        entry  == [data |-> data, is_last |-> last,
                   byte_num |-> IF last THEN bnum ELSE 0]
    IN  /\ KeccakClk(head.data, pop_w, pop_w /\ head.is_last, head.byte_num)
        /\ FifoClk(push_w, entry)
        /\ ControlClk(start_i, valid, push_w, last)
        /\ accepted' = IF push_w /\ ~Closed THEN Append(accepted, entry)
                       ELSE accepted

-----------------------------------------------------------------------------
(* The wrapper driven by an arbitrary host.                                *)

Reset == WrapperReset

\* A clock edge with no data offered.
Tick ==
    \E start_i \in BOOLEAN, w \in Word : WrapperClk(start_i, FALSE, w, FALSE, 0)

\* A clock edge with a word offered, accepted or not.
Offer ==
    \E start_i \in BOOLEAN, w \in Word, last \in BOOLEAN, bnum \in ByteNum :
        /\ Closed \/ Len(accepted) < MaxWords - (IF last THEN 0 ELSE 1)
        /\ WrapperClk(start_i, TRUE, w, last, bnum)

Clk == Tick \/ Offer

Next == Reset \/ Clk

Spec == WrapperInit /\ [][Next]_wrapper_vars

-----------------------------------------------------------------------------
TypeOK ==
    /\ KeccakTypeOK
    /\ state_q \in {"IDLE", "RUN", "WAIT"}
    /\ fifo \in [0 .. FifoDepth - 1 -> Entry \cup {NoEntry}]
    /\ wr_ptr_q \in 0 .. FifoDepth - 1 /\ rd_ptr_q \in 0 .. FifoDepth - 1
    /\ fifo_count_q \in 0 .. FifoDepth
    /\ saw_last_q \in BOOLEAN /\ overflow_q \in BOOLEAN
    /\ busy_o \in BOOLEAN /\ done_o \in BOOLEAN
    /\ accepted \in Seq(Entry)

\* The lanes the padder has taken so far.
Taken == absorbed \o buf

\* FIFO slot of the k-th oldest entry, k from 0.
Slot(k) == IF rd_ptr_q + k < FifoDepth THEN rd_ptr_q + k
           ELSE rd_ptr_q + k - FifoDepth

(***************************************************************************)
(* No word is lost, duplicated or reordered between the host's accepted    *)
(* write and the sponge: until the last word leaves the FIFO the lanes in  *)
(* the core followed by the entries of the FIFO are the message.           *)
(***************************************************************************)
NothingLost ==
    ~last_seen =>
        /\ Len(accepted) = Len(Taken) + fifo_count_q
        /\ \A j \in 1 .. Len(Taken) : Taken[j] = FullLane(accepted[j].data)
        /\ \A k \in 0 .. fifo_count_q - 1 :
               fifo[Slot(k)] = accepted[Len(Taken) + k + 1]

(***************************************************************************)
(* The round engine never mixes blocks or round constants: the one-hot     *)
(* shift register that selects the round constant agrees with the number   *)
(* of rounds applied, and a new block enters only a fully permuted state.  *)
(* f_permutation.v states it as "in_ready & (i == 0)".                     *)
(***************************************************************************)
RoundsInStep ==
    /\ f_i = (IF calc THEN {rounds - 1} ELSE {})
    /\ ~calc => rounds = (IF absorbed = <<>> THEN 0 ELSE Rounds)

(***************************************************************************)
(* The digest the core announces, and the wrapper reports with done_o, is  *)
(* that of the message accepted since init, byte for byte as FIPS 202 pads *)
(* it, fully permuted.  A second message sent without init does not        *)
(* disturb it: the wrapper then reports done_o with the digest of the      *)
(* first.  The message ends where the table of padder1.v says, byte_num    *)
(* bytes into the last word.                                               *)
(***************************************************************************)
DigestIsFirstMessage ==
    out_ready \/ done_o =>
        /\ out_ready /\ Closed
        /\ BytesOf(absorbed) = PaddedBytes(accepted, HashedLength(accepted))
        /\ rounds = Rounds /\ ~calc

(***************************************************************************)
(* busy_o and done_o tell the host the truth about the controller.         *)
(***************************************************************************)
StatusTruthful ==
    /\ busy_o <=> state_q # "IDLE"
    /\ busy_o => ~done_o
    /\ state_q = "WAIT" => saw_last_q /\ last_seen /\ fifo_empty_w
    /\ state_q = "IDLE" => fifo_empty_w /\ ~saw_last_q

(***************************************************************************)
(* The strengthening that makes the properties above inductive: how the    *)
(* FIFO, the controller and the core agree in the three phases of a        *)
(* message, collecting (last_seen = 0), padding and permuting.             *)
(***************************************************************************)
Total == RateWords * Blocks(Len(accepted))

\* The FIFO is a ring whose only last word is its newest.
FifoInv ==
    /\ wr_ptr_q = Slot(fifo_count_q)
    /\ \A k \in 0 .. fifo_count_q - 1 :
           fifo[Slot(k)].is_last <=> (saw_last_q /\ k = fifo_count_q - 1)
    /\ state_q = "RUN" /\ saw_last_q => ~fifo_empty_w

\* The message accepted so far has no last word but its own.
MessageInv == \A j \in 1 .. Len(accepted) - 1 : ~accepted[j].is_last

CollectInv ==
    ~last_seen =>
        /\ ~padder_done /\ ~out_ready /\ k_i = {} /\ state_q # "WAIT"
        /\ state_q = "IDLE" <=> accepted = <<>>
        /\ saw_last_q <=> Closed

PaddingInv ==
    last_seen =>
        /\ Closed
        /\ Len(accepted) <= Len(Taken)
        /\ \A j \in 1 .. Len(Taken) : Taken[j] = PaddedLane(accepted, j, Total)
        /\ IF padder_done /\ buf = <<>>
           THEN Len(absorbed) = Total /\ k_i = f_i /\ (out_ready <=> ~calc)
           ELSE Len(absorbed) + RateWords = Total /\ k_i = {} /\ ~out_ready
        /\ padder_done => buf = <<>> \/ buffer_full
        /\ state_q # "WAIT" => out_ready

BlocksInv == \E b \in 0 .. Len(absorbed) : Len(absorbed) = RateWords * b

UnitInv ==
    /\ StatusTruthful /\ FifoInv /\ MessageInv
    /\ NothingLost /\ CollectInv /\ PaddingInv /\ BlocksInv
    /\ done_o => out_ready

(***************************************************************************)
(* Once announced, the digest can only disappear by a reset or an init.    *)
(***************************************************************************)
DigestFrozen ==
    [][out_ready /\ ~Reset => /\ out_ready'
                              /\ UNCHANGED <<absorbed, rounds>>]_wrapper_vars
=============================================================================
