------------------------------- MODULE TbAxi --------------------------------
(***************************************************************************)
(* The AXI memory of the cache test bench (tb_axi4_mem) as the slave of    *)
(* the data cache's bridge.  One step is one clock edge: the thread of the *)
(* memory reads the lines of the cycle that ends and writes those of the   *)
(* next.  Its random handshake delays are free choices.                    *)
(*                                                                         *)
(* Addresses are bytes.  Of the memory one byte is watched: every address  *)
(* is treated alike, so what holds of any one byte holds of all.  Its      *)
(* value is the write that left it there: transaction, beat and lane.  The *)
(* bridge asks for incrementing bursts; the other kinds, which the memory  *)
(* also serves, are sent through the same handshake.                       *)
(***************************************************************************)
EXTENDS AxiBridge

CONSTANTS Transfers,    \* the transactions of the master
          Watched,      \* the bytes that may be watched
          QueueLimit    \* entries of a queue above which ready drops (128)

Bursts == {"FIXED", "INCR", "WRAP"}

ASSUME TbAxiAssumption ==
    /\ QueueLimit \in Nat \ {0}
    /\ Transfers \subseteq [kind : {"read", "write"}, len : Lens, addr : Nat,
                            burst : Bursts, strb : SUBSET (0 .. 3)]

VARIABLES tx,      \* the address phase of the master's transaction
          wr_req,  \* axi_wr_req
          rd_q,    \* axi_rd_q
          wr_q,    \* axi_wr_q
          rdata,   \* what RDATA holds of the watched byte
          byte,    \* the watched byte in memory
          watch,   \* its address
          want     \* what it should be (no part of the program)

tb_vars == <<tx, wr_req, rd_q, wr_q, rdata, byte, watch, want>>
all_vars == <<vars, tb_vars>>

-----------------------------------------------------------------------------
\* Mutant: the mask of a wrapping burst is that of the next length.
WrapMaskOfNext(len) == CASE len = 0 -> 7 [] len = 1 -> 15 [] len = 3 -> 31 [] OTHER -> 63

(* calc_wrap_mask gives the mask of the bytes a wrapping burst stays in. *)
calc_wrap_mask(len) == CASE len = 0 -> 3 [] len = 1 -> 7 [] len = 3 -> 15
                         [] len = 7 -> 31 [] OTHER -> 63

Low(a, mask) == a % (mask + 1)
High(a, mask) == a - Low(a, mask)

calc_next_addr(a, burst, len) ==
    LET mask == calc_wrap_mask(len)
    IN  CASE burst = "WRAP" -> High(a, mask) + Low(a + 4, mask)
          [] burst = "INCR" -> a + 4
          [] burst = "FIXED" -> a

(* Read command: the burst is unrolled into the queue at once.  The addresses are a
   recursive function of the beat.                                                   *)
ReadItems(t) ==
    LET at[k \in 0 .. t.len] == IF k = 0 THEN High(t.addr, 3)
                                ELSE calc_next_addr(at[k - 1], t.burst, t.len)
    IN  [k \in 1 .. t.len + 1 |-> [addr |-> at[k - 1], last |-> k = t.len + 1]]

RdQueued == IF ar_taken THEN rd_q \o ReadItems(tx) ELSE rd_q

(* Write command, then write data: the command of this very cycle counts. *)
NoCommand == [valid |-> FALSE, addr |-> 0]
Commanded == IF aw_taken THEN [valid |-> TRUE, addr |-> tx.addr] ELSE wr_req

WrQueued == IF w_taken
            THEN Append(wr_q, [addr |-> Commanded.addr, beat |-> inport_w.beat,
                               strb |-> tx.strb, last |-> inport_w.last])
            ELSE wr_q

\* Mutant: the last beat leaves the command in place.
CommandStays == IF ~w_taken THEN Commanded
                ELSE [valid |-> TRUE,
                      addr |-> calc_next_addr(Commanded.addr, tx.burst, tx.len)]

CommandNext == IF ~w_taken THEN Commanded
               ELSE [valid |-> ~inport_w.last,
                     addr |-> calc_next_addr(Commanded.addr, tx.burst, tx.len)]

(* read32 and write32, of the watched byte.  Values that no write left are told apart by
   their tag.                                                                           *)
Value(tag, beat, lane) == [tag |-> tag, beat |-> beat, lane |-> lane]
Initial == Value("initial", 0, 0)
Elsewhere == Value("elsewhere", 0, 0)
NoData == Value("none", 0, 0)

Lane(a) == watch - a
Touches(a) == watch \in a .. (a + 3)
read32(a) == IF Touches(a) THEN byte ELSE Elsewhere

write32(item) ==
    IF Touches(item.addr) /\ Lane(item.addr) \in item.strb
    THEN Value(tx.tag, item.beat, Lane(item.addr)) ELSE byte

(* The answers: a read beat when one is queued and not delayed, then a write of the
   queue, which is answered when it is the last of its burst.                        *)
Answer(rDelay, bDelay) ==
    LET read == RdQueued # <<>> /\ ~rDelay
        write == WrQueued # <<>> /\ ~bDelay
    IN  /\ rd_q' = IF read THEN Tail(RdQueued) ELSE RdQueued
        /\ rdata' = IF read THEN read32(Head(RdQueued).addr) ELSE NoData
        /\ wr_q' = IF write THEN Tail(WrQueued) ELSE WrQueued
        /\ byte' = IF write THEN write32(Head(WrQueued)) ELSE byte
        /\ resp' = IF write /\ Head(WrQueued).last THEN "b"
                   ELSE IF ~read THEN "none"
                   ELSE IF Head(RdQueued).last THEN "rlast" ELSE "r"

\* Mutant: data is taken whether or not a command could be.
WReadyAlone(room, awDelay, wDelay) == room /\ ~wDelay

WReadyNext(room, awDelay, wDelay) == room /\ ~awDelay /\ ~wDelay

(* The ready lines of the next cycle: data only with a command, taken now or before. *)
Handshake(arDelay, awDelay, wDelay) ==
    ready' = [ar |-> ~arDelay /\ Len(rd_q') < QueueLimit,
              aw |-> ~awDelay /\ Len(wr_q') < QueueLimit /\ ~wr_req'.valid,
              w |-> WReadyNext(Len(wr_q') < QueueLimit, awDelay, wDelay)]

-----------------------------------------------------------------------------
(* Where beat k of a burst belongs, by the AXI rules. *)
BeatAddr(t, k) ==
    LET total == 4 * (t.len + 1)
        first == t.addr - (t.addr % 4)
    IN  CASE t.burst = "INCR" -> first + 4 * k
          [] t.burst = "FIXED" -> first
          [] t.burst = "WRAP" -> first - (first % total) + (((first % total) + 4 * k) % total)

(* What a write transaction leaves in the watched byte. *)
Hits(t) == {k \in 0 .. t.len : /\ watch \in BeatAddr(t, k) .. (BeatAddr(t, k) + 3)
                               /\ watch - BeatAddr(t, k) \in t.strb}
Left(t) == IF t.kind = "read" \/ Hits(t) = {} THEN want
           ELSE LET k == CHOOSE x \in Hits(t) : \A y \in Hits(t) : y <= x
                IN  Value(t.tag, k, watch - BeatAddr(t, k))

Tagged(t, tag) == [kind |-> t.kind, len |-> t.len, addr |-> t.addr, burst |-> t.burst,
                   strb |-> t.strb, tag |-> tag]
Other(tag) == IF tag = "odd" THEN "even" ELSE "odd"
NoTx == [kind |-> "read", len |-> 0, addr |-> 0, burst |-> "INCR", strb |-> {}, tag |-> "odd"]

TbInit == /\ Init
          /\ tx = NoTx /\ wr_req = NoCommand /\ rd_q = <<>> /\ wr_q = <<>>
          /\ rdata = NoData /\ byte = Initial /\ want = Initial
          /\ watch \in Watched

Begins(o) == o.in # <<>> /\ o.next.sent = 1

(* The address phase goes with the first beat of a transaction; a write has the other
   tag than the write before it.                                                      *)
Addressed(o) ==
    IF Begins(o) /\ inport_accept_o
    THEN \E t \in Transfers :
           /\ t.kind = o.next.kind /\ t.len = o.next.len
           /\ tx' = Tagged(t, IF t.kind = "write" THEN Other(tx.tag) ELSE tx.tag)
           /\ want' = Left(tx')
    ELSE UNCHANGED <<tx, want>>

(* The bookkeeping of AxiBridge: what the memory took and has not answered. *)
TakenClk == /\ s_aw' = IF resp' = "b" THEN <<>> ELSE GotAw
            /\ s_w' = IF resp' = "b" THEN <<>> ELSE GotW
            /\ s_r' = IF resp' \in {"r", "rlast"} THEN Owed - 1 ELSE Owed

TbClk(o, d) ==
    /\ BridgeClk(o.in) /\ MasterClk(o) /\ Addressed(o)
    /\ wr_req' = CommandNext
    /\ Answer(d.r, d.b) /\ Handshake(d.ar, d.aw, d.w)
    /\ TakenClk /\ UNCHANGED watch

Delays == [r : BOOLEAN, b : BOOLEAN, ar : BOOLEAN, aw : BOOLEAN, w : BOOLEAN]
NoDelay == [r |-> FALSE, b |-> FALSE, ar |-> FALSE, aw |-> FALSE, w |-> FALSE]

TbNext == \E o \in Offers, d \in Delays : TbClk(o, d)

TbSpec == TbInit /\ [][TbNext]_all_vars

(* Each delay is a bit of rand(): again and again none of them strikes; the cache sends
   the beats of an eviction without pause.                                              *)
TbServe == \E o \in Offers : /\ o.in = <<>> => Acked.kind = "none" \/ AllSent(Acked)
                             /\ TbClk(o, NoDelay)

FairTbSpec == TbSpec /\ WF_all_vars(TbServe)

-----------------------------------------------------------------------------
(* The memory's own assertion sc_assert(axi_wr_req.AWVALID): data never comes before a
   command, although the bridge offers both at once and either may be delayed.         *)
DataHasCommand == w_taken => Commanded.valid

(* A read beat carries, of every byte, what the last write to it left, whatever the kind
   of burst, the strobes and the delays; the queues hold no write across a transaction.  *)
ReadSeesWrites ==
    /\ resp \in {"r", "rlast"} =>
         rdata = (IF watch \in BeatAddr(tx, cur.got) .. (BeatAddr(tx, cur.got) + 3)
                  THEN want ELSE Elsewhere)
    /\ cur.kind = "none" => wr_q = <<>> /\ rd_q = <<>> /\ ~wr_req.valid /\ byte = want

(* The memory is a slave as AxiBridge assumes it: one answer per write, after the address
   and the last beat; as many read beats as asked for, the last one marked.  Under its
   delays the bridge withdraws or changes no offer.                                       *)
ImplementsSlave == Init /\ [][Next]_vars /\ OffersStand
=============================================================================
