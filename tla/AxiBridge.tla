------------------------------ MODULE AxiBridge ------------------------------
(***************************************************************************)
(* dcache_axi.v and dcache_axi_axi.v: the bridge from the beats of the     *)
(* data cache to AXI.  A request FIFO of two places, the counters of beats *)
(* and of transactions without an answer, and a skid buffer that keeps a   *)
(* beat of which AXI took the address but not the data, or the reverse.    *)
(* One step is one clock edge; registers keep the source's names without   *)
(* _q, axi_cnt being the req_cnt_q of dcache_axi_axi.v.                    *)
(*                                                                         *)
(* Write data is the number of the beat in its burst; addresses, which     *)
(* travel with the length, are left out.  The master is what dcache_core.v *)
(* and dcache_if_pmem.v are together: one transaction at a time, the next  *)
(* one at the earliest in the cycle of the last answer.  The slave takes   *)
(* AW, W and AR in any order and at any time and answers what it has got.  *)
(***************************************************************************)
EXTENDS Naturals, Sequences

CONSTANT Lens       \* burst lengths less one, 0 and 7 in the source

ASSUME LensAssumption == Lens \subseteq 0 .. 255 /\ Lens # {}

MaxLen == CHOOSE n \in Lens : \A k \in Lens : k <= n
Depth  == 2         \* DEPTH of the request FIFO

VARIABLES
    fifo, req_cnt, resp_outstanding,            \* dcache_axi.v
    axi_cnt, valid, buf, awvalid, wvalid, wlast,    \* dcache_axi_axi.v
    cur,                        \* master: its transaction
    ready, resp, s_aw, s_w, s_r \* slave: ready and answer lines of this
                                \* cycle, what it got, read beats it owes

bridge_vars == <<fifo, req_cnt, resp_outstanding, axi_cnt, valid, buf,
                 awvalid, wvalid, wlast>>
vars == <<bridge_vars, cur, ready, resp, s_aw, s_w, s_r>>

NoReq == [write |-> FALSE, len |-> 0, beat |-> 0, last |-> FALSE]
Idle  == [kind |-> "none", len |-> 0, sent |-> 0, got |-> 0]

-----------------------------------------------------------------------------
(* The beat offered to AXI.                                                *)

req_can_issue_w == fifo # <<>> /\ resp_outstanding # 2

\* Mutant: the last beat is announced one early.
WlastEarly(h) == (h.len = 0 /\ axi_cnt = 0) \/ axi_cnt = 2

inport_wlast(h) == (h.len = 0 /\ axi_cnt = 0) \/ axi_cnt = 1

inport_valid_w == valid \/ req_can_issue_w

inport_w ==
    IF valid THEN buf
    ELSE IF req_can_issue_w
    THEN LET h == Head(fifo) IN
         [write |-> ~h.rd, len |-> h.len, beat |-> h.beat,
          last |-> inport_wlast(h)]
    ELSE NoReq

awvalid_o == inport_valid_w /\ inport_w.write /\ ~awvalid

wvalid_o  == inport_valid_w /\ inport_w.write /\ ~wvalid
arvalid_o == inport_valid_w /\ ~inport_w.write

aw_taken == awvalid_o /\ ready.aw
w_taken  == wvalid_o /\ ready.w
ar_taken == arvalid_o /\ ready.ar

\* inport_accept_o of dcache_axi_axi.v, which pops the FIFO.
accept_w == ~valid /\ (aw_taken \/ w_taken \/ ar_taken)

-----------------------------------------------------------------------------
(* dcache_axi_axi.v.                                                       *)

all_taken == /\ awvalid_o => ready.aw
             /\ wvalid_o => ready.w
             /\ arvalid_o => ready.ar

\* Mutant: no skid buffer.
NeverBusy == /\ valid' = FALSE
             /\ buf' = NoReq

\* buf_q follows the beat offered; its content counts only while valid.
SkidClk == /\ valid' = ((accept_w /\ ~all_taken) \/ (valid /\ ~all_taken))
           /\ buf' = IF valid' THEN inport_w ELSE NoReq

AxiCntClk ==
    axi_cnt' = IF accept_w /\ inport_w.write
               THEN IF axi_cnt # 0 THEN axi_cnt - 1 ELSE inport_w.len
               ELSE axi_cnt

wr_cmd_accepted_w  == aw_taken \/ awvalid
wr_data_accepted_w == w_taken \/ wvalid
wr_data_last_w     == (wvalid /\ wlast) \/ (w_taken /\ inport_w.last)

AwvalidClk ==
    awvalid' = IF wr_data_accepted_w /\ wr_data_last_w THEN FALSE
               ELSE awvalid \/ aw_taken

WvalidClk ==
    /\ wvalid' = IF wr_cmd_accepted_w THEN FALSE ELSE wvalid \/ w_taken
    /\ wlast' = IF w_taken THEN inport_w.last ELSE wlast

-----------------------------------------------------------------------------
(* dcache_axi.v.                                                           *)

req_is_write_w == req_can_issue_w /\ ~Head(fifo).rd
req_is_read_w  == req_can_issue_w /\ Head(fifo).rd

ReqCntClk ==
    req_cnt' = IF ~(req_is_write_w /\ accept_w) THEN req_cnt
               ELSE IF req_cnt # 0 THEN req_cnt - 1
               ELSE IF Head(fifo).len # 0 THEN Head(fifo).len - 1 ELSE 0

req_last_w == req_is_write_w /\ Head(fifo).len = 0 /\ req_cnt = 0

res_push_w == accept_w /\ (req_last_w \/ req_is_read_w)
resp_pop_w == resp \in {"b", "rlast"}

OutstandingClk ==
    LET up   == res_push_w /\ resp_outstanding # 2
        down == resp_pop_w /\ resp_outstanding # 0
    IN  resp_outstanding' = IF up /\ ~down THEN resp_outstanding + 1
                            ELSE IF down /\ ~up THEN resp_outstanding - 1
                            ELSE resp_outstanding

inport_accept_o == Len(fifo) # Depth
inport_ack_o    == resp # "none"

\* "in" is the beat the master offers, a sequence of at most one.
FifoClk(in) ==
    fifo' = (IF accept_w THEN Tail(fifo) ELSE fifo)
            \o (IF inport_accept_o THEN in ELSE <<>>)

BridgeClk(in) ==
    /\ FifoClk(in) /\ ReqCntClk /\ OutstandingClk
    /\ AxiCntClk /\ SkidClk /\ AwvalidClk /\ WvalidClk

-----------------------------------------------------------------------------
(* The master: dcache_core.v and dcache_if_pmem.v.                         *)

Beats(t)  == IF t.kind = "read" THEN 1 ELSE t.len + 1
AllSent(t) == t.sent = Beats(t)
Answers(t) == IF t.kind = "read" THEN t.len + 1 ELSE 1

\* The transaction once the answer of this cycle is in.
Acked == IF ~inport_ack_o THEN cur
         ELSE IF cur.got + 1 = Answers(cur) THEN Idle
         ELSE [cur EXCEPT !.got = @ + 1]

\* Beats the master can offer: none, the next one of its burst, or the first
\* one of a new transaction.
Offers ==
    {[in |-> <<>>, next |-> Acked]} \cup
    IF Acked.kind = "none"
    THEN {[in |-> <<[rd |-> k = "read", len |-> n, beat |-> 0]>>,
           next |-> [kind |-> k, len |-> n, sent |-> 1, got |-> 0]] :
              k \in {"read", "write"}, n \in Lens}
    ELSE IF AllSent(Acked) THEN {}
    ELSE {[in |-> <<[rd |-> FALSE, len |-> 0, beat |-> Acked.sent]>>,
           next |-> [Acked EXCEPT !.sent = @ + 1]]}

MasterClk(o) == cur' = IF inport_accept_o THEN o.next ELSE Acked

-----------------------------------------------------------------------------
(* The slave.                                                              *)

Ready == [aw : BOOLEAN, w : BOOLEAN, ar : BOOLEAN]

\* What the slave has got at the end of the cycle.
GotAw == IF aw_taken THEN Append(s_aw, inport_w.len) ELSE s_aw
GotW  == IF w_taken THEN Append(s_w, [beat |-> inport_w.beat, last |-> inport_w.last])
         ELSE s_w
Owed  == IF ar_taken THEN s_r + inport_w.len + 1 ELSE s_r

WriteDue == GotAw # <<>> /\ GotW # <<>> /\ GotW[Len(GotW)].last

SlaveClk(rdy, answer) ==
    /\ ready' = rdy
    /\ \/ /\ ~answer
          /\ resp' = "none"
          /\ s_aw' = GotAw /\ s_w' = GotW /\ s_r' = Owed
       \/ /\ answer /\ WriteDue
          /\ resp' = "b"
          /\ s_aw' = <<>> /\ s_w' = <<>> /\ s_r' = Owed
       \/ /\ answer /\ Owed > 0
          /\ resp' = IF Owed = 1 THEN "rlast" ELSE "r"
          /\ s_aw' = GotAw /\ s_w' = GotW /\ s_r' = Owed - 1

-----------------------------------------------------------------------------
Init ==
    /\ fifo = <<>> /\ req_cnt = 0 /\ resp_outstanding = 0
    /\ axi_cnt = 0 /\ valid = FALSE /\ buf = NoReq
    /\ awvalid = FALSE /\ wvalid = FALSE /\ wlast = FALSE
    /\ cur = Idle
    /\ ready = [aw |-> FALSE, w |-> FALSE, ar |-> FALSE]
    /\ resp = "none" /\ s_aw = <<>> /\ s_w = <<>> /\ s_r = 0

Clk(o, rdy, answer) ==
    /\ BridgeClk(o.in)
    /\ MasterClk(o)
    /\ SlaveClk(rdy, answer)

Next == \E o \in Offers, rdy \in Ready, answer \in BOOLEAN : Clk(o, rdy, answer)

Spec == Init /\ [][Next]_vars

\* dcache_core.v offers the beats of an eviction without pause, and the
\* slaves raise their ready lines and answer again and again.
Due == WriteDue \/ Owed > 0
Serve == \E o \in Offers : /\ (o.in = <<>> => Acked.kind = "none" \/ AllSent(Acked))
                           /\ Clk(o, [aw |-> TRUE, w |-> TRUE, ar |-> TRUE], Due)
FairSpec == Spec /\ WF_vars(Serve)

-----------------------------------------------------------------------------
(* Properties.                                                             *)

Beat == 0 .. MaxLen

\* The counters stay in their widths and the FIFO within its two places.
TypeOK ==
    /\ fifo \in UNION {[1 .. n -> [rd : BOOLEAN, len : Lens \cup {0}, beat : Beat]] :
                          n \in 0 .. Depth}
    /\ req_cnt \in Beat /\ axi_cnt \in Beat /\ resp_outstanding \in 0 .. 2
    /\ {valid, awvalid, wvalid, wlast} \subseteq BOOLEAN
    /\ buf \in [write : BOOLEAN, len : Lens \cup {0}, beat : Beat, last : BOOLEAN]
    /\ cur \in [kind : {"none", "read", "write"}, len : Lens \cup {0},
                sent : 0 .. MaxLen + 1, got : 0 .. MaxLen]
    /\ ready \in Ready /\ resp \in {"none", "b", "r", "rlast"}
    /\ s_r \in 0 .. MaxLen + 1

\* The slave gets the address of a write once, its beats each once and in
\* order, and the last-beat mark on the last one only, however it delays AW
\* and W against each other (awvalid_q, wvalid_q and the skid buffer).
SlaveGetsTheBurst ==
    /\ s_aw \in {<<>>, <<cur.len>>}
    /\ \A i \in 1 .. Len(s_w) : s_w[i] = [beat |-> i - 1, last |-> i - 1 = cur.len]
    /\ s_aw # <<>> \/ s_w # <<>> => cur.kind = "write"
    /\ s_r > 0 => cur.kind = "read" /\ cur.got + s_r <= cur.len + 1

\* An answer reaches the cache only when it waits for one: for a write when
\* all beats are handed over, for a read as many as it asked for.  The model
\* of the cache takes this of its bus (CanAck in DCacheCore).
AnswerOnlyWhenDue ==
    inport_ack_o => /\ cur.kind = (IF resp = "b" THEN "write" ELSE "read")
                    /\ AllSent(cur)
                    /\ resp = "rlast" <=> cur.kind = "read" /\ cur.got = cur.len

\* The outstanding counter is 1 exactly from the cycle AXI has taken the
\* transaction's last beat from the FIFO to its last answer.
OutstandingExact ==
    resp_outstanding = IF cur.kind # "none" /\ AllSent(cur) /\ fifo = <<>>
                       THEN 1 ELSE 0

\* A transfer offered on AW, W or AR and not taken is offered unchanged in
\* the next cycle, as AXI demands of a master.
OfferStands ==
    /\ awvalid_o /\ ~ready.aw => (awvalid_o' /\ inport_w'.len = inport_w.len)
    /\ wvalid_o /\ ~ready.w => (wvalid_o' /\ inport_w'.beat = inport_w.beat
                                          /\ inport_w'.last = inport_w.last)
    /\ arvalid_o /\ ~ready.ar => (arvalid_o' /\ inport_w'.len = inport_w.len)
OffersStand == [][OfferStands]_vars

\* Every transaction gets its last answer.
Finished == resp \in {"b", "rlast"}
Completes == cur.kind # "none" ~> Finished

\* The bridge between cache and slave: counters in their widths and in step with
\* the transaction, the burst whole and in order at the slave, answers only when
\* the cache waits for them.
BridgeInv == TypeOK /\ SlaveGetsTheBurst /\ AnswerOnlyWhenDue /\ OutstandingExact
=============================================================================
