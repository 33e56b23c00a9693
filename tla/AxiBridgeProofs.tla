--------------------------- MODULE AxiBridgeProofs ---------------------------
(***************************************************************************)
(* Proofs about the AXI bridge of the data cache (AxiBridge.tla): for      *)
(* every set of burst lengths up to 256 beats, every master that offers    *)
(* its beats in order and every slave that answers what it was given, the  *)
(* bridge hands over each burst whole and in order, accepts answers only   *)
(* for what it sent, and keeps an offer on AXI until it is taken. The      *)
(* invariant says, phase by phase of the one transaction in progress,      *)
(* where every beat is: still in the FIFO, in the skid buffer, or at the   *)
(* slave.                                                                  *)
(***************************************************************************)
EXTENDS AxiBridge, SequenceTheorems, WellFoundedInduction, TLAPS

\* Beat k of the write t, as the FIFO holds it: only the first one carries the
\* length.
WBeat(t, k) == [rd |-> FALSE, len |-> IF k = 0 THEN t.len ELSE 0, beat |-> k]

\* The single request of a read.
RBeat(t) == [rd |-> TRUE, len |-> t.len, beat |-> 0]

\* A transaction of which the first beat has been handed over.
Started(k, n) == [kind |-> k, len |-> n, sent |-> 1, got |-> 0]

\* Beats of the write burst that have left the FIFO.
popped == cur.sent - Len(fifo)

\* No burst is counted, nothing is in the skid buffer or half accepted.
AtRest == /\ req_cnt = 0 /\ axi_cnt = 0 /\ resp_outstanding \in {0, 1}
          /\ ~valid /\ ~awvalid /\ ~wvalid /\ buf = NoReq

\* The slave has nothing it still owes an answer for.
NothingTaken == s_aw = <<>> /\ s_w = <<>> /\ s_r = 0

\* The FIFO holds the beats handed over of which p have left it, two at most.
FifoHolds(t, p) ==
    \/ t.sent = p /\ fifo = <<>>
    \/ t.sent = p + 1 /\ fifo = <<WBeat(t, p)>>
    \/ t.sent = p + 2 /\ fifo = <<WBeat(t, p), WBeat(t, p + 1)>>

\* No transaction.
IdleInv == /\ cur = Idle /\ resp = "none" /\ fifo = <<>>
           /\ AtRest /\ resp_outstanding = 0 /\ NothingTaken

\* A read in the FIFO.
AskedInv == /\ cur.kind = "read" /\ cur.sent = 1 /\ cur.got = 0 /\ resp = "none"
            /\ fifo = <<RBeat(cur)>>
            /\ AtRest /\ resp_outstanding = 0 /\ NothingTaken

\* A read at the slave: beats answered and beats owed make up its length.
ReadingInv ==
    /\ cur.kind = "read" /\ cur.sent = 1 /\ fifo = <<>>
    /\ AtRest /\ resp_outstanding = 1 /\ s_aw = <<>> /\ s_w = <<>>
    /\ \/ resp = "none" /\ s_r > 0 /\ cur.got + s_r = cur.len + 1
       \/ resp = "r" /\ s_r > 0 /\ cur.got + s_r = cur.len
       \/ resp = "rlast" /\ s_r = 0 /\ cur.got = cur.len

\* What AXI has taken of the p beats out of the FIFO: all of them, or all but
\* the address or the data of the first, which the skid buffer keeps.
SkidHolds(t, p, v, b, av, wv, wl, aw, w) ==
    \/ /\ ~v /\ b = NoReq /\ ~wv /\ Len(w) = p
       /\ aw = IF p = 0 THEN <<>> ELSE <<t.len>>
       /\ av <=> p \in 1 .. t.len
    \/ /\ v /\ p = 1
       /\ b.write = TRUE /\ b.len = t.len /\ b.beat = 0 /\ b.last = (t.len = 0)
       /\ \/ av /\ ~wv /\ aw = <<t.len>> /\ w = <<>>
          \/ ~av /\ wv /\ (wl <=> t.len = 0) /\ aw = <<>> /\ Len(w) = 1

\* The beats at the slave are the burst's first ones, the last of it marked.
BurstInOrder(t, w) ==
    \A i \in 1 .. Len(w) : w[i] = [beat |-> i - 1, last |-> i - 1 = t.len]

\* A write that has not been answered; its counters follow from the beats that
\* left the FIFO.
WritingInv ==
    /\ cur.kind = "write" /\ cur.got = 0 /\ resp = "none" /\ s_r = 0
    /\ popped \in 0 .. cur.len + 1 /\ cur.sent \in 1 .. cur.len + 1
    /\ FifoHolds(cur, popped)
    /\ axi_cnt = (IF popped = 0 THEN 0 ELSE cur.len + 1 - popped)
    /\ req_cnt = (IF popped = 0 \/ popped > cur.len THEN 0 ELSE cur.len - popped)
    /\ resp_outstanding = (IF popped = cur.len + 1 THEN 1 ELSE 0)
    /\ SkidHolds(cur, popped, valid, buf, awvalid, wvalid, wlast, s_aw, s_w)
    /\ BurstInOrder(cur, s_w)

\* The cycle in which a write is answered.
WrittenInv == /\ cur.kind = "write" /\ cur.sent = cur.len + 1 /\ cur.got = 0
              /\ resp = "b" /\ fifo = <<>>
              /\ AtRest /\ resp_outstanding = 1 /\ NothingTaken

\* What a FIFO entry or the skid buffer can hold.
Request == [write : BOOLEAN, len : Nat, beat : Nat, last : BOOLEAN]

\* The types the steps need.
Types == /\ cur \in [kind : {"none", "read", "write"}, len : Lens \cup {0}, sent : Nat, got : Nat]
         /\ cur.kind # "none" => cur.len \in Lens
         /\ valid \in BOOLEAN /\ awvalid \in BOOLEAN /\ wvalid \in BOOLEAN /\ wlast \in BOOLEAN
         /\ ready \in Ready /\ s_r \in Nat
         /\ s_w \in Seq([beat : Nat, last : BOOLEAN])
         /\ buf \in Request

\* The inductive invariant.
Inv == /\ Types
       /\ IdleInv \/ AskedInv \/ ReadingInv \/ WritingInv \/ WrittenInv

-----------------------------------------------------------------------------

\* AXI lengths fit in eight bits.
LEMMA LenType == \A n \in Lens : n \in 0 .. 255
  BY LensAssumption

\* A nonempty set of naturals has a least element.
LEMMA LeastNumber ==
    ASSUME NEW S \in SUBSET Nat, S # {}
    PROVE  \E n \in S : \A k \in S : n <= k
<1>1. IsWellFoundedOn({p \in Nat \X Nat : p[1] < p[2]}, Nat)
  BY NatLessThanWellFounded, Zenon DEF OpToRel
<1>2. PICK n \in S : \A k \in S : <<k, n>> \notin {p \in Nat \X Nat : p[1] < p[2]}
  BY <1>1, WFMin, Zenon
<1>3. ASSUME NEW k \in S PROVE n <= k
  <2>. DEFINE p == <<k, n>>
  <2>1. p \in Nat \X Nat /\ p[1] = k /\ p[2] = n
    OBVIOUS
  <2>. QED
    BY <2>1, <1>2
<1>. QED
  BY <1>3

\* A nonempty set of naturals that has a bound has a greatest element: its least
\* bound.
LEMMA GreatestNumber ==
    ASSUME NEW m \in Nat, NEW S \in SUBSET (0 .. m), S # {}
    PROVE  \E n \in S : \A k \in S : k <= n
<1>. DEFINE Bound == {b \in Nat : \A k \in S : k <= b}
<1>1. Bound \in SUBSET Nat /\ m \in Bound
  OBVIOUS
<1>2. PICK n \in Bound : \A b \in Bound : n <= b
  <2>. HIDE DEF Bound
  <2>. QED
    BY <1>1, LeastNumber
<1>3. ASSUME n \notin S PROVE FALSE
  <2>1. \A k \in S : k \in Nat /\ k <= n /\ k # n
    BY <1>2, <1>3
  <2>2. PICK k \in S : TRUE
    OBVIOUS
  <2>3. n - 1 \in Bound
    BY <2>1, <2>2
  <2>. QED
    BY <2>3, <1>2
<1>. QED
  BY <1>2, <1>3

\* MaxLen is the greatest of the lengths.
LEMMA MaxLenIsMax == MaxLen \in Lens /\ \A k \in Lens : k <= MaxLen
<1>1. \E n \in Lens : \A k \in Lens : k <= n
  BY LensAssumption, GreatestNumber, 255 \in Nat
<1>. QED
  BY <1>1, Zenon DEF MaxLen

-----------------------------------------------------------------------------

\* What the master can offer: the next beat of the write in progress, a first
\* beat when there is no transaction, or nothing.
LEMMA OfferCases ==
    ASSUME NEW o \in Offers
    PROVE  \/ o.in = <<>> /\ o.next = Acked
           \/ /\ Acked.kind = "none"
              /\ \E n \in Lens :
                   \/ /\ o.in = <<RBeat(Started("read", n))>> /\ o.next = Started("read", n)
                   \/ /\ o.in = <<WBeat(Started("write", n), 0)>> /\ o.next = Started("write", n)
           \/ /\ Acked.kind # "none" /\ ~AllSent(Acked)
              /\ o.in = <<[rd |-> FALSE, len |-> 0, beat |-> Acked.sent]>>
              /\ o.next = [Acked EXCEPT !.sent = @ + 1]
<1>1. CASE Acked.kind = "none"
  <2>1. CASE o = [in |-> <<>>, next |-> Acked]
    BY <2>1
  <2>2. CASE o # [in |-> <<>>, next |-> Acked]
    <3>1. PICK k \in {"read", "write"}, n \in Lens :
             o = [in |-> <<[rd |-> k = "read", len |-> n, beat |-> 0]>>,
                  next |-> [kind |-> k, len |-> n, sent |-> 1, got |-> 0]]
      BY <1>1, <2>2 DEF Offers
    <3>2. CASE k = "read"
      <4>1. [rd |-> k = "read", len |-> n, beat |-> 0] = RBeat(Started("read", n))
        BY <3>2 DEF RBeat, Started
      <4>. QED
        BY <3>1, <3>2, <4>1, <1>1 DEF Started
    <3>3. CASE k = "write"
      <4>1. [rd |-> k = "read", len |-> n, beat |-> 0] = WBeat(Started("write", n), 0)
        BY <3>3 DEF WBeat, Started
      <4>. QED
        BY <3>1, <3>3, <4>1, <1>1 DEF Started
    <3>. QED
      BY <3>2, <3>3
  <2>. QED
    BY <2>1, <2>2
<1>2. CASE Acked.kind # "none"
  <2>1. CASE AllSent(Acked)
    BY <1>2, <2>1 DEF Offers
  <2>2. CASE ~AllSent(Acked)
    <3>. DEFINE idle == [in |-> <<>>, next |-> Acked]
                beat == <<[rd |-> FALSE, len |-> 0, beat |-> Acked.sent]>>
                more == [Acked EXCEPT !.sent = @ + 1]
    <3>1. Offers = {idle} \cup {[in |-> beat, next |-> more]}
      BY <1>2, <2>2 DEF Offers
    <3>. HIDE DEF beat, more
    <3>2. (o.in = <<>> /\ o.next = Acked) \/ (o.in = beat /\ o.next = more)
      BY <3>1
    <3>. QED
      BY <1>2, <2>2, <3>2 DEF beat, more
  <2>. QED
    BY <2>1, <2>2
<1>. QED
  BY <1>1, <1>2

\* With nothing in the FIFO and the skid buffer, the bridge offers nothing to
\* AXI and its registers stay at rest.
LEMMA RestStep ==
    ASSUME Types, AtRest, fifo = <<>>, NEW in, in \in {<<>>} \/ \E b : in = <<b>>, BridgeClk(in)
    PROVE  /\ req_cnt' = 0 /\ axi_cnt' = 0 /\ ~valid' /\ ~awvalid' /\ ~wvalid' /\ buf' = NoReq
           /\ wlast' = wlast /\ fifo' = in
           /\ resp_outstanding' = (IF resp \in {"b", "rlast"} THEN 0 ELSE resp_outstanding)
           /\ GotAw = s_aw /\ GotW = s_w /\ Owed = s_r /\ inport_accept_o
<1>1. ~inport_valid_w /\ inport_w = NoReq
  BY DEF AtRest, inport_valid_w, inport_w, req_can_issue_w
<1>2. ~awvalid_o /\ ~wvalid_o /\ ~arvalid_o
  BY <1>1 DEF awvalid_o, wvalid_o, arvalid_o
<1>3. ~aw_taken /\ ~w_taken /\ ~ar_taken /\ ~accept_w
  BY <1>2 DEF aw_taken, w_taken, ar_taken, accept_w
<1>4. ~req_is_write_w /\ ~req_is_read_w
  BY DEF req_is_write_w, req_is_read_w, req_can_issue_w
<1>5. req_cnt' = 0 /\ axi_cnt' = 0
  BY <1>3 DEF AtRest, BridgeClk, ReqCntClk, AxiCntClk
<1>6. ~valid' /\ buf' = NoReq
  BY <1>3 DEF AtRest, BridgeClk, SkidClk
<1>7. ~awvalid' /\ ~wvalid' /\ wlast' = wlast
  BY <1>3 DEF AtRest, BridgeClk, AwvalidClk, WvalidClk, wr_cmd_accepted_w
<1>8. inport_accept_o /\ fifo' = in
  BY <1>3 DEF inport_accept_o, Depth, BridgeClk, FifoClk
<1>9. resp_outstanding' = (IF resp \in {"b", "rlast"} THEN 0 ELSE resp_outstanding)
  BY <1>3 DEF AtRest, BridgeClk, OutstandingClk, res_push_w, resp_pop_w
<1>. QED
  BY <1>3, <1>5, <1>6, <1>7, <1>8, <1>9 DEF GotAw, GotW, Owed

\* The cycle after which the master has no transaction, or has just begun one.
LEMMA BeginStep ==
    ASSUME NEW o \in Offers, MasterClk(o), inport_accept_o, Acked = Idle, fifo' = o.in,
           (AtRest /\ NothingTaken)', resp_outstanding' = 0, resp' = "none"
    PROVE  (IdleInv \/ AskedInv \/ WritingInv)'
<1>1. cur' = o.next
  BY DEF MasterClk
<1>2. CASE o.in = <<>> /\ o.next = Acked
  BY <1>1, <1>2 DEF IdleInv
<1>3. ASSUME NEW n \in Lens, o.in = <<RBeat(Started("read", n))>>, o.next = Started("read", n)
      PROVE  AskedInv'
  BY <1>1, <1>3 DEF AskedInv, Started
<1>4. ASSUME NEW n \in Lens, o.in = <<WBeat(Started("write", n), 0)>>,
             o.next = Started("write", n)
      PROVE  WritingInv'
  <2>1. cur' = Started("write", n) /\ fifo' = <<WBeat(cur', 0)>>
    BY <1>1, <1>4
  <2>2. cur'.kind = "write" /\ cur'.len = n /\ cur'.sent = 1 /\ cur'.got = 0
    BY <2>1 DEF Started
  <2>3. Len(fifo') = 1
    BY <2>1
  <2>4. popped' = 0
    BY <2>2, <2>3 DEF popped
  <2>5. FifoHolds(cur, popped)'
    BY <2>1, <2>2, <2>4 DEF FifoHolds
  <2>6. n \in Nat
    BY LenType
  <2>7. popped' \in 0 .. cur'.len + 1 /\ cur'.sent \in 1 .. cur'.len + 1
    BY <2>2, <2>4, <2>6
  <2>8. /\ ~valid' /\ buf' = NoReq /\ ~awvalid' /\ ~wvalid'
        /\ s_aw' = <<>> /\ s_w' = <<>> /\ s_r' = 0 /\ axi_cnt' = 0 /\ req_cnt' = 0
    BY DEF AtRest, NothingTaken
  <2>9. Len(s_w') = 0 /\ popped' \notin 1 .. cur'.len
    BY <2>8, <2>4
  <2>10. popped' # cur'.len + 1
    BY <2>2, <2>4, <2>6
  <2>. QED
    <3>1. SkidHolds(cur, popped, valid, buf, awvalid, wvalid, wlast, s_aw, s_w)'
      BY <2>4, <2>8, <2>9 DEF SkidHolds
    <3>2. BurstInOrder(cur, s_w)'
      BY <2>9 DEF BurstInOrder
    <3>. QED
      BY <2>2, <2>4, <2>5, <2>7, <2>8, <2>10, <3>1, <3>2 DEF WritingInv
<1>5. Acked.kind = "none"
  BY DEF Idle
<1>. QED
  BY <1>2, <1>3, <1>4, <1>5, OfferCases

\* Counting an answer keeps the type of the transaction.
LEMMA AckedType ==
    ASSUME Types
    PROVE  /\ Acked \in [kind : {"none", "read", "write"}, len : Lens \cup {0}, sent : Nat, got : Nat]
           /\ Acked.kind # "none" => /\ Acked.len = cur.len /\ Acked.kind = cur.kind
                                     /\ Acked.sent = cur.sent /\ cur.kind # "none"
<1>1. Idle \in [kind : {"none", "read", "write"}, len : Lens \cup {0}, sent : Nat, got : Nat]
  BY DEF Idle
<1>. QED
  BY <1>1 DEF Types, Acked, Idle

\* The transaction keeps its type over a cycle.
LEMMA CurType ==
    ASSUME Types
    PROVE  /\ cur.len \in Nat /\ cur.got \in Nat /\ cur.sent \in Nat
           /\ cur.kind # "none" => cur.len \in Lens
<1>1. cur.len \in Lens \cup {0}
  BY DEF Types
<1>2. cur.len \in Nat
  BY <1>1, LenType
<1>3. cur.got \in Nat /\ cur.sent \in Nat /\ (cur.kind # "none" => cur.len \in Lens)
  BY DEF Types
<1>. QED
  BY <1>2, <1>3

\* The registers whose type needs no more than the types before the step.
LEMMA TypesStep ==
    ASSUME Types, NEW o \in Offers, NEW rdy \in Ready, NEW answer \in BOOLEAN,
           Clk(o, rdy, answer), s_r' \in Nat, s_w' \in Seq([beat : Nat, last : BOOLEAN]),
           inport_w \in Request
    PROVE  Types'
<1>1. /\ Acked \in [kind : {"none", "read", "write"}, len : Lens \cup {0}, sent : Nat, got : Nat]
      /\ Acked.kind # "none" => Acked.len \in Lens
  BY AckedType DEF Types
<1>2. /\ o.next \in [kind : {"none", "read", "write"}, len : Lens \cup {0}, sent : Nat, got : Nat]
      /\ o.next.kind # "none" => o.next.len \in Lens
  <2>1. CASE o.next = Acked
    BY <2>1, <1>1
  <2>2. ASSUME NEW n \in Lens, o.next = Started("read", n) \/ o.next = Started("write", n)
        PROVE  /\ o.next \in [kind : {"none", "read", "write"}, len : Lens \cup {0},
                              sent : Nat, got : Nat]
               /\ o.next.len \in Lens
    BY <2>2 DEF Started
  <2>3. CASE o.next = [Acked EXCEPT !.sent = @ + 1]
    <3>. DEFINE a == Acked
    <3>1. a \in [kind : {"none", "read", "write"}, len : Lens \cup {0}, sent : Nat, got : Nat]
      BY <1>1
    <3>2. a.sent + 1 \in Nat
      BY <3>1
    <3>3. o.next = [a EXCEPT !.sent = a.sent + 1]
      BY <2>3
    <3>. HIDE DEF a
    <3>4. /\ o.next \in [kind : {"none", "read", "write"}, len : Lens \cup {0},
                          sent : Nat, got : Nat]
          /\ o.next.kind = a.kind /\ o.next.len = a.len
      BY <3>1, <3>2, <3>3
    <3>. QED
      BY <3>4, <1>1 DEF a
  <2>. QED
    BY <2>1, <2>2, <2>3, OfferCases
<1>3. /\ cur' \in [kind : {"none", "read", "write"}, len : Lens \cup {0}, sent : Nat, got : Nat]
      /\ cur'.kind # "none" => cur'.len \in Lens
  BY <1>1, <1>2 DEF Clk, MasterClk
<1>4. valid' \in BOOLEAN
  BY DEF Clk, BridgeClk, SkidClk
<1>5. awvalid' \in BOOLEAN
  BY DEF Clk, BridgeClk, AwvalidClk, Types, aw_taken
<1>6. wvalid' \in BOOLEAN
  BY DEF Clk, BridgeClk, WvalidClk, Types, w_taken
<1>7. wlast' \in BOOLEAN
  BY DEF Clk, BridgeClk, WvalidClk, Types, Request
<1>8. ready' \in Ready
  BY DEF Clk, SlaveClk
<1>9. buf' \in Request
  BY DEF Clk, BridgeClk, SkidClk, NoReq, Request
<1>. QED
  BY <1>3, <1>4, <1>5, <1>6, <1>7, <1>8, <1>9 DEF Types

\* A slave that owes nothing answers nothing.
LEMMA SilentSlave ==
    ASSUME NEW rdy, NEW answer, SlaveClk(rdy, answer), ~WriteDue, Owed = 0
    PROVE  resp' = "none" /\ s_aw' = GotAw /\ s_w' = GotW /\ s_r' = 0
BY DEF SlaveClk

\* A cycle without a transaction.
LEMMA IdleStep ==
    ASSUME Types, IdleInv, NEW o \in Offers, NEW rdy \in Ready, NEW answer \in BOOLEAN,
           Clk(o, rdy, answer)
    PROVE  (Types /\ (IdleInv \/ AskedInv \/ WritingInv))'
<1>. USE DEF IdleInv
<1>1. o.in \in {<<>>} \/ \E b : o.in = <<b>>
  BY OfferCases
<1>2. /\ req_cnt' = 0 /\ axi_cnt' = 0 /\ ~valid' /\ ~awvalid' /\ ~wvalid' /\ buf' = NoReq
      /\ wlast' = wlast /\ fifo' = o.in /\ resp_outstanding' = 0
      /\ GotAw = s_aw /\ GotW = s_w /\ Owed = s_r /\ inport_accept_o
  BY <1>1, RestStep DEF Clk
<1>3. ~WriteDue /\ Owed = 0
  BY <1>2 DEF WriteDue, NothingTaken
<1>4. resp' = "none" /\ s_aw' = <<>> /\ s_w' = <<>> /\ s_r' = 0
  BY <1>2, <1>3, SilentSlave DEF Clk, NothingTaken
<1>5. Acked = Idle
  BY DEF Acked, inport_ack_o
<1>6. (AtRest /\ NothingTaken)'
  BY <1>2, <1>4 DEF AtRest, NothingTaken
<1>7. (IdleInv \/ AskedInv \/ WritingInv)'
  BY <1>2, <1>4, <1>5, <1>6, BeginStep DEF Clk
<1>8. inport_w \in Request
  BY DEF AtRest, inport_w, req_can_issue_w, NoReq, Request
<1>9. Types'
  BY <1>4, <1>8, TypesStep
<1>. QED
  BY <1>7, <1>9

\* The master adds nothing once all beats of its transaction are handed over.
LEMMA NoMore ==
    ASSUME NEW o \in Offers, MasterClk(o), Acked.kind # "none", AllSent(Acked)
    PROVE  o.in = <<>> /\ cur' = Acked
  BY OfferCases DEF MasterClk

\* A read in the FIFO goes to AXI when AXI is ready for it, and stays until
\* then.
LEMMA AskedStep ==
    ASSUME Types, AskedInv, NEW o \in Offers, NEW rdy \in Ready, NEW answer \in BOOLEAN,
           Clk(o, rdy, answer)
    PROVE  (Types /\ (AskedInv \/ ReadingInv))'
<1>. USE DEF AskedInv
<1>1. Acked = cur
  BY DEF Acked, inport_ack_o
<1>2. o.in = <<>> /\ cur' = cur
  BY <1>1, NoMore DEF AllSent, Beats, Clk
<1>3. fifo # <<>> /\ Head(fifo) = RBeat(cur) /\ Tail(fifo) = <<>> /\ Len(fifo) = 1
  OBVIOUS
<1>4. Head(fifo).rd = TRUE /\ Head(fifo).len = cur.len
  BY <1>3 DEF RBeat
<1>5. req_can_issue_w /\ ~req_is_write_w /\ req_is_read_w
  BY <1>3, <1>4 DEF req_can_issue_w, req_is_write_w, req_is_read_w
<1>6. inport_w.write = FALSE /\ inport_w.len = cur.len /\ inport_w \in Request
  <2>1. Head(fifo).beat = 0 /\ cur.len \in Nat
    BY <1>3, CurType DEF RBeat
  <2>2. inport_wlast(Head(fifo)) \in BOOLEAN
    BY DEF inport_wlast
  <2>3. inport_w = [write |-> ~Head(fifo).rd, len |-> Head(fifo).len, beat |-> Head(fifo).beat,
                    last |-> inport_wlast(Head(fifo))]
    BY <1>5 DEF inport_w, AtRest
  <2>4. (~Head(fifo).rd) = FALSE /\ Head(fifo).len = cur.len
    BY <1>4
  <2>. DEFINE last == inport_wlast(Head(fifo))
  <2>5. inport_w = [write |-> FALSE, len |-> cur.len, beat |-> 0, last |-> last]
    BY <2>1, <2>3, <2>4
  <2>6. last \in BOOLEAN
    BY <2>2
  <2>. HIDE DEF last
  <2>. QED
    BY <2>1, <2>5, <2>6 DEF Request
<1>7. ~awvalid_o /\ ~wvalid_o /\ arvalid_o
  BY <1>5, <1>6 DEF awvalid_o, wvalid_o, arvalid_o, inport_valid_w
<1>8. ~aw_taken /\ ~w_taken /\ (ar_taken <=> ready.ar) /\ (accept_w <=> ready.ar)
  BY <1>7 DEF aw_taken, w_taken, ar_taken, accept_w, AtRest
<1>9. req_cnt' = 0 /\ axi_cnt' = 0
  BY <1>5, <1>6 DEF Clk, BridgeClk, ReqCntClk, AxiCntClk, AtRest
<1>10. ~valid' /\ buf' = NoReq
  BY <1>7, <1>8 DEF Clk, BridgeClk, SkidClk, AtRest, all_taken
<1>11. ~awvalid' /\ ~wvalid'
  BY <1>8 DEF Clk, BridgeClk, AwvalidClk, WvalidClk, AtRest, wr_cmd_accepted_w
<1>12. fifo' = IF ready.ar THEN <<>> ELSE fifo
  BY <1>2, <1>3, <1>8 DEF Clk, BridgeClk, FifoClk
<1>13. resp_outstanding' = IF ready.ar THEN 1 ELSE 0
  BY <1>5, <1>8 DEF Clk, BridgeClk, OutstandingClk, res_push_w, resp_pop_w
<1>14. cur.len \in Nat
  BY CurType
<1>15. /\ GotAw = <<>> /\ GotW = <<>> /\ ~WriteDue
       /\ Owed = IF ready.ar THEN cur.len + 1 ELSE 0
  BY <1>6, <1>8, <1>14 DEF GotAw, GotW, Owed, WriteDue, NothingTaken
<1>16. AtRest'
  BY <1>9, <1>10, <1>11, <1>13 DEF AtRest
<1>17. CASE ~ready.ar
  <2>1. resp' = "none" /\ s_aw' = <<>> /\ s_w' = <<>> /\ s_r' = 0
    BY <1>15, <1>17, SilentSlave DEF Clk
  <2>2. AskedInv'
    BY <1>2, <1>12, <1>13, <1>16, <1>17, <2>1 DEF NothingTaken
  <2>3. Types'
    BY <1>6, <2>1, TypesStep
  <2>. QED
    BY <2>2, <2>3
<1>18. CASE ready.ar
  <2>1. /\ s_aw' = <<>> /\ s_w' = <<>>
        /\ \/ resp' = "none" /\ s_r' = cur.len + 1
           \/ resp' = "rlast" /\ s_r' = 0 /\ cur.len = 0
           \/ resp' = "r" /\ s_r' = cur.len /\ cur.len > 0
    BY <1>14, <1>15, <1>18 DEF Clk, SlaveClk
  <2>2. ReadingInv'
    BY <1>2, <1>12, <1>13, <1>14, <1>16, <1>18, <2>1 DEF ReadingInv
  <2>3. Types'
    BY <1>6, <1>14, <2>1, TypesStep
  <2>. QED
    BY <2>2, <2>3
<1>. QED
  BY <1>17, <1>18

\* Every beat of a read answered is one owed less, and the last is marked.
LEMMA ReadingStep ==
    ASSUME Types, ReadingInv, NEW o \in Offers, NEW rdy \in Ready, NEW answer \in BOOLEAN,
           Clk(o, rdy, answer)
    PROVE  (Types /\ (IdleInv \/ AskedInv \/ ReadingInv \/ WritingInv))'
<1>. USE DEF ReadingInv
<1>1. o.in \in {<<>>} \/ \E b : o.in = <<b>>
  BY OfferCases
<1>2. /\ req_cnt' = 0 /\ axi_cnt' = 0 /\ ~valid' /\ ~awvalid' /\ ~wvalid' /\ buf' = NoReq
      /\ wlast' = wlast /\ fifo' = o.in
      /\ resp_outstanding' = (IF resp \in {"b", "rlast"} THEN 0 ELSE resp_outstanding)
      /\ GotAw = s_aw /\ GotW = s_w /\ Owed = s_r /\ inport_accept_o
  BY <1>1, RestStep DEF Clk
<1>3. ~WriteDue
  BY <1>2 DEF WriteDue
<1>4. inport_w \in Request
  BY DEF AtRest, inport_w, req_can_issue_w, NoReq, Request
<1>5. cur.len \in Nat /\ cur.got \in Nat /\ s_r \in Nat
  BY CurType DEF Types
<1>6. CASE resp = "rlast"
  <2>1. Acked = Idle
    BY <1>5, <1>6 DEF Acked, inport_ack_o, Answers
  <2>2. resp' = "none" /\ s_aw' = <<>> /\ s_w' = <<>> /\ s_r' = 0
    BY <1>2, <1>3, <1>6, SilentSlave DEF Clk
  <2>3. (AtRest /\ NothingTaken)' /\ resp_outstanding' = 0
    BY <1>2, <1>6, <2>2 DEF AtRest, NothingTaken
  <2>4. (IdleInv \/ AskedInv \/ WritingInv)'
    BY <1>2, <2>1, <2>2, <2>3, BeginStep DEF Clk
  <2>5. Types'
    BY <1>4, <2>2, TypesStep
  <2>. QED
    BY <2>4, <2>5
<1>7. CASE resp \in {"none", "r"}
  <2>1. /\ Acked.kind = "read" /\ Acked.len = cur.len /\ Acked.sent = 1
        /\ Acked.got = IF resp = "r" THEN cur.got + 1 ELSE cur.got
    BY <1>5, <1>7 DEF Acked, inport_ack_o, Answers, Types
  <2>2. o.in = <<>> /\ cur' = Acked
    BY <2>1, NoMore DEF AllSent, Beats, Clk
  <2>3. /\ s_aw' = <<>> /\ s_w' = <<>>
        /\ \/ resp' = "none" /\ s_r' = s_r
           \/ resp' = "rlast" /\ s_r' = 0 /\ s_r = 1
           \/ resp' = "r" /\ s_r' = s_r - 1 /\ s_r > 1
    BY <1>2, <1>3, <1>5, <1>7 DEF Clk, SlaveClk
  <2>4. AtRest' /\ resp_outstanding' = 1
    BY <1>2, <1>7 DEF AtRest
  <2>5. ReadingInv'
    BY <1>2, <1>5, <1>7, <2>1, <2>2, <2>3, <2>4
  <2>6. Types'
    BY <1>4, <1>5, <2>3, TypesStep
  <2>. QED
    BY <2>5, <2>6
<1>. QED
  BY <1>6, <1>7

\* The cycle of the answer to a write ends it.
LEMMA WrittenStep ==
    ASSUME Types, WrittenInv, NEW o \in Offers, NEW rdy \in Ready, NEW answer \in BOOLEAN,
           Clk(o, rdy, answer)
    PROVE  (Types /\ (IdleInv \/ AskedInv \/ WritingInv))'
<1>. USE DEF WrittenInv
<1>1. o.in \in {<<>>} \/ \E b : o.in = <<b>>
  BY OfferCases
<1>2. /\ req_cnt' = 0 /\ axi_cnt' = 0 /\ ~valid' /\ ~awvalid' /\ ~wvalid' /\ buf' = NoReq
      /\ wlast' = wlast /\ fifo' = o.in /\ resp_outstanding' = 0
      /\ GotAw = s_aw /\ GotW = s_w /\ Owed = s_r /\ inport_accept_o
  BY <1>1, RestStep DEF Clk
<1>3. ~WriteDue /\ Owed = 0
  BY <1>2 DEF WriteDue, NothingTaken
<1>4. resp' = "none" /\ s_aw' = <<>> /\ s_w' = <<>> /\ s_r' = 0
  BY <1>2, <1>3, SilentSlave DEF Clk, NothingTaken
<1>5. Acked = Idle
  BY DEF Acked, inport_ack_o, Answers
<1>6. (AtRest /\ NothingTaken)'
  BY <1>2, <1>4 DEF AtRest, NothingTaken
<1>7. (IdleInv \/ AskedInv \/ WritingInv)'
  BY <1>2, <1>4, <1>5, <1>6, BeginStep DEF Clk
<1>8. inport_w \in Request
  BY DEF AtRest, inport_w, req_can_issue_w, NoReq, Request
<1>9. Types'
  BY <1>4, <1>8, TypesStep
<1>. QED
  BY <1>7, <1>9

-----------------------------------------------------------------------------
(* A write in progress. *)

\* Queues of at most two entries, by head and tail.
LEMMA ShortQueues ==
    ASSUME NEW a, NEW b
    PROVE  /\ Tail(<<a>>) = <<>> /\ Tail(<<a, b>>) = <<b>>
           /\ <<>> \o <<a>> = <<a>> /\ <<>> \o <<>> = <<>>
           /\ <<a>> \o <<>> = <<a>> /\ <<a, b>> \o <<>> = <<a, b>>
           /\ <<a>> \o <<b>> = <<a, b>>
<1>1. <<a>> \o <<b>> = <<a, b>>
  <2>1. <<a>> \in Seq({a, b}) /\ b \in {a, b}
    OBVIOUS
  <2>2. <<a>> \o <<b>> = Append(<<a>>, b)
    BY <2>1, AppendIsConcat
  <2>. DEFINE s == Append(<<a>>, b)
              t == <<a, b>>
  <2>3. s \in Seq({a, b}) /\ Len(s) = 2 /\ s[1] = a /\ s[2] = b
    BY <2>1
  <2>4. t \in Seq({a, b}) /\ Len(t) = 2 /\ t[1] = a /\ t[2] = b
    OBVIOUS
  <2>. HIDE DEF s, t
  <2>5. \A i \in 1 .. Len(s) : s[i] = t[i]
    BY <2>3, <2>4
  <2>6. s = t
    BY <2>3, <2>4, <2>5, SeqEqual
  <2>. QED
    BY <2>2, <2>6 DEF s, t
<1>. QED
  BY <1>1

\* The FIFO moves on by the beat taken and the beat offered, whatever the
\* order.
LEMMA FifoStep ==
    ASSUME Types, WritingInv, NEW o \in Offers, NEW rdy \in Ready, NEW answer \in BOOLEAN,
           Clk(o, rdy, answer), accept_w => fifo # <<>>
    PROVE  /\ cur'.kind = "write" /\ cur'.len = cur.len /\ cur'.got = 0
           /\ cur'.sent \in 1 .. cur.len + 1 /\ cur'.sent >= cur.sent
           /\ popped' = IF accept_w THEN popped + 1 ELSE popped
           /\ popped' \in 0 .. cur.len + 1
           /\ FifoHolds(cur, popped)'
<1>. USE DEF WritingInv
<1>1. cur.len \in Nat /\ cur.sent \in Nat
  BY CurType
<1>2. Acked = cur
  BY DEF Acked, inport_ack_o
<1>3. \/ o.in = <<>> /\ o.next = cur
      \/ /\ cur.sent <= cur.len /\ o.in = <<WBeat(cur, cur.sent)>>
         /\ o.next = [cur EXCEPT !.sent = @ + 1]
  <2>1. CASE o.in = <<>> /\ o.next = Acked
    BY <1>2, <2>1
  <2>2. CASE /\ ~AllSent(Acked)
             /\ o.in = <<[rd |-> FALSE, len |-> 0, beat |-> Acked.sent]>>
             /\ o.next = [Acked EXCEPT !.sent = @ + 1]
    <3>1. cur.sent <= cur.len
      BY <1>1, <1>2, <2>2 DEF AllSent, Beats
    <3>2. WBeat(cur, cur.sent) = [rd |-> FALSE, len |-> 0, beat |-> cur.sent]
      BY cur.sent # 0 DEF WBeat
    <3>. QED
      BY <1>2, <2>2, <3>1, <3>2
  <2>. QED
    BY <1>2, <2>1, <2>2, OfferCases
<1>4. [cur EXCEPT !.sent = @ + 1].kind = "write" /\ [cur EXCEPT !.sent = @ + 1].len = cur.len
      /\ [cur EXCEPT !.sent = @ + 1].got = 0 /\ [cur EXCEPT !.sent = @ + 1].sent = cur.sent + 1
  BY DEF Types
<1>5. fifo' = (IF accept_w THEN Tail(fifo) ELSE fifo) \o (IF inport_accept_o THEN o.in ELSE <<>>)
  BY DEF Clk, BridgeClk, FifoClk
<1>6. cur' = IF inport_accept_o THEN o.next ELSE cur
  BY <1>2 DEF Clk, MasterClk
<1>7. \A t, k : t.len = cur.len => WBeat(t, k) = WBeat(cur, k)
  BY DEF WBeat
<1>8. \A k : WBeat(cur, k) = WBeat(cur', k)
  <2>1. cur'.len = cur.len
    BY <1>3, <1>4, <1>6
  <2>. QED
    BY <1>7, <2>1
<1>9. \/ /\ cur'.kind = "write" /\ cur'.len = cur.len /\ cur'.got = 0
         /\ cur'.sent = cur.sent
         /\ fifo' = (IF accept_w THEN Tail(fifo) ELSE fifo) \o <<>>
      \/ /\ cur'.kind = "write" /\ cur'.len = cur.len /\ cur'.got = 0
         /\ cur'.sent = cur.sent + 1 /\ cur.sent <= cur.len /\ inport_accept_o
         /\ fifo' = (IF accept_w THEN Tail(fifo) ELSE fifo) \o <<WBeat(cur', cur.sent)>>
  <2>1. CASE ~inport_accept_o
    BY <1>5, <1>6, <2>1
  <2>2. CASE inport_accept_o /\ o.in = <<>> /\ o.next = cur
    BY <1>5, <1>6, <2>2
  <2>3. CASE /\ inport_accept_o
             /\ cur.sent <= cur.len /\ o.in = <<WBeat(cur, cur.sent)>>
             /\ o.next = [cur EXCEPT !.sent = @ + 1]
    <3>1. cur' = [cur EXCEPT !.sent = @ + 1] /\ o.in = <<WBeat(cur', cur.sent)>>
      BY <1>6, <1>8, <2>3
    <3>. QED
      BY <1>4, <1>5, <2>3, <3>1
  <2>. QED
    BY <1>3, <2>1, <2>2, <2>3
<1>. DEFINE w == WBeat(cur', popped)
            x == WBeat(cur', popped + 1)
<1>10. /\ Tail(<<w>>) = <<>> /\ Tail(<<w, x>>) = <<x>>
       /\ <<>> \o <<w>> = <<w>> /\ <<>> \o <<x>> = <<x>> /\ <<>> \o <<>> = <<>>
       /\ <<w>> \o <<x>> = <<w, x>> /\ <<w>> \o <<>> = <<w>> /\ <<w, x>> \o <<>> = <<w, x>>
       /\ <<x>> \o <<>> = <<x>>
  BY ShortQueues
<1>11. popped \in Nat
  OBVIOUS
<1>12. /\ cur.sent \in 1 .. cur.len + 1
       /\ cur'.sent \in 1 .. cur.len + 1 /\ cur'.sent >= cur.sent
  BY <1>1, <1>9
<1>13. fifo = <<>> \/ fifo = <<w>> \/ fifo = <<w, x>>
  BY <1>8 DEF FifoHolds
<1>14. \A q : FifoHolds(cur, q)' <=> \/ cur'.sent = q /\ fifo' = <<>>
                                     \/ cur'.sent = q + 1 /\ fifo' = <<WBeat(cur', q)>>
                                     \/ cur'.sent = q + 2 /\ fifo' = <<WBeat(cur', q), WBeat(cur', q + 1)>>
  BY DEF FifoHolds
<1>15. popped' = cur'.sent - Len(fifo')
  BY DEF popped
<1>16. Len(<<>>) = 0 /\ Len(<<w>>) = 1 /\ Len(<<x>>) = 1 /\ Len(<<w, x>>) = 2
  OBVIOUS
<1>17. /\ popped + 1 # cur.sent \/ WBeat(cur', cur.sent) = x
       /\ popped # cur.sent \/ WBeat(cur', cur.sent) = w
  OBVIOUS
<1>18. \/ cur.sent = popped /\ fifo = <<>>
       \/ cur.sent = popped + 1 /\ fifo = <<w>>
       \/ cur.sent = popped + 2 /\ fifo = <<w, x>> /\ ~inport_accept_o
  BY <1>8, <1>16 DEF FifoHolds, inport_accept_o, Depth
<1>. HIDE DEF w, x
<1>19. ASSUME NEW q \in Nat, q <= cur.len + 1,
              \/ cur'.sent = q /\ fifo' = <<>>
              \/ cur'.sent = q + 1 /\ fifo' = <<WBeat(cur', q)>>
              \/ cur'.sent = q + 2 /\ fifo' = <<WBeat(cur', q), WBeat(cur', q + 1)>>
       PROVE  popped' = q /\ FifoHolds(cur, popped)'
  <2>1. popped' = q
    <3>1. CASE cur'.sent = q /\ fifo' = <<>>
      BY <1>15, <3>1
    <3>2. CASE cur'.sent = q + 1 /\ fifo' = <<WBeat(cur', q)>>
      <4>1. Len(fifo') = 1
        BY <3>2
      <4>. QED
        BY <1>15, <3>2, <4>1
    <3>3. CASE cur'.sent = q + 2 /\ fifo' = <<WBeat(cur', q), WBeat(cur', q + 1)>>
      <4>1. Len(fifo') = 2
        BY <3>3
      <4>. QED
        BY <1>15, <3>3, <4>1
    <3>. QED
      BY <1>19, <3>1, <3>2, <3>3
  <2>. QED
    BY <1>14, <1>19, <2>1
<1>20. CASE accept_w
  <2>1. \/ cur'.sent = popped + 1 /\ fifo' = <<>>
        \/ cur'.sent = popped + 2 /\ fifo' = <<x>>
    <3>1. CASE cur.sent = popped + 1 /\ fifo = <<w>>
      <4>1. Tail(fifo) = <<>>
        BY <1>10, <3>1
      <4>2. CASE cur'.sent = cur.sent
        BY <1>9, <1>10, <1>20, <3>1, <4>1, <4>2
      <4>3. CASE cur'.sent = cur.sent + 1
        BY <1>1, <1>9, <1>10, <1>17, <1>20, <3>1, <4>1, <4>3
      <4>. QED
        BY <1>9, <4>2, <4>3
    <3>2. CASE cur.sent = popped + 2 /\ fifo = <<w, x>> /\ ~inport_accept_o
      <4>1. Tail(fifo) = <<x>>
        BY <1>10, <3>2
      <4>. QED
        BY <1>9, <1>10, <1>20, <3>2, <4>1
    <3>. QED
      BY <1>18, <1>20, <3>1, <3>2
  <2>2. popped + 1 <= cur.len + 1
    BY <1>1, <1>11, <1>12, <2>1
  <2>3. popped' = popped + 1 /\ FifoHolds(cur, popped)'
    BY <1>11, <1>19, <2>1, <2>2 DEF x
  <2>. QED
    BY <1>9, <1>11, <1>12, <1>20, <2>2, <2>3
<1>21. CASE ~accept_w
  <2>1. \/ cur'.sent = popped /\ fifo' = <<>>
        \/ cur'.sent = popped + 1 /\ fifo' = <<w>>
        \/ cur'.sent = popped + 2 /\ fifo' = <<w, x>>
    <3>1. CASE cur.sent = popped /\ fifo = <<>>
      BY <1>9, <1>10, <1>17, <1>21, <3>1
    <3>2. CASE cur.sent = popped + 1 /\ fifo = <<w>>
      BY <1>9, <1>10, <1>17, <1>21, <3>2
    <3>3. CASE cur.sent = popped + 2 /\ fifo = <<w, x>> /\ ~inport_accept_o
      BY <1>9, <1>10, <1>21, <3>3
    <3>. QED
      BY <1>18, <3>1, <3>2, <3>3
  <2>2. popped' = popped /\ FifoHolds(cur, popped)'
    BY <1>11, <1>19, <2>1 DEF w, x
  <2>. QED
    BY <1>9, <1>12, <1>21, <2>2
<1>. QED
  BY <1>20, <1>21

\* A burst at the slave whose newest beat is marked as the last one is
\* complete.
LEMMA LastBeat ==
    ASSUME NEW s \in Seq([beat : Nat, last : BOOLEAN]), BurstInOrder(cur, s), s # <<>>,
           cur.len \in Nat, s[Len(s)].last
    PROVE  Len(s) = cur.len + 1
<1>1. Len(s) \in Nat \ {0}
  OBVIOUS
<1>. DEFINE e == s[Len(s)]
            k == Len(s) - 1
<1>2. e = [beat |-> k, last |-> k = cur.len]
  BY <1>1 DEF BurstInOrder
<1>3. e.last
  OBVIOUS
<1>. HIDE DEF e, k
<1>4. e.last = (k = cur.len)
  BY <1>2
<1>5. k = cur.len
  BY <1>3, <1>4
<1>. QED
  BY <1>1, <1>5 DEF k

\* The beats at the slave stay in order when the next one arrives.
LEMMA BurstGrows ==
    ASSUME Types, BurstInOrder(cur, s_w), NEW p \in Nat, Len(s_w) = p,
           w_taken => inport_w.beat = p /\ inport_w.last = (p = cur.len)
    PROVE  /\ BurstInOrder(cur, GotW) /\ GotW \in Seq([beat : Nat, last : BOOLEAN])
           /\ Len(GotW) = IF w_taken THEN p + 1 ELSE p
<1>. DEFINE b == [beat |-> inport_w.beat, last |-> inport_w.last]
            S == [beat : Nat, last : BOOLEAN]
<1>1. CASE ~w_taken
  BY <1>1 DEF GotW, Types
<1>2. CASE w_taken
  <2>1. GotW = Append(s_w, b)
    BY <1>2 DEF GotW
  <2>2. b = [beat |-> p, last |-> p = cur.len]
    BY <1>2
  <2>3. b \in S
    BY <2>2
  <2>. HIDE DEF b
  <2>4. s_w \in Seq(S)
    BY DEF Types
  <2>. HIDE DEF S
  <2>5. GotW \in Seq(S) /\ Len(GotW) = p + 1 /\ GotW[p + 1] = b
        /\ \A i \in 1 .. p : GotW[i] = s_w[i]
    BY <2>1, <2>3, <2>4
  <2>6. BurstInOrder(cur, GotW)
    <3>. SUFFICES ASSUME NEW i \in 1 .. Len(GotW)
                  PROVE  GotW[i] = [beat |-> i - 1, last |-> i - 1 = cur.len]
      BY DEF BurstInOrder
    <3>1. CASE i = p + 1
      <4>1. i - 1 = p
        BY <3>1
      <4>. QED
        BY <2>2, <2>5, <3>1, <4>1
    <3>2. CASE i # p + 1
      <4>1. i \in 1 .. p
        BY <2>5, <3>2
      <4>. QED
        BY <2>5, <4>1 DEF BurstInOrder
    <3>. QED
      BY <3>1, <3>2
  <2>. QED
    BY <1>2, <2>5, <2>6 DEF S
<1>. QED
  BY <1>1, <1>2

(* What the registers of the bridge and the slave hold after the step of a write. *)
Progress(p) ==
    /\ accept_w => fifo # <<>> /\ p <= cur.len
    /\ axi_cnt' = (LET q == IF accept_w THEN p + 1 ELSE p IN IF q = 0 THEN 0 ELSE cur.len + 1 - q)
    /\ req_cnt' = (LET q == IF accept_w THEN p + 1 ELSE p IN IF q = 0 \/ q > cur.len THEN 0 ELSE cur.len - q)
    /\ resp_outstanding' = (LET q == IF accept_w THEN p + 1 ELSE p IN IF q = cur.len + 1 THEN 1 ELSE 0)
    /\ SkidHolds(cur, IF accept_w THEN p + 1 ELSE p, valid', buf', awvalid', wvalid', wlast', GotAw, GotW)
    /\ BurstInOrder(cur, GotW) /\ GotW \in Seq([beat : Nat, last : BOOLEAN])
    /\ Owed = 0 /\ inport_w \in Request

\* All that left the FIFO is taken, and the FIFO is empty.
LEMMA WaitProgress ==
    ASSUME Types, WritingInv, ~valid, fifo = <<>>, NEW in, BridgeClk(in)
    PROVE  Progress(popped)
<1>. USE DEF WritingInv
<1>1. ~inport_valid_w /\ inport_w = NoReq
  BY DEF inport_valid_w, inport_w, req_can_issue_w
<1>2. ~awvalid_o /\ ~wvalid_o /\ ~arvalid_o
  BY <1>1 DEF awvalid_o, wvalid_o, arvalid_o
<1>3. ~aw_taken /\ ~w_taken /\ ~ar_taken /\ ~accept_w
  BY <1>2 DEF aw_taken, w_taken, ar_taken, accept_w
<1>4. axi_cnt' = axi_cnt /\ req_cnt' = req_cnt /\ resp_outstanding' = resp_outstanding
  <2>1. ~resp_pop_w /\ ~res_push_w
    BY <1>3 DEF resp_pop_w, res_push_w
  <2>. QED
    BY <1>3, <2>1 DEF BridgeClk, AxiCntClk, ReqCntClk, OutstandingClk
<1>5. ~valid' /\ buf' = NoReq
  BY <1>3 DEF BridgeClk, SkidClk
<1>6. SkidHolds(cur, popped, valid, buf, awvalid, wvalid, wlast, s_aw, s_w)
  OBVIOUS
<1>7. ~wvalid
  BY <1>6 DEF SkidHolds
<1>8. (awvalid' <=> awvalid) /\ ~wvalid'
  BY <1>3, <1>7 DEF BridgeClk, AwvalidClk, WvalidClk, wr_cmd_accepted_w, wr_data_accepted_w
<1>9. GotAw = s_aw /\ GotW = s_w /\ Owed = 0
  BY <1>3 DEF GotAw, GotW, Owed
<1>10. SkidHolds(cur, popped, valid', buf', awvalid', wvalid', wlast', GotAw, GotW)
  BY <1>5, <1>6, <1>7, <1>8, <1>9 DEF SkidHolds
<1>11. inport_w \in Request
  BY <1>1 DEF NoReq, Request
<1>. QED
  BY <1>3, <1>4, <1>9, <1>10, <1>11 DEF Progress, Types

\* The first beat waits in the skid buffer, for its data or for its address.
LEMMA SkidProgress ==
    ASSUME Types, WritingInv, valid, NEW in, BridgeClk(in)
    PROVE  Progress(popped)
<1>. USE DEF WritingInv
<1>0. cur.len \in Nat
  BY CurType
<1>1. inport_valid_w /\ inport_w = buf
  BY DEF inport_valid_w, inport_w
<1>2. SkidHolds(cur, popped, valid, buf, awvalid, wvalid, wlast, s_aw, s_w)
  OBVIOUS
<1>3. /\ popped = 1
      /\ buf.write = TRUE /\ buf.len = cur.len /\ buf.beat = 0 /\ buf.last = (cur.len = 0)
      /\ \/ awvalid /\ ~wvalid /\ s_aw = <<cur.len>> /\ s_w = <<>>
         \/ ~awvalid /\ wvalid /\ (wlast <=> cur.len = 0) /\ s_aw = <<>> /\ Len(s_w) = 1
  BY <1>2 DEF SkidHolds
<1>4. /\ (awvalid_o <=> ~awvalid) /\ (wvalid_o <=> ~wvalid) /\ ~arvalid_o
  BY <1>1, <1>3 DEF awvalid_o, wvalid_o, arvalid_o
<1>5. /\ (aw_taken <=> ~awvalid /\ ready.aw) /\ (w_taken <=> ~wvalid /\ ready.w)
      /\ ~ar_taken /\ ~accept_w
  BY <1>4 DEF aw_taken, w_taken, ar_taken, accept_w
<1>6. axi_cnt' = axi_cnt /\ req_cnt' = req_cnt /\ resp_outstanding' = resp_outstanding
  <2>1. ~resp_pop_w /\ ~res_push_w
    BY <1>5 DEF resp_pop_w, res_push_w
  <2>. QED
    BY <1>5, <2>1 DEF BridgeClk, AxiCntClk, ReqCntClk, OutstandingClk
<1>7. all_taken <=> (~awvalid => ready.aw) /\ (~wvalid => ready.w)
  BY <1>4 DEF all_taken
<1>8. (valid' <=> ~all_taken) /\ buf' = IF valid' THEN buf ELSE NoReq
  BY <1>1, <1>5 DEF BridgeClk, SkidClk
<1>9. inport_w.beat = 0 /\ inport_w.last = (0 = cur.len)
      /\ inport_w.len = cur.len
  BY <1>1, <1>3
<1>10. Owed = 0 /\ inport_w \in Request
  BY <1>1, <1>5 DEF Owed, Types
<1>11. /\ awvalid' <=> IF wr_data_accepted_w /\ wr_data_last_w THEN FALSE ELSE awvalid \/ aw_taken
       /\ wvalid' <=> IF wr_cmd_accepted_w THEN FALSE ELSE wvalid \/ w_taken
       /\ wlast' = IF w_taken THEN inport_w.last ELSE wlast
  BY DEF BridgeClk, AwvalidClk, WvalidClk
<1>12. CASE awvalid /\ ~wvalid /\ s_aw = <<cur.len>> /\ s_w = <<>>
  <2>1. /\ BurstInOrder(cur, GotW) /\ GotW \in Seq([beat : Nat, last : BOOLEAN])
        /\ Len(GotW) = IF w_taken THEN 1 ELSE 0
    BY <1>9, <1>12, BurstGrows
  <2>2. GotAw = <<cur.len>> /\ (w_taken <=> ready.w) /\ (~w_taken => GotW = <<>>)
    BY <1>5, <1>12 DEF GotAw, GotW
  <2>3. wr_cmd_accepted_w /\ (wr_data_accepted_w <=> ready.w)
        /\ (ready.w => (wr_data_last_w <=> cur.len = 0))
    BY <1>5, <1>9, <1>12 DEF wr_cmd_accepted_w, wr_data_accepted_w, wr_data_last_w
  <2>4. ~wvalid' /\ (awvalid' <=> ~(ready.w /\ cur.len = 0)) /\ (valid' <=> ~ready.w)
    BY <1>5, <1>7, <1>8, <1>11, <1>12, <2>3
  <2>5. SkidHolds(cur, 1, valid', buf', awvalid', wvalid', wlast', GotAw, GotW)
    <3>1. CASE ready.w
      BY <1>0, <1>8, <2>1, <2>2, <2>4, <3>1 DEF SkidHolds
    <3>2. CASE ~ready.w
      BY <1>3, <1>8, <2>1, <2>2, <2>4, <3>2 DEF SkidHolds
    <3>. QED
      BY <3>1, <3>2
  <2>. QED
    BY <1>3, <1>5, <1>6, <1>9, <1>10, <2>1, <2>5 DEF Progress
<1>13. CASE ~awvalid /\ wvalid /\ (wlast <=> cur.len = 0) /\ s_aw = <<>> /\ Len(s_w) = 1
  <2>1. /\ BurstInOrder(cur, GotW) /\ GotW \in Seq([beat : Nat, last : BOOLEAN])
        /\ Len(GotW) = 1
    <3>1. 1 \in Nat /\ Len(s_w) = 1 /\ ~w_taken
      BY <1>5, <1>13
    <3>. QED
      BY <3>1, BurstGrows
  <2>2. GotAw = IF ready.aw THEN <<cur.len>> ELSE <<>>
    BY <1>5, <1>9, <1>13 DEF GotAw
  <2>3. (wr_cmd_accepted_w <=> ready.aw) /\ wr_data_accepted_w
        /\ (wr_data_last_w <=> cur.len = 0)
    BY <1>5, <1>13 DEF wr_cmd_accepted_w, wr_data_accepted_w, wr_data_last_w
  <2>4. (wvalid' <=> ~ready.aw) /\ (awvalid' <=> cur.len # 0 /\ ready.aw)
        /\ (valid' <=> ~ready.aw) /\ wlast' = wlast
    BY <1>5, <1>7, <1>8, <1>11, <1>13, <2>3
  <2>5. SkidHolds(cur, 1, valid', buf', awvalid', wvalid', wlast', GotAw, GotW)
    <3>1. CASE ready.aw
      BY <1>0, <1>8, <2>1, <2>2, <2>4, <3>1 DEF SkidHolds
    <3>2. CASE ~ready.aw
      BY <1>3, <1>8, <1>13, <2>1, <2>2, <2>4, <3>2 DEF SkidHolds
    <3>. QED
      BY <3>1, <3>2
  <2>. QED
    BY <1>3, <1>5, <1>6, <1>9, <1>10, <2>1, <2>5 DEF Progress
<1>. QED
  BY <1>3, <1>12, <1>13

\* The beat at the head of the FIFO goes to AXI, whole or in part.
LEMMA HeadProgress ==
    ASSUME Types, WritingInv, ~valid, fifo # <<>>, NEW in, BridgeClk(in)
    PROVE  Progress(popped)
<1>. USE DEF WritingInv
<1>. DEFINE p == popped
<1>0. cur.len \in Nat /\ p \in Nat
  BY CurType
<1>1. Head(fifo) = WBeat(cur, p) /\ p <= cur.len
  <2>1. CASE cur.sent = p + 1 /\ fifo = <<WBeat(cur, p)>>
    BY <1>0, <2>1
  <2>2. CASE cur.sent = p + 2 /\ fifo = <<WBeat(cur, p), WBeat(cur, p + 1)>>
    BY <1>0, <2>2
  <2>. QED
    BY <2>1, <2>2 DEF FifoHolds
<1>2. /\ Head(fifo).rd = FALSE /\ Head(fifo).len = (IF p = 0 THEN cur.len ELSE 0)
      /\ Head(fifo).beat = p
  BY <1>1 DEF WBeat
<1>3. /\ SkidHolds(cur, p, valid, buf, awvalid, wvalid, wlast, s_aw, s_w)
      /\ axi_cnt = (IF p = 0 THEN 0 ELSE cur.len + 1 - p)
      /\ req_cnt = (IF p = 0 THEN 0 ELSE cur.len - p) /\ resp_outstanding = 0
      /\ BurstInOrder(cur, s_w) /\ s_r = 0 /\ resp = "none"
  BY <1>0, <1>1
<1>. HIDE DEF p, WritingInv
<1>4. /\ Len(s_w) = p /\ s_aw = (IF p = 0 THEN <<>> ELSE <<cur.len>>)
      /\ (awvalid <=> p # 0) /\ ~wvalid /\ buf = NoReq
  BY <1>0, <1>1, <1>3 DEF SkidHolds
<1>5. req_can_issue_w /\ req_is_write_w /\ ~req_is_read_w
  BY <1>2, <1>3 DEF req_can_issue_w, req_is_write_w, req_is_read_w
<1>6. inport_wlast(Head(fifo)) <=> p = cur.len
  BY <1>0, <1>1, <1>2, <1>3 DEF inport_wlast
<1>7. /\ inport_w.write = TRUE /\ inport_w.len = (IF p = 0 THEN cur.len ELSE 0)
      /\ inport_w.beat = p /\ inport_w.last = (p = cur.len)
  <2>1. inport_wlast(Head(fifo)) = (p = cur.len)
    BY <1>6 DEF inport_wlast
  <2>. QED
    BY <1>2, <1>5, <2>1 DEF inport_w
<1>8. (awvalid_o <=> p = 0) /\ wvalid_o /\ ~arvalid_o
  BY <1>4, <1>5, <1>7 DEF awvalid_o, wvalid_o, arvalid_o, inport_valid_w
<1>9. /\ (aw_taken <=> p = 0 /\ ready.aw) /\ (w_taken <=> ready.w) /\ ~ar_taken
      /\ (accept_w <=> ready.w \/ (p = 0 /\ ready.aw))
  BY <1>8 DEF aw_taken, w_taken, ar_taken, accept_w
<1>10. all_taken <=> (p = 0 => ready.aw) /\ ready.w
  BY <1>8 DEF all_taken
<1>. DEFINE q == IF accept_w THEN p + 1 ELSE p
<1>11. axi_cnt' = IF q = 0 THEN 0 ELSE cur.len + 1 - q
  <2>1. axi_cnt' = IF ~accept_w THEN axi_cnt ELSE IF axi_cnt # 0 THEN axi_cnt - 1 ELSE inport_w.len
    BY <1>7 DEF BridgeClk, AxiCntClk
  <2>. QED
    BY <1>0, <1>1, <1>3, <1>7, <2>1
<1>12. req_cnt' = IF q = 0 \/ q > cur.len THEN 0 ELSE cur.len - q
  <2>1. req_cnt' = IF ~accept_w THEN req_cnt ELSE IF req_cnt # 0 THEN req_cnt - 1
                   ELSE IF Head(fifo).len # 0 THEN Head(fifo).len - 1 ELSE 0
    BY <1>5 DEF BridgeClk, ReqCntClk
  <2>. QED
    BY <1>0, <1>1, <1>2, <1>3, <2>1
<1>13. resp_outstanding' = IF q = cur.len + 1 THEN 1 ELSE 0
  <2>1. ~resp_pop_w /\ (res_push_w <=> accept_w /\ p = cur.len)
    BY <1>0, <1>1, <1>2, <1>3, <1>5 DEF resp_pop_w, res_push_w, req_last_w
  <2>2. resp_outstanding' = IF accept_w /\ p = cur.len THEN 1 ELSE 0
    BY <1>3, <2>1 DEF BridgeClk, OutstandingClk
  <2>. QED
    BY <1>0, <1>1, <2>2
<1>14. (valid' <=> accept_w /\ ~all_taken) /\ buf' = IF valid' THEN inport_w ELSE NoReq
  BY DEF BridgeClk, SkidClk
<1>15. /\ awvalid' <=> IF wr_data_accepted_w /\ wr_data_last_w THEN FALSE ELSE awvalid \/ aw_taken
       /\ wvalid' <=> IF wr_cmd_accepted_w THEN FALSE ELSE wvalid \/ w_taken
       /\ wlast' = IF w_taken THEN inport_w.last ELSE wlast
  BY DEF BridgeClk, AwvalidClk, WvalidClk
<1>16. /\ (wr_cmd_accepted_w <=> p # 0 \/ ready.aw) /\ (wr_data_accepted_w <=> ready.w)
       /\ (wr_data_last_w <=> ready.w /\ p = cur.len)
  BY <1>4, <1>7, <1>9 DEF wr_cmd_accepted_w, wr_data_accepted_w, wr_data_last_w
<1>17. /\ BurstInOrder(cur, GotW) /\ GotW \in Seq([beat : Nat, last : BOOLEAN])
       /\ Len(GotW) = IF ready.w THEN p + 1 ELSE p
  BY <1>0, <1>3, <1>4, <1>7, <1>9, BurstGrows
<1>18. GotAw = IF p # 0 \/ ready.aw THEN <<cur.len>> ELSE <<>>
  <2>1. CASE p # 0
    BY <1>4, <1>9, <2>1 DEF GotAw
  <2>2. CASE p = 0 /\ ~ready.aw
    BY <1>4, <1>9, <2>2 DEF GotAw
  <2>3. CASE p = 0 /\ ready.aw
    <3>1. GotAw = Append(<<>>, cur.len)
      BY <1>4, <1>7, <1>9, <2>3 DEF GotAw
    <3>. QED
      BY <2>3, <3>1
  <2>. QED
    BY <2>1, <2>2, <2>3
<1>19. SkidHolds(cur, q, valid', buf', awvalid', wvalid', wlast', GotAw, GotW)
  <2>1. CASE p # 0 /\ ready.w
    <3>1. ~valid' /\ buf' = NoReq /\ ~wvalid' /\ q = p + 1 /\ (awvalid' <=> p # cur.len)
      BY <1>4, <1>9, <1>10, <1>14, <1>15, <1>16, <2>1
    <3>. QED
      BY <1>0, <1>1, <1>17, <1>18, <2>1, <3>1 DEF SkidHolds
  <2>2. CASE p # 0 /\ ~ready.w
    <3>1. ~valid' /\ buf' = NoReq /\ ~wvalid' /\ q = p /\ awvalid'
      BY <1>4, <1>9, <1>10, <1>14, <1>15, <1>16, <2>2
    <3>. QED
      BY <1>0, <1>1, <1>17, <1>18, <2>2, <3>1 DEF SkidHolds
  <2>3. CASE p = 0 /\ ready.aw /\ ready.w
    <3>1. ~valid' /\ buf' = NoReq /\ ~wvalid' /\ q = 1 /\ (awvalid' <=> cur.len # 0)
      BY <1>4, <1>9, <1>10, <1>14, <1>15, <1>16, <2>3
    <3>. QED
      BY <1>0, <1>1, <1>17, <1>18, <2>3, <3>1 DEF SkidHolds
  <2>4. CASE p = 0 /\ ~ready.aw /\ ~ready.w
    <3>1. ~valid' /\ buf' = NoReq /\ ~wvalid' /\ q = 0 /\ ~awvalid'
      BY <1>4, <1>9, <1>10, <1>14, <1>15, <1>16, <2>4
    <3>. QED
      BY <1>0, <1>1, <1>17, <1>18, <2>4, <3>1 DEF SkidHolds
  <2>5. CASE p = 0 /\ ready.aw /\ ~ready.w
    <3>1. valid' /\ buf' = inport_w /\ ~wvalid' /\ q = 1 /\ awvalid'
      BY <1>4, <1>9, <1>10, <1>14, <1>15, <1>16, <2>5
    <3>2. GotW = <<>>
      BY <1>17, <2>5
    <3>3. buf'.write = TRUE /\ buf'.len = cur.len /\ buf'.beat = 0 /\ buf'.last = (cur.len = 0)
      BY <1>7, <2>5, <3>1
    <3>. QED
      BY <1>18, <2>5, <3>1, <3>2, <3>3 DEF SkidHolds
  <2>6. CASE p = 0 /\ ~ready.aw /\ ready.w
    <3>1. valid' /\ buf' = inport_w /\ wvalid' /\ q = 1 /\ ~awvalid' /\ wlast' = inport_w.last
      BY <1>4, <1>9, <1>10, <1>14, <1>15, <1>16, <2>6
    <3>2. Len(GotW) = 1
      BY <1>17, <2>6
    <3>3. buf'.write = TRUE /\ buf'.len = cur.len /\ buf'.beat = 0 /\ buf'.last = (cur.len = 0)
          /\ (wlast' <=> cur.len = 0)
      BY <1>7, <2>6, <3>1
    <3>. QED
      BY <1>18, <2>6, <3>1, <3>2, <3>3 DEF SkidHolds
  <2>. QED
    BY <2>1, <2>2, <2>3, <2>4, <2>5, <2>6
<1>20. Owed = 0 /\ inport_w \in Request
  <2>1. inport_w = [write |-> ~Head(fifo).rd, len |-> Head(fifo).len, beat |-> Head(fifo).beat,
                    last |-> inport_wlast(Head(fifo))]
    BY <1>5 DEF inport_w
  <2>2. inport_wlast(Head(fifo)) \in BOOLEAN
    BY DEF inport_wlast
  <2>3. inport_w \in Request
    BY <1>0, <1>2, <2>1, <2>2 DEF Request
  <2>. QED
    BY <1>3, <1>9, <2>3 DEF Owed
<1>21. Progress(p)
  BY <1>1, <1>11, <1>12, <1>13, <1>17, <1>19, <1>20 DEF Progress
<1>. QED
  BY <1>21 DEF p

\* A write, whatever of it is in the FIFO, in the skid buffer or at the slave.
LEMMA WritingStep ==
    ASSUME Types, WritingInv, NEW o \in Offers, NEW rdy \in Ready, NEW answer \in BOOLEAN,
           Clk(o, rdy, answer)
    PROVE  (Types /\ (WritingInv \/ WrittenInv))'
<1>0. cur.len \in Nat
  BY CurType
<1>1. Progress(popped)
  BY WaitProgress, SkidProgress, HeadProgress DEF Clk
<1>2. accept_w => fifo # <<>>
  BY <1>1 DEF Progress
<1>3. /\ cur'.kind = "write" /\ cur'.len = cur.len /\ cur'.got = 0
      /\ cur'.sent \in 1 .. cur.len + 1
      /\ popped' = IF accept_w THEN popped + 1 ELSE popped
      /\ popped' \in 0 .. cur.len + 1
      /\ FifoHolds(cur, popped)'
  BY <1>2, FifoStep
<1>4. /\ axi_cnt' = (IF popped' = 0 THEN 0 ELSE cur.len + 1 - popped')
      /\ req_cnt' = (IF popped' = 0 \/ popped' > cur.len THEN 0 ELSE cur.len - popped')
      /\ resp_outstanding' = (IF popped' = cur.len + 1 THEN 1 ELSE 0)
      /\ SkidHolds(cur, popped', valid', buf', awvalid', wvalid', wlast', GotAw, GotW)
  BY <1>1, <1>3 DEF Progress
<1>5. /\ BurstInOrder(cur, GotW) /\ GotW \in Seq([beat : Nat, last : BOOLEAN])
      /\ Owed = 0 /\ inport_w \in Request
  BY <1>1 DEF Progress
<1>6. CASE resp' = "none" /\ s_aw' = GotAw /\ s_w' = GotW /\ s_r' = Owed
  <2>1. SkidHolds(cur, popped, valid, buf, awvalid, wvalid, wlast, s_aw, s_w)'
    BY <1>3, <1>4, <1>6 DEF SkidHolds
  <2>2. BurstInOrder(cur, s_w)'
    BY <1>3, <1>5, <1>6 DEF BurstInOrder
  <2>3. WritingInv'
    BY <1>3, <1>4, <1>5, <1>6, <2>1, <2>2 DEF WritingInv
  <2>4. Types'
    BY <1>5, <1>6, TypesStep
  <2>. QED
    BY <2>3, <2>4
<1>7. CASE WriteDue /\ resp' = "b" /\ s_aw' = <<>> /\ s_w' = <<>> /\ s_r' = Owed
  <2>1. GotAw # <<>> /\ GotW # <<>> /\ GotW[Len(GotW)].last
    BY <1>7 DEF WriteDue
  <2>2. Len(GotW) \in Nat \ {0}
    BY <1>5, <2>1
  <2>3. Len(GotW) = cur.len + 1
    BY <1>0, <1>5, <2>1, LastBeat
  <2>5. /\ ~valid' /\ buf' = NoReq /\ ~wvalid' /\ Len(GotW) = popped'
        /\ (awvalid' <=> popped' \in 1 .. cur.len)
    BY <1>4, <2>1, <2>2 DEF SkidHolds
  <2>6. popped' = cur.len + 1 /\ ~awvalid'
    BY <1>0, <2>3, <2>5
  <2>7. fifo' = <<>> /\ cur'.sent = cur.len + 1
    BY <1>0, <1>3, <2>6 DEF FifoHolds
  <2>8. axi_cnt' = 0 /\ req_cnt' = 0 /\ resp_outstanding' = 1
    BY <1>0, <1>4, <2>6
  <2>9. (AtRest /\ NothingTaken)'
    BY <1>5, <1>7, <2>5, <2>6, <2>8 DEF AtRest, NothingTaken
  <2>10. WrittenInv'
    BY <1>3, <1>7, <2>7, <2>8, <2>9 DEF WrittenInv
  <2>11. Types'
    BY <1>5, <1>7, TypesStep
  <2>. QED
    BY <2>10, <2>11
<1>. QED
  BY <1>5, <1>6, <1>7 DEF Clk, SlaveClk

-----------------------------------------------------------------------------

\* The invariant holds after reset.
LEMMA InitInv == Init => Inv
<1>. SUFFICES ASSUME Init PROVE Inv
  OBVIOUS
<1>. USE DEF Init
<1>1. cur \in [kind : {"none", "read", "write"}, len : Lens \cup {0}, sent : Nat, got : Nat]
  BY DEF Idle
<1>2. ready \in Ready
  BY DEF Ready
<1>3. Types
  <2>1. s_w \in Seq([beat : Nat, last : BOOLEAN]) /\ cur.kind = "none"
    BY DEF Idle
  <2>2. buf \in Request
    BY DEF NoReq, Request
  <2>. QED
    BY <1>1, <1>2, <2>1, <2>2 DEF Types
<1>4. IdleInv
  BY DEF IdleInv, AtRest, NothingTaken
<1>. QED
  BY <1>3, <1>4 DEF Inv

\* Every clock edge keeps the invariant.
LEMMA NextInv == Inv /\ [Next]_vars => Inv'
<1>1. CASE UNCHANGED vars
  <2>. SUFFICES ASSUME Inv PROVE Inv'
    BY <1>1
  <2>1. Types'
    BY <1>1 DEF Inv, Types, vars, bridge_vars
  <2>. USE <1>1 DEF vars, bridge_vars, AtRest, NothingTaken
  <2>2. IdleInv => IdleInv'
    BY DEF IdleInv
  <2>3. AskedInv => AskedInv'
    BY DEF AskedInv
  <2>4. ReadingInv => ReadingInv'
    BY DEF ReadingInv
  <2>5. WritingInv => WritingInv'
    BY DEF WritingInv, FifoHolds, SkidHolds, BurstInOrder, popped
  <2>6. WrittenInv => WrittenInv'
    BY DEF WrittenInv
  <2>. QED
    BY <2>1, <2>2, <2>3, <2>4, <2>5, <2>6 DEF Inv
<1>2. ASSUME Inv, NEW o \in Offers, NEW rdy \in Ready, NEW answer \in BOOLEAN,
             Clk(o, rdy, answer)
      PROVE  Inv'
  <2>1. (Types /\ (IdleInv \/ AskedInv \/ ReadingInv \/ WritingInv \/ WrittenInv))'
    BY <1>2, IdleStep, AskedStep, ReadingStep, WritingStep, WrittenStep DEF Inv
  <2>. QED
    BY <2>1 DEF Inv
<1>. QED
  BY <1>1, <1>2 DEF Next

-----------------------------------------------------------------------------

\* Counters and queues are within the bounds of their registers in every phase.
LEMMA PhaseTypes ==
    ASSUME Inv
    PROVE  /\ req_cnt \in 0 .. cur.len /\ axi_cnt \in 0 .. cur.len
           /\ resp_outstanding \in 0 .. 1 /\ s_r \in 0 .. cur.len + 1
           /\ cur.sent \in 0 .. cur.len + 1 /\ cur.got \in 0 .. cur.len
           /\ resp \in {"none", "b", "r", "rlast"}
           /\ buf \in [write : BOOLEAN, len : {cur.len, 0}, beat : {0}, last : BOOLEAN]
           /\ \/ fifo = <<>>
              \/ \E a \in [rd : BOOLEAN, len : {cur.len, 0}, beat : 0 .. cur.len] :
                    fifo = <<a>>
              \/ \E a, b \in [rd : BOOLEAN, len : {cur.len, 0}, beat : 0 .. cur.len] :
                    fifo = <<a, b>>
<1>. DEFINE L == [rd : BOOLEAN, len : {cur.len, 0}, beat : 0 .. cur.len]
            B == [write : BOOLEAN, len : {cur.len, 0}, beat : {0}, last : BOOLEAN]
<1>0. Types /\ cur.len \in Nat /\ s_r \in Nat /\ cur.got \in Nat
  BY CurType DEF Inv, Types
<1>1. NoReq \in B
  BY DEF NoReq
<1>2. CASE IdleInv
  <2>1. cur.len = 0 /\ cur.sent = 0 /\ cur.got = 0
    BY <1>2 DEF IdleInv, Idle
  <2>. QED
    BY <1>0, <1>1, <1>2, <2>1 DEF IdleInv, AtRest, NothingTaken
<1>3. CASE AskedInv
  <2>1. RBeat(cur) \in L
    BY <1>0 DEF RBeat
  <2>. HIDE DEF L
  <2>2. \E a \in L : fifo = <<a>>
    BY <1>3, <2>1 DEF AskedInv
  <2>. QED
    BY <1>0, <1>1, <1>3, <2>2 DEF AskedInv, AtRest, NothingTaken, L
<1>4. CASE ReadingInv
  BY <1>0, <1>1, <1>4 DEF ReadingInv, AtRest
<1>5. CASE WrittenInv
  BY <1>0, <1>1, <1>5 DEF WrittenInv, AtRest, NothingTaken
<1>6. CASE WritingInv
  <2>. USE <1>6 DEF WritingInv
  <2>1. \A k \in 0 .. cur.len : WBeat(cur, k) \in L
    BY <1>0 DEF WBeat
  <2>2. buf \in B
    <3>1. CASE buf = NoReq
      BY <1>1, <3>1
    <3>2. CASE buf.write = TRUE /\ buf.len = cur.len /\ buf.beat = 0 /\ buf.last = (cur.len = 0)
      BY <3>2 DEF Inv, Types, Request
    <3>. QED
      BY <3>1, <3>2 DEF SkidHolds
  <2>. HIDE DEF L, B
  <2>3. \/ fifo = <<>>
        \/ \E a \in L : fifo = <<a>>
        \/ \E a, b \in L : fifo = <<a, b>>
    <3>1. CASE cur.sent = popped + 1 /\ fifo = <<WBeat(cur, popped)>>
      BY <1>0, <2>1, <3>1
    <3>2. CASE cur.sent = popped + 2 /\ fifo = <<WBeat(cur, popped), WBeat(cur, popped + 1)>>
      <4>1. popped \in 0 .. cur.len /\ popped + 1 \in 0 .. cur.len
        BY <1>0, <3>2
      <4>. QED
        BY <2>1, <3>2, <4>1
    <3>. QED
      BY <3>1, <3>2 DEF FifoHolds
  <2>4. req_cnt \in 0 .. cur.len /\ axi_cnt \in 0 .. cur.len
    BY <1>0
  <2>5. resp_outstanding \in 0 .. 1 /\ cur.sent \in 0 .. cur.len + 1
    BY <1>0
  <2>. QED
    BY <1>0, <2>2, <2>3, <2>4, <2>5 DEF L, B
<1>. QED
  BY <1>2, <1>3, <1>4, <1>5, <1>6 DEF Inv

\* The invariant gives the type invariant.
LEMMA InvTypeOK == ASSUME Inv PROVE TypeOK
<1>0. Types /\ cur.len \in Nat /\ s_r \in Nat /\ cur.len \in Lens \cup {0}
  BY CurType DEF Inv, Types
<1>1. MaxLen \in Nat /\ \A k \in Lens : k <= MaxLen
  BY MaxLenIsMax, LenType
<1>2. cur.len <= MaxLen
  BY <1>0, <1>1
<1>. DEFINE R == [rd : BOOLEAN, len : Lens \cup {0}, beat : Beat]
<1>3. 0 .. cur.len \subseteq Beat /\ {cur.len, 0} \subseteq Lens \cup {0}
  BY <1>0, <1>1, <1>2 DEF Beat
<1>4. [rd : BOOLEAN, len : {cur.len, 0}, beat : 0 .. cur.len] \subseteq R
  BY <1>3
<1>5. fifo = <<>> \/ (\E a \in R : fifo = <<a>>) \/ (\E a, b \in R : fifo = <<a, b>>)
  BY <1>4, PhaseTypes
<1>. HIDE DEF R
<1>6. fifo \in UNION {[1 .. n -> R] : n \in 0 .. Depth}
  <2>1. \E n \in 0 .. 2 : fifo \in [1 .. n -> R]
    <3>1. CASE fifo = <<>>
      BY <3>1
    <3>2. CASE \E a \in R : fifo = <<a>>
      BY <3>2
    <3>3. CASE \E a, b \in R : fifo = <<a, b>>
      <4>1. PICK a \in R, b \in R : fifo = <<a, b>>
        BY <3>3
      <4>2. fifo \in [1 .. 2 -> R]
        BY <4>1
      <4>. QED
        BY <4>2
    <3>. QED
      BY <1>5, <3>1, <3>2, <3>3
  <2>. QED
    BY <2>1 DEF Depth
<1>7. req_cnt \in Beat /\ axi_cnt \in Beat /\ resp_outstanding \in 0 .. 2
  BY <1>3, PhaseTypes
<1>8. buf \in [write : BOOLEAN, len : Lens \cup {0}, beat : Beat, last : BOOLEAN]
  <2>1. 0 \in Beat
    BY <1>1 DEF Beat
  <2>. QED
    BY <1>3, <2>1, PhaseTypes
<1>9. cur \in [kind : {"none", "read", "write"}, len : Lens \cup {0},
               sent : 0 .. MaxLen + 1, got : 0 .. MaxLen]
  <2>1. cur.sent \in 0 .. MaxLen + 1 /\ cur.got \in 0 .. MaxLen
    BY <1>0, <1>1, <1>2, PhaseTypes
  <2>. QED
    BY <1>0, <2>1 DEF Types
<1>10. s_r \in 0 .. MaxLen + 1 /\ resp \in {"none", "b", "r", "rlast"}
  BY <1>0, <1>1, <1>2, PhaseTypes
<1>11. {valid, awvalid, wvalid, wlast} \subseteq BOOLEAN /\ ready \in Ready
  BY <1>0 DEF Types
<1>. QED
  BY <1>6, <1>7, <1>8, <1>9, <1>10, <1>11 DEF TypeOK, R

\* The invariant gives what the run checks.
LEMMA InvBridge == ASSUME Inv PROVE BridgeInv
<1>. SUFFICES SlaveGetsTheBurst /\ AnswerOnlyWhenDue /\ OutstandingExact
  BY InvTypeOK DEF BridgeInv
<1>0. Types /\ cur.len \in Nat /\ s_r \in Nat /\ cur.got \in Nat
  BY CurType DEF Inv, Types
<1>1. ASSUME s_aw = <<>>, s_w = <<>>, s_r > 0 => cur.kind = "read" /\ cur.got + s_r <= cur.len + 1
      PROVE  SlaveGetsTheBurst
  <2>1. Len(s_w) = 0
    BY <1>1
  <2>. QED
    BY <1>1, <2>1 DEF SlaveGetsTheBurst
<1>2. ASSUME resp = "none" PROVE AnswerOnlyWhenDue
  BY <1>2 DEF AnswerOnlyWhenDue, inport_ack_o
<1>3. AllSent(cur) <=> cur.sent = (IF cur.kind = "read" THEN 1 ELSE cur.len + 1)
  BY DEF AllSent, Beats
<1>4. CASE IdleInv
  <2>1. cur.kind = "none"
    BY <1>4 DEF IdleInv, Idle
  <2>. QED
    BY <1>1, <1>2, <1>4, <2>1 DEF IdleInv, NothingTaken, OutstandingExact
<1>5. CASE AskedInv
  <2>1. fifo # <<>>
    BY <1>5 DEF AskedInv
  <2>. QED
    BY <1>1, <1>2, <1>5, <2>1 DEF AskedInv, NothingTaken, OutstandingExact
<1>6. CASE ReadingInv
  <2>1. SlaveGetsTheBurst
    BY <1>0, <1>1, <1>6 DEF ReadingInv
  <2>2. AnswerOnlyWhenDue
    <3>1. CASE resp = "none"
      BY <1>2, <3>1
    <3>2. CASE resp = "r"
      <4>1. cur.kind = "read" /\ AllSent(cur) /\ cur.got # cur.len
        BY <1>0, <1>3, <1>6, <3>2 DEF ReadingInv
      <4>. QED
        BY <3>2, <4>1 DEF AnswerOnlyWhenDue
    <3>3. CASE resp = "rlast"
      <4>1. cur.kind = "read" /\ AllSent(cur) /\ cur.got = cur.len
        BY <1>0, <1>3, <1>6, <3>3 DEF ReadingInv
      <4>. QED
        BY <3>3, <4>1 DEF AnswerOnlyWhenDue
    <3>. QED
      BY <1>6, <3>1, <3>2, <3>3 DEF ReadingInv
  <2>3. OutstandingExact
    BY <1>3, <1>6 DEF ReadingInv, OutstandingExact
  <2>. QED
    BY <2>1, <2>2, <2>3
<1>7. CASE WrittenInv
  <2>1. SlaveGetsTheBurst
    BY <1>0, <1>1, <1>7 DEF WrittenInv, NothingTaken
  <2>2. AnswerOnlyWhenDue
    BY <1>3, <1>7 DEF WrittenInv, AnswerOnlyWhenDue
  <2>3. OutstandingExact
    BY <1>3, <1>7 DEF WrittenInv, OutstandingExact
  <2>. QED
    BY <2>1, <2>2, <2>3
<1>8. CASE WritingInv
  <2>. USE <1>8 DEF WritingInv
  <2>1. s_aw \in {<<>>, <<cur.len>>}
    BY DEF SkidHolds
  <2>2. SlaveGetsTheBurst
    BY <2>1 DEF BurstInOrder, SlaveGetsTheBurst
  <2>3. OutstandingExact
    <3>1. CASE cur.sent = popped /\ fifo = <<>>
      BY <1>3, <3>1 DEF OutstandingExact
    <3>2. CASE cur.sent = popped + 1 /\ fifo = <<WBeat(cur, popped)>>
      <4>1. fifo # <<>> /\ popped # cur.len + 1
        BY <1>0, <3>2
      <4>. QED
        BY <4>1 DEF OutstandingExact
    <3>3. CASE cur.sent = popped + 2 /\ fifo = <<WBeat(cur, popped), WBeat(cur, popped + 1)>>
      <4>1. fifo # <<>> /\ popped # cur.len + 1
        BY <1>0, <3>3
      <4>. QED
        BY <4>1 DEF OutstandingExact
    <3>. QED
      BY <3>1, <3>2, <3>3 DEF FifoHolds
  <2>4. AnswerOnlyWhenDue
    BY <1>2
  <2>. QED
    BY <2>2, <2>3, <2>4
<1>. QED
  BY <1>4, <1>5, <1>6, <1>7, <1>8 DEF Inv

\* The bridge's registers keep their types, the slave gets each write burst
\* whole, in order and with one last mark, an answer comes only for what was
\* sent, and resp_outstanding counts exactly what AXI owes.
THEOREM BridgeCorrect == Spec => []BridgeInv
<1>1. Inv => BridgeInv
  BY InvBridge
<1>. QED
  BY InitInv, NextInv, <1>1, PTL DEF Spec

-----------------------------------------------------------------------------

\* At rest, while a read is at the slave and when a write is answered, nothing
\* is on offer.
LEMMA NothingOffered ==
    ASSUME IdleInv \/ ReadingInv \/ WrittenInv
    PROVE  ~awvalid_o /\ ~wvalid_o /\ ~arvalid_o
<1>1. ~valid /\ fifo = <<>>
  BY DEF IdleInv, ReadingInv, WrittenInv, AtRest
<1>2. ~inport_valid_w
  BY <1>1 DEF inport_valid_w, req_can_issue_w
<1>. QED
  BY <1>2 DEF awvalid_o, wvalid_o, arvalid_o

\* A read in the FIFO is on offer, with its length.
LEMMA ReadOffered ==
    AskedInv => ~awvalid_o /\ ~wvalid_o /\ arvalid_o /\ inport_w.len = cur.len
<1>. SUFFICES ASSUME AskedInv
              PROVE  ~awvalid_o /\ ~wvalid_o /\ arvalid_o /\ inport_w.len = cur.len
  OBVIOUS
<1>1. fifo # <<>> /\ Head(fifo) = RBeat(cur) /\ ~valid /\ resp_outstanding = 0
  BY DEF AskedInv, AtRest
<1>2. Head(fifo).rd = TRUE /\ Head(fifo).len = cur.len
  BY <1>1 DEF RBeat
<1>3. req_can_issue_w /\ inport_valid_w
  BY <1>1 DEF inport_valid_w, req_can_issue_w
<1>4. inport_w.write = FALSE /\ inport_w.len = cur.len
  <2>1. inport_w = [write |-> ~Head(fifo).rd, len |-> Head(fifo).len, beat |-> Head(fifo).beat,
                    last |-> inport_wlast(Head(fifo))]
    BY <1>1, <1>3 DEF inport_w
  <2>. QED
    BY <1>2, <2>1
<1>. QED
  BY <1>3, <1>4 DEF awvalid_o, wvalid_o, arvalid_o

\* What a write offers follows from what the slave has got: the address until
\* it has it, the next beat, and not the second before the address.
LEMMA WriteOffered ==
    Types /\ WritingInv =>
      /\ ~arvalid_o
      /\ awvalid_o <=> s_aw = <<>>
      /\ awvalid_o => inport_w.len = cur.len
      /\ wvalid_o <=> Len(s_w) < cur.sent /\ ~(s_aw = <<>> /\ Len(s_w) = 1)
      /\ wvalid_o => /\ inport_w.beat = Len(s_w)
                     /\ inport_w.last = (Len(s_w) = cur.len)
<1>. SUFFICES ASSUME Types, WritingInv
              PROVE  /\ ~arvalid_o
                     /\ awvalid_o <=> s_aw = <<>>
                     /\ awvalid_o => inport_w.len = cur.len
                     /\ wvalid_o <=> Len(s_w) < cur.sent /\ ~(s_aw = <<>> /\ Len(s_w) = 1)
                     /\ wvalid_o => /\ inport_w.beat = Len(s_w)
                                    /\ inport_w.last = (Len(s_w) = cur.len)
  OBVIOUS
<1>0. cur.len \in Nat /\ popped \in Nat
  BY CurType DEF WritingInv
<1>1. CASE valid
  <2>1. inport_valid_w /\ inport_w = buf
    BY <1>1 DEF inport_valid_w, inport_w
  <2>2. /\ popped = 1
        /\ buf.write = TRUE /\ buf.len = cur.len /\ buf.beat = 0 /\ buf.last = (cur.len = 0)
        /\ \/ awvalid /\ ~wvalid /\ s_aw = <<cur.len>> /\ s_w = <<>>
           \/ ~awvalid /\ wvalid /\ s_aw = <<>> /\ Len(s_w) = 1
    BY <1>1 DEF WritingInv, SkidHolds
  <2>3. (awvalid_o <=> ~awvalid) /\ (wvalid_o <=> ~wvalid) /\ ~arvalid_o
    BY <2>1, <2>2 DEF awvalid_o, wvalid_o, arvalid_o
  <2>4. CASE awvalid /\ ~wvalid /\ s_aw = <<cur.len>> /\ s_w = <<>>
    <3>1. s_aw # <<>> /\ Len(s_w) = 0 /\ 0 < cur.sent
      BY <2>4 DEF WritingInv
    <3>. QED
      BY <1>0, <2>1, <2>2, <2>3, <2>4, <3>1
  <2>5. CASE ~awvalid /\ wvalid /\ s_aw = <<>> /\ Len(s_w) = 1
    BY <2>1, <2>2, <2>3, <2>5
  <2>. QED
    BY <2>2, <2>4, <2>5
<1>2. CASE ~valid /\ fifo = <<>>
  <2>1. ~inport_valid_w
    BY <1>2 DEF inport_valid_w, req_can_issue_w
  <2>2. ~awvalid_o /\ ~wvalid_o /\ ~arvalid_o
    BY <2>1 DEF awvalid_o, wvalid_o, arvalid_o
  <2>3. cur.sent = popped
    BY <1>0, <1>2 DEF WritingInv, FifoHolds
  <2>4. Len(s_w) = popped /\ popped # 0 /\ s_aw = <<cur.len>>
    BY <1>2, <2>3 DEF WritingInv, SkidHolds
  <2>. QED
    BY <1>0, <2>2, <2>3, <2>4
<1>3. CASE ~valid /\ fifo # <<>>
  <2>1. Head(fifo) = WBeat(cur, popped) /\ popped <= cur.len /\ popped < cur.sent
    <3>1. CASE cur.sent = popped + 1 /\ fifo = <<WBeat(cur, popped)>>
      BY <1>0, <3>1 DEF WritingInv
    <3>2. CASE cur.sent = popped + 2 /\ fifo = <<WBeat(cur, popped), WBeat(cur, popped + 1)>>
      BY <1>0, <3>2 DEF WritingInv
    <3>. QED
      BY <1>3, <3>1, <3>2 DEF WritingInv, FifoHolds
  <2>2. /\ Head(fifo).rd = FALSE /\ Head(fifo).len = (IF popped = 0 THEN cur.len ELSE 0)
        /\ Head(fifo).beat = popped
    BY <2>1 DEF WBeat
  <2>3. req_can_issue_w /\ inport_valid_w
    BY <1>0, <1>3, <2>1 DEF inport_valid_w, req_can_issue_w, WritingInv
  <2>4. inport_wlast(Head(fifo)) = (popped = cur.len)
    <3>1. inport_wlast(Head(fifo)) <=> popped = cur.len
      BY <1>0, <2>1, <2>2 DEF inport_wlast, WritingInv
    <3>. QED
      BY <3>1 DEF inport_wlast
  <2>5. /\ inport_w.write = TRUE /\ inport_w.len = (IF popped = 0 THEN cur.len ELSE 0)
        /\ inport_w.beat = popped /\ inport_w.last = (popped = cur.len)
    BY <1>3, <2>2, <2>3, <2>4 DEF inport_w
  <2>6. /\ Len(s_w) = popped /\ s_aw = (IF popped = 0 THEN <<>> ELSE <<cur.len>>)
        /\ (awvalid <=> popped # 0) /\ ~wvalid
    BY <1>0, <1>3, <2>1 DEF WritingInv, SkidHolds
  <2>7. (awvalid_o <=> popped = 0) /\ wvalid_o /\ ~arvalid_o
    BY <2>3, <2>5, <2>6 DEF awvalid_o, wvalid_o, arvalid_o
  <2>8. s_aw = <<>> <=> popped = 0
    BY <2>6
  <2>. QED
    BY <1>0, <2>1, <2>5, <2>6, <2>7, <2>8
<1>. QED
  BY <1>1, <1>2, <1>3

\* The same of the next state.
LEMMA ReadOfferedNext ==
    AskedInv' => arvalid_o' /\ inport_w'.len = cur'.len
<1>. DEFINE P == arvalid_o /\ inport_w.len = cur.len
<1>1. AskedInv => P
  BY ReadOffered
<1>2. AskedInv' => P'
  BY <1>1, PTL
<1>. QED
  BY <1>2

\* The same of the next state.
LEMMA WriteOfferedNext ==
    Types' /\ WritingInv' =>
      /\ awvalid_o' <=> s_aw' = <<>>
      /\ awvalid_o' => inport_w'.len = cur'.len
      /\ wvalid_o' <=> Len(s_w') < cur'.sent /\ ~(s_aw' = <<>> /\ Len(s_w') = 1)
      /\ wvalid_o' => /\ inport_w'.beat = Len(s_w')
                      /\ inport_w'.last = (Len(s_w') = cur'.len)
<1>. DEFINE P == /\ awvalid_o <=> s_aw = <<>>
                 /\ awvalid_o => inport_w.len = cur.len
                 /\ wvalid_o <=> Len(s_w) < cur.sent /\ ~(s_aw = <<>> /\ Len(s_w) = 1)
                 /\ wvalid_o => /\ inport_w.beat = Len(s_w)
                                /\ inport_w.last = (Len(s_w) = cur.len)
<1>1. Types /\ WritingInv => P
  BY WriteOffered
<1>2. Types' /\ WritingInv' => P'
  BY <1>1, PTL
<1>. QED
  BY <1>2

\* No clock edge withdraws or changes an offer that was not taken.
LEMMA OffersHold == Inv /\ [Next]_vars => [OfferStands]_vars
<1>. SUFFICES ASSUME Inv, NEW o \in Offers, NEW rdy \in Ready, NEW answer \in BOOLEAN,
                     Clk(o, rdy, answer)
              PROVE  OfferStands
  BY DEF Next
<1>0. Types
  BY DEF Inv
<1>1. CASE IdleInv \/ ReadingInv \/ WrittenInv
  BY <1>1, NothingOffered DEF OfferStands
<1>2. CASE AskedInv
  <2>. SUFFICES ASSUME ~ready.ar PROVE arvalid_o' /\ inport_w'.len = inport_w.len
    BY <1>2, ReadOffered DEF OfferStands
  <2>1. cur' = cur
    <3>1. Acked = cur
      BY <1>2 DEF Acked, inport_ack_o, AskedInv
    <3>. QED
      BY <1>2, <3>1, NoMore DEF AllSent, Beats, Clk, AskedInv
  <2>2. GotAw = s_aw /\ GotW = s_w /\ Owed = 0
    BY <1>2, ReadOffered DEF GotAw, GotW, Owed, aw_taken, w_taken, ar_taken, AskedInv, NothingTaken
  <2>3. ~WriteDue
    BY <1>2, <2>2 DEF WriteDue, AskedInv, NothingTaken
  <2>4. resp' = "none" /\ s_r' = 0
    BY <2>2, <2>3, SilentSlave DEF Clk
  <2>5. AskedInv'
    BY <1>0, <1>2, <2>4, AskedStep DEF ReadingInv
  <2>. QED
    BY <1>2, <2>1, <2>5, ReadOffered, ReadOfferedNext
<1>3. CASE WritingInv
  <2>0. /\ cur.len \in Nat /\ cur.sent \in 1 .. cur.len + 1 /\ Len(s_w) \in Nat
        /\ BurstInOrder(cur, s_w) /\ s_r = 0
    BY <1>0, <1>3, CurType DEF Types, WritingInv
  <2>1. Types' /\ (WritingInv' \/ WrittenInv')
    BY <1>0, <1>3, WritingStep
  <2>2. cur'.len = cur.len /\ cur'.sent \in Nat /\ cur'.sent >= cur.sent
    <3>1. accept_w => fifo # <<>>
      BY <1>0, <1>3, WaitProgress, SkidProgress, HeadProgress DEF Clk, Progress
    <3>. QED
      BY <1>0, <1>3, <2>0, <3>1, FifoStep
  <2>3. ~arvalid_o /\ Owed = 0
    BY <1>0, <1>3, <2>0, WriteOffered DEF Owed, ar_taken
  <2>4. ~WriteDue => WritingInv' /\ s_aw' = GotAw /\ s_w' = GotW
    BY <2>1, <2>3, SilentSlave DEF Clk, WrittenInv
  <2>5. ASSUME awvalid_o, ~ready.aw
        PROVE  awvalid_o' /\ inport_w'.len = inport_w.len
    <3>1. GotAw = <<>> /\ ~WriteDue
      BY <1>0, <1>3, <2>5, WriteOffered DEF GotAw, aw_taken, WriteDue
    <3>. QED
      BY <1>0, <1>3, <2>1, <2>2, <2>4, <2>5, <3>1, WriteOffered, WriteOfferedNext
  <2>6. ASSUME wvalid_o, ~ready.w
        PROVE  wvalid_o' /\ inport_w'.beat = inport_w.beat /\ inport_w'.last = inport_w.last
    <3>1. /\ Len(s_w) < cur.sent /\ ~(s_aw = <<>> /\ Len(s_w) = 1)
          /\ inport_w.beat = Len(s_w) /\ inport_w.last = (Len(s_w) = cur.len)
      BY <1>0, <1>3, <2>6, WriteOffered
    <3>2. GotW = s_w
      BY <2>6 DEF GotW, w_taken
    <3>3. ~WriteDue
      <4>. SUFFICES ASSUME s_w # <<>>, s_w[Len(s_w)].last PROVE FALSE
        BY <3>2 DEF WriteDue
      <4>1. Len(s_w) = cur.len + 1
        BY <1>0, <2>0, LastBeat DEF Types
      <4>. QED
        BY <2>0, <3>1, <4>1
    <3>4. WritingInv' /\ s_aw' = GotAw /\ s_w' = s_w
      BY <2>4, <3>2, <3>3
    <3>5. Len(s_w) = 1 => GotAw # <<>>
      <4>1. CASE aw_taken
        BY <1>0, <1>3, <3>1, <4>1, WriteOffered DEF aw_taken
      <4>2. CASE ~aw_taken
        BY <3>1, <4>2 DEF GotAw
      <4>. QED
        BY <4>1, <4>2
    <3>6. Len(s_w) < cur'.sent
      BY <2>0, <2>2, <3>1
    <3>7. wvalid_o'
      BY <2>1, <3>4, <3>5, <3>6, WriteOfferedNext
    <3>8. inport_w'.beat = Len(s_w) /\ inport_w'.last = (Len(s_w) = cur.len)
      BY <2>1, <2>2, <3>4, <3>7, WriteOfferedNext
    <3>. QED
      BY <3>1, <3>7, <3>8
  <2>. QED
    BY <2>3, <2>5, <2>6 DEF OfferStands
<1>. QED
  BY <1>1, <1>2, <1>3 DEF Inv

\* An address or a beat on offer on AXI and not taken is on offer unchanged in
\* the next cycle, as AXI asks of a master (awvalid_o, wvalid_o and arvalid_o
\* of dcache_axi_axi.v).
THEOREM OffersStandCorrect == Spec => OffersStand
  BY InitInv, NextInv, OffersHold, PTL DEF Spec, OffersStand
=============================================================================
