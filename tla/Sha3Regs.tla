------------------------------ MODULE Sha3Regs ------------------------------
(***************************************************************************)
(* axi_sha3_regs.v, the AXI register file of the SHA3 unit, in front of    *)
(* sha3_real_wrapper.v, and the bus master that drives both.  One step is  *)
(* one clock edge of all of them.                                          *)
(*                                                                         *)
(* Offsets are named: ctrl 00, status 04, word 08, last 0C, cfg 10, digest *)
(* 20..5C.  A request carries what the selected register looks at: the     *)
(* message word for word and last, the two low data bits for ctrl and cfg. *)
(*                                                                         *)
(* The master is the one soc_top.v connects: single-beat transfers, one at *)
(* a time (dcache_if_pmem.v), the next one no earlier than the cycle after *)
(* the response.  It may hold back AW or W and delay its ready signals.    *)
(***************************************************************************)
EXTENDS Sha3Wrapper

CONSTANTS
    NoReq,      \* no request on a channel
    CountMod,   \* values of msg_word_count_q: 2^32 in the build
    WriteOffsets, \* bound: the offsets the master writes
    ReadOffsets   \* bound: the offsets the master reads

ASSUME RegsAssumption ==
    /\ CountMod \in Nat \ {0}
    /\ Word # {}
    /\ WriteOffsets \subseteq {"ctrl", "word", "last", "cfg", "other"}
    /\ ReadOffsets \subseteq {"status", "last", "cfg", "digest", "other"}

VARIABLES
    awready_o, wready_o, bvalid_o, bresp_o,    \* write channels
    aw_q, w_q,       \* the request held, NoReq while aw_seen_q / w_seen_q is 0
    arready_o, rvalid_o, rdata_o,              \* read channel
    last_byte_num_cfg_q, msg_word_count_q,
    sha,             \* the sha_*_o pulses into the wrapper
    m_aw, m_w, m_ar, \* master: what it still has to send on AW, W and AR
    m_busy,          \* master: a transfer is outstanding
    m_saw_done,      \* master: read done = 1 and wrote nothing since
    sent             \* ghost: message words written since init, to the last

write_vars  == <<awready_o, wready_o, bvalid_o, bresp_o, aw_q, w_q>>
read_vars   == <<arready_o, rvalid_o, rdata_o>>
reg_vars    == <<last_byte_num_cfg_q, msg_word_count_q, sha>>
master_vars == <<m_aw, m_w, m_ar, m_busy, m_saw_done>>
vars == <<write_vars, read_vars, reg_vars, master_vars, sent, wrapper_vars>>

-----------------------------------------------------------------------------
AwReq == [offset : {"ctrl", "word", "last", "cfg", "other"}, len : {0}]
WReq  == [word : Word \cup {NoWord}, low : 0 .. 3, strb : {{1}, 0 .. 3},
          wlast : {TRUE}]
ArReq == {"status", "last", "cfg", "digest", "other"}

ASSUME NoReqAssumption == NoReq \notin AwReq /\ NoReq \notin WReq /\ NoReq \notin ArReq

\* Bit b of the two low data bits.
LowBit(low, b) == (low \div 2^b) % 2 = 1

NoPulse == [init |-> FALSE, start |-> FALSE, valid |-> FALSE,
            data |-> NoWord, is_last |-> FALSE, byte_num |-> 0]

SentClosed == sent # <<>> /\ sent[Len(sent)].is_last

RegsInit ==
    /\ awready_o = TRUE /\ wready_o = TRUE /\ bvalid_o = FALSE
    /\ bresp_o = "OKAY"
    /\ aw_q = NoReq /\ w_q = NoReq
    /\ arready_o = TRUE /\ rvalid_o = FALSE /\ rdata_o = <<"other">>
    /\ last_byte_num_cfg_q = 0 /\ msg_word_count_q = 0 /\ sha = NoPulse
    /\ sent = <<>>

-----------------------------------------------------------------------------
(* The write side.                                                         *)

\* AW and W are both in and no response is waiting: the write executes.
execute_w == aw_q # NoReq /\ w_q # NoReq /\ ~bvalid_o

\* Only single-beat writes are supported.
single_beat_w == aw_q.len = 0 /\ w_q.wlast

WriteTo(offset) == execute_w /\ single_beat_w /\ aw_q.offset = offset

InitWrite  == WriteTo("ctrl") /\ w_q.strb # {} /\ LowBit(w_q.low, 0)
StartWrite == WriteTo("ctrl") /\ w_q.strb # {} /\ LowBit(w_q.low, 1)

DataWrite == WriteTo("word") \/ WriteTo("last")

BValidOnAddress(bready) ==       \* mutant: respond before the data is in
    (aw_q # NoReq /\ ~bvalid_o) \/ (bvalid_o /\ ~bready)

BValidNext(bready) == execute_w \/ (bvalid_o /\ ~bready)

\* AW, W and B handshakes.  A response frees both request channels.
WriteChannelClk(awvalid, wvalid, bready) ==
    /\ aw_q' = IF execute_w THEN NoReq
               ELSE IF awready_o /\ awvalid THEN m_aw ELSE aw_q
    /\ w_q'  = IF execute_w THEN NoReq
               ELSE IF wready_o /\ wvalid THEN m_w ELSE w_q
    /\ bvalid_o'  = BValidNext(bready)
    /\ bresp_o'   = IF ~execute_w THEN bresp_o
                    ELSE IF single_beat_w THEN "OKAY" ELSE "SLVERR"
    /\ LET free == ~execute_w /\ bvalid_o /\ bready
       IN  /\ awready_o' = (free \/ (awready_o /\ ~awvalid))
           /\ wready_o'  = (free \/ (wready_o /\ ~wvalid))

\* The effect of the write on the configuration and the one-cycle pulses.
RegisterClk ==
    /\ sha' = [init     |-> InitWrite,
               start    |-> StartWrite,
               valid    |-> DataWrite,
               data     |-> IF DataWrite THEN w_q.word ELSE NoWord,
               is_last  |-> WriteTo("last"),
               byte_num |-> IF WriteTo("last") THEN last_byte_num_cfg_q ELSE 0]
    /\ last_byte_num_cfg_q' =
           IF InitWrite THEN 0
           ELSE IF WriteTo("cfg") /\ 0 \in w_q.strb THEN w_q.low
           ELSE last_byte_num_cfg_q
    /\ msg_word_count_q' = IF InitWrite THEN 0
                           ELSE IF DataWrite THEN (msg_word_count_q + 1) % CountMod
                           ELSE msg_word_count_q
    /\ sent' = IF InitWrite THEN <<>>
               ELSE IF DataWrite /\ ~SentClosed
               THEN Append(sent, [data     |-> sha'.data,
                                  is_last  |-> sha'.is_last,
                                  byte_num |-> sha'.byte_num])
               ELSE sent

-----------------------------------------------------------------------------
(* The read side: the value is sampled when the address is taken.  Data    *)
(* registers whose valid bit is off are not told apart.                    *)

ReadData(offset) ==
    CASE offset = "status" -> <<"status", done_o, busy_o>>
      [] offset = "last"   -> <<"count", msg_word_count_q>>
      [] offset = "cfg"    -> <<"cfg", last_byte_num_cfg_q>>
      [] offset = "digest" -> <<"digest", absorbed, rounds>>
      [] OTHER             -> <<"other">>

ReadChannelClk(arvalid, rready) ==
    LET take == arready_o /\ arvalid /\ ~rvalid_o
        free == ~take /\ rvalid_o /\ rready
    IN  /\ rvalid_o'  = (take \/ (rvalid_o /\ ~free))
        /\ arready_o' = (~take /\ (arready_o \/ free))
        /\ rdata_o'   = IF take THEN ReadData(m_ar)
                       ELSE IF free THEN <<"other">> ELSE rdata_o

-----------------------------------------------------------------------------
(* The wrapper under the pulses.                                           *)

UnitClk ==
    \/ sha.init /\ WrapperReset
    \/ ~sha.init /\ WrapperClk(sha.start, sha.valid, sha.data, sha.is_last,
                               sha.byte_num)

(* The master.                                                             *)

MasterInit == m_aw = NoReq /\ m_w = NoReq /\ m_ar = NoReq
              /\ m_busy = FALSE /\ m_saw_done = FALSE

\* A byte store can select a lane other than the lowest; the data registers
\* do not look at the strobes.
MasterWrites ==
    [offset : {"ctrl"}, word : {NoWord}, low : 1 .. 3, strb : {0 .. 3}]
    \cup [offset : {"cfg"}, word : {NoWord}, low : 0 .. 3, strb : {{1}, 0 .. 3}]
    \cup [offset : {"word", "last"}, word : Word, low : {0}, strb : {0 .. 3}]
    \cup [offset : {"other"}, word : {NoWord}, low : {0}, strb : {0 .. 3}]

\* Bound on the message, as in Sha3Wrapper.
WithinBound(offset) ==
    \/ offset \notin {"word", "last"} \/ SentClosed
    \/ Len(sent) < MaxWords - (IF offset = "last" THEN 0 ELSE 1)

IssueWrite ==
    \E r \in {q \in MasterWrites : q.offset \in WriteOffsets} :
        /\ WithinBound(r.offset)
        /\ m_aw' = [offset |-> r.offset, len |-> 0]
        /\ m_w' = [word |-> r.word, low |-> r.low, strb |-> r.strb, wlast |-> TRUE]
        /\ m_busy' = TRUE /\ m_saw_done' = FALSE
        /\ UNCHANGED m_ar

IssueRead ==
    \E o \in ReadOffsets :
        /\ m_ar' = o /\ m_busy' = TRUE
        /\ UNCHANGED <<m_aw, m_w, m_saw_done>>

\* A transfer is under way: requests leave as they are taken, a response
\* ends it.
Proceed(awvalid, wvalid, arvalid, bready, rready) ==
    /\ m_aw' = IF awready_o /\ awvalid THEN NoReq ELSE m_aw
    /\ m_w'  = IF wready_o /\ wvalid THEN NoReq ELSE m_w
    /\ m_ar' = IF arready_o /\ arvalid /\ ~rvalid_o THEN NoReq ELSE m_ar
    /\ m_busy' = ~((bvalid_o /\ bready) \/ (rvalid_o /\ rready))
    /\ m_saw_done' = (m_saw_done \/ (/\ rvalid_o /\ rready
                                     /\ rdata_o[1] = "status" /\ rdata_o[2]))

-----------------------------------------------------------------------------
SlaveClk(awvalid, wvalid, arvalid, bready, rready) ==
    /\ WriteChannelClk(awvalid, wvalid, bready)
    /\ RegisterClk
    /\ ReadChannelClk(arvalid, rready)
    /\ UnitClk

IdleCycle == ~m_busy /\ SlaveClk(FALSE, FALSE, FALSE, FALSE, FALSE)
             /\ UNCHANGED master_vars

IssueCycle == ~m_busy /\ SlaveClk(FALSE, FALSE, FALSE, FALSE, FALSE)
              /\ (IssueWrite \/ IssueRead)

TransferCycle ==
    /\ m_busy
    /\ \E awv, wv, arv, bready, rready \in BOOLEAN :
           /\ awv => m_aw # NoReq
           /\ wv => m_w # NoReq
           /\ arv => m_ar # NoReq
           /\ SlaveClk(awv, wv, arv, bready, rready)
           /\ Proceed(awv, wv, arv, bready, rready)

Cycle == IdleCycle \/ IssueCycle \/ TransferCycle

BusInit == WrapperInit /\ RegsInit /\ MasterInit

RegsSpec == BusInit /\ [][Cycle]_vars

\* The clock does not stop.
FairRegsSpec == RegsSpec /\ WF_vars(Cycle)

-----------------------------------------------------------------------------
RegsTypeOK ==
    /\ TypeOK
    /\ {awready_o, wready_o, bvalid_o, arready_o, rvalid_o, m_busy,
        m_saw_done} \subseteq BOOLEAN
    /\ bresp_o \in {"OKAY", "SLVERR"}
    /\ {aw_q, m_aw} \subseteq AwReq \cup {NoReq}
    /\ {w_q, m_w} \subseteq WReq \cup {NoReq}
    /\ m_ar \in ArReq \cup {NoReq}
    /\ last_byte_num_cfg_q \in 0 .. 3 /\ msg_word_count_q \in 0 .. CountMod - 1
    /\ sent \in Seq(Entry)

(***************************************************************************)
(* Every word written through the bus before and including the last is     *)
(* accepted: the FIFO never overflows while a message is being sent, with  *)
(* nobody looking at input_ready_o or overflow_o (soc_top.v leaves both    *)
(* unconnected).  It rests on timing: two words are at least four cycles   *)
(* apart, so a block is permuted before the next one has arrived.          *)
(***************************************************************************)
EveryWordAccepted == sent = accepted \/ sha.valid \/ sha.init

(***************************************************************************)
(* A read on the bus never overtakes the effect of an earlier write: when  *)
(* its address is taken, no pulse is still on its way to the wrapper, so a *)
(* status read after a data write cannot return the old done bit.          *)
(***************************************************************************)
ReadSeesAllWrites ==
    m_ar # NoReq => ~sha.init /\ ~sha.start /\ ~sha.valid

\* The bytes of a message by the comment of the cfg register: of the last word
\* the byte count that cfg holds, where 0 stands for all four.
DocumentedLength(m) ==
    LET count == m[Len(m)].byte_num
    IN  4 * (Len(m) - 1) + (IF count = 0 THEN 4 ELSE count)

\* A driver that polled done, and wrote nothing since, is reading the digest.
DigestRead == m_saw_done /\ rvalid_o /\ rdata_o[1] = "digest"

\* The digest register shows the fully permuted padding of n bytes of m.
ReadsDigestOf(m, n) ==
    BytesOf(rdata_o[2]) = PaddedBytes(m, n) /\ rdata_o[3] = Rounds

(***************************************************************************)
(* What a driver gets that polls done and then reads the digest without    *)
(* writing in between: the digest of the message it sent since init, of    *)
(* the bytes the comment of cfg promises when the count in cfg is 1, 2 or  *)
(* 3.  When it is 0 the digest leaves the last word out, against that      *)
(* comment: see DigestAsDocumented.                                        *)
(***************************************************************************)
DriverReadsItsDigest ==
    DigestRead =>
        /\ sent # <<>>
        /\ IF sent[Len(sent)].byte_num # 0 THEN ReadsDigestOf(sent, DocumentedLength(sent))
           ELSE ReadsDigestOf(sent, 4 * (Len(sent) - 1))

(***************************************************************************)
(* The comment of the cfg register, axi_sha3_regs.v:165-166: the last word *)
(* has 1, 2 or 3 valid bytes as cfg says, and 0 says all 4.  The code      *)
(* violates it: the 0 goes on to padder1.v as it is, which keeps no byte.  *)
(***************************************************************************)
DigestAsDocumented ==
    DigestRead => ReadsDigestOf(sent, DocumentedLength(sent))

(***************************************************************************)
(* Every transfer has exactly one response: a request in the slave or in   *)
(* the master has no response yet, and the channels are free again after   *)
(* it, so that AW and W of two writes never meet.                          *)
(***************************************************************************)
OneResponsePerTransfer ==
    /\ ~m_busy => /\ awready_o /\ wready_o /\ arready_o
                  /\ ~bvalid_o /\ ~rvalid_o /\ aw_q = NoReq /\ w_q = NoReq
    /\ ~(bvalid_o /\ rvalid_o)
    /\ bvalid_o => {m_aw, m_w, aw_q, w_q} = {NoReq}
    /\ rvalid_o => m_ar = NoReq

(***************************************************************************)
(* Once a last word is written the driver's poll will find done = 1,       *)
(* unless the driver re-initialises the unit.                              *)
(***************************************************************************)
LastWordFinishes ==
    (sha.valid /\ sha.is_last) ~> (done_o \/ accepted = <<>>)

(***************************************************************************)
(* The register file as its master sees it: well-typed registers, one      *)
(* response per transfer with the channels free again after it, and reads  *)
(* ordered behind the effects of writes.                                   *)
(***************************************************************************)
RegsInv == RegsTypeOK /\ OneResponsePerTransfer /\ ReadSeesAllWrites
=============================================================================
