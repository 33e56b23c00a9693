---------------------------- MODULE DataBusProofs ----------------------------
(***************************************************************************)
(* Proofs about the data bus (DataBus.tla): for every set of transactions  *)
(* in which lines of several beats are only read from the ROM, the decoder *)
(* with its slaves is a slave as AxiBridge assumes it, so that what is     *)
(* proved of the bridge with any slave holds with these; only the slave    *)
(* addressed takes part in a transaction; and an answer carries an error,  *)
(* or a word of a ROM line, exactly when it should. The invariant adds to  *)
(* the phases of the bridge (AxiBridgeProofs) where the decoder and the    *)
(* slaves are in each of them.                                             *)
(***************************************************************************)
EXTENDS DataBus, AxiBridgeProofs

\* Lines of several beats are only read, and only from the ROM.
LinesFromRom == \A r \in Requests : r.len = 0 \/ (r.kind = "read" /\ r.to = "rom")

\* The registers of the decoder and its slaves have their types.
BusTypes ==
    /\ target \in Window
    /\ wr_sel \in Window \cup {"none"} /\ rd_sel \in Window \cup {"none"}
    /\ rom \in [bvalid : BOOLEAN, active : BOOLEAN, len : Lens \cup {0}, cnt : Beat,
                word : Beat, last : BOOLEAN]
    /\ sha \in [awready : BOOLEAN, wready : BOOLEAN, arready : BOOLEAN, aw_seen : BOOLEAN,
                w_seen : BOOLEAN, bvalid : BOOLEAN, rvalid : BOOLEAN]
    /\ ext \in [wready : BOOLEAN, aw : BOOLEAN, w : BOOLEAN, ar : BOOLEAN,
                bvalid : BOOLEAN, rvalid : BOOLEAN]
    /\ err \in [bvalid : BOOLEAN, rvalid : BOOLEAN]

\* The lines the bridge sees are the decoder's.
Lines ==
    /\ ready = [aw |-> AwReady, w |-> WReady, ar |-> ArReady]
    /\ resp = IF BValid THEN "b"
              ELSE IF ~RValid THEN "none" ELSE IF RLast THEN "rlast" ELSE "r"

\* Slave s has nothing to do with a write, or with a read.
WriteQuiet(s) ==
    /\ s = "rom" => ~rom.bvalid
    /\ s = "sha" => sha.awready /\ sha.wready /\ ~sha.aw_seen /\ ~sha.w_seen /\ ~sha.bvalid
    /\ s = "ext" => ~ext.aw /\ ~ext.w /\ ~ext.bvalid
    /\ s = "err" => ~err.bvalid

ReadQuiet(s) ==
    /\ s = "rom" => ~rom.active
    /\ s = "sha" => sha.arready /\ ~sha.rvalid
    /\ s = "ext" => ~ext.ar /\ ~ext.rvalid
    /\ s = "err" => ~err.rvalid

NoWrite == \A s \in Window : WriteQuiet(s)
NoRead  == \A s \in Window : ReadQuiet(s)

OnlyTargetWrites == \A s \in Window : s # target => WriteQuiet(s)
OnlyTargetReads  == \A s \in Window : s # target => ReadQuiet(s)

\* The slave asked is at the beat of the bridge.
ReadBusy ==
    /\ target = "rom" => /\ rom.active /\ rom.len = cur.len /\ rom.cnt = cur.got
                         /\ rom.word = cur.got /\ (rom.last <=> cur.got = cur.len)
    /\ target = "sha" => sha.rvalid /\ ~sha.arready
    /\ target = "ext" => (ext.ar <=> ~ext.rvalid)
    /\ target = "err" => err.rvalid
    /\ target # "rom" => cur.len = 0

\* It has got the write but not answered it.
WriteBusy ==
    /\ target \in {"sha", "ext"}
    /\ target = "sha" => /\ sha.aw_seen /\ sha.w_seen /\ ~sha.awready /\ ~sha.wready
                         /\ ~sha.bvalid
    /\ target = "ext" => ext.aw /\ ext.w /\ ~ext.bvalid

\* It answers.
WriteAnswered ==
    /\ target = "rom" => rom.bvalid
    /\ target = "sha" => /\ sha.bvalid /\ ~sha.aw_seen /\ ~sha.w_seen /\ ~sha.awready
                         /\ ~sha.wready
    /\ target = "ext" => ext.bvalid /\ ~ext.aw /\ ~ext.w
    /\ target = "err" => err.bvalid

\* An address in no window selects the error slave a cycle before it is taken.
SelectedEarly(sel) == sel = "none" \/ (sel = "err" /\ target = "err")

BusIdle == IdleInv /\ wr_sel = "none" /\ rd_sel = "none" /\ NoWrite /\ NoRead

BusAsked ==
    /\ AskedInv /\ (cur.len = 0 \/ target = "rom")
    /\ wr_sel = "none" /\ SelectedEarly(rd_sel) /\ NoWrite /\ NoRead

BusReading ==
    /\ ReadingInv /\ wr_sel = "none" /\ rd_sel = target
    /\ NoWrite /\ OnlyTargetReads /\ ReadBusy

BusOffered ==
    /\ WritingInv /\ cur.len = 0 /\ s_aw = <<>> /\ s_w = <<>>
    /\ rd_sel = "none" /\ SelectedEarly(wr_sel) /\ NoWrite /\ NoRead

BusHalf ==
    /\ WritingInv /\ cur.len = 0 /\ s_aw # <<>> /\ s_w = <<>>
    /\ rd_sel = "none" /\ wr_sel = "ext" /\ target = "ext"
    /\ ext.aw /\ ~ext.w /\ ~ext.bvalid /\ OnlyTargetWrites /\ NoRead

BusHeld ==
    /\ WritingInv /\ cur.len = 0 /\ s_aw # <<>> /\ s_w # <<>>
    /\ rd_sel = "none" /\ wr_sel = target
    /\ WriteBusy /\ OnlyTargetWrites /\ NoRead

BusWritten ==
    /\ WrittenInv /\ cur.len = 0
    /\ rd_sel = "none" /\ wr_sel = target
    /\ WriteAnswered /\ OnlyTargetWrites /\ NoRead

BusPhases == BusIdle \/ BusAsked \/ BusReading \/ BusOffered \/ BusHalf \/ BusHeld \/ BusWritten

\* The inductive invariant.
DInv == Types /\ BusTypes /\ Lines /\ BusPhases

-----------------------------------------------------------------------------

\* The handshake registers of axi_sha3_regs.v after an edge, one by one.
LEMMA ShaStep ==
    ASSUME BusTypes, ShaClk
    PROVE  LET take == ArTo("sha") /\ sha.arready /\ ~sha.rvalid IN
           /\ sha'.awready <=> sha.bvalid \/ (sha.awready /\ ~AwTo("sha"))
           /\ sha'.wready <=> sha.bvalid \/ (sha.wready /\ ~WTo("sha"))
           /\ sha'.arready <=> ~take /\ (sha.arready \/ sha.rvalid)
           /\ sha'.aw_seen <=> ~ShaExecute /\ (sha.aw_seen \/ (sha.awready /\ AwTo("sha")))
           /\ sha'.w_seen <=> ~ShaExecute /\ (sha.w_seen \/ (sha.wready /\ WTo("sha")))
           /\ sha'.bvalid <=> ShaExecute
           /\ sha'.rvalid <=> take
BY DEF ShaClk, ShaReopens

\* They stay Booleans.
LEMMA ShaTypes ==
    ASSUME BusTypes, ShaClk
    PROVE  sha' \in [awready : BOOLEAN, wready : BOOLEAN, arready : BOOLEAN,
                     aw_seen : BOOLEAN, w_seen : BOOLEAN, bvalid : BOOLEAN, rvalid : BOOLEAN]
<1>. DEFINE a == ShaReopens \/ (sha.awready /\ ~AwTo("sha"))
            b == sha.bvalid \/ (sha.wready /\ ~WTo("sha"))
            t == ArTo("sha") /\ sha.arready /\ ~sha.rvalid
            c == ~t /\ (sha.arready \/ sha.rvalid)
            d == ~ShaExecute /\ (sha.aw_seen \/ (sha.awready /\ AwTo("sha")))
            e == ~ShaExecute /\ (sha.w_seen \/ (sha.wready /\ WTo("sha")))
<1>1. a \in BOOLEAN /\ b \in BOOLEAN /\ t \in BOOLEAN /\ c \in BOOLEAN /\ d \in BOOLEAN /\ e \in BOOLEAN
  BY DEF BusTypes, ShaReopens
<1>2. ShaExecute \in BOOLEAN
  BY DEF BusTypes, ShaExecute
<1>3. sha' = [awready |-> a, wready |-> b, arready |-> c, aw_seen |-> d, w_seen |-> e,
              bvalid |-> ShaExecute, rvalid |-> t]
  BY DEF ShaClk
<1>. HIDE DEF a, b, t, c, d, e
<1>. QED
  BY <1>1, <1>2, <1>3

\* The registers of a slave with free timing after an edge.
LEMMA ExtStep ==
    ASSUME BusTypes, NEW wready \in BOOLEAN, NEW answer \in BOOLEAN, ExtClk(wready, answer)
    PROVE  LET write == answer /\ ExtAw /\ ExtW /\ ~ext.bvalid
               read  == answer /\ ExtAr /\ ~ext.rvalid
           IN  /\ ext'.wready <=> wready /\ ~ExtW
               /\ ext'.aw <=> ExtAw /\ ~write
               /\ ext'.w <=> ExtW /\ ~write
               /\ ext'.ar <=> ExtAr /\ ~read
               /\ ext'.bvalid <=> write
               /\ ext'.rvalid <=> read
               /\ ext' \in [wready : BOOLEAN, aw : BOOLEAN, w : BOOLEAN, ar : BOOLEAN,
                            bvalid : BOOLEAN, rvalid : BOOLEAN]
BY DEF ExtClk

\* Those of the error answers of the decoder.
LEMMA ErrStep ==
    ASSUME BusTypes, ErrClk
    PROVE  /\ err'.bvalid <=> wr_sel = "err" /\ ~err.bvalid /\ awvalid_o /\ wvalid_o
           /\ err'.rvalid <=> rd_sel = "err" /\ ~err.rvalid /\ arvalid_o
           /\ err' \in [bvalid : BOOLEAN, rvalid : BOOLEAN]
BY DEF ErrClk

\* Those of axi_simple_rom.v, where they matter.
LEMMA RomStep ==
    ASSUME BusTypes, RomClk
    PROVE  LET take == ArTo("rom") /\ ~rom.active IN
           /\ rom'.bvalid <=> AwTo("rom") /\ WTo("rom") /\ ~rom.bvalid
           /\ rom'.active <=> take \/ (rom.active /\ rom.cnt # rom.len)
           /\ take => /\ rom'.len = inport_w.len /\ rom'.cnt = 0 /\ rom'.word = 0
                      /\ (rom'.last <=> inport_w.len = 0)
           /\ rom.active /\ rom.cnt # rom.len =>
                 /\ rom'.len = rom.len /\ rom'.cnt = rom.cnt + 1 /\ rom'.word = rom.word + 1
                 /\ (rom'.last <=> rom.cnt + 1 = rom.len)
BY DEF RomClk, RomLast, RomNextWord, BusTypes

\* The registers of the ROM keep their widths as long as it counts no further
\* than the line is long.
LEMMA RomTypes ==
    ASSUME BusTypes, RomClk,
           ArTo("rom") /\ ~rom.active => inport_w.len \in Lens \cup {0},
           rom.active /\ rom.cnt # rom.len => rom.cnt + 1 \in Beat /\ rom.word + 1 \in Beat
    PROVE  rom' \in [bvalid : BOOLEAN, active : BOOLEAN, len : Lens \cup {0}, cnt : Beat,
                     word : Beat, last : BOOLEAN]
<1>. DEFINE R == [bvalid : BOOLEAN, active : BOOLEAN, len : Lens \cup {0}, cnt : Beat,
                  word : Beat, last : BOOLEAN]
            v == AwTo("rom") /\ WTo("rom") /\ ~rom.bvalid
            l == inport_w.len = 0
            k == rom.cnt + 1 = rom.len
            started == [rom EXCEPT !.active = TRUE, !.len = inport_w.len, !.cnt = 0,
                               !.word = 0, !.last = l]
            ended   == [rom EXCEPT !.active = FALSE, !.last = FALSE]
            stepped == [rom EXCEPT !.cnt = @ + 1, !.word = rom.word + 1, !.last = k]
            read == IF ArTo("rom") /\ ~rom.active THEN started
                    ELSE IF ~rom.active THEN rom
                    ELSE IF rom.cnt = rom.len THEN ended ELSE stepped
<1>0. rom \in R
  BY DEF BusTypes
<1>1. v \in BOOLEAN /\ l \in BOOLEAN /\ k \in BOOLEAN
  OBVIOUS
<1>2. rom' = [read EXCEPT !.bvalid = v]
  BY DEF RomClk, RomLast, RomNextWord
<1>3. 0 \in Beat
  BY MaxLenIsMax, LensAssumption DEF Beat
<1>. HIDE DEF v, l, k
<1>4. read \in R
  <2>1. CASE ArTo("rom") /\ ~rom.active
    BY <2>1, <1>0, <1>1, <1>3
  <2>2. CASE ~(ArTo("rom") /\ ~rom.active) /\ ~rom.active
    BY <2>2, <1>0
  <2>3. CASE rom.active /\ rom.cnt = rom.len
    BY <2>3, <1>0
  <2>4. CASE rom.active /\ rom.cnt # rom.len
    BY <2>4, <1>0, <1>1
  <2>. QED
    BY <2>1, <2>2, <2>3, <2>4
<1>. HIDE DEF read
<1>. QED
  BY <1>1, <1>2, <1>4

\* A clock edge of the decoder and its slaves.
SlavesClk(wready, answer) ==
    SelClk /\ RomClk /\ ShaClk /\ ErrClk /\ ExtClk(wready, answer) /\ LinesClk

\* An edge keeps the types, and the lines the bridge sees are the new outputs.
LEMMA BusTypesStep ==
    ASSUME BusTypes, NEW wready \in BOOLEAN, NEW answer \in BOOLEAN,
           SlavesClk(wready, answer), target' \in Window,
           ArTo("rom") /\ ~rom.active => inport_w.len \in Lens \cup {0},
           rom.active /\ rom.cnt # rom.len => rom.cnt + 1 \in Beat /\ rom.word + 1 \in Beat
    PROVE  BusTypes' /\ Lines'
<1>1. wr_sel' \in Window \cup {"none"} /\ rd_sel' \in Window \cup {"none"}
  BY DEF BusTypes, SlavesClk, SelClk
<1>2. /\ rom' \in [bvalid : BOOLEAN, active : BOOLEAN, len : Lens \cup {0}, cnt : Beat,
                   word : Beat, last : BOOLEAN]
      /\ sha' \in [awready : BOOLEAN, wready : BOOLEAN, arready : BOOLEAN, aw_seen : BOOLEAN,
                   w_seen : BOOLEAN, bvalid : BOOLEAN, rvalid : BOOLEAN]
      /\ ext' \in [wready : BOOLEAN, aw : BOOLEAN, w : BOOLEAN, ar : BOOLEAN,
                   bvalid : BOOLEAN, rvalid : BOOLEAN]
      /\ err' \in [bvalid : BOOLEAN, rvalid : BOOLEAN]
  BY RomTypes, ShaTypes, ExtStep, ErrStep DEF SlavesClk
<1>3. BusTypes'
  BY <1>1, <1>2 DEF BusTypes
<1>4. Lines'
  BY DEF SlavesClk, LinesClk, Lines
<1>. QED
  BY <1>3, <1>4

\* The three ready lines are Booleans.
LEMMA ReadyType == BusTypes /\ Lines => ready \in Ready
<1>. SUFFICES ASSUME BusTypes, Lines PROVE ready \in Ready
  OBVIOUS
<1>1. AwReady \in BOOLEAN
  BY DEF AwReady, BusTypes, ExtAwReady, Window
<1>2. WReady \in BOOLEAN
  BY DEF WReady, WSlave, BusTypes, Window
<1>3. ArReady \in BOOLEAN
  BY DEF ArReady, BusTypes, ExtArReady, Window
<1>. QED
  BY <1>1, <1>2, <1>3 DEF Lines, Ready

\* So are they after the edge.
LEMMA ReadyTypeNext == (BusTypes /\ Lines)' => (ready \in Ready)'
<1>1. BusTypes /\ Lines => ready \in Ready
  BY ReadyType
<1>. QED
  BY <1>1, PTL

\* A slave that is sent neither address nor data of a write stays out of it.
LEMMA WriteQuietStep ==
    ASSUME BusTypes, NEW wready \in BOOLEAN, NEW answer \in BOOLEAN,
           SlavesClk(wready, answer), NEW s \in Window, WriteQuiet(s), ~AwTo(s), ~WTo(s),
           s = "err" => ~(wr_sel = "err" /\ awvalid_o /\ wvalid_o)
    PROVE  WriteQuiet(s)'
<1>1. CASE s = "rom"
  <2>1. ~rom'.bvalid
    BY <1>1, RomStep DEF SlavesClk
  <2>. QED
    BY <1>1, <2>1 DEF WriteQuiet
<1>2. CASE s = "sha"
  <2>1. /\ sha'.awready /\ sha'.wready /\ ~sha'.aw_seen /\ ~sha'.w_seen /\ ~sha'.bvalid
    BY <1>2, ShaStep DEF SlavesClk, WriteQuiet, ShaExecute
  <2>. QED
    BY <1>2, <2>1 DEF WriteQuiet
<1>3. CASE s = "ext"
  <2>1. ~ext'.aw /\ ~ext'.w /\ ~ext'.bvalid
    BY <1>3, ExtStep DEF SlavesClk, WriteQuiet, ExtAw, ExtW
  <2>. QED
    BY <1>3, <2>1 DEF WriteQuiet
<1>4. CASE s = "err"
  <2>1. ~err'.bvalid
    BY <1>4, ErrStep DEF SlavesClk
  <2>. QED
    BY <1>4, <2>1 DEF WriteQuiet
<1>. QED
  BY <1>1, <1>2, <1>3, <1>4 DEF Window

\* A slave that is sent no read address stays out of reads.
LEMMA ReadQuietStep ==
    ASSUME BusTypes, NEW wready \in BOOLEAN, NEW answer \in BOOLEAN,
           SlavesClk(wready, answer), NEW s \in Window, ReadQuiet(s), ~ArTo(s),
           s = "err" => ~(rd_sel = "err" /\ arvalid_o)
    PROVE  ReadQuiet(s)'
<1>1. CASE s = "rom"
  <2>1. ~rom'.active
    BY <1>1, RomStep DEF SlavesClk, ReadQuiet
  <2>. QED
    BY <1>1, <2>1 DEF ReadQuiet
<1>2. CASE s = "sha"
  <2>1. sha'.arready /\ ~sha'.rvalid
    BY <1>2, ShaStep DEF SlavesClk, ReadQuiet
  <2>. QED
    BY <1>2, <2>1 DEF ReadQuiet
<1>3. CASE s = "ext"
  <2>1. ~ext'.ar /\ ~ext'.rvalid
    BY <1>3, ExtStep DEF SlavesClk, ReadQuiet, ExtAr
  <2>. QED
    BY <1>3, <2>1 DEF ReadQuiet
<1>4. CASE s = "err"
  <2>1. ~err'.rvalid
    BY <1>4, ErrStep DEF SlavesClk
  <2>. QED
    BY <1>4, <2>1 DEF ReadQuiet
<1>. QED
  BY <1>1, <1>2, <1>3, <1>4 DEF Window

\* An edge of the bus is one of AxiBridge if the decoder answers a write only
\* when address and last beat are taken, and a read as many times as asked,
\* with the mark on the last one.
LEMMA SlaveStep ==
    ASSUME NEW o \in Offers, NEW to \in Window, NEW wready \in BOOLEAN, NEW answer \in BOOLEAN,
           BusClk(o, to, wready, answer), ready' \in Ready,
           BValid' => WriteDue /\ ~RValid',
           RValid' => Owed > 0 /\ (RLast' <=> Owed = 1)
    PROVE  \E given \in BOOLEAN : Clk(o, ready', given)
<1>1. BridgeClk(o.in) /\ MasterClk(o) /\ LinesClk /\ TakenClk
  BY DEF BusClk
<1>2. \E given \in BOOLEAN : SlaveClk(ready', given)
  <2>1. CASE BValid'
    <3>1. resp' = "b" /\ s_aw' = <<>> /\ s_w' = <<>> /\ s_r' = Owed
      BY <1>1, <2>1 DEF LinesClk, TakenClk
    <3>2. SlaveClk(ready', TRUE)
      BY <2>1, <3>1 DEF SlaveClk
    <3>. QED
      BY <3>2
  <2>2. CASE ~BValid' /\ RValid'
    <3>1. /\ resp' = IF RLast' THEN "rlast" ELSE "r"
          /\ s_aw' = GotAw /\ s_w' = GotW /\ s_r' = Owed - 1
      BY <1>1, <2>2 DEF LinesClk, TakenClk
    <3>2. SlaveClk(ready', TRUE)
      BY <2>2, <3>1 DEF SlaveClk
    <3>. QED
      BY <3>2
  <2>3. CASE ~BValid' /\ ~RValid'
    <3>1. resp' = "none" /\ s_aw' = GotAw /\ s_w' = GotW /\ s_r' = Owed
      BY <1>1, <2>3 DEF LinesClk, TakenClk
    <3>2. SlaveClk(ready', FALSE)
      BY <2>3, <3>1 DEF SlaveClk
    <3>. QED
      BY <3>2
  <2>. QED
    BY <2>1, <2>2, <2>3
<1>. QED
  BY <1>1, <1>2 DEF Clk

\* A transaction that begins is one the bus is made for.
LEMMA FirstBeatTargets ==
    ASSUME LinesFromRom, NEW o \in Offers, NEW to \in Window, MasterTargets(o, to),
           MasterClk(o), Acked = Idle, inport_accept_o, target' = to
    PROVE  cur'.kind # "none" => cur'.len = 0 \/ (cur'.kind = "read" /\ target' = "rom")
<1>1. cur' = o.next
  BY DEF MasterClk
<1>2. CASE o.in = <<>> /\ o.next = Acked
  BY <1>1, <1>2 DEF Idle
<1>3. ASSUME NEW n \in Lens, o.in = <<RBeat(Started("read", n))>>, o.next = Started("read", n)
      PROVE  cur'.len = 0 \/ (cur'.kind = "read" /\ target' = "rom")
  <2>1. [kind |-> "read", len |-> n, to |-> to] \in Requests
    BY <1>3 DEF MasterTargets, Begins, Started
  <2>. QED
    BY <1>1, <1>3, <2>1 DEF LinesFromRom, Started
<1>4. ASSUME NEW n \in Lens, o.in = <<WBeat(Started("write", n), 0)>>,
             o.next = Started("write", n)
      PROVE  cur'.len = 0
  <2>1. [kind |-> "write", len |-> n, to |-> to] \in Requests
    BY <1>4 DEF MasterTargets, Begins, Started
  <2>. QED
    BY <1>1, <1>4, <2>1 DEF LinesFromRom, Started
<1>. QED
  <2>1. Acked.kind = "none"
    BY DEF Idle
  <2>. QED
    BY <1>2, <1>3, <1>4, <2>1, OfferCases

\* With all slaves at rest the bus is ready for whatever phase the bridge is
\* in.
LEMMA NextPhase ==
    ASSUME (IdleInv \/ AskedInv \/ WritingInv)', s_aw' = <<>>, s_w' = <<>>,
           NoWrite', NoRead', wr_sel' = "none", rd_sel' = "none",
           cur'.kind # "none" => cur'.len = 0 \/ (cur'.kind = "read" /\ target' = "rom")
    PROVE  BusPhases'
<1>1. CASE IdleInv'
  BY <1>1 DEF BusPhases, BusIdle
<1>2. CASE AskedInv'
  <2>1. cur'.kind = "read"
    BY <1>2 DEF AskedInv
  <2>. QED
    BY <1>2, <2>1 DEF BusPhases, BusAsked, SelectedEarly
<1>3. CASE WritingInv'
  <2>1. cur'.kind = "write"
    BY <1>3 DEF WritingInv
  <2>. QED
    BY <1>3, <2>1 DEF BusPhases, BusOffered, SelectedEarly
<1>. QED
  BY <1>1, <1>2, <1>3

\* The parts of an edge of the bus.
LEMMA BusClkParts ==
    ASSUME NEW o \in Offers, NEW to \in Window, NEW wready \in BOOLEAN, NEW answer \in BOOLEAN,
           BusClk(o, to, wready, answer)
    PROVE  /\ SlavesClk(wready, answer) /\ target' \in {to, target}
           /\ inport_accept_o => target' = to
           /\ MasterTargets(o, to) /\ MasterClk(o) /\ BridgeClk(o.in) /\ TakenClk
           /\ ~inport_accept_o \/ ~Begins(o) => target' = target
BY DEF BusClk, SlavesClk, MasterTargets

\* A cycle without a transaction.
LEMMA BusIdleStep ==
    ASSUME LinesFromRom, Types, BusTypes, BusIdle,
           NEW o \in Offers, NEW to \in Window, NEW wready \in BOOLEAN, NEW answer \in BOOLEAN,
           BusClk(o, to, wready, answer)
    PROVE  (\E given \in BOOLEAN : Clk(o, ready', given)) /\ DInv'
<1>. USE DEF BusIdle
<1>1. ~awvalid_o /\ ~wvalid_o /\ ~arvalid_o
  BY NothingOffered
<1>2. /\ SlavesClk(wready, answer) /\ target' \in Window /\ MasterTargets(o, to)
      /\ MasterClk(o) /\ BridgeClk(o.in) /\ TakenClk /\ (inport_accept_o => target' = to)
  BY BusClkParts DEF BusTypes
<1>3. BusTypes' /\ Lines'
  <2>1. ~ArTo("rom") /\ ~rom.active
    BY <1>1 DEF ArTo, NoRead, ReadQuiet, Window
  <2>. QED
    BY <1>2, <2>1, BusTypesStep
<1>4. ready' \in Ready
  BY <1>3, ReadyTypeNext
<1>5. NoWrite' /\ NoRead'
  <2>1. \A s \in Window : WriteQuiet(s)'
    BY <1>1, <1>2, WriteQuietStep DEF NoWrite, AwTo, WTo
  <2>2. \A s \in Window : ReadQuiet(s)'
    BY <1>1, <1>2, ReadQuietStep DEF NoRead, ArTo
  <2>. QED
    BY <2>1, <2>2 DEF NoWrite, NoRead
<1>6. wr_sel' = "none" /\ rd_sel' = "none"
  BY <1>1, <1>2 DEF SlavesClk, SelClk, wr_idle_w, rd_idle_w
<1>7. ~BValid' /\ ~RValid'
  BY <1>6 DEF BValid, RValid
<1>8. PICK given \in BOOLEAN : Clk(o, ready', given)
  BY <1>4, <1>7, SlaveStep
<1>9. (Types /\ (IdleInv \/ AskedInv \/ WritingInv))'
  BY <1>4, <1>8, IdleStep
<1>10. s_aw' = <<>> /\ s_w' = <<>>
  <2>1. ~aw_taken /\ ~w_taken
    BY <1>1 DEF aw_taken, w_taken
  <2>. QED
    BY <1>2, <1>7, <2>1 DEF TakenClk, GotAw, GotW, IdleInv, NothingTaken
<1>11. Acked = Idle /\ inport_accept_o
  BY DEF IdleInv, Acked, inport_ack_o, inport_accept_o, Depth
<1>12. cur'.kind # "none" => cur'.len = 0 \/ (cur'.kind = "read" /\ target' = "rom")
  BY <1>2, <1>11, FirstBeatTargets
<1>13. BusPhases'
  BY <1>5, <1>6, <1>9, <1>10, <1>12, NextPhase
<1>. QED
  BY <1>3, <1>8, <1>9, <1>13 DEF DInv

\* A read address is taken in its first cycle, or in the second when it lies in
\* no window; then the slave addressed has it.
LEMMA BusAskedStep ==
    ASSUME LinesFromRom, Types, BusTypes, Lines, BusAsked,
           NEW o \in Offers, NEW to \in Window, NEW wready \in BOOLEAN, NEW answer \in BOOLEAN,
           BusClk(o, to, wready, answer)
    PROVE  (\E given \in BOOLEAN : Clk(o, ready', given)) /\ DInv'
<1>. USE DEF BusAsked
<1>1. ~awvalid_o /\ ~wvalid_o /\ arvalid_o /\ inport_w.len = cur.len
  BY ReadOffered
<1>2. /\ SlavesClk(wready, answer) /\ MasterTargets(o, to)
      /\ MasterClk(o) /\ BridgeClk(o.in) /\ TakenClk
      /\ ~inport_accept_o \/ ~Begins(o) => target' = target
  BY BusClkParts
<1>3. Acked = cur
  BY DEF AskedInv, Acked, inport_ack_o
<1>4. o.in = <<>> /\ cur' = cur
  BY <1>2, <1>3, NoMore DEF AskedInv, AllSent, Beats
<1>5. target' = target /\ target \in Window
  BY <1>2, <1>4 DEF Begins, BusTypes
<1>6. cur.len \in Lens \cup {0} /\ cur.len \in Nat /\ cur.kind = "read" /\ cur.got = 0
  BY CurType DEF Types, AskedInv
<1>7. BusTypes' /\ Lines'
  <2>1. ~rom.active
    BY DEF NoRead, ReadQuiet, Window
  <2>. QED
    BY <1>1, <1>2, <1>5, <1>6, <2>1, BusTypesStep
<1>8. ready' \in Ready
  BY <1>7, ReadyTypeNext
<1>9. NoWrite' /\ wr_sel' = "none" /\ ~BValid'
  <2>1. \A s \in Window : WriteQuiet(s)'
    BY <1>1, <1>2, WriteQuietStep DEF NoWrite, AwTo, WTo
  <2>2. wr_sel' = "none"
    BY <1>1, <1>2 DEF SlavesClk, SelClk, wr_idle_w
  <2>. QED
    BY <2>1, <2>2 DEF NoWrite, BValid
<1>10. \A s \in Window : s # target => ReadQuiet(s)'
  <2>. SUFFICES ASSUME NEW s \in Window, s # target PROVE ReadQuiet(s)'
    OBVIOUS
  <2>1. ReadQuiet(s) /\ ~ArTo(s)
    BY DEF NoRead, ArTo
  <2>2. s = "err" => rd_sel # "err"
    BY DEF SelectedEarly
  <2>. QED
    BY <1>2, <2>1, <2>2, ReadQuietStep
<1>11. rd_sel' = target
  <2>1. rd_sel = "none" => rd_sel' = target
    BY <1>1, <1>2 DEF SlavesClk, SelClk, rd_idle_w
  <2>2. rd_sel = "err" /\ target = "err" => rd_sel' = target
    <3>1. ~err.rvalid
      BY DEF NoRead, ReadQuiet, Window
    <3>. QED
      BY <1>2, <3>1 DEF SlavesClk, SelClk, rd_idle_w, RValid
  <2>. QED
    BY <2>1, <2>2 DEF SelectedEarly
<1>12. ar_taken <=> ~(target = "err" /\ rd_sel = "none")
  <2>1. ready.ar = ArReady
    BY DEF Lines
  <2>2. target # "err" => ArReady
    BY <1>5 DEF ArReady, NoRead, ReadQuiet, Window, ExtArReady
  <2>3. target = "err" => (ArReady <=> rd_sel = "err")
    BY DEF ArReady
  <2>. QED
    BY <1>1, <2>1, <2>2, <2>3 DEF ar_taken, SelectedEarly
<1>13. GotAw = <<>> /\ GotW = <<>> /\ Owed = (IF ar_taken THEN cur.len + 1 ELSE 0)
  BY <1>1, <1>6 DEF GotAw, GotW, Owed, aw_taken, w_taken, AskedInv, NothingTaken
<1>14. CASE ar_taken
  <2>1. rd_sel = "none" \/ target = "err"
    BY DEF SelectedEarly
  <2>2. /\ target = "rom" => /\ rom'.active /\ rom'.len = cur.len /\ rom'.cnt = 0
                             /\ rom'.word = 0 /\ (rom'.last <=> cur.len = 0)
        /\ target = "sha" => sha'.rvalid /\ ~sha'.arready
        /\ target = "ext" => (ext'.ar <=> ~ext'.rvalid)
        /\ target = "err" => err'.rvalid
    <3>1. CASE target = "rom"
      <4>1. ArTo("rom") /\ ~rom.active
        BY <1>1, <2>1, <3>1 DEF ArTo, rd_idle_w, NoRead, ReadQuiet, Window
      <4>. QED
        BY <1>1, <1>2, <3>1, <4>1, RomStep DEF SlavesClk
    <3>2. CASE target = "sha"
      <4>1. ArTo("sha") /\ sha.arready /\ ~sha.rvalid
        BY <1>1, <2>1, <3>2 DEF ArTo, rd_idle_w, NoRead, ReadQuiet, Window
      <4>. QED
        BY <1>2, <3>2, <4>1, ShaStep DEF SlavesClk
    <3>3. CASE target = "ext"
      <4>1. ArTo("ext") /\ ~ext.ar /\ ~ext.rvalid
        BY <1>1, <2>1, <3>3 DEF ArTo, rd_idle_w, NoRead, ReadQuiet, Window
      <4>. QED
        BY <1>2, <3>3, <4>1, ExtStep DEF SlavesClk, ExtAr, ExtArReady
    <3>4. CASE target = "err"
      <4>1. rd_sel = "err" /\ ~err.rvalid
        BY <1>12, <1>14, <3>4 DEF NoRead, ReadQuiet, Window, SelectedEarly
      <4>. QED
        BY <1>1, <1>2, <3>4, <4>1, ErrStep DEF SlavesClk
    <3>. QED
      BY <1>5, <3>1, <3>2, <3>3, <3>4 DEF Window
  <2>3. ReadBusy' /\ OnlyTargetReads'
    BY <1>4, <1>5, <1>6, <1>10, <2>2 DEF ReadBusy, OnlyTargetReads
  <2>4. RValid' => (RLast' <=> Owed = 1)
    <3>1. target = "rom" => (RLast' <=> cur.len = 0)
      BY <1>11, <2>2 DEF RLast
    <3>2. target # "rom" => cur.len = 0
      OBVIOUS
    <3>3. target # "rom" => (RLast' <=> RValid')
      BY <1>11 DEF RLast
    <3>. QED
      BY <1>6, <1>13, <1>14, <3>1, <3>2, <3>3
  <2>5. PICK given \in BOOLEAN : Clk(o, ready', given)
    BY <1>6, <1>8, <1>9, <1>13, <1>14, <2>4, SlaveStep
  <2>6. (Types /\ (AskedInv \/ ReadingInv))'
    BY <1>8, <2>5, AskedStep
  <2>7. ~AskedInv'
    <3>1. fifo' = <<>>
      <4>1. accept_w
        BY <1>14 DEF accept_w, AskedInv, AtRest
      <4>2. fifo' = Tail(fifo) \o <<>>
        BY <1>2, <1>4, <4>1 DEF BridgeClk, FifoClk
      <4>. QED
        BY <4>2, ShortQueues DEF AskedInv
    <3>. QED
      BY <3>1 DEF AskedInv
  <2>8. BusReading'
    BY <1>5, <1>9, <1>11, <2>3, <2>6, <2>7 DEF BusReading
  <2>. QED
    BY <1>7, <2>5, <2>6, <2>8 DEF DInv, BusPhases
<1>15. CASE ~ar_taken
  <2>1. target = "err" /\ rd_sel = "none"
    BY <1>12, <1>15
  <2>2. NoRead' /\ ~RValid'
    <3>1. ~err'.rvalid
      BY <1>2, <2>1, ErrStep DEF SlavesClk
    <3>2. ReadQuiet("err")'
      BY <3>1 DEF ReadQuiet
    <3>3. \A s \in Window : ReadQuiet(s)'
      BY <1>10, <2>1, <3>2
    <3>. QED
      BY <1>11, <2>1, <3>1, <3>3 DEF NoRead, RValid
  <2>3. PICK given \in BOOLEAN : Clk(o, ready', given)
    BY <1>8, <1>9, <2>2, SlaveStep
  <2>4. (Types /\ (AskedInv \/ ReadingInv))'
    BY <1>8, <2>3, AskedStep
  <2>5. ~ReadingInv'
    <3>1. resp' = "none" /\ s_r' = 0
      BY <1>2, <1>9, <1>13, <1>15, <2>2 DEF SlavesClk, LinesClk, TakenClk
    <3>. QED
      BY <3>1 DEF ReadingInv
  <2>6. BusAsked'
    BY <1>4, <1>5, <1>9, <1>11, <2>1, <2>2, <2>4, <2>5 DEF BusAsked, SelectedEarly
  <2>. QED
    BY <1>7, <2>3, <2>4, <2>6 DEF DInv, BusPhases
<1>. QED
  BY <1>14, <1>15

\* What the lines say while a read is at its slave.
LEMMA ReadPhase ==
    ASSUME Types, BusTypes, Lines, BusReading
    PROVE  /\ cur.kind = "read" /\ cur.len \in Lens /\ cur.len \in Nat /\ cur.got \in 0 .. cur.len
           /\ cur.len <= MaxLen /\ MaxLen \in Nat /\ s_r \in Nat
           /\ resp = "none" <=> ~RValid
           /\ resp = "rlast" <=> RValid /\ cur.got = cur.len
           /\ resp = "none" => target = "ext" /\ ext.ar
           /\ resp = "r" => target = "rom" /\ cur.got < cur.len
           /\ Owed = s_r /\ GotAw = <<>> /\ GotW = <<>> /\ ~accept_w
           /\ ~awvalid_o /\ ~wvalid_o /\ ~arvalid_o
<1>. USE DEF BusReading
<1>1. ~awvalid_o /\ ~wvalid_o /\ ~arvalid_o
  BY NothingOffered
<1>2. Owed = s_r /\ GotAw = <<>> /\ GotW = <<>> /\ ~accept_w
  BY <1>1 DEF Owed, GotAw, GotW, accept_w, ar_taken, aw_taken, w_taken, ReadingInv
<1>3. /\ cur.kind = "read" /\ cur.len \in Lens /\ cur.len \in Nat /\ cur.got \in Nat
      /\ s_r \in Nat
  BY CurType DEF ReadingInv, Types
<1>4. cur.got \in 0 .. cur.len
  BY <1>3 DEF ReadingInv
<1>5. cur.len <= MaxLen /\ MaxLen \in Nat
  BY <1>3, MaxLenIsMax, LenType
<1>6. ~BValid
  BY DEF BValid
<1>7. resp = IF ~RValid THEN "none" ELSE IF RLast THEN "rlast" ELSE "r"
  BY <1>6 DEF Lines
<1>8. RValid => (RLast <=> cur.got = cur.len)
  <2>1. target = "rom" => (RLast <=> cur.got = cur.len)
    BY DEF RLast, ReadBusy
  <2>2. target # "rom" => (RLast <=> RValid) /\ cur.got = cur.len
    BY <1>3, <1>4 DEF RLast, ReadBusy
  <2>. QED
    BY <2>1, <2>2
<1>9. ~RValid => target = "ext" /\ ext.ar
  BY DEF RValid, ReadBusy, BusTypes, Window
<1>10. target # "rom" => cur.got = cur.len
  BY <1>4 DEF ReadBusy
<1>. QED
  BY <1>1, <1>2, <1>3, <1>4, <1>5, <1>7, <1>8, <1>9, <1>10

\* The write side rests during a read.
LEMMA BusReadingTypes ==
    ASSUME Types, BusTypes, Lines, BusReading,
           NEW o \in Offers, NEW to \in Window, NEW wready \in BOOLEAN, NEW answer \in BOOLEAN,
           BusClk(o, to, wready, answer)
    PROVE  BusTypes' /\ Lines' /\ ready' \in Ready /\ wr_sel' = "none" /\ NoWrite' /\ ~BValid'
<1>1. SlavesClk(wready, answer) /\ target' \in Window
  BY BusClkParts DEF BusTypes
<1>2. ~awvalid_o /\ ~wvalid_o /\ ~arvalid_o
  BY ReadPhase
<1>3. rom.active /\ rom.cnt # rom.len => rom.cnt + 1 \in Beat /\ rom.word + 1 \in Beat
  <2>1. rom.active => target = "rom"
    BY DEF BusReading, OnlyTargetReads, ReadQuiet, Window
  <2>2. target = "rom" => rom.len = cur.len /\ rom.cnt = cur.got /\ rom.word = cur.got
    BY DEF BusReading, ReadBusy
  <2>. QED
    BY <2>1, <2>2, ReadPhase DEF Beat
<1>4. BusTypes' /\ Lines'
  BY <1>1, <1>2, <1>3, BusTypesStep DEF ArTo
<1>5. ready' \in Ready
  BY <1>4, ReadyTypeNext
<1>6. \A s \in Window : WriteQuiet(s)'
  BY <1>1, <1>2, WriteQuietStep DEF BusReading, NoWrite, AwTo, WTo
<1>7. wr_sel' = "none"
  BY <1>1, <1>2 DEF SlavesClk, SelClk, wr_idle_w, BusReading
<1>. QED
  BY <1>4, <1>5, <1>6, <1>7 DEF NoWrite, BValid

\* The last beat of a read frees the select, and the slave rests.
LEMMA BusReadEndStep ==
    ASSUME LinesFromRom, Types, BusTypes, Lines, BusReading, resp = "rlast",
           NEW o \in Offers, NEW to \in Window, NEW wready \in BOOLEAN, NEW answer \in BOOLEAN,
           BusClk(o, to, wready, answer)
    PROVE  (\E given \in BOOLEAN : Clk(o, ready', given)) /\ DInv'
<1>. USE DEF BusReading
<1>1. BusTypes' /\ Lines' /\ ready' \in Ready /\ wr_sel' = "none" /\ NoWrite' /\ ~BValid'
  BY BusReadingTypes
<1>2. /\ SlavesClk(wready, answer) /\ MasterTargets(o, to)
      /\ MasterClk(o) /\ TakenClk /\ (inport_accept_o => target' = to)
  BY BusClkParts
<1>3. /\ cur.kind = "read" /\ cur.len \in Nat /\ cur.got = cur.len /\ RValid
      /\ Owed = s_r /\ GotAw = <<>> /\ GotW = <<>>
      /\ ~awvalid_o /\ ~wvalid_o /\ ~arvalid_o
  BY ReadPhase
<1>4. rd_sel' = "none"
  <2>1. RLast
    <3>1. ~BValid
      BY DEF BValid
    <3>. QED
      BY <1>3, <3>1 DEF Lines
  <2>. QED
    BY <1>2, <1>3, <2>1 DEF SlavesClk, SelClk, rd_idle_w, BusTypes, Window
<1>5. NoRead'
  <2>1. \A s \in Window : s # target => ReadQuiet(s)'
    BY <1>2, <1>3, ReadQuietStep DEF OnlyTargetReads, ArTo
  <2>2. target = "rom" => ReadQuiet("rom")'
    <3>1. target = "rom" => ~rom'.active
      BY <1>2, <1>3, RomStep DEF SlavesClk, ReadBusy, ArTo
    <3>. QED
      BY <3>1 DEF ReadQuiet
  <2>3. target = "sha" => ReadQuiet("sha")'
    <3>1. target = "sha" => sha'.arready /\ ~sha'.rvalid
      BY <1>2, <1>3, ShaStep DEF SlavesClk, ReadBusy, ArTo
    <3>. QED
      BY <3>1 DEF ReadQuiet
  <2>4. target = "ext" => ReadQuiet("ext")'
    <3>1. target = "ext" => ext.rvalid /\ ~ext.ar
      BY <1>3 DEF RValid, ReadBusy
    <3>2. target = "ext" => ~ext'.ar /\ ~ext'.rvalid
      BY <1>2, <1>3, <3>1, ExtStep DEF SlavesClk, ExtAr, ArTo
    <3>. QED
      BY <3>2 DEF ReadQuiet
  <2>5. target = "err" => ReadQuiet("err")'
    <3>1. target = "err" => ~err'.rvalid
      BY <1>2, <1>3, ErrStep DEF SlavesClk
    <3>. QED
      BY <3>1 DEF ReadQuiet
  <2>6. \A s \in Window : ReadQuiet(s)'
    BY <2>1, <2>2, <2>3, <2>4, <2>5 DEF Window
  <2>. QED
    BY <2>6 DEF NoRead
<1>6. ~RValid'
  BY <1>4 DEF RValid
<1>7. PICK given \in BOOLEAN : Clk(o, ready', given)
  BY <1>1, <1>6, SlaveStep
<1>8. (Types /\ (IdleInv \/ AskedInv \/ ReadingInv \/ WritingInv))'
  BY <1>1, <1>7, ReadingStep
<1>9. s_aw' = <<>> /\ s_w' = <<>> /\ s_r' = 0 /\ resp' = "none"
  <2>1. s_r = 0
    BY DEF ReadingInv
  <2>. QED
    BY <1>1, <1>2, <1>3, <1>6, <2>1 DEF SlavesClk, LinesClk, TakenClk
<1>10. ~ReadingInv'
  BY <1>9 DEF ReadingInv
<1>11. Acked = Idle /\ inport_accept_o
  BY <1>3 DEF Acked, inport_ack_o, Answers, inport_accept_o, Depth, ReadingInv
<1>12. cur'.kind # "none" => cur'.len = 0 \/ (cur'.kind = "read" /\ target' = "rom")
  BY <1>2, <1>11, FirstBeatTargets
<1>13. BusPhases'
  BY <1>1, <1>4, <1>5, <1>8, <1>9, <1>10, <1>12, NextPhase
<1>. QED
  BY <1>1, <1>7, <1>8, <1>13 DEF DInv

\* Before it slave and bridge stay at the same beat.
LEMMA BusReadMoreStep ==
    ASSUME Types, BusTypes, Lines, BusReading, resp # "rlast",
           NEW o \in Offers, NEW to \in Window, NEW wready \in BOOLEAN, NEW answer \in BOOLEAN,
           BusClk(o, to, wready, answer)
    PROVE  (\E given \in BOOLEAN : Clk(o, ready', given)) /\ DInv'
<1>. USE DEF BusReading
<1>1. BusTypes' /\ Lines' /\ ready' \in Ready /\ wr_sel' = "none" /\ NoWrite' /\ ~BValid'
  BY BusReadingTypes
<1>2. /\ SlavesClk(wready, answer) /\ MasterClk(o) /\ BridgeClk(o.in) /\ TakenClk
      /\ ~inport_accept_o \/ ~Begins(o) => target' = target
  BY BusClkParts
<1>3. /\ cur.kind = "read" /\ cur.len \in Nat /\ cur.got \in 0 .. cur.len
      /\ resp = "none" => target = "ext" /\ ext.ar /\ ~RValid
      /\ resp = "r" => target = "rom" /\ cur.got < cur.len /\ RValid
      /\ Owed = s_r /\ s_r \in Nat /\ ~accept_w /\ ~arvalid_o
  BY ReadPhase
<1>4. /\ \/ resp = "none" /\ s_r > 0 /\ cur.got + s_r = cur.len + 1
         \/ resp = "r" /\ s_r > 0 /\ cur.got + s_r = cur.len
  BY DEF ReadingInv
<1>5. Acked = IF resp = "r" THEN [cur EXCEPT !.got = @ + 1] ELSE cur
  BY <1>3, <1>4 DEF Acked, inport_ack_o, Answers
<1>6. o.in = <<>> /\ cur' = Acked
  <2>1. Acked.kind # "none" /\ AllSent(Acked)
    BY <1>3, <1>5 DEF AllSent, Beats, ReadingInv, Types
  <2>. QED
    BY <1>2, <2>1, NoMore
<1>7. /\ cur'.kind = "read" /\ cur'.len = cur.len
      /\ cur'.got = IF resp = "r" THEN cur.got + 1 ELSE cur.got
  BY <1>3, <1>5, <1>6 DEF Types
<1>8. target' = target /\ target \in Window
  BY <1>2, <1>6 DEF Begins, BusTypes
<1>9. rd_sel' = target
  <2>1. ~(RValid /\ RLast)
    <3>1. ~BValid
      BY DEF BValid
    <3>. QED
      BY <3>1 DEF Lines
  <2>. QED
    BY <1>2, <1>8, <2>1 DEF SlavesClk, SelClk, rd_idle_w, Window
<1>10. OnlyTargetReads'
  <2>1. \A s \in Window : s # target => ReadQuiet(s)'
    BY <1>2, <1>3, ReadQuietStep DEF OnlyTargetReads, ArTo
  <2>. QED
    BY <1>8, <2>1 DEF OnlyTargetReads
<1>11. /\ resp = "r" => /\ rom'.active /\ rom'.len = cur.len /\ rom'.cnt = cur.got + 1
                        /\ rom'.word = cur.got + 1 /\ (rom'.last <=> cur.got + 1 = cur.len)
       /\ resp = "none" => (ext'.ar <=> ~ext'.rvalid)
  <2>1. CASE resp = "r"
    <3>1. /\ target = "rom" /\ rom.active /\ rom.len = cur.len /\ rom.cnt = cur.got
          /\ rom.word = cur.got /\ rom.cnt # rom.len
      BY <1>3, <2>1 DEF ReadBusy
    <3>. QED
      BY <1>2, <2>1, <3>1, RomStep DEF SlavesClk
  <2>2. CASE resp = "none"
    <3>1. target = "ext" /\ ext.ar /\ ~ext.rvalid
      BY <1>3, <2>2 DEF ReadBusy
    <3>. QED
      BY <1>2, <2>2, <3>1, ExtStep DEF SlavesClk, ExtAr
  <2>. QED
    BY <1>4, <2>1, <2>2
<1>12. ReadBusy'
  <2>1. CASE resp = "r"
    BY <1>3, <1>7, <1>8, <1>11, <2>1 DEF ReadBusy
  <2>2. CASE resp = "none"
    BY <1>3, <1>7, <1>8, <1>11, <2>2 DEF ReadBusy
  <2>. QED
    BY <1>4, <2>1, <2>2
<1>13. RValid' => (RLast' <=> Owed = 1)
  <2>1. CASE resp = "r"
    <3>1. RLast' <=> rom'.last
      BY <1>3, <1>9, <2>1 DEF RLast
    <3>2. Owed = 1 <=> cur.got + 1 = cur.len
      BY <1>3, <1>4, <2>1
    <3>. QED
      BY <1>11, <2>1, <3>1, <3>2
  <2>2. CASE resp = "none"
    <3>1. RLast' <=> RValid'
      BY <1>3, <1>9, <2>2 DEF RLast
    <3>2. cur.len = 0
      BY <1>3, <2>2 DEF ReadBusy
    <3>3. Owed = 1
      BY <1>3, <1>4, <2>2, <3>2
    <3>. QED
      BY <3>1, <3>3
  <2>. QED
    BY <1>4, <2>1, <2>2
<1>14. PICK given \in BOOLEAN : Clk(o, ready', given)
  BY <1>1, <1>3, <1>4, <1>13, SlaveStep
<1>15. (Types /\ (IdleInv \/ AskedInv \/ ReadingInv \/ WritingInv))'
  BY <1>1, <1>14, ReadingStep
<1>16. fifo' = <<>>
  <2>1. fifo' = <<>> \o <<>>
    BY <1>2, <1>3, <1>6 DEF BridgeClk, FifoClk, ReadingInv
  <2>. QED
    BY <2>1, ShortQueues
<1>17. ReadingInv'
  BY <1>7, <1>15, <1>16 DEF IdleInv, AskedInv, WritingInv, Idle
<1>18. BusReading'
  BY <1>1, <1>8, <1>9, <1>10, <1>12, <1>17 DEF BusReading
<1>. QED
  BY <1>1, <1>14, <1>15, <1>18 DEF DInv, BusPhases

\* A write of one beat: address and data are offered until each is taken, and
\* its one beat is the last.
LEMMA WriteOffer ==
    ASSUME Types, WritingInv, cur.len = 0
    PROVE  /\ cur.sent = 1 /\ cur.kind = "write" /\ cur.len \in Lens /\ Acked = cur
           /\ ~arvalid_o /\ (awvalid_o <=> s_aw = <<>>)
           /\ (wvalid_o <=> s_w = <<>> )
           /\ awvalid_o => inport_w.len = 0
           /\ wvalid_o => inport_w.last = TRUE
           /\ Owed = 0
           /\ GotAw = IF aw_taken THEN <<0>> ELSE s_aw
           /\ (GotAw # <<>> <=> aw_taken \/ s_aw # <<>>)
           /\ (GotW # <<>> <=> w_taken \/ s_w # <<>>)
           /\ (GotW # <<>> => GotW[Len(GotW)].last)
<1>1. /\ cur.kind = "write" /\ cur.sent = 1 /\ s_r = 0 /\ resp = "none"
      /\ BurstInOrder(cur, s_w) /\ s_w \in Seq([beat : Nat, last : BOOLEAN])
  BY DEF WritingInv, Types
<1>2. Acked = cur
  BY <1>1 DEF Acked, inport_ack_o
<1>3. Len(s_w) \in {0, 1}
  <2>1. cur.len \in Nat /\ popped \in 0 .. 1
    BY CurType DEF WritingInv
  <2>. QED
    BY <2>1, <1>1 DEF WritingInv, SkidHolds
<1>4. /\ ~arvalid_o
      /\ awvalid_o <=> s_aw = <<>>
      /\ awvalid_o => inport_w.len = cur.len
      /\ wvalid_o <=> Len(s_w) < cur.sent /\ ~(s_aw = <<>> /\ Len(s_w) = 1)
      /\ wvalid_o => /\ inport_w.beat = Len(s_w)
                     /\ inport_w.last = (Len(s_w) = cur.len)
  BY WriteOffered
<1>5. wvalid_o <=> s_w = <<>>
  <2>1. Len(s_w) = 0 <=> s_w = <<>>
    BY <1>1, EmptySeq
  <2>2. wvalid_o <=> Len(s_w) < 1 /\ ~(s_aw = <<>> /\ Len(s_w) = 1)
    BY <1>1, <1>4
  <2>. QED
    BY <1>3, <2>1, <2>2
<1>6. wvalid_o => inport_w.last = TRUE
  BY <1>1, <1>4, <1>5
<1>7. Owed = 0
  BY <1>1, <1>4 DEF Owed, ar_taken
<1>8. GotAw = IF aw_taken THEN <<0>> ELSE s_aw
  <2>1. aw_taken => s_aw = <<>> /\ inport_w.len = 0
    BY <1>4 DEF aw_taken
  <2>2. aw_taken => GotAw = Append(<<>>, 0)
    BY <2>1 DEF GotAw
  <2>3. Append(<<>>, 0) = <<0>>
    OBVIOUS
  <2>. QED
    BY <2>2, <2>3 DEF GotAw
<1>9. w_taken => GotW = <<[beat |-> inport_w.beat, last |-> inport_w.last]>>
  BY <1>5 DEF GotW, w_taken
<1>10. w_taken => GotW # <<>> /\ GotW[Len(GotW)].last
  <2>. DEFINE item == [beat |-> inport_w.beat, last |-> inport_w.last]
  <2>1. w_taken => GotW = <<item>> /\ item.last = TRUE
    BY <1>6, <1>9 DEF w_taken
  <2>. HIDE DEF item
  <2>2. <<item>> # <<>> /\ <<item>>[Len(<<item>>)] = item
    OBVIOUS
  <2>. DEFINE one == <<item>>
  <2>3. (w_taken => GotW = one /\ item.last = TRUE) /\ one # <<>> /\ one[Len(one)] = item
    BY <2>1, <2>2
  <2>. HIDE DEF one
  <2>. QED
    BY <2>3
<1>11. ~w_taken /\ s_w # <<>> => GotW # <<>> /\ GotW[Len(GotW)].last
  <2>. SUFFICES ASSUME ~w_taken, s_w # <<>> PROVE GotW # <<>> /\ GotW[Len(GotW)].last
    OBVIOUS
  <2>1. GotW = s_w /\ Len(s_w) = 1
    BY <1>1, <1>3 DEF GotW
  <2>2. s_w[1] = [beat |-> 1 - 1, last |-> 1 - 1 = cur.len]
    BY <1>1, <2>1 DEF BurstInOrder
  <2>3. s_w[1].last = (1 - 1 = cur.len)
    BY <2>2
  <2>4. s_w[1].last = TRUE
    <3>1. (1 - 1 = cur.len) = TRUE
      OBVIOUS
    <3>. QED
      BY <2>3, <3>1
  <2>5. GotW[Len(GotW)] = s_w[1] /\ GotW # <<>>
    BY <2>1
  <2>. QED
    BY <2>4, <2>5
<1>12. ~w_taken /\ s_w = <<>> => GotW = <<>>
  BY DEF GotW
<1>13. cur.len \in Lens
  BY <1>1, CurType
<1>. QED
  BY <1>1, <1>2, <1>4, <1>5, <1>6, <1>7, <1>8, <1>10, <1>11, <1>12, <1>13

\* Until a write is answered the select stays at its window, the other slaves
\* and the read side rest.
LEMMA BusWritingCommon ==
    ASSUME Types, BusTypes, Lines, WritingInv, cur.len = 0, rd_sel = "none", NoRead,
           (SelectedEarly(wr_sel) /\ s_aw = <<>>) \/ wr_sel = target,
           OnlyTargetWrites, ~BValid,
           NEW o \in Offers, NEW to \in Window, NEW wready \in BOOLEAN, NEW answer \in BOOLEAN,
           BusClk(o, to, wready, answer)
    PROVE  /\ BusTypes' /\ Lines' /\ ready' \in Ready /\ NoRead' /\ OnlyTargetWrites'
           /\ rd_sel' = "none" /\ wr_sel' = target /\ ~RValid'
           /\ target' = target /\ target \in Window /\ cur' = cur
           /\ SlavesClk(wready, answer) /\ TakenClk
<1>1. /\ SlavesClk(wready, answer) /\ MasterClk(o) /\ TakenClk
      /\ ~inport_accept_o \/ ~Begins(o) => target' = target
  BY BusClkParts
<1>2. /\ Acked = cur /\ cur.kind = "write" /\ cur.sent = 1 /\ ~arvalid_o
      /\ (awvalid_o <=> s_aw = <<>>)
  BY WriteOffer
<1>3. o.in = <<>> /\ cur' = cur
  BY <1>1, <1>2, NoMore DEF AllSent, Beats
<1>4. target' = target /\ target \in Window
  BY <1>1, <1>3 DEF Begins, BusTypes
<1>5. BusTypes' /\ Lines'
  <2>1. ~rom.active
    BY DEF NoRead, ReadQuiet, Window
  <2>. QED
    BY <1>1, <1>2, <1>4, <2>1, BusTypesStep DEF ArTo
<1>6. ready' \in Ready
  BY <1>5, ReadyTypeNext
<1>7. NoRead'
  <2>1. \A s \in Window : ReadQuiet(s)'
    BY <1>1, <1>2, ReadQuietStep DEF NoRead, ArTo
  <2>. QED
    BY <2>1 DEF NoRead
<1>8. OnlyTargetWrites'
  <2>1. \A s \in Window : s # target => WriteQuiet(s)'
    <3>. SUFFICES ASSUME NEW s \in Window, s # target PROVE WriteQuiet(s)'
      OBVIOUS
    <3>1. WriteQuiet(s) /\ ~AwTo(s)
      BY DEF OnlyTargetWrites, AwTo
    <3>2. wr_sel # s
      BY DEF SelectedEarly, Window
    <3>. QED
      BY <1>1, <3>1, <3>2, WriteQuietStep DEF WTo
  <2>. QED
    BY <1>4, <2>1 DEF OnlyTargetWrites
<1>9. rd_sel' = "none" /\ ~RValid'
  BY <1>1, <1>2 DEF SlavesClk, SelClk, rd_idle_w, RValid
<1>10. wr_sel' = target
  <2>1. CASE wr_sel = "none"
    <3>1. awvalid_o
      BY <1>2, <1>4, <2>1 DEF SelectedEarly, Window
    <3>. QED
      BY <1>1, <2>1, <3>1 DEF SlavesClk, SelClk, wr_idle_w
  <2>2. CASE wr_sel # "none"
    <3>1. wr_sel = target
      BY <2>2 DEF SelectedEarly
    <3>. QED
      BY <1>1, <2>2, <3>1 DEF SlavesClk, SelClk, wr_idle_w
  <2>. QED
    BY <2>1, <2>2
<1>. QED
  BY <1>1, <1>3, <1>4, <1>5, <1>6, <1>7, <1>8, <1>9, <1>10

\* How far the slave is with the write after the edge.
WriteGot(aw, w) ==
    \/ aw = <<>> /\ w = <<>> /\ NoWrite /\ target = "err"
    \/ aw # <<>> /\ w = <<>> /\ target = "ext" /\ ext.aw /\ ~ext.w
    \/ aw # <<>> /\ w # <<>> /\ WriteBusy

\* Where the write is after the edge decides the next phase.
LEMMA WriteAdvances ==
    ASSUME Types, BusTypes, Lines, WritingInv, cur.len = 0,
           NEW o \in Offers, NEW to \in Window, NEW wready \in BOOLEAN, NEW answer \in BOOLEAN,
           BusClk(o, to, wready, answer),
           BusTypes' /\ Lines' /\ ready' \in Ready /\ NoRead' /\ OnlyTargetWrites',
           rd_sel' = "none" /\ wr_sel' = target /\ ~RValid', target' = target, cur' = cur,
           BValid' => GotAw # <<>> /\ GotW # <<>> /\ WriteAnswered',
           ~BValid' => \A aw, w : aw = GotAw /\ w = GotW => WriteGot(aw, w)'
    PROVE  (\E given \in BOOLEAN : Clk(o, ready', given)) /\ DInv'
<1>1. GotW # <<>> => GotW[Len(GotW)].last
  BY WriteOffer
<1>2. PICK given \in BOOLEAN : Clk(o, ready', given)
  <2>1. BValid' => WriteDue /\ ~RValid'
    BY <1>1 DEF WriteDue
  <2>. QED
    BY <2>1, SlaveStep
<1>3. (Types /\ (WritingInv \/ WrittenInv))'
  BY <1>2, WritingStep
<1>4. LinesClk /\ TakenClk
  BY DEF BusClk
<1>5. CASE BValid'
  <2>1. resp' = "b"
    BY <1>4, <1>5 DEF LinesClk
  <2>2. WrittenInv'
    BY <1>3, <2>1 DEF WritingInv
  <2>3. BusWritten'
    BY <1>5, <2>2 DEF BusWritten
  <2>. QED
    BY <1>2, <1>3, <2>3 DEF DInv, BusPhases
<1>6. CASE ~BValid'
  <2>1. resp' = "none" /\ s_aw' = GotAw /\ s_w' = GotW
    BY <1>4, <1>6 DEF LinesClk, TakenClk
  <2>2. WritingInv'
    BY <1>3, <2>1 DEF WrittenInv
  <2>. DEFINE aw == GotAw
              w == GotW
  <2>3. aw = GotAw /\ w = GotW
    OBVIOUS
  <2>. HIDE DEF aw, w
  <2>4. \/ s_aw' = <<>> /\ s_w' = <<>> /\ NoWrite' /\ target' = "err"
        \/ s_aw' # <<>> /\ s_w' = <<>> /\ target' = "ext" /\ ext'.aw /\ ~ext'.w
        \/ s_aw' # <<>> /\ s_w' # <<>> /\ WriteBusy'
    <3>. SUFFICES ASSUME NEW x, NEW y, x = GotAw, y = GotW
                  PROVE  \/ x = <<>> /\ y = <<>> /\ NoWrite' /\ target' = "err"
                         \/ x # <<>> /\ y = <<>> /\ target' = "ext" /\ ext'.aw /\ ~ext'.w
                         \/ x # <<>> /\ y # <<>> /\ WriteBusy'
      BY <2>1
    <3>1. WriteGot(x, y)'
      BY <1>6
    <3>. QED
      BY <3>1 DEF WriteGot
  <2>5. ~ext'.bvalid \/ target # "ext"
    BY <1>6 DEF BValid
  <2>6. BusOffered' \/ BusHalf' \/ BusHeld'
    <3>1. CASE s_aw' = <<>>
      BY <2>2, <2>4, <3>1 DEF BusOffered, SelectedEarly
    <3>2. CASE s_aw' # <<>> /\ s_w' = <<>>
      BY <2>2, <2>4, <2>5, <3>2 DEF BusHalf
    <3>3. CASE s_aw' # <<>> /\ s_w' # <<>>
      BY <2>2, <2>4, <3>3 DEF BusHeld
    <3>. QED
      BY <3>1, <3>2, <3>3
  <2>. QED
    BY <1>2, <1>3, <2>6 DEF DInv, BusPhases
<1>. QED
  BY <1>5, <1>6

\* Address and data are taken in the first cycle, in the second for the error
\* answers; only the data of a slave with free timing may wait.
LEMMA BusOfferedStep ==
    ASSUME Types, BusTypes, Lines, BusOffered,
           NEW o \in Offers, NEW to \in Window, NEW wready \in BOOLEAN, NEW answer \in BOOLEAN,
           BusClk(o, to, wready, answer)
    PROVE  (\E given \in BOOLEAN : Clk(o, ready', given)) /\ DInv'
<1>. USE DEF BusOffered
<1>1. OnlyTargetWrites /\ ~BValid
  BY DEF NoWrite, OnlyTargetWrites, BValid, SelectedEarly, WriteQuiet, Window
<1>2. /\ BusTypes' /\ Lines' /\ ready' \in Ready /\ NoRead' /\ OnlyTargetWrites'
      /\ rd_sel' = "none" /\ wr_sel' = target /\ ~RValid'
      /\ target' = target /\ target \in Window /\ cur' = cur
      /\ SlavesClk(wready, answer)
  BY <1>1, BusWritingCommon
<1>3. /\ awvalid_o /\ wvalid_o
      /\ GotAw = (IF aw_taken THEN <<0>> ELSE <<>>)
      /\ (GotW # <<>> <=> w_taken)
  BY WriteOffer
<1>4. ready.aw = AwReady /\ ready.w = WReady
  BY DEF Lines
<1>5. (aw_taken <=> AwReady) /\ (w_taken <=> WReady)
  BY <1>3, <1>4 DEF aw_taken, w_taken
<1>6. GotAw # <<>> <=> aw_taken
  BY <1>3
<1>7. /\ BValid' => GotAw # <<>> /\ GotW # <<>> /\ WriteAnswered'
      /\ ~BValid' => \A aw, w : aw = GotAw /\ w = GotW => WriteGot(aw, w)'
  <2>1. CASE target = "rom"
    <3>1. wr_sel = "none" /\ ~rom.bvalid
      BY <2>1 DEF SelectedEarly, NoWrite, WriteQuiet, Window
    <3>2. AwReady /\ WReady
      BY <2>1, <3>1 DEF AwReady, WReady, WSlave, wr_idle_w
    <3>3. rom'.bvalid
      BY <1>2, <1>3, <2>1, <3>1, RomStep DEF SlavesClk, AwTo, WTo, wr_idle_w
    <3>4. BValid' /\ WriteAnswered'
      BY <1>2, <2>1, <3>3 DEF BValid, WriteAnswered
    <3>. QED
      BY <1>3, <1>5, <1>6, <3>2, <3>4
  <2>2. CASE target = "sha"
    <3>1. /\ wr_sel = "none" /\ sha.awready /\ sha.wready /\ ~sha.aw_seen /\ ~sha.w_seen
          /\ ~sha.bvalid
      BY <2>2 DEF SelectedEarly, NoWrite, WriteQuiet, Window
    <3>2. AwReady /\ WReady
      BY <2>2, <3>1 DEF AwReady, WReady, WSlave, wr_idle_w
    <3>3. AwTo("sha") /\ WTo("sha") /\ ~ShaExecute
      BY <1>3, <2>2, <3>1 DEF AwTo, WTo, wr_idle_w, ShaExecute
    <3>4. sha'.aw_seen /\ sha'.w_seen /\ ~sha'.awready /\ ~sha'.wready /\ ~sha'.bvalid
      BY <1>2, <3>1, <3>3, ShaStep DEF SlavesClk
    <3>5. ~BValid' /\ WriteBusy'
      BY <1>2, <2>2, <3>4 DEF BValid, WriteBusy
    <3>. QED
      BY <1>3, <1>5, <1>6, <3>2, <3>5 DEF WriteGot
  <2>3. CASE target = "ext"
    <3>1. wr_sel = "none" /\ ~ext.aw /\ ~ext.w /\ ~ext.bvalid
      BY <2>3 DEF SelectedEarly, NoWrite, WriteQuiet, Window
    <3>2. AwReady /\ (WReady <=> ext.wready)
      BY <2>3, <3>1 DEF AwReady, ExtAwReady, WReady, WSlave, wr_idle_w
    <3>3. ExtAw /\ (ExtW <=> ext.wready)
      BY <1>3, <2>3, <3>1 DEF ExtAw, ExtW, ExtAwReady, AwTo, WTo, wr_idle_w
    <3>4. CASE answer /\ ext.wready
      <4>1. ext'.bvalid /\ ~ext'.aw /\ ~ext'.w
        BY <1>2, <3>1, <3>3, <3>4, ExtStep DEF SlavesClk
      <4>2. BValid' /\ WriteAnswered'
        BY <1>2, <2>3, <4>1 DEF BValid, WriteAnswered
      <4>. QED
        BY <1>3, <1>5, <1>6, <3>2, <3>4, <4>2
    <3>5. CASE ~(answer /\ ext.wready)
      <4>1. ~ext'.bvalid /\ ext'.aw /\ (ext'.w <=> ext.wready)
        BY <1>2, <3>1, <3>3, <3>5, ExtStep DEF SlavesClk
      <4>2. ~BValid'
        BY <1>2, <2>3, <4>1 DEF BValid
      <4>3. ext.wready => WriteBusy'
        BY <1>2, <2>3, <4>1 DEF WriteBusy
      <4>. QED
        BY <1>2, <1>3, <1>5, <1>6, <2>3, <3>2, <4>1, <4>2, <4>3 DEF WriteGot
    <3>. QED
      BY <3>4, <3>5
  <2>4. CASE target = "err" /\ wr_sel = "err"
    <3>1. ~err.bvalid
      BY DEF NoWrite, WriteQuiet, Window
    <3>2. AwReady /\ WReady
      BY <2>4 DEF AwReady, WReady, WSlave, wr_idle_w
    <3>3. err'.bvalid
      BY <1>2, <1>3, <2>4, <3>1, ErrStep DEF SlavesClk
    <3>4. BValid' /\ WriteAnswered'
      BY <1>2, <2>4, <3>3 DEF BValid, WriteAnswered
    <3>. QED
      BY <1>3, <1>5, <1>6, <3>2, <3>4
  <2>5. CASE target = "err" /\ wr_sel = "none"
    <3>1. ~AwReady /\ ~WReady
      BY <2>5 DEF AwReady, WReady, WSlave, wr_idle_w
    <3>2. ~err'.bvalid
      BY <1>2, <2>5, ErrStep DEF SlavesClk
    <3>3. NoWrite' /\ ~BValid'
      <4>1. WriteQuiet("err")'
        BY <3>2 DEF WriteQuiet
      <4>2. \A s \in Window : WriteQuiet(s)'
        BY <1>2, <2>5, <4>1 DEF OnlyTargetWrites
      <4>. QED
        BY <1>2, <2>5, <3>2, <4>2 DEF NoWrite, BValid
    <3>. QED
      BY <1>2, <1>3, <1>5, <2>5, <3>1, <3>3 DEF WriteGot
  <2>. QED
    BY <1>2, <2>1, <2>2, <2>3, <2>4, <2>5 DEF SelectedEarly, Window
<1>. QED
  BY <1>2, <1>7, WriteAdvances

\* The data of a write waits for such a slave.
LEMMA BusHalfStep ==
    ASSUME Types, BusTypes, Lines, BusHalf,
           NEW o \in Offers, NEW to \in Window, NEW wready \in BOOLEAN, NEW answer \in BOOLEAN,
           BusClk(o, to, wready, answer)
    PROVE  (\E given \in BOOLEAN : Clk(o, ready', given)) /\ DInv'
<1>. USE DEF BusHalf
<1>1. ~BValid
  BY DEF BValid
<1>2. /\ BusTypes' /\ Lines' /\ ready' \in Ready /\ NoRead' /\ OnlyTargetWrites'
      /\ rd_sel' = "none" /\ wr_sel' = target /\ ~RValid'
      /\ target' = target /\ target \in Window /\ cur' = cur
      /\ SlavesClk(wready, answer)
  BY <1>1, BusWritingCommon
<1>3. /\ ~awvalid_o /\ wvalid_o
      /\ GotAw # <<>> /\ (GotW # <<>> <=> w_taken)
  BY WriteOffer
<1>4. w_taken <=> ext.wready
  <2>1. ready.w = WReady
    BY DEF Lines
  <2>2. WReady <=> ext.wready
    BY DEF WReady, WSlave, wr_idle_w
  <2>. QED
    BY <1>3, <2>1, <2>2 DEF w_taken
<1>5. ExtAw /\ (ExtW <=> ext.wready)
  BY <1>3 DEF ExtAw, ExtW, WTo
<1>6. CASE answer /\ ext.wready
  <2>1. ext'.bvalid /\ ~ext'.aw /\ ~ext'.w
    BY <1>2, <1>5, <1>6, ExtStep DEF SlavesClk
  <2>2. BValid' /\ WriteAnswered'
    BY <1>2, <2>1 DEF BValid, WriteAnswered
  <2>. QED
    BY <1>2, <1>3, <1>4, <1>6, <2>2, WriteAdvances
<1>7. CASE ~(answer /\ ext.wready)
  <2>1. ~ext'.bvalid /\ ext'.aw /\ (ext'.w <=> ext.wready)
    BY <1>2, <1>5, <1>7, ExtStep DEF SlavesClk
  <2>2. ~BValid'
    BY <1>2, <2>1 DEF BValid
  <2>3. ext.wready => WriteBusy'
    BY <1>2, <2>1 DEF WriteBusy
  <2>4. \A aw, w : aw = GotAw /\ w = GotW => WriteGot(aw, w)'
    BY <1>2, <1>3, <1>4, <2>1, <2>3 DEF WriteGot
  <2>. QED
    BY <1>2, <2>2, <2>4, WriteAdvances
<1>. QED
  BY <1>6, <1>7

\* The slave has the write and answers it.
LEMMA BusHeldStep ==
    ASSUME Types, BusTypes, Lines, BusHeld,
           NEW o \in Offers, NEW to \in Window, NEW wready \in BOOLEAN, NEW answer \in BOOLEAN,
           BusClk(o, to, wready, answer)
    PROVE  (\E given \in BOOLEAN : Clk(o, ready', given)) /\ DInv'
<1>. USE DEF BusHeld
<1>1. ~BValid
  BY DEF BValid, WriteBusy
<1>2. /\ BusTypes' /\ Lines' /\ ready' \in Ready /\ NoRead' /\ OnlyTargetWrites'
      /\ rd_sel' = "none" /\ wr_sel' = target /\ ~RValid'
      /\ target' = target /\ target \in Window /\ cur' = cur
      /\ SlavesClk(wready, answer)
  BY <1>1, BusWritingCommon
<1>3. ~awvalid_o /\ ~wvalid_o /\ GotAw # <<>> /\ GotW # <<>>
  BY WriteOffer
<1>4. CASE target = "sha"
  <2>1. ShaExecute /\ ~AwTo("sha") /\ ~WTo("sha")
    BY <1>3, <1>4 DEF WriteBusy, ShaExecute, AwTo, WTo
  <2>2. sha'.bvalid /\ ~sha'.aw_seen /\ ~sha'.w_seen /\ ~sha'.awready /\ ~sha'.wready
    BY <1>2, <1>4, <2>1, ShaStep DEF SlavesClk, WriteBusy
  <2>3. BValid' /\ WriteAnswered'
    BY <1>2, <1>4, <2>2 DEF BValid, WriteAnswered
  <2>. QED
    BY <1>2, <1>3, <2>3, WriteAdvances
<1>5. CASE target = "ext"
  <2>1. ExtAw /\ ExtW /\ ~ext.bvalid
    BY <1>5 DEF WriteBusy, ExtAw, ExtW
  <2>2. CASE answer
    <3>1. ext'.bvalid /\ ~ext'.aw /\ ~ext'.w
      BY <1>2, <2>1, <2>2, ExtStep DEF SlavesClk
    <3>2. BValid' /\ WriteAnswered'
      BY <1>2, <1>5, <3>1 DEF BValid, WriteAnswered
    <3>. QED
      BY <1>2, <1>3, <3>2, WriteAdvances
  <2>3. CASE ~answer
    <3>1. ~ext'.bvalid /\ ext'.aw /\ ext'.w
      BY <1>2, <2>1, <2>3, ExtStep DEF SlavesClk
    <3>2. ~BValid' /\ WriteBusy'
      BY <1>2, <1>5, <3>1 DEF BValid, WriteBusy
    <3>3. \A aw, w : aw = GotAw /\ w = GotW => WriteGot(aw, w)'
      BY <1>3, <3>2 DEF WriteGot
    <3>. QED
      BY <1>2, <3>2, <3>3, WriteAdvances
  <2>. QED
    BY <2>2, <2>3
<1>. QED
  BY <1>4, <1>5 DEF WriteBusy

\* The answer to a write frees the select, and the slave is open again.
LEMMA BusWrittenStep ==
    ASSUME LinesFromRom, Types, BusTypes, Lines, BusWritten,
           NEW o \in Offers, NEW to \in Window, NEW wready \in BOOLEAN, NEW answer \in BOOLEAN,
           BusClk(o, to, wready, answer)
    PROVE  (\E given \in BOOLEAN : Clk(o, ready', given)) /\ DInv'
<1>. USE DEF BusWritten
<1>1. ~awvalid_o /\ ~wvalid_o /\ ~arvalid_o
  BY NothingOffered
<1>2. /\ SlavesClk(wready, answer) /\ target' \in Window /\ MasterTargets(o, to)
      /\ MasterClk(o) /\ BridgeClk(o.in) /\ TakenClk /\ (inport_accept_o => target' = to)
  BY BusClkParts DEF BusTypes
<1>3. BusTypes' /\ Lines'
  <2>1. ~ArTo("rom") /\ ~rom.active
    BY <1>1 DEF ArTo, NoRead, ReadQuiet, Window
  <2>. QED
    BY <1>2, <2>1, BusTypesStep
<1>4. ready' \in Ready
  BY <1>3, ReadyTypeNext
<1>5. NoRead'
  <2>1. \A s \in Window : ReadQuiet(s)'
    BY <1>1, <1>2, ReadQuietStep DEF NoRead, ArTo
  <2>. QED
    BY <2>1 DEF NoRead
<1>6. NoWrite'
  <2>1. \A s \in Window : s # target => WriteQuiet(s)'
    BY <1>1, <1>2, WriteQuietStep DEF OnlyTargetWrites, AwTo, WTo
  <2>2. target = "rom" => WriteQuiet("rom")'
    <3>1. ~rom'.bvalid
      BY <1>1, <1>2, RomStep DEF SlavesClk, AwTo
    <3>. QED
      BY <3>1 DEF WriteQuiet
  <2>3. target = "sha" => WriteQuiet("sha")'
    <3>1. target = "sha" => /\ sha'.awready /\ sha'.wready /\ ~sha'.aw_seen /\ ~sha'.w_seen
                            /\ ~sha'.bvalid
      BY <1>1, <1>2, ShaStep DEF SlavesClk, WriteAnswered, ShaExecute, AwTo, WTo
    <3>. QED
      BY <3>1 DEF WriteQuiet
  <2>4. target = "ext" => WriteQuiet("ext")'
    <3>1. target = "ext" => ~ext'.aw /\ ~ext'.w /\ ~ext'.bvalid
      BY <1>1, <1>2, ExtStep DEF SlavesClk, WriteAnswered, ExtAw, ExtW, AwTo, WTo
    <3>. QED
      BY <3>1 DEF WriteQuiet
  <2>5. target = "err" => WriteQuiet("err")'
    <3>1. ~err'.bvalid
      BY <1>1, <1>2, ErrStep DEF SlavesClk
    <3>. QED
      BY <3>1 DEF WriteQuiet
  <2>6. \A s \in Window : WriteQuiet(s)'
    BY <2>1, <2>2, <2>3, <2>4, <2>5 DEF Window
  <2>. QED
    BY <2>6 DEF NoWrite
<1>7. wr_sel' = "none" /\ rd_sel' = "none"
  <2>1. BValid
    BY DEF BValid, WriteAnswered, BusTypes, Window
  <2>. QED
    BY <1>1, <1>2, <2>1 DEF SlavesClk, SelClk, wr_idle_w, rd_idle_w, BusTypes, Window
<1>8. ~BValid' /\ ~RValid'
  BY <1>7 DEF BValid, RValid
<1>9. PICK given \in BOOLEAN : Clk(o, ready', given)
  BY <1>4, <1>8, SlaveStep
<1>10. (Types /\ (IdleInv \/ AskedInv \/ WritingInv))'
  BY <1>4, <1>9, WrittenStep
<1>11. s_aw' = <<>> /\ s_w' = <<>>
  <2>1. ~aw_taken /\ ~w_taken
    BY <1>1 DEF aw_taken, w_taken
  <2>. QED
    BY <1>2, <1>8, <2>1 DEF TakenClk, GotAw, GotW, WrittenInv, NothingTaken
<1>12. Acked = Idle /\ inport_accept_o
  BY DEF WrittenInv, Acked, inport_ack_o, Answers, inport_accept_o, Depth
<1>13. cur'.kind # "none" => cur'.len = 0 \/ (cur'.kind = "read" /\ target' = "rom")
  BY <1>2, <1>12, FirstBeatTargets
<1>14. BusPhases'
  BY <1>5, <1>6, <1>7, <1>10, <1>11, <1>13, NextPhase
<1>. QED
  BY <1>3, <1>9, <1>10, <1>14 DEF DInv

\* The invariant holds after reset.
LEMMA BusInitInv == BusInit => DInv
<1>. SUFFICES ASSUME BusInit PROVE DInv
  OBVIOUS
<1>. USE DEF BusInit
<1>1. Types
  BY InitInv DEF Inv
<1>2. 0 \in Beat
  BY MaxLenIsMax, LensAssumption DEF Beat
<1>3. BusTypes
  BY <1>2 DEF BusTypes, Window, RomIdle, ShaIdle, ExtIdle
<1>4. ~BValid /\ ~RValid
  BY DEF BValid, RValid
<1>5. Lines
  <2>1. AwReady = FALSE
    BY DEF AwReady
  <2>2. WReady = FALSE
    BY DEF WReady, WSlave, wr_idle_w
  <2>3. ArReady = FALSE
    BY DEF ArReady
  <2>. QED
    BY <1>4, <2>1, <2>2, <2>3 DEF Lines, Init
<1>6. IdleInv
  BY DEF IdleInv, AtRest, NothingTaken, Init
<1>7. NoWrite /\ NoRead
  BY DEF NoWrite, WriteQuiet, NoRead, ReadQuiet, RomIdle, ShaIdle, ExtIdle
<1>. QED
  BY <1>1, <1>3, <1>5, <1>6, <1>7 DEF DInv, BusPhases, BusIdle

\* Every edge of the bus is one of AxiBridge and keeps the invariant.
LEMMA BusStep ==
    ASSUME LinesFromRom, DInv,
           NEW o \in Offers, NEW to \in Window, NEW wready \in BOOLEAN, NEW answer \in BOOLEAN,
           BusClk(o, to, wready, answer)
    PROVE  (\E given \in BOOLEAN : Clk(o, ready', given)) /\ DInv'
<1>1. Types /\ BusTypes /\ Lines
  BY DEF DInv
<1>2. CASE BusIdle
  BY <1>1, <1>2, BusIdleStep
<1>3. CASE BusAsked
  BY <1>1, <1>3, BusAskedStep
<1>4. CASE BusReading
  BY <1>1, <1>4, BusReadEndStep, BusReadMoreStep
<1>5. CASE BusOffered
  BY <1>1, <1>5, BusOfferedStep
<1>6. CASE BusHalf
  BY <1>1, <1>6, BusHalfStep
<1>7. CASE BusHeld
  BY <1>1, <1>7, BusHeldStep
<1>8. CASE BusWritten
  BY <1>1, <1>8, BusWrittenStep
<1>. QED
  BY <1>2, <1>3, <1>4, <1>5, <1>6, <1>7, <1>8 DEF DInv, BusPhases

\* So does every step.
LEMMA BusNextInv == LinesFromRom /\ DInv /\ [BusNext]_bus_vars => DInv'
<1>. SUFFICES ASSUME LinesFromRom, DInv, [BusNext]_bus_vars PROVE DInv'
  OBVIOUS
<1>1. CASE BusNext
  BY <1>1, BusStep DEF BusNext
<1>2. CASE UNCHANGED bus_vars
  <2>. USE <1>2 DEF bus_vars, decoder_vars, vars, bridge_vars
  <2>1. Types' /\ BusTypes'
    BY DEF DInv, Types, BusTypes
  <2>2. Lines'
    BY DEF DInv, Lines, AwReady, WReady, WSlave, wr_idle_w, ArReady, BValid, RValid, RLast,
           ExtAwReady, ExtArReady
  <2>3. /\ (IdleInv => IdleInv') /\ (AskedInv => AskedInv')
        /\ (ReadingInv => ReadingInv') /\ (WrittenInv => WrittenInv')
    BY DEF IdleInv, AskedInv, ReadingInv, WrittenInv, AtRest, NothingTaken, RBeat
  <2>4. WritingInv => WritingInv'
    BY DEF WritingInv, popped, FifoHolds, SkidHolds, BurstInOrder, WBeat
  <2>5. /\ (NoWrite => NoWrite') /\ (NoRead => NoRead')
        /\ (OnlyTargetWrites => OnlyTargetWrites') /\ (OnlyTargetReads => OnlyTargetReads')
    BY DEF NoWrite, NoRead, OnlyTargetWrites, OnlyTargetReads, WriteQuiet, ReadQuiet
  <2>6. /\ (ReadBusy => ReadBusy') /\ (WriteBusy => WriteBusy')
        /\ (WriteAnswered => WriteAnswered')
    BY DEF ReadBusy, WriteBusy, WriteAnswered
  <2>7. BusPhases => BusPhases'
    <3>1. (BusIdle => BusIdle') /\ (BusReading => BusReading')
      BY <2>3, <2>5, <2>6 DEF BusIdle, BusReading
    <3>2. (BusAsked => BusAsked') /\ (BusOffered => BusOffered')
      BY <2>3, <2>4, <2>5 DEF BusAsked, BusOffered, SelectedEarly
    <3>3. (BusHalf => BusHalf') /\ (BusHeld => BusHeld') /\ (BusWritten => BusWritten')
      BY <2>3, <2>4, <2>5, <2>6 DEF BusHalf, BusHeld, BusWritten
    <3>. QED
      BY <3>1, <3>2, <3>3 DEF BusPhases
  <2>. QED
    BY <2>1, <2>2, <2>7 DEF DInv
<1>. QED
  BY <1>1, <1>2

\* The invariant always holds.
LEMMA BusInvariant == ASSUME LinesFromRom PROVE BusSpec => []DInv
<1>1. BusInit => DInv
  BY BusInitInv
<1>2. DInv /\ [BusNext]_bus_vars => DInv'
  BY BusNextInv
<1>. QED
  BY <1>1, <1>2, PTL DEF BusSpec

\* The decoder with its slaves is a slave as AxiBridge assumes it
\* (axi_d_simple_decoder.v, axi_simple_rom.v, axi_sha3_regs.v): it answers a
\* write once, after address and data, and a read with as many beats as asked
\* for, for every set of single-beat transactions and ROM lines.
THEOREM BusRefinesSlave == ASSUME LinesFromRom PROVE BusSpec => ImplementsSlave
<1>1. BusInit => Init
  BY DEF BusInit
<1>2. DInv /\ [BusNext]_bus_vars => [Next]_vars
  <2>. SUFFICES ASSUME DInv, [BusNext]_bus_vars PROVE [Next]_vars
    OBVIOUS
  <2>1. CASE BusNext
    <3>1. PICK o \in Offers, to \in Window, wready \in BOOLEAN, answer \in BOOLEAN :
              BusClk(o, to, wready, answer)
      BY <2>1 DEF BusNext
    <3>2. PICK given \in BOOLEAN : Clk(o, ready', given)
      BY <3>1, BusStep
    <3>3. ready' \in Ready
      <4>1. Types'
        BY <3>1, BusStep DEF DInv
      <4>. QED
        BY <4>1 DEF Types
    <3>. QED
      BY <3>2, <3>3 DEF Next
  <2>2. CASE UNCHANGED bus_vars
    BY <2>2 DEF bus_vars
  <2>. QED
    BY <2>1, <2>2
<1>3. BusSpec => []DInv
  BY BusInvariant
<1>. QED
  BY <1>1, <1>2, <1>3, PTL DEF BusSpec, ImplementsSlave

\* So the bridge hands each burst over whole and in order, counts right and
\* keeps its offers on this bus.
THEOREM BusBridgeCorrect == ASSUME LinesFromRom PROVE BusSpec => []BridgeInv /\ OffersStand
<1>1. BusSpec => Spec
  BY BusRefinesSlave DEF ImplementsSlave, Spec
<1>. QED
  BY <1>1, BridgeCorrect, OffersStandCorrect, PTL

\* The invariant gives the types.
LEMMA DInvTypes == ASSUME DInv, TypeOK PROVE BusTypeOK
<1>. USE DEF DInv, BusTypes
<1>1. {wr_sel, rd_sel} \subseteq Window \cup {"none"}
  OBVIOUS
<1>2. \A f \in DOMAIN sha : sha[f] \in BOOLEAN
  OBVIOUS
<1>3. \A f \in DOMAIN ext : ext[f] \in BOOLEAN
  OBVIOUS
<1>4. {err.bvalid, err.rvalid} \subseteq BOOLEAN
  OBVIOUS
<1>. QED
  BY <1>1, <1>2, <1>3, <1>4 DEF BusTypeOK

\* It leaves only the slave addressed with a request or an answer.
LEMMA DInvOneSlave == ASSUME DInv PROVE OneSlaveActive
<1>1. target \in Window /\ BusPhases
  BY DEF DInv, BusTypes
<1>2. /\ wr_sel # "none" => cur.kind = "write" /\ wr_sel = target
      /\ rd_sel # "none" => cur.kind = "read" /\ rd_sel = target
  BY <1>1 DEF BusPhases, BusIdle, BusAsked, BusReading, BusOffered, BusHalf, BusHeld,
     BusWritten, SelectedEarly, AskedInv, ReadingInv, WritingInv, WrittenInv
<1>3. /\ NoWrite \/ (wr_sel = target /\ OnlyTargetWrites)
      /\ NoRead \/ (rd_sel = target /\ OnlyTargetReads)
  BY <1>1 DEF BusPhases, BusIdle, BusAsked, BusReading, BusOffered, BusHalf, BusHeld, BusWritten
<1>4. /\ sha.aw_seen \/ sha.w_seen \/ sha.bvalid => wr_sel = "sha"
      /\ ext.aw \/ ext.w \/ ext.bvalid => wr_sel = "ext"
      /\ rom.bvalid => wr_sel = "rom"
      /\ err.bvalid => wr_sel = "err"
  BY <1>3 DEF NoWrite, OnlyTargetWrites, WriteQuiet, Window
<1>5. /\ sha.rvalid => rd_sel = "sha"
      /\ ext.ar \/ ext.rvalid => rd_sel = "ext"
      /\ rom.active => rd_sel = "rom"
      /\ err.rvalid => rd_sel = "err"
  BY <1>3 DEF NoRead, OnlyTargetReads, ReadQuiet, Window
<1>. QED
  BY <1>2, <1>4, <1>5 DEF OneSlaveActive

\* It decides which answers are errors and which word of a line a beat is.
LEMMA DInvAnswers == ASSUME DInv PROVE AnswersExact
<1>1. /\ target \in Window /\ BusPhases
      /\ resp = IF BValid THEN "b"
                ELSE IF ~RValid THEN "none" ELSE IF RLast THEN "rlast" ELSE "r"
  BY DEF DInv, BusTypes, Lines
<1>2. CASE resp = "none"
  BY <1>2 DEF AnswersExact, ErrorExact, RomBeatIsWord, inport_ack_o
<1>3. CASE BusReading
  <2>1. ~BValid /\ cur.kind = "read"
    BY <1>3 DEF BusReading, BValid, ReadingInv
  <2>2. inport_ack_o => RValid
    BY <1>1, <2>1 DEF inport_ack_o
  <2>3. ErrorExact
    BY <1>3, <2>1, <2>2 DEF ErrorExact, Error, BusReading
  <2>4. RomBeatIsWord
    BY <1>3 DEF RomBeatIsWord, BusReading, ReadBusy
  <2>. QED
    BY <2>3, <2>4 DEF AnswersExact
<1>4. CASE BusWritten
  <2>1. BValid /\ cur.kind = "write" /\ resp = "b"
    BY <1>1, <1>4 DEF BusWritten, BValid, WriteAnswered, WrittenInv, Window
  <2>2. ErrorExact
    BY <1>1, <1>4, <2>1 DEF ErrorExact, Error, BusWritten
  <2>. QED
    BY <2>1, <2>2 DEF AnswersExact, RomBeatIsWord
<1>. QED
  BY <1>1, <1>2, <1>3, <1>4 DEF BusPhases, BusIdle, BusAsked, BusOffered, BusHalf, BusHeld,
     IdleInv, AskedInv, WritingInv

\* Every register has its type, and only the slave whose window holds the
\* address takes part in a transaction: no answer of one is left over for the
\* next (wr_sel_*_q and rd_sel_*_q of axi_d_simple_decoder.v).
THEOREM BusInvCorrect == ASSUME LinesFromRom PROVE BusSpec => []BusInv
<1>1. DInv /\ BridgeInv => BusInv
  BY DInvTypes, DInvOneSlave DEF BusInv, BridgeInv
<1>. QED
  BY <1>1, BusInvariant, BusBridgeCorrect, PTL

\* The cache sees an error on exactly the transactions no slave can serve, and
\* beat n of a ROM line is word n of it.
THEOREM AnswersExactCorrect == ASSUME LinesFromRom PROVE BusSpec => []AnswersExact
<1>1. DInv => AnswersExact
  BY DInvAnswers
<1>. QED
  BY <1>1, BusInvariant, PTL
=============================================================================
