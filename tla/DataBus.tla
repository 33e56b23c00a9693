------------------------------- MODULE DataBus -------------------------------
(***************************************************************************)
(* The data bus of soc_top.v: axi_d_simple_decoder.v with its slaves,      *)
(* driven by the bridge of AxiBridge.  The lines ready and resp, which     *)
(* AxiBridge leaves to any slave, are here those of the decoder: outputs   *)
(* of its registers and of the slaves' registers in the same cycle.        *)
(*                                                                         *)
(* An address is the window it lies in: "rom" is axi_simple_rom.v, "sha"   *)
(* the handshake of axi_sha3_regs.v, "err" every address in no window.     *)
(* The slaves whose source the repository does not hold (SRAM, AES, SEC,   *)
(* SIG) are "ext": data and answer may come late, but an address is taken  *)
(* in the first cycle, as the decoder needs: it selects the slave at once  *)
(* and hides the address from then on.  bready and rready are always 1.    *)
(***************************************************************************)
EXTENDS AxiBridge

CONSTANT Requests   \* bound: the transactions of the master

Window == {"rom", "sha", "ext", "err"}

ASSUME RequestsAssumption ==
    Requests \subseteq [kind : {"read", "write"}, len : Lens, to : Window]

VARIABLES
    target,         \* window of the address the bridge drives
    wr_sel, rd_sel, \* the one-hot wr_sel_*_q and rd_sel_*_q
    rom, err, sha, ext

decoder_vars == <<target, wr_sel, rd_sel, rom, err, sha, ext>>
bus_vars == <<vars, decoder_vars>>

wr_idle_w == wr_sel = "none"
rd_idle_w == rd_sel = "none"

\* What the decoder lets through to a slave.
AwTo(s) == awvalid_o /\ wr_idle_w /\ target = s
WTo(s)  == wvalid_o /\ (wr_sel = s \/ (wr_idle_w /\ target = s))
ArTo(s) == arvalid_o /\ rd_idle_w /\ target = s

-----------------------------------------------------------------------------
(* axi_simple_rom.v.  A word read is its index in the burst.               *)

RomIdle == [bvalid |-> FALSE, active |-> FALSE, len |-> 0, cnt |-> 0,
            word |-> 0, last |-> FALSE]

\* Mutant: the last-beat mark is compared with the counter before its step.
RomLastLate(r) == r.cnt = r.len

RomLast(r) == r.cnt + 1 = r.len

RomNextWord(r) == r.word + 1

RomClk ==
    LET started == [rom EXCEPT !.active = TRUE, !.len = inport_w.len, !.cnt = 0,
                               !.word = 0, !.last = inport_w.len = 0]
        ended   == [rom EXCEPT !.active = FALSE, !.last = FALSE]
        stepped == [rom EXCEPT !.cnt = @ + 1, !.word = RomNextWord(rom),
                               !.last = RomLast(rom)]
        read == IF ArTo("rom") /\ ~rom.active THEN started
                ELSE IF ~rom.active THEN rom
                ELSE IF rom.cnt = rom.len THEN ended ELSE stepped
    IN  rom' = [read EXCEPT !.bvalid = AwTo("rom") /\ WTo("rom") /\ ~rom.bvalid]

-----------------------------------------------------------------------------
(* axi_sha3_regs.v: its handshakes only (its registers are in Sha3Regs).   *)

ShaIdle == [awready |-> TRUE, wready |-> TRUE, arready |-> TRUE,
            aw_seen |-> FALSE, w_seen |-> FALSE, bvalid |-> FALSE, rvalid |-> FALSE]

ShaExecute == sha.aw_seen /\ sha.w_seen /\ ~sha.bvalid

\* Mutant: the response leaves the address channel closed.
ShaStaysClosed == FALSE

ShaReopens == sha.bvalid

ShaClk ==
    LET take == ArTo("sha") /\ sha.arready /\ ~sha.rvalid
    IN  sha' = [awready |-> (ShaReopens \/ (sha.awready /\ ~AwTo("sha"))),
                wready  |-> (sha.bvalid \/ (sha.wready /\ ~WTo("sha"))),
                arready |-> (~take /\ (sha.arready \/ sha.rvalid)),
                aw_seen |-> (~ShaExecute /\ (sha.aw_seen \/ (sha.awready /\ AwTo("sha")))),
                w_seen  |-> (~ShaExecute /\ (sha.w_seen \/ (sha.wready /\ WTo("sha")))),
                bvalid  |-> ShaExecute,
                rvalid  |-> take]

-----------------------------------------------------------------------------
(* The answer to an address in no window, and the other slaves.            *)

ErrClk ==
    err' = [bvalid |-> wr_sel = "err" /\ ~err.bvalid /\ awvalid_o /\ wvalid_o,
            rvalid |-> rd_sel = "err" /\ ~err.rvalid /\ arvalid_o]

ExtIdle == [wready |-> FALSE, aw |-> FALSE, w |-> FALSE, ar |-> FALSE,
            bvalid |-> FALSE, rvalid |-> FALSE]

ExtAwReady == ~ext.aw /\ ~ext.bvalid
ExtArReady == ~ext.ar /\ ~ext.rvalid

ExtAw == ext.aw \/ (ExtAwReady /\ AwTo("ext"))
ExtW  == ext.w \/ (ext.wready /\ WTo("ext"))
ExtAr == ext.ar \/ (ExtArReady /\ ArTo("ext"))

\* It takes one transfer of each kind until its answer has gone.
ExtClk(wready, answer) ==
    LET write == answer /\ ExtAw /\ ExtW /\ ~ext.bvalid
        read  == answer /\ ExtAr /\ ~ext.rvalid
    IN  ext' = [wready |-> wready /\ ~ExtW,
                aw     |-> ExtAw /\ ~write, w |-> ExtW /\ ~write,
                ar     |-> ExtAr /\ ~read,
                bvalid |-> write, rvalid |-> read]

-----------------------------------------------------------------------------
(* The outputs of the decoder and its selection registers.                 *)

AwReady == CASE target = "rom" -> ~rom.bvalid
             [] target = "sha" -> sha.awready
             [] target = "ext" -> ExtAwReady
             [] OTHER          -> wr_sel = "err"

\* The slave a write beat is for.
WSlave == IF wr_idle_w /\ target # "err" THEN target ELSE wr_sel

WReady == CASE WSlave = "rom" -> ~rom.bvalid
            [] WSlave = "sha" -> sha.wready
            [] WSlave = "ext" -> ext.wready
            [] OTHER          -> wr_sel = "err"

ArReady == CASE target = "rom" -> ~rom.active
             [] target = "sha" -> sha.arready
             [] target = "ext" -> ExtArReady
             [] OTHER          -> rd_sel = "err"

BValid == CASE wr_sel = "rom" -> rom.bvalid
            [] wr_sel = "sha" -> sha.bvalid
            [] wr_sel = "ext" -> ext.bvalid
            [] wr_sel = "err" -> err.bvalid
            [] OTHER          -> FALSE

RValid == CASE rd_sel = "rom" -> rom.active
            [] rd_sel = "sha" -> sha.rvalid
            [] rd_sel = "ext" -> ext.rvalid
            [] rd_sel = "err" -> err.rvalid
            [] OTHER          -> FALSE

RLast == IF rd_sel = "rom" THEN rom.last ELSE RValid

\* Mutant: the response codes of the decoder are tied to OKAY.
AlwaysOkay == FALSE

\* inport_error_o of dcache_axi.v: the response is not OKAY.
Error == IF BValid THEN wr_sel \in {"rom", "err"} ELSE RValid /\ rd_sel = "err"

\* Mutant: any beat of the answer, not the last one, frees the read side.
FreedByFirstBeat ==
    /\ wr_sel' = IF wr_idle_w THEN (IF awvalid_o THEN target ELSE "none")
                 ELSE IF BValid THEN "none" ELSE wr_sel
    /\ rd_sel' = IF rd_idle_w THEN (IF arvalid_o THEN target ELSE "none")
                 ELSE IF RValid THEN "none" ELSE rd_sel

SelClk ==
    /\ wr_sel' = IF wr_idle_w THEN (IF awvalid_o THEN target ELSE "none")
                 ELSE IF BValid THEN "none" ELSE wr_sel
    /\ rd_sel' = IF rd_idle_w THEN (IF arvalid_o THEN target ELSE "none")
                 ELSE IF RValid /\ RLast THEN "none" ELSE rd_sel

-----------------------------------------------------------------------------
BusInit ==
    /\ Init
    /\ target = "err" /\ wr_sel = "none" /\ rd_sel = "none"
    /\ rom = RomIdle /\ sha = ShaIdle /\ ext = ExtIdle
    /\ err = [bvalid |-> FALSE, rvalid |-> FALSE]

\* The lines of the next cycle.
LinesClk ==
    /\ ready' = [aw |-> AwReady', w |-> WReady', ar |-> ArReady']
    /\ resp' = IF BValid' THEN "b"
               ELSE IF ~RValid' THEN "none" ELSE IF RLast' THEN "rlast" ELSE "r"

\* Bookkeeping of AxiBridge: what the bus took and has not answered.
TakenClk ==
    /\ s_aw' = IF BValid' THEN <<>> ELSE GotAw
    /\ s_w'  = IF BValid' THEN <<>> ELSE GotW
    /\ s_r'  = IF RValid' /\ ~BValid' THEN Owed - 1 ELSE Owed

Begins(o) == o.in # <<>> /\ o.next.sent = 1

MasterTargets(o, to) ==
    IF Begins(o)
    THEN [kind |-> o.next.kind, len |-> o.next.len, to |-> to] \in Requests
    ELSE to = target

BusClk(o, to, wready, answer) ==
    /\ MasterTargets(o, to)
    /\ BridgeClk(o.in) /\ MasterClk(o)
    /\ target' = IF inport_accept_o THEN to ELSE target
    /\ SelClk /\ RomClk /\ ShaClk /\ ErrClk /\ ExtClk(wready, answer)
    /\ LinesClk /\ TakenClk

BusNext == \E o \in Offers, to \in Window, wready, answer \in BOOLEAN :
               BusClk(o, to, wready, answer)

BusSpec == BusInit /\ [][BusNext]_bus_vars

\* As in AxiBridge; of the slaves only ext decides when to be ready.
BusServe == \E o \in Offers, to \in Window :
                /\ o.in = <<>> => Acked.kind = "none" \/ AllSent(Acked)
                /\ BusClk(o, to, TRUE, TRUE)

FairBusSpec == BusSpec /\ WF_bus_vars(BusServe)

-----------------------------------------------------------------------------
(* Properties.                                                             *)

BusTypeOK ==
    /\ TypeOK
    /\ target \in Window
    /\ {wr_sel, rd_sel} \subseteq Window \cup {"none"}
    /\ rom \in [bvalid : BOOLEAN, active : BOOLEAN, len : Lens \cup {0}, cnt : Beat,
                word : Beat, last : BOOLEAN]
    /\ \A f \in DOMAIN sha : sha[f] \in BOOLEAN
    /\ \A f \in DOMAIN ext : ext[f] \in BOOLEAN
    /\ {err.bvalid, err.rvalid} \subseteq BOOLEAN

\* The decoder with its slaves is a slave as AxiBridge assumes it: it answers
\* a write once and only after it took the address and all beats, a read with
\* as many beats as asked for and the mark on the last one.
ImplementsSlave == Init /\ [][Next]_vars

\* Only the slave whose window holds the address of the transaction takes part
\* in it: no other slave holds a request or an answer, so no later transaction
\* can meet one (the selection registers against the address, which may change).
OneSlaveActive ==
    /\ wr_sel # "none" => cur.kind = "write" /\ wr_sel = target
    /\ rd_sel # "none" => cur.kind = "read" /\ rd_sel = target
    /\ sha.aw_seen \/ sha.w_seen \/ sha.bvalid => wr_sel = "sha"
    /\ ext.aw \/ ext.w \/ ext.bvalid => wr_sel = "ext"
    /\ rom.bvalid => wr_sel = "rom"
    /\ err.bvalid => wr_sel = "err"
    /\ sha.rvalid => rd_sel = "sha"
    /\ ext.ar \/ ext.rvalid => rd_sel = "ext"
    /\ rom.active => rd_sel = "rom"
    /\ err.rvalid => rd_sel = "err"

\* The cache sees an error on exactly the transactions no slave can serve.
ErrorExact ==
    inport_ack_o => (Error <=> target = "err" \/ (target = "rom" /\ cur.kind = "write"))

\* Beat n of a line read from the ROM is word n of the line.
RomBeatIsWord ==
    resp \in {"r", "rlast"} /\ target = "rom" => rom.word = cur.got

\* Every register has its type and only the addressed slave takes part, so that
\* no answer of one transaction is left over for the next.
BusInv == BusTypeOK /\ OneSlaveActive

\* What the cache gets is exact: an error on the transactions no slave can serve
\* and on no other, and the words of a ROM line in their order.
AnswersExact == ErrorExact /\ RomBeatIsWord
=============================================================================
