----------------------------- MODULE DCacheCore -----------------------------
(***************************************************************************)
(* dcache_core.v, the write-back data cache of the processor: two ways,    *)
(* allocation on read and write, with the RAMs of dcache_core_tag_ram.v    *)
(* (write first) and dcache_core_data_ram.v (read first).  One step is one *)
(* clock edge; the registers keep the source's names without _q.           *)
(*                                                                         *)
(* An address is a tag and an index into a way; the index is the line      *)
(* (set) and the word in it.  A word is a function of its bytes, so that   *)
(* byte stores can be told from word stores.  Left out: the request tag,   *)
(* always 0, and pmem_addr_q, which only reaches the bus in beats whose    *)
(* address nobody looks at.                                                *)
(*                                                                         *)
(* The bus behind the cache is the one dcache_axi.v offers: beats are      *)
(* taken when there is room, a read burst is answered word by word, a      *)
(* write burst once after its last beat.                                   *)
(***************************************************************************)
EXTENDS Integers

CONSTANTS
    Tag, ZeroTag,   \* tags; that of address 0
    Sets, Words,    \* DCACHE_NUM_LINES and DCACHE_LINE_WORDS, 256 and 8
    Byte, Val,      \* bytes of a word and what a byte can hold
    ZeroVal,        \* initial content of memory and RAMs
    Watched,        \* bound: addresses stored to with any value, others ZeroVal
    Addrs,          \* bound: addresses the processor uses
    Ops,            \* bound: operations the processor uses
    Errors          \* bound: error flags the bus may answer with

Op    == {"load", "store", "flush", "writeback", "invalidate"}
Way   == {0, 1}
Set   == 0 .. Sets - 1
Index == 0 .. Sets * Words - 1
Addr  == [tag : Tag, idx : Index]
Word  == [Byte -> Val]

ASSUME DCacheAssumption ==
    /\ Sets \in Nat \ {0} /\ Words \in 2 .. 256
    /\ ZeroTag \in Tag /\ ZeroVal \in Val
    /\ Watched \subseteq Addr /\ Addrs \subseteq Addr
    /\ Ops \subseteq Op /\ Errors \subseteq BOOLEAN

VARIABLES
    state,
    m,             \* the request in the M stage, mem_*_m_q
    replace_way, flushing, flush_addr, flush_last,
    tag_ram, tag_out,      \* RAM contents and registered outputs, by way
    data_ram, data_out,
    data_write_addr,
    pmem_rd, pmem_wr0, pmem_len, pmem_wr, pmem_write_data,
    error,
    bus,           \* external: the burst under way behind the cache
    mem,           \* external: memory
    shadow,        \* ghost: what the processor's accesses make of memory
    saw_error      \* ghost: a bus error since the request in M was accepted

fsm_vars  == <<state, m, replace_way, flushing, flush_addr, flush_last>>
ram_vars  == <<tag_ram, tag_out, data_ram, data_out, data_write_addr>>
pmem_vars == <<pmem_rd, pmem_wr0, pmem_len, pmem_wr, pmem_write_data, error>>
env_vars  == <<bus, mem, shadow, saw_error>>
vars == <<fsm_vars, ram_vars, pmem_vars, env_vars>>

-----------------------------------------------------------------------------
SetOf(i)     == i \div Words
LineStart(s) == s * Words
LineOf(i)    == LineStart(SetOf(i)) .. LineStart(SetOf(i)) + Words - 1

ZeroWord == [b \in Byte |-> ZeroVal]
NoTag    == [valid |-> FALSE, dirty |-> FALSE, tag |-> ZeroTag]
NoReq    == [op |-> "none", addr |-> [tag |-> ZeroTag, idx |-> 0],
             data |-> ZeroWord, strb |-> {}]

\* A store of the bytes strb of "new" over "old".
Merge(old, new, strb) == [b \in Byte |-> IF b \in strb THEN new[b] ELSE old[b]]

IsAccess(r) == r.op \in {"load", "store"}

-----------------------------------------------------------------------------
(* Tag comparison.                                                         *)

Hit(w)      == tag_out[w].valid /\ tag_out[w].tag = m.addr.tag
HitAny      == \E w \in Way : Hit(w)
Dirty(w)    == tag_out[w].valid /\ tag_out[w].dirty
DirtyAny    == \E w \in Way : Dirty(w)
HitAndDirty == \E w \in Way : Hit(w) /\ Dirty(w)
Missed      == IsAccess(m) /\ ~HitAny

evict_way_w == (flushing \/ ~HitAny) /\ Dirty(replace_way)

\* Mutant: a load may follow a store to the same word at once.
AcceptLoadAfterStore(r) == state = "LOOKUP" /\ ~Missed

mem_accept_o(r) ==
    /\ state = "LOOKUP" /\ ~Missed
    /\ ~(m.op = "store" /\ r.op = "load" /\ r.addr = m.addr)

mem_ack_o == /\ state = "LOOKUP"
             /\ IF IsAccess(m) THEN HitAny ELSE m.op # "none"

mem_data_rd_o == IF Hit(1) /\ ~Hit(0) THEN data_out[1] ELSE data_out[0]

(* Next state.                                                             *)

next_state(r, accept, ack) ==
    LET taken(op) == r.op = op /\ mem_accept_o(r) IN
    CASE state = "RESET" -> IF flush_last THEN "LOOKUP" ELSE "RESET"
      [] state = "FLUSH_ADDR" -> "FLUSH"
      [] state = "FLUSH" -> IF DirtyAny
                            THEN IF evict_way_w THEN "EVICT" ELSE "FLUSH"
                            ELSE IF flush_last THEN "LOOKUP" ELSE "FLUSH_ADDR"
      [] state = "LOOKUP" -> IF Missed
                             THEN IF evict_way_w THEN "EVICT" ELSE "REFILL"
                             ELSE IF taken("writeback") THEN "WRITEBACK"
                             ELSE IF taken("flush") THEN "FLUSH_ADDR"
                             ELSE IF taken("invalidate") THEN "INVALIDATE"
                             ELSE "LOOKUP"
      [] state = "REFILL" -> IF ack /\ pmem_len = 0
                             THEN IF m.op = "store" THEN "WRITE" ELSE "READ"
                             ELSE "REFILL"
      [] state = "EVICT" -> IF accept /\ pmem_len = 0 THEN "EVICT_WAIT"
                            ELSE "EVICT"
      [] state = "EVICT_WAIT" -> IF ~ack THEN "EVICT_WAIT"
                                 ELSE IF m.op = "writeback" THEN "LOOKUP"
                                 ELSE IF flushing THEN "FLUSH_ADDR"
                                 ELSE "REFILL"
      [] state = "WRITEBACK" -> IF HitAndDirty THEN "EVICT" ELSE "LOOKUP"
      [] OTHER -> "LOOKUP"              \* READ, WRITE, INVALIDATE

-----------------------------------------------------------------------------
(* Requests to the bus.                                                    *)

Entering(s, ns) == state # s /\ ns = s

pmem_rd_w(ns) == Entering("REFILL", ns) \/ pmem_rd
pmem_wr_w     == \/ state = "EVICT" /\ (evict_way_w \/ m.op = "writeback")
                 \/ pmem_wr

\* The first beat of a burst carries its length.
first_beat_w(ns) == pmem_rd_w(ns) \/ (state = "EVICT" /\ pmem_wr0)

pmem_write_data_w == IF pmem_wr THEN pmem_write_data ELSE data_out[replace_way]

\* Tag and set of the line being evicted.
evict_tag_w == tag_out[replace_way].tag
evict_set_w == IF flushing THEN flush_addr ELSE SetOf(m.addr.idx)

\* pmem_write_data_q is read only while pmem_wr_q, so its value counts then.
PmemClk(ns, accept, ack) ==
    /\ pmem_rd' = IF pmem_rd_w(ns) THEN ~accept ELSE pmem_rd
    /\ pmem_wr0' = (Entering("EVICT", ns) \/ (pmem_wr0 /\ ~accept))
    /\ pmem_len' = IF Entering("EVICT", ns) \/ (pmem_rd_w(ns) /\ accept)
                   THEN Words - 1
                   ELSE IF \/ state = "REFILL" /\ ack
                           \/ state = "EVICT" /\ accept
                   THEN (pmem_len - 1) % 256 ELSE pmem_len
    /\ pmem_wr' = ((pmem_wr \/ pmem_wr_w) /\ ~accept)
    /\ pmem_write_data' = IF pmem_wr' THEN pmem_write_data_w ELSE ZeroWord

\* Mutant: the flag is not cleared by the answer that reports it.
ErrorSticks(ack, err) == error' = ((ack /\ err) \/ error)

ErrorClk(ack, err) ==
    error' = ((ack /\ err) \/ (error /\ ~mem_ack_o))

-----------------------------------------------------------------------------
(* The RAMs.                                                               *)

tag_addr_x(r, ns) ==
    IF state = "LOOKUP" /\ ns \in {"LOOKUP", "WRITEBACK"} THEN SetOf(r.addr.idx)
    ELSE IF flushing THEN flush_addr ELSE SetOf(m.addr.idx)

tag_addr_m == IF flushing \/ state = "RESET" THEN flush_addr
              ELSE SetOf(m.addr.idx)

\* Mutant: a store that hits leaves the line clean.
HitStoreLeavesClean ==
    IF state \in {"FLUSH", "RESET"} \/ flushing THEN NoTag
    ELSE [valid |-> state # "INVALIDATE", dirty |-> state = "WRITE",
          tag   |-> m.addr.tag]

tag_data_in ==
    IF state \in {"FLUSH", "RESET"} \/ flushing THEN NoTag
    ELSE [valid |-> state # "INVALIDATE",
          dirty |-> state \in {"WRITE", "LOOKUP"},
          tag   |-> m.addr.tag]

tag_write(w, ack) ==
    CASE state = "RESET" -> TRUE
      [] state = "FLUSH" -> ~DirtyAny
      [] state = "LOOKUP" -> m.op = "store" /\ Hit(w)
      [] state = "WRITE" -> replace_way = w
      [] state = "EVICT_WAIT" -> ack /\ replace_way = w
      [] state = "REFILL" -> ack /\ pmem_len = 0 /\ replace_way = w
      [] state = "INVALIDATE" -> Hit(w)
      [] OTHER -> FALSE

TagClk(r, ns, ack) ==
    /\ tag_ram' = [w \in Way |->
                      IF tag_write(w, ack)
                      THEN [tag_ram[w] EXCEPT ![tag_addr_m] = tag_data_in]
                      ELSE tag_ram[w]]
    /\ tag_out' = [w \in Way |-> tag_ram'[w][tag_addr_x(r, ns)]]

\* Both ports of the data RAMs, but for lookups and stores.
data_addr_line ==
    IF state \in {"REFILL", "EVICT"} THEN data_write_addr
    ELSE IF state \in {"FLUSH", "RESET"} THEN LineStart(flush_addr)
    ELSE LineStart(SetOf(m.addr.idx))

uses_line(ns) == state \in {"REFILL", "EVICT", "FLUSH", "RESET"} \/ ns = "EVICT"

data_addr_x(r, ns) == IF uses_line(ns) THEN data_addr_line
                      ELSE IF state = "READ" THEN m.addr.idx ELSE r.addr.idx

data_addr_m(ns) == IF uses_line(ns) THEN data_addr_line ELSE m.addr.idx

\* The bytes written in way w.
data_write_m(w, ack) ==
    IF state = "REFILL" /\ ack /\ replace_way = w THEN Byte
    ELSE IF state \in {"WRITE", "LOOKUP"} /\ m.op = "store" /\ Hit(w) THEN m.strb
    ELSE {}

DataClk(r, ns, accept, ack, rdata) ==
    /\ data_out' = [w \in Way |-> data_ram[w][data_addr_x(r, ns)]]
    /\ data_ram' =
           [w \in Way |->
               [data_ram[w] EXCEPT ![data_addr_m(ns)] =
                   Merge(@, IF state = "REFILL" THEN rdata ELSE m.data,
                         data_write_m(w, ack))]]
    /\ data_write_addr' =
           IF Entering("REFILL", ns) THEN LineStart(SetOf(m.addr.idx))
           ELSE IF \/ Entering("EVICT", ns)
                   \/ state = "REFILL" /\ ack
                   \/ state = "EVICT" /\ accept
           THEN (data_addr_m(ns) + 1) % (Sets * Words)
           ELSE data_write_addr

-----------------------------------------------------------------------------
(* The state machine's other registers.                                    *)

RequestClk(r) ==
    m' = IF mem_accept_o(r) THEN r ELSE IF mem_ack_o THEN NoReq ELSE m

next_flush_addr == (flush_addr + 1) % Sets

\* Mutant: the sweep stops one line early.
LastLineEarly == state # "LOOKUP" /\ (flush_last \/ flush_addr + 2 >= Sets)

next_flush_last == state # "LOOKUP" /\ (flush_last \/ flush_addr = Sets - 1)

FlushClk(ns) ==
    /\ flush_addr' = IF state = "RESET" \/ (state = "FLUSH" /\ ns = "FLUSH_ADDR")
                     THEN next_flush_addr
                     ELSE IF state = "LOOKUP" THEN 0 ELSE flush_addr
    /\ flushing' = IF state = "LOOKUP" /\ ns = "FLUSH_ADDR" THEN TRUE
                   ELSE IF state = "FLUSH" /\ ns = "LOOKUP" THEN FALSE
                   ELSE flushing
    /\ flush_last' = next_flush_last

\* Mutant: a flush never looks at the other way.
FlushKeepsWay == FALSE

\* A flush moves on to the way that is dirty.
flush_next_way ==
    flushing /\ DirtyAny /\ ~evict_way_w /\ state # "FLUSH_ADDR"

ReplaceClk(ns) ==
    replace_way' =
        IF \/ state \in {"WRITE", "READ"}
           \/ flush_next_way
        THEN 1 - replace_way
        ELSE IF \/ state = "EVICT_WAIT" /\ ns = "FLUSH_ADDR"
                \/ state = "FLUSH" /\ ns = "LOOKUP"
                \/ state = "LOOKUP" /\ ns = "FLUSH_ADDR"
        THEN 0
        ELSE IF state = "WRITEBACK" /\ HitAny
        THEN IF Hit(0) THEN 0 ELSE 1
        ELSE replace_way

CacheClk(r, accept, ack, err, rdata) ==
    LET ns == next_state(r, accept, ack) IN
    /\ state' = ns
    /\ PmemClk(ns, accept, ack)
    /\ ErrorClk(ack, err)
    /\ TagClk(r, ns, ack)
    /\ DataClk(r, ns, accept, ack, rdata)
    /\ RequestClk(r)
    /\ FlushClk(ns)
    /\ ReplaceClk(ns)

-----------------------------------------------------------------------------
(* The bus: at most one burst, "left" beats of it to come, the next one at *)
(* idx.  It may be slow to take beats and to answer, in any way.           *)

NoBurst == [kind |-> "none", tag |-> ZeroTag, idx |-> 0, left |-> 0]
Burst(kind, tag, s) ==
    [kind |-> kind, tag |-> tag, idx |-> LineStart(s), left |-> Words]
NextBeat(b) ==
    [b EXCEPT !.idx = (@ + 1) % (Sets * Words), !.left = @ - 1]

BusAddr(b) == [tag |-> b.tag, idx |-> b.idx]
CanAck == \/ bus.kind = "read"
          \/ bus.kind = "write" /\ bus.left = 0

\* The write burst the beat offered belongs to.
WriteBurst(ns) == IF first_beat_w(ns) THEN Burst("write", evict_tag_w, evict_set_w)
                  ELSE bus

BusClk(ns, accept, ack) ==
    LET answered == IF ~ack THEN bus
                    ELSE IF bus.left <= 1 THEN NoBurst ELSE NextBeat(bus)
    IN  IF accept /\ pmem_rd_w(ns)
        THEN /\ bus' = Burst("read", m.addr.tag, SetOf(m.addr.idx))
             /\ UNCHANGED mem
        ELSE IF accept /\ pmem_wr_w
        THEN LET b == WriteBurst(ns) IN
             /\ bus' = NextBeat(b)
             /\ mem' = [mem EXCEPT ![BusAddr(b)] = pmem_write_data_w]
        ELSE bus' = answered /\ UNCHANGED mem

\* What the accesses accepted so far make of memory; invalidating a line
\* takes it back to what memory holds.
ShadowClk(r) ==
    shadow' = IF ~mem_accept_o(r) THEN shadow
              ELSE CASE r.op = "store" ->
                            [shadow EXCEPT ![r.addr] = Merge(@, r.data, r.strb)]
                     [] r.op = "invalidate" ->
                            [a \in Addr |->
                                IF a.tag = r.addr.tag /\ a.idx \in LineOf(r.addr.idx)
                                THEN mem[a] ELSE shadow[a]]
                     [] OTHER -> shadow

ErrorSeen(r, ack, err) ==
    saw_error' = \/ ack /\ err
                 \/ saw_error /\ ~(mem_accept_o(r) /\ r.op # "none")

-----------------------------------------------------------------------------
Idling == [op : {"none"}, addr : Addrs, data : {ZeroWord}, strb : {{}}]
Stores == [op : {"store"}, addr : Addrs \cap Watched, data : Word,
           strb : (SUBSET Byte) \ {{}}]
          \cup [op : {"store"}, addr : Addrs \ Watched, data : {ZeroWord},
                strb : {Byte}]
Others == [op : Ops \ {"store"}, addr : Addrs, data : {ZeroWord}, strb : {{}}]

\* What the processor can present: nothing, at whatever address its lines
\* are left, or one operation.  Outside LOOKUP nothing is accepted and only
\* the address can be seen, so one operation stands for all.
Requests == IF state # "LOOKUP" THEN Idling
            ELSE Idling \cup Others
                 \cup (IF "store" \in Ops THEN Stores ELSE {})

\* A beat is on offer; whether there would be room without one does not show.
Offered(ns) == pmem_rd_w(ns) \/ pmem_wr_w

Clk(r, accept, ack, err) ==
    LET ns == next_state(r, accept, ack) IN
    /\ ack => CanAck
    /\ err => ack
    /\ ~accept => Offered(ns)
    /\ CacheClk(r, accept, ack, err, mem[BusAddr(bus)])
    /\ BusClk(ns, accept, ack)
    /\ ShadowClk(r)
    /\ ErrorSeen(r, ack, err)

Init ==
    /\ state = "RESET" /\ m = NoReq
    /\ replace_way = 0 /\ flushing = FALSE
    /\ flush_addr = 0 /\ flush_last = FALSE
    /\ data_write_addr = 0
    /\ pmem_rd = FALSE /\ pmem_wr0 = FALSE /\ pmem_len = 0
    /\ pmem_wr = FALSE /\ pmem_write_data = ZeroWord
    /\ error = FALSE
    /\ bus = NoBurst /\ saw_error = FALSE
    /\ tag_ram = [w \in Way |-> [s \in Set |-> NoTag]]
    /\ tag_out = [w \in Way |-> NoTag]
    /\ data_ram = [w \in Way |-> [i \in Index |-> ZeroWord]]
    /\ data_out = [w \in Way |-> ZeroWord]
    /\ mem = [a \in Addr |-> ZeroWord] /\ shadow = mem

\* rst_i: the registers go back, the RAMs keep what they hold, and what was
\* only in the cache is lost.
Reset ==
    /\ state' = "RESET" /\ m' = NoReq
    /\ replace_way' = 0 /\ flushing' = FALSE
    /\ flush_addr' = 0 /\ flush_last' = FALSE
    /\ data_write_addr' = 0
    /\ pmem_rd' = FALSE /\ pmem_wr0' = FALSE /\ pmem_len' = 0
    /\ pmem_wr' = FALSE /\ pmem_write_data' = ZeroWord
    /\ error' = FALSE
    /\ bus' = NoBurst /\ saw_error' = FALSE
    /\ UNCHANGED <<tag_ram, tag_out, data_ram, data_out, mem>>
    /\ shadow' = mem

Tick == \E r \in Requests, accept, ack \in BOOLEAN, err \in Errors :
            Clk(r, accept, ack, err)

Next == Tick \/ Reset

Spec == Init /\ [][Next]_vars

\* The processor's clock never stops, and the bus takes beats and answers
\* open bursts again and again: dcache_axi.v holds neither back for ever.
Serve == \E r \in Requests, err \in Errors : Clk(r, TRUE, CanAck, CanAck /\ err)
FairSpec == Spec /\ WF_vars(Serve)

-----------------------------------------------------------------------------
(* Properties.                                                             *)

TagEntry == [valid : BOOLEAN, dirty : BOOLEAN, tag : Tag]

\* Every register holds a value of its width.
TypeOK ==
    /\ state \in {"RESET", "FLUSH_ADDR", "FLUSH", "LOOKUP", "READ", "WRITE",
                  "REFILL", "EVICT", "EVICT_WAIT", "INVALIDATE", "WRITEBACK"}
    /\ m \in [op : Op \cup {"none"}, addr : Addr, data : Word, strb : SUBSET Byte]
    /\ replace_way \in Way /\ flush_addr \in Set
    /\ {flushing, flush_last, pmem_rd, pmem_wr0, pmem_wr, error, saw_error}
           \subseteq BOOLEAN
    /\ tag_ram \in [Way -> [Set -> TagEntry]] /\ tag_out \in [Way -> TagEntry]
    /\ data_ram \in [Way -> [Index -> Word]] /\ data_out \in [Way -> Word]
    /\ data_write_addr \in Index /\ pmem_len \in 0 .. 255
    /\ pmem_write_data \in Word
    /\ bus \in [kind : {"none", "read", "write"}, tag : Tag, idx : Index,
                left : 0 .. Words]
    /\ mem \in [Addr -> Word] /\ shadow \in [Addr -> Word]

\* A load is answered with what the last store to its bytes put there, or
\* with memory's content: no store is lost, late or merged into the wrong
\* word, across hits, evictions, refills, writebacks, flushes and resets.
LoadReturnsLastStore ==
    mem_ack_o /\ m.op = "load" => mem_data_rd_o = shadow[m.addr]

\* The way that really holds address a; the line being refilled, which is
\* tagged valid before its words arrive, does not count.
Refilling(w, s) == /\ state = "REFILL" /\ w = replace_way
                   /\ s = SetOf(m.addr.idx)
Holds(w, a) == LET s == SetOf(a.idx) IN
               /\ tag_ram[w][s].valid /\ tag_ram[w][s].tag = a.tag
               /\ ~Refilling(w, s)
Copies(a) == {data_ram[w][a.idx] : w \in {v \in Way : Holds(v, a)}}

\* At every clock once the tags are cleared, the newest copy of a word -- in
\* the cache if a way holds it, else in memory, with the store in the M
\* stage over it -- is what the processor stored.
NothingLost ==
    state # "RESET" =>
        \A a \in Addr :
            \A c \in IF Copies(a) = {} THEN {mem[a]} ELSE Copies(a) :
                shadow[a] = IF m.op = "store" /\ a = m.addr
                            THEN Merge(c, m.data, m.strb) ELSE c

\* A line is in at most one way.
NoDuplicateLine ==
    state # "RESET" =>
        \A s \in Set : tag_ram[0][s].valid /\ tag_ram[1][s].valid
                            => tag_ram[0][s].tag # tag_ram[1][s].tag

\* A valid line that is not dirty has the words memory has, so that dropping
\* it without a write is safe.
CleanLineIsMemory ==
    state # "RESET" =>
        \A w \in Way, a \in Addr :
            Holds(w, a) /\ ~tag_ram[w][SetOf(a.idx)].dirty
                => data_ram[w][a.idx] = mem[a]

\* When a flush is answered all of memory is up to date and no line is valid;
\* when a writeback is, the words of its line are up to date.
SyncReachesMemory ==
    mem_ack_o =>
        /\ m.op = "flush" =>
               /\ mem = shadow
               /\ \A w \in Way, s \in Set : ~tag_ram[w][s].valid
        /\ m.op = "writeback" =>
               \A i \in LineOf(m.addr.idx) :
                   LET a == [tag |-> m.addr.tag, idx |-> i] IN mem[a] = shadow[a]

\* Both ends of the bus agree on the burst: the cache asks for one only when
\* none is open, counts the beats to come as the bus does, and fills the
\* words the bus sends.
BeatsInStep ==
    /\ pmem_rd => bus.kind = "none" /\ state = "REFILL"
    /\ bus.kind = "read" =>
           /\ state = "REFILL" /\ pmem_len = bus.left - 1
           /\ data_write_addr = bus.idx
           /\ bus.tag = m.addr.tag /\ SetOf(bus.idx) = SetOf(m.addr.idx)
    /\ state = "REFILL" => pmem_rd \/ bus.kind = "read"
    /\ bus.kind = "write" =>
           \/ state = "EVICT" /\ ~pmem_wr0 /\ pmem_len = bus.left - 1
              /\ bus.tag = evict_tag_w /\ SetOf(bus.idx) = evict_set_w
           \/ state = "EVICT_WAIT" /\ bus.left = 0
    /\ state = "EVICT" => bus.kind = (IF pmem_wr0 THEN "none" ELSE "write")
    /\ state = "EVICT_WAIT" => bus.kind = "write"

\* The cache between requests: registers of their types, one copy of a line,
\* clean copies equal to memory, every store somewhere, and both ends of the bus
\* at the same beat.
CacheInv ==
    TypeOK /\ NothingLost /\ NoDuplicateLine /\ CleanLineIsMemory /\ BeatsInStep

\* An answer carries the error flag exactly when the bus reported an error
\* while its request was being served.
ErrorReported == mem_ack_o => (error <=> saw_error)

\* An invalidate leaves no valid copy of its line (dcache_core.v:339,
\* "Invalidate - line matches address - invalidate").
InvalidateDropsLine ==
    mem_ack_o /\ m.op = "invalidate" =>
        \A w \in Way : ~(Holds(w, m.addr))

\* Every request taken is answered, unless the cache is reset first.
Answered == m.op # "none" ~> (mem_ack_o \/ state = "RESET")
=============================================================================
