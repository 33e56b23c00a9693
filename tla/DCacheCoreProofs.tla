-------------------------- MODULE DCacheCoreProofs --------------------------
(***************************************************************************)
(* Proofs about the data cache (DCacheCore.tla), for every number of sets, *)
(* words per line, tags, bytes and addresses. Control is the invariant of  *)
(* the state machine, the tags and the bus; it needs nothing of the        *)
(* operations and gives the error flag, the beat counters and one copy of  *)
(* a line. Data is that of the words: where the newest copy of every       *)
(* address is while lines are filled, stored to, written back, dropped and *)
(* flushed. It is proved for processors that do not invalidate lines: an   *)
(* invalidated dirty line can be written back later by the stale tag of    *)
(* the other way (the run dcache_invalidate).                              *)
(***************************************************************************)
EXTENDS DCacheCore, TLAPS

\* The registered tag outputs show set s.
TagSeen(s) == \A w \in Way : tag_out[w] = tag_ram[w][s]

\* Nothing is asked of the bus and nothing is under way on it.
Calm == ~pmem_rd /\ ~pmem_wr0 /\ ~pmem_wr /\ bus.kind = "none"

\* The set of the request in M.
MSet == SetOf(m.addr.idx)

\* Why the line of the replacement way is written back: it makes room for an
\* access that missed.
ForMiss  == IsAccess(m) /\ ~flushing /\ ~HitAny

\* a writeback was asked for it,
ForSync  == m.op = "writeback" /\ ~flushing /\ Hit(replace_way)

\* or the cache is being flushed.
ForFlush == m.op = "flush" /\ flushing

\* The line being written back is dirty and its tag is the one shown.
Evicting == (ForMiss \/ ForSync \/ ForFlush) /\ Dirty(replace_way) /\ TagSeen(evict_set_w)

\* The index of the word the next beat writes.
EvictBeat == IF pmem_wr0 THEN LineStart(evict_set_w) ELSE bus.idx

\* No way has a line in set s.
Cleared(s) == \A w \in Way : ~tag_ram[w][s].valid

\* This and the next operators: what holds in each state of the machine. While
\* the tags are cleared, the sets below flush_addr are empty.
ResetPhase == /\ m.op = "none" /\ ~flushing /\ Calm
              /\ \A s \in Set : s < flush_addr \/ flush_last => Cleared(s)

\* An access in M is compared with the tags of its set.
LookupPhase == ~flushing /\ Calm /\ (IsAccess(m) => TagSeen(MSet))

\* A load whose line has just been filled.
ReadPhase == m.op = "load" /\ ~flushing /\ Calm /\ TagSeen(MSet)

\* A store whose line has just been filled hits in that way.
WritePhase == m.op = "store" /\ ~flushing /\ Calm /\ TagSeen(MSet) /\ Hit(replace_way)

\* An invalidate.
InvalidatePhase == m.op = "invalidate" /\ ~flushing /\ Calm

\* A writeback is compared with the tags of its set.
WritebackPhase == m.op = "writeback" /\ ~flushing /\ Calm /\ TagSeen(MSet)

\* A flush about to read the next set.
FlushAddrPhase == /\ m.op = "flush" /\ flushing /\ Calm
                  /\ flush_last => flush_addr = Sets - 1

\* A flush at a set.
FlushPhase == /\ m.op = "flush" /\ flushing /\ Calm /\ TagSeen(flush_addr)
              /\ flush_last <=> flush_addr = Sets - 1

\* The other way has no copy of the line; before the request is taken, nothing
\* has been filled, then as many words as beats have come.
RefillPhase ==
    /\ IsAccess(m) /\ ~flushing /\ ~pmem_wr0 /\ ~pmem_wr /\ TagSeen(MSet)
    /\ ~Hit(1 - replace_way)
    /\ \/ pmem_rd /\ bus.kind = "none" /\ data_write_addr = LineStart(MSet)
       \/ /\ ~pmem_rd /\ bus.kind = "read" /\ bus.left \in 1 .. Words
          /\ pmem_len = bus.left - 1 /\ bus.tag = m.addr.tag
          /\ bus.idx = LineStart(MSet) + (Words - bus.left)
          /\ data_write_addr = bus.idx

\* As many words are written as beats have gone; the data RAM is read one word
\* ahead.
EvictPhase ==
    /\ Evicting /\ ~pmem_rd /\ (flushing /\ flush_last => flush_addr = Sets - 1)
    /\ \/ pmem_wr0 /\ bus.kind = "none" /\ pmem_len = Words - 1
       \/ /\ ~pmem_wr0 /\ bus.kind = "write" /\ bus.left \in 1 .. Words
          /\ pmem_len = bus.left - 1 /\ bus.tag = evict_tag_w
          /\ bus.idx = LineStart(evict_set_w) + (Words - bus.left)
    /\ data_write_addr = (EvictBeat + 1) % (Sets * Words)

\* All beats have gone and the answer has not come.
WaitPhase ==
    /\ Evicting /\ ~pmem_rd /\ ~pmem_wr0 /\ ~pmem_wr
    /\ flushing /\ flush_last => flush_addr = Sets - 1
    /\ bus.kind = "write" /\ bus.left = 0

\* The state machine's invariant, state by state.
Phases ==
    /\ state = "RESET" => ResetPhase
    /\ state = "LOOKUP" => LookupPhase
    /\ state = "READ" => ReadPhase
    /\ state = "WRITE" => WritePhase
    /\ state = "INVALIDATE" => InvalidatePhase
    /\ state = "WRITEBACK" => WritebackPhase
    /\ state = "FLUSH_ADDR" => FlushAddrPhase
    /\ state = "FLUSH" => FlushPhase
    /\ state = "REFILL" => RefillPhase
    /\ state = "EVICT" => EvictPhase
    /\ state = "EVICT_WAIT" => WaitPhase

\* The error flag is that of the request in M.
ErrorKept == IF m.op = "none" THEN ~error ELSE error <=> saw_error

\* The inductive invariant of the control state, for all operations.
Control == TypeOK /\ Phases /\ ErrorKept /\ NoDuplicateLine

\* The processor does not invalidate lines.
NoInvalidate == "invalidate" \notin Ops

\* Address a is in the line of this tag and set.
InLine(a, tag, s) == a.tag = tag /\ SetOf(a.idx) = s

\* The word c of address a, with the store in M over it.
MStore(a, c) == IF m.op = "store" /\ a = m.addr THEN Merge(c, m.data, m.strb) ELSE c

\* The ways that hold a, or memory if none does, have what was last stored
\* there but for the store in M.
Newest(a) == /\ \A w \in Way : Holds(w, a) => shadow[a] = MStore(a, data_ram[w][a.idx])
             /\ (\A w \in Way : ~Holds(w, a)) => shadow[a] = MStore(a, mem[a])

\* The address of this tag and index.
At(tag, i) == [tag |-> tag, idx |-> i]

\* In LOOKUP the words read are those of the request's address; a flush or a
\* writeback there has been done.
LookupData ==
    /\ m.op = "load" => \A w \in Way : Hit(w) => data_out[w] = data_ram[w][m.addr.idx]
    /\ m.op = "flush" => mem = shadow /\ \A s \in Set : Cleared(s)
    /\ m.op = "writeback" => \A a \in Addr : InLine(a, m.addr.tag, MSet) => mem[a] = shadow[a]

\* The words filled so far are memory's.
RefillData ==
    \A i \in Index : SetOf(i) = MSet /\ i < data_write_addr =>
           data_ram[replace_way][i] = mem[At(m.addr.tag, i)]

\* The word on offer is that of the next beat, and memory has the words before
\* it.
EvictData ==
    /\ data_ram[replace_way][EvictBeat] = pmem_write_data_w
    /\ \A i \in Index : SetOf(i) = evict_set_w /\ i < EvictBeat =>
           data_ram[replace_way][i] = mem[At(evict_tag_w, i)]

\* Memory has all words of the line written back.
WaitData ==
    \A i \in Index : SetOf(i) = evict_set_w =>
           data_ram[replace_way][i] = mem[At(evict_tag_w, i)]

\* The invariant of the words.
Data ==
    /\ state = "RESET" => mem = shadow
    /\ state # "RESET" => \A a \in Addr : Newest(a)
    /\ CleanLineIsMemory
    /\ flushing => \A s \in Set : s < flush_addr => Cleared(s)
    /\ state = "LOOKUP" => LookupData
    /\ state = "REFILL" => RefillData
    /\ state = "EVICT" => EvictData
    /\ state = "EVICT_WAIT" => WaitData
    /\ state # "INVALIDATE" /\ m.op # "invalidate"

\* The inductive invariant without invalidates.
Inv == Control /\ Data

-----------------------------------------------------------------------------
(* Indices and lines. *)

\* Multiplication keeps the order.
LEMMA MulMono ==
    ASSUME NEW a \in Int, NEW b \in Int, NEW w \in Nat, a <= b PROVE a * w <= b * w
OBVIOUS

\* A quotient is determined by a remainder below the divisor.
LEMMA DivUnique ==
    ASSUME NEW s \in Nat, NEW k \in Nat, NEW w \in Nat \ {0}, k < w
    PROVE  (s * w + k) \div w = s
<1>. DEFINE x == s * w + k
            q == x \div w
<1>0. x \in Nat
  OBVIOUS
<1>1. q \in Int /\ q * w <= x /\ x < q * w + w
  BY <1>0
<1>2. q < s => FALSE
  <2>. SUFFICES ASSUME q + 1 <= s PROVE FALSE
    BY <1>1
  <2>1. (q + 1) * w <= s * w
    BY <1>1, MulMono
  <2>. QED
    BY <1>1, <2>1
<1>3. s < q => FALSE
  <2>. SUFFICES ASSUME s + 1 <= q PROVE FALSE
    BY <1>1
  <2>1. (s + 1) * w <= q * w
    BY <1>1, MulMono
  <2>. QED
    BY <1>1, <2>1
<1>. QED
  BY <1>1, <1>2, <1>3

\* The k-th word of a line is an index of its set.
LEMMA IndexOfLine ==
    ASSUME NEW s \in Set, NEW k \in 0 .. Words - 1
    PROVE  LineStart(s) + k \in Index /\ SetOf(LineStart(s) + k) = s
<1>0. Sets \in Nat /\ Words \in Nat \ {0} /\ s \in Nat /\ s + 1 <= Sets /\ k \in Nat /\ k < Words
  BY DCacheAssumption DEF Set
<1>1. (s + 1) * Words <= Sets * Words
  BY <1>0, MulMono
<1>2. s * Words \in Nat /\ (s + 1) * Words = s * Words + Words /\ Sets * Words \in Nat
  BY <1>0
<1>3. (s * Words + k) \div Words = s
  BY <1>0, DivUnique
<1>4. s * Words + k \in 0 .. Sets * Words - 1
  BY <1>0, <1>1, <1>2
<1>. QED
  BY <1>3, <1>4 DEF LineStart, SetOf, Index

\* An index is among the words of its set's line.
LEMMA LineOfIndex ==
    ASSUME NEW i \in Index
    PROVE  /\ SetOf(i) \in Set /\ LineStart(SetOf(i)) \in Nat
           /\ i >= LineStart(SetOf(i)) /\ i < LineStart(SetOf(i)) + Words
<1>. DEFINE q == i \div Words
<1>0. Sets \in Nat \ {0} /\ Words \in Nat \ {0} /\ i \in Nat /\ i < Sets * Words
  BY DCacheAssumption DEF Index
<1>1. q \in Int /\ q * Words <= i /\ i < q * Words + Words
  BY <1>0
<1>2. q >= 0
  <2>. SUFFICES ASSUME q + 1 <= 0 PROVE FALSE
    BY <1>1
  <2>1. (q + 1) * Words <= 0 * Words
    BY <1>0, <1>1, MulMono
  <2>. QED
    BY <1>0, <1>1, <2>1
<1>3. q < Sets
  <2>. SUFFICES ASSUME Sets <= q PROVE FALSE
    BY <1>0, <1>1
  <2>1. Sets * Words <= q * Words
    BY <1>0, <1>1, MulMono
  <2>. QED
    BY <1>0, <1>1, <2>1
<1>4. q * Words \in Nat
  BY <1>0, <1>1, <1>2
<1>. QED
  BY <1>0, <1>1, <1>2, <1>3, <1>4 DEF SetOf, LineStart, Set

-----------------------------------------------------------------------------

\* The types of a request and of the bus.
ReqType == [op : Op \cup {"none"}, addr : Addr, data : Word, strb : SUBSET Byte]

\* The burst under way.
BusType == [kind : {"none", "read", "write"}, tag : Tag, idx : Index, left : 0 .. Words]

\* What the steps use of the parameters.
LEMMA Params ==
    /\ Sets \in Nat \ {0} /\ Words \in Nat /\ Words >= 2 /\ Words <= 256
    /\ Sets * Words \in Nat \ {0} /\ 0 \in Index /\ 0 \in Set
    /\ ZeroTag \in Tag /\ ZeroWord \in Word /\ NoReq \in ReqType /\ NoTag \in TagEntry
<1>1. Sets \in Nat \ {0} /\ Words \in Nat /\ Words >= 2 /\ Words <= 256
      /\ ZeroTag \in Tag /\ ZeroVal \in Val
  BY DCacheAssumption
<1>2. Sets * Words \in Nat \ {0}
  <2>1. 1 * Words <= Sets * Words
    BY <1>1, MulMono
  <2>2. Sets * Words \in Int
    BY <1>1
  <2>. QED
    BY <1>1, <2>1, <2>2
<1>3. 0 \in Index /\ 0 \in Set
  BY <1>1, <1>2 DEF Index, Set
<1>4. ZeroWord \in Word
  BY <1>1 DEF ZeroWord, Word
<1>5. [tag |-> ZeroTag, idx |-> 0] \in Addr
  BY <1>1, <1>3 DEF Addr
<1>6. NoReq \in ReqType
  BY <1>4, <1>5 DEF NoReq, ReqType
<1>7. NoTag \in TagEntry
  BY <1>1 DEF NoTag, TagEntry
<1>. QED
  BY <1>1, <1>2, <1>3, <1>4, <1>6, <1>7

\* A store of no bytes changes nothing, one of all bytes gives the new word,
\* and doing a store twice is doing it once.
LEMMA MergeWord ==
    ASSUME NEW c \in Word, NEW d \in Word, NEW S
    PROVE  /\ Merge(c, d, S) \in Word
           /\ Merge(c, d, {}) = c
           /\ Merge(c, d, Byte) = d
           /\ Merge(Merge(c, d, S), d, S) = Merge(c, d, S)
BY DEF Merge, Word

\* The types, register by register.
LEMMA Typed ==
    ASSUME TypeOK
    PROVE  /\ m \in ReqType /\ m.op \in Op \cup {"none"} /\ m.addr \in Addr
           /\ m.addr.tag \in Tag /\ m.addr.idx \in Index /\ MSet \in Set
           /\ m.data \in Word /\ m.strb \subseteq Byte
           /\ flush_addr \in Set /\ replace_way \in Way
           /\ tag_ram \in [Way -> [Set -> TagEntry]] /\ tag_out \in [Way -> TagEntry]
           /\ data_ram \in [Way -> [Index -> Word]] /\ data_out \in [Way -> Word]
           /\ \A w \in Way : tag_out[w].tag \in Tag
           /\ \A w \in Way, i \in Index : data_ram[w][i] \in Word
           /\ bus \in BusType /\ bus.tag \in Tag /\ bus.idx \in Index /\ bus.left \in 0 .. Words
           /\ BusAddr(bus) \in Addr /\ mem[BusAddr(bus)] \in Word
           /\ evict_tag_w \in Tag /\ evict_set_w \in Set
<1>1. /\ m \in ReqType /\ m.op \in Op \cup {"none"} /\ m.addr \in Addr
      /\ m.data \in Word /\ m.strb \subseteq Byte
  BY DEF TypeOK, ReqType
<1>2. m.addr.tag \in Tag /\ m.addr.idx \in Index
  BY <1>1 DEF Addr
<1>3. MSet \in Set
  BY <1>2, LineOfIndex DEF MSet
<1>4. /\ flush_addr \in Set /\ replace_way \in Way
      /\ tag_ram \in [Way -> [Set -> TagEntry]] /\ tag_out \in [Way -> TagEntry]
      /\ data_ram \in [Way -> [Index -> Word]] /\ data_out \in [Way -> Word]
  BY DEF TypeOK
<1>5. \A w \in Way : tag_out[w].tag \in Tag
  BY <1>4 DEF TagEntry
<1>6. \A w \in Way, i \in Index : data_ram[w][i] \in Word
  BY <1>4
<1>7. bus \in BusType
  BY DEF TypeOK, BusType
<1>8. bus.tag \in Tag /\ bus.idx \in Index /\ bus.left \in 0 .. Words
  BY <1>7 DEF BusType
<1>9. BusAddr(bus) \in Addr
  BY <1>8 DEF BusAddr, Addr
<1>10. mem[BusAddr(bus)] \in Word
  BY <1>9 DEF TypeOK
<1>11. evict_tag_w \in Tag /\ evict_set_w \in Set
  BY <1>3, <1>4, <1>5 DEF evict_tag_w, evict_set_w, MSet
<1>. QED
  BY <1>1, <1>2, <1>3, <1>4, <1>5, <1>6, <1>7, <1>8, <1>9, <1>10, <1>11

\* What the processor presents has the type of a request, and outside LOOKUP is
\* none.
LEMMA RequestType ==
    ASSUME NEW r \in Requests
    PROVE  /\ r \in ReqType /\ r.op \in Ops \cup {"none", "store"}
           /\ r.addr \in Addr /\ r.addr.idx \in Index /\ r.addr.tag \in Tag
           /\ r.data \in Word /\ r.strb \subseteq Byte
           /\ r.op = "store" => "store" \in Ops
           /\ state # "LOOKUP" => r.op = "none"
<1>1. Addrs \subseteq Addr /\ Ops \subseteq Op
  BY DCacheAssumption
<1>2. ZeroWord \in Word
  BY Params
<1>3. r \in Idling \/ r \in Others \/ (r \in Stores /\ "store" \in Ops)
  BY DEF Requests
<1>4. state # "LOOKUP" => r \in Idling
  BY DEF Requests
<1>5. \A x \in Idling : x \in ReqType /\ x.op = "none"
  BY <1>1, <1>2 DEF Idling, ReqType
<1>6. \A x \in Others : x \in ReqType /\ x.op \in Ops \ {"store"}
  BY <1>1, <1>2 DEF Others, ReqType
<1>7. \A x \in Stores : x \in ReqType /\ x.op = "store"
  <2>1. "store" \in Op
    BY DEF Op
  <2>. QED
    BY <1>1, <1>2, <2>1 DEF Stores, ReqType
<1>8. r \in ReqType
  BY <1>3, <1>5, <1>6, <1>7
<1>9. r.addr \in Addr /\ r.data \in Word /\ r.strb \subseteq Byte
  BY <1>8 DEF ReqType
<1>10. r.addr.idx \in Index /\ r.addr.tag \in Tag
  BY <1>9 DEF Addr
<1>. QED
  BY <1>3, <1>4, <1>5, <1>6, <1>7, <1>8, <1>9, <1>10

-----------------------------------------------------------------------------
(* The RAMs, entry by entry. *)

\* The tag RAMs after an edge, entry by entry.
LEMMA TagEdge ==
    ASSUME TypeOK, NEW r \in Requests, NEW ns, NEW ack \in BOOLEAN, TagClk(r, ns, ack)
    PROVE  /\ tag_data_in \in TagEntry /\ tag_addr_m \in Set /\ tag_addr_x(r, ns) \in Set
           /\ tag_ram' \in [Way -> [Set -> TagEntry]] /\ tag_out' \in [Way -> TagEntry]
           /\ \A w \in Way, s \in Set :
                 tag_ram'[w][s] = IF tag_write(w, ack) /\ s = tag_addr_m THEN tag_data_in
                                  ELSE tag_ram[w][s]
           /\ \A w \in Way : tag_out'[w] = tag_ram'[w][tag_addr_x(r, ns)]
<1>1. tag_data_in \in TagEntry
  BY Params, Typed DEF tag_data_in, TagEntry
<1>2. tag_addr_m \in Set
  BY Typed DEF tag_addr_m, MSet
<1>3. tag_addr_x(r, ns) \in Set
  BY Typed, RequestType, LineOfIndex DEF tag_addr_x, MSet
<1>4. tag_ram \in [Way -> [Set -> TagEntry]]
  BY Typed
<1>5. tag_ram' = [w \in Way |-> IF tag_write(w, ack)
                               THEN [tag_ram[w] EXCEPT ![tag_addr_m] = tag_data_in]
                               ELSE tag_ram[w]]
  BY DEF TagClk
<1>6. \A w \in Way : tag_out'[w] = tag_ram'[w][tag_addr_x(r, ns)]
  BY DEF TagClk
<1>. HIDE DEF tag_data_in, tag_addr_m, tag_addr_x
<1>7. tag_ram' \in [Way -> [Set -> TagEntry]]
  BY <1>1, <1>2, <1>4, <1>5
<1>8. \A w \in Way, s \in Set :
          tag_ram'[w][s] = IF tag_write(w, ack) /\ s = tag_addr_m THEN tag_data_in
                           ELSE tag_ram[w][s]
  BY <1>1, <1>2, <1>4, <1>5
<1>9. tag_out' \in [Way -> TagEntry]
  <2>1. tag_out' = [w \in Way |-> tag_ram'[w][tag_addr_x(r, ns)]]
    BY DEF TagClk
  <2>. QED
    BY <1>3, <1>7, <2>1
<1>. QED
  BY <1>1, <1>2, <1>3, <1>6, <1>7, <1>8, <1>9

\* The data RAMs' registers have their types.
DataTyped(r, ns) ==
    /\ data_addr_m(ns) \in Index /\ data_addr_x(r, ns) \in Index
    /\ data_ram' \in [Way -> [Index -> Word]] /\ data_out' \in [Way -> Word]
    /\ data_write_addr' \in Index

\* and hold what they held but for the word written.
DataWords(r, ns, ack, rdata) ==
    /\ \A w \in Way, i \in Index :
          data_ram'[w][i] = IF i = data_addr_m(ns)
                            THEN Merge(data_ram[w][i],
                                       IF state = "REFILL" THEN rdata ELSE m.data,
                                       data_write_m(w, ack))
                            ELSE data_ram[w][i]
    /\ \A w \in Way : data_out'[w] = data_ram[w][data_addr_x(r, ns)]

\* The data RAMs after an edge, word by word.
LEMMA DataEdge ==
    ASSUME TypeOK, NEW r \in Requests, NEW ns, NEW accept \in BOOLEAN, NEW ack \in BOOLEAN,
           NEW rdata \in Word, DataClk(r, ns, accept, ack, rdata)
    PROVE  DataTyped(r, ns) /\ DataWords(r, ns, ack, rdata)
<1>1. \A s \in Set : LineStart(s) \in Index
  <2>. SUFFICES ASSUME NEW s \in Set PROVE LineStart(s) \in Index
    OBVIOUS
  <2>1. 0 \in 0 .. Words - 1
    BY Params
  <2>2. LineStart(s) + 0 \in Index
    BY <2>1, IndexOfLine
  <2>3. LineStart(s) \in Int
    BY Params DEF LineStart, Set
  <2>. QED
    BY <2>2, <2>3
<1>2. data_addr_line \in Index
  BY <1>1, Typed DEF data_addr_line, TypeOK, MSet
<1>3. data_addr_m(ns) \in Index /\ data_addr_x(r, ns) \in Index
  BY <1>2, Typed, RequestType DEF data_addr_m, data_addr_x
<1>4. data_write_addr' \in Index
  <2>1. LineStart(SetOf(m.addr.idx)) \in Index
    BY <1>1, Typed DEF MSet
  <2>2. \A i \in Index : (i + 1) % (Sets * Words) \in Index
    BY Params DEF Index
  <2>. QED
    BY <1>3, <2>1, <2>2 DEF DataClk, TypeOK
<1>. DEFINE D == IF state = "REFILL" THEN rdata ELSE m.data
<1>5. D \in Word
  BY Typed
<1>6. \A w \in Way, i \in Index : Merge(data_ram[w][i], D, data_write_m(w, ack)) \in Word
  BY <1>5, Typed, MergeWord
<1>7. data_ram' = [w \in Way |-> [data_ram[w] EXCEPT ![data_addr_m(ns)] =
                      Merge(data_ram[w][data_addr_m(ns)], D, data_write_m(w, ack))]]
  BY Typed, <1>3 DEF DataClk
<1>8. data_ram \in [Way -> [Index -> Word]]
  BY Typed
<1>9. data_out' = [w \in Way |-> data_ram[w][data_addr_x(r, ns)]]
  BY DEF DataClk
<1>. HIDE DEF D
<1>10. data_ram' \in [Way -> [Index -> Word]]
  BY <1>3, <1>6, <1>7, <1>8
<1>11. \A w \in Way, i \in Index :
         data_ram'[w][i] = IF i = data_addr_m(ns)
                           THEN Merge(data_ram[w][i], D, data_write_m(w, ack))
                           ELSE data_ram[w][i]
  BY <1>3, <1>7, <1>8
<1>12. data_out' \in [Way -> Word]
  BY <1>3, <1>8, <1>9
<1>13. \A w \in Way : data_out'[w] = data_ram[w][data_addr_x(r, ns)]
  BY <1>9
<1>14. DataTyped(r, ns)
  BY <1>3, <1>4, <1>10, <1>12 DEF DataTyped
<1>. QED
  BY <1>11, <1>13, <1>14 DEF D, DataWords

-----------------------------------------------------------------------------
(* One clock edge. *)

\* A clock edge is the edge of each register.
LEMMA ClkParts ==
    ASSUME NEW r, NEW accept, NEW ack, NEW err, Clk(r, accept, ack, err)
    PROVE  /\ state' = next_state(r, accept, ack)
           /\ PmemClk(state', accept, ack) /\ ErrorClk(ack, err)
           /\ TagClk(r, state', ack) /\ DataClk(r, state', accept, ack, mem[BusAddr(bus)])
           /\ RequestClk(r) /\ FlushClk(state') /\ ReplaceClk(state')
           /\ BusClk(state', accept, ack) /\ ShadowClk(r) /\ ErrorSeen(r, ack, err)
           /\ ack => CanAck
           /\ err => ack
           /\ ~accept => Offered(state')
<1>. DEFINE ns == next_state(r, accept, ack)
<1>1. state' = ns
  BY DEF Clk, CacheClk
<1>2. /\ PmemClk(ns, accept, ack) /\ ErrorClk(ack, err)
      /\ TagClk(r, ns, ack) /\ DataClk(r, ns, accept, ack, mem[BusAddr(bus)])
      /\ RequestClk(r) /\ FlushClk(ns) /\ ReplaceClk(ns)
  BY DEF Clk, CacheClk
<1>3. /\ BusClk(ns, accept, ack) /\ ShadowClk(r) /\ ErrorSeen(r, ack, err)
      /\ ack => CanAck
      /\ err => ack
      /\ ~accept => Offered(ns)
  BY DEF Clk
<1>. QED
  BY <1>1, <1>2, <1>3

\* The words of the data RAMs after it.
LEMMA WordsEdge ==
    ASSUME TypeOK, NEW r \in Requests, NEW accept \in BOOLEAN, NEW ack \in BOOLEAN,
           NEW err \in BOOLEAN, Clk(r, accept, ack, err)
    PROVE  DataWords(r, state', ack, mem[BusAddr(bus)])
<1>. DEFINE ns == state'
            rdata == mem[BusAddr(bus)]
<1>1. rdata \in Word
  BY Typed
<1>2. DataClk(r, ns, accept, ack, rdata)
  BY ClkParts
<1>. HIDE DEF ns, rdata
<1>3. DataWords(r, ns, ack, rdata)
  BY <1>1, <1>2, DataEdge
<1>. QED
  BY <1>3 DEF ns, rdata

\* Only in LOOKUP is a request accepted or answered.
LEMMA HeldStep ==
    ASSUME NEW r, NEW accept, NEW ack \in BOOLEAN, NEW err \in BOOLEAN, Clk(r, accept, ack, err),
           state # "LOOKUP", TypeOK
    PROVE  /\ ~mem_accept_o(r) /\ ~mem_ack_o
           /\ m' = m /\ shadow' = shadow
           /\ error' <=> (ack /\ err) \/ error
           /\ saw_error' <=> (ack /\ err) \/ saw_error
<1>1. ~mem_accept_o(r) /\ ~mem_ack_o
  BY DEF mem_accept_o, mem_ack_o
<1>. QED
  BY <1>1, ClkParts DEF RequestClk, ShadowClk, ErrorClk, ErrorSeen

\* With nothing on the bus and no refill to ask for, nothing happens there.
LEMMA CalmStep ==
    ASSUME NEW r, NEW accept, NEW ack \in BOOLEAN, NEW err \in BOOLEAN, Clk(r, accept, ack, err),
           Calm, state \notin {"REFILL", "EVICT"}, state' # "REFILL"
    PROVE  /\ ~ack /\ ~err /\ bus' = bus /\ mem' = mem
           /\ ~pmem_rd' /\ ~pmem_wr' /\ (pmem_wr0' <=> state' = "EVICT")
           /\ pmem_len' = (IF state' = "EVICT" THEN Words - 1 ELSE pmem_len)
           /\ data_write_addr' = (IF state' = "EVICT"
                                  THEN (data_addr_m(state') + 1) % (Sets * Words)
                                  ELSE data_write_addr)
           /\ pmem_write_data' = ZeroWord
           /\ state' # "EVICT" => Calm'
<1>. USE ClkParts
<1>1. ~ack /\ ~err
  BY DEF CanAck, Calm
<1>2. ~pmem_rd_w(state') /\ ~pmem_wr_w
  BY DEF pmem_rd_w, pmem_wr_w, Entering, Calm
<1>3. bus' = bus /\ mem' = mem
  BY <1>1, <1>2 DEF BusClk
<1>4. /\ ~pmem_rd' /\ ~pmem_wr' /\ (pmem_wr0' <=> state' = "EVICT")
      /\ pmem_len' = (IF state' = "EVICT" THEN Words - 1 ELSE pmem_len)
      /\ pmem_write_data' = ZeroWord
  BY <1>1, <1>2 DEF PmemClk, Entering, Calm
<1>5. data_write_addr' = (IF state' = "EVICT"
                          THEN (data_addr_m(state') + 1) % (Sets * Words)
                          ELSE data_write_addr)
  BY <1>1 DEF DataClk, Entering
<1>. QED
  BY <1>1, <1>3, <1>4, <1>5 DEF Calm

\* The cycle in which a refill is asked for, with nothing open on the bus but a
\* write whose answer comes in that cycle.
LEMMA AskStep ==
    ASSUME NEW r, NEW accept \in BOOLEAN, NEW ack \in BOOLEAN, NEW err \in BOOLEAN,
           Clk(r, accept, ack, err), TypeOK,
           ~pmem_rd, ~pmem_wr0, ~pmem_wr, state \notin {"REFILL", "EVICT"}, state' = "REFILL",
           \/ bus.kind = "none"
           \/ bus.kind = "write" /\ bus.left = 0 /\ ack
    PROVE  /\ ~pmem_wr0' /\ ~pmem_wr' /\ mem' = mem /\ bus' \in BusType
           /\ data_write_addr' = LineStart(MSet)
           /\ \/ pmem_rd' /\ bus'.kind = "none"
              \/ /\ ~pmem_rd' /\ bus'.kind = "read" /\ bus'.left = Words
                 /\ pmem_len' = Words - 1 /\ bus'.tag = m.addr.tag
                 /\ bus'.idx = LineStart(MSet)
           /\ pmem_len' \in {pmem_len, Words - 1}
           /\ pmem_write_data' = ZeroWord
<1>0. /\ PmemClk(state', accept, ack) /\ BusClk(state', accept, ack) /\ (ack => CanAck)
      /\ DataClk(r, state', accept, ack, mem[BusAddr(bus)])
  BY ClkParts
<1>1. pmem_rd_w(state') /\ ~pmem_wr_w
  BY DEF pmem_rd_w, pmem_wr_w, Entering
<1>2. /\ ~pmem_wr0' /\ ~pmem_wr' /\ (pmem_rd' <=> ~accept)
      /\ pmem_len' = (IF accept THEN Words - 1 ELSE pmem_len)
      /\ pmem_write_data' = ZeroWord
  <2>1. PmemClk(state', accept, ack)
    BY <1>0
  <2>2. ~Entering("EVICT", state') /\ ~(state = "REFILL" /\ ack) /\ ~(state = "EVICT" /\ accept)
    BY DEF Entering
  <2>3. ~pmem_wr0' /\ ~pmem_wr'
    BY <1>1, <2>1, <2>2 DEF PmemClk
  <2>4. pmem_rd' <=> ~accept
    BY <1>1, <2>1 DEF PmemClk
  <2>5. pmem_len' = (IF accept THEN Words - 1 ELSE pmem_len)
    BY <1>1, <2>1, <2>2 DEF PmemClk
  <2>6. pmem_write_data' = ZeroWord
    BY <2>1, <2>3 DEF PmemClk
  <2>. QED
    BY <2>3, <2>4, <2>5, <2>6
<1>3. data_write_addr' = LineStart(MSet)
  BY <1>0 DEF DataClk, Entering, MSet
<1>4. LineStart(MSet) \in Index /\ Words \in 0 .. Words
  <2>1. 0 \in 0 .. Words - 1 /\ MSet \in Set /\ LineStart(MSet) \in Int
    BY Params, Typed DEF LineStart, Set
  <2>2. LineStart(MSet) + 0 \in Index
    BY <2>1, IndexOfLine
  <2>. QED
    BY <2>1, <2>2, Params
<1>5. CASE accept
  <2>1. bus' = Burst("read", m.addr.tag, MSet) /\ mem' = mem
    BY <1>0, <1>1, <1>5 DEF BusClk, MSet
  <2>2. /\ bus'.kind = "read" /\ bus'.left = Words /\ bus'.tag = m.addr.tag
        /\ bus'.idx = LineStart(MSet)
    BY <2>1 DEF Burst
  <2>3. bus' \in BusType
    BY <1>4, <2>1, Typed DEF Burst, BusType
  <2>. QED
    BY <1>2, <1>3, <1>5, <2>1, <2>2, <2>3
<1>6. CASE ~accept
  <2>1. mem' = mem /\ bus' = IF bus.kind = "none" /\ ~ack THEN bus ELSE NoBurst
    <3>1. CASE bus.kind = "none"
      <4>1. ~ack
        BY <1>0, <3>1 DEF CanAck
      <4>. QED
        BY <1>0, <1>1, <1>6, <3>1, <4>1 DEF BusClk
    <3>2. CASE bus.kind = "write" /\ bus.left = 0 /\ ack
      <4>1. bus.left <= 1 /\ ~(bus.kind = "none")
        BY <3>2
      <4>. QED
        BY <1>0, <1>1, <1>6, <3>2, <4>1 DEF BusClk
    <3>. QED
      BY <3>1, <3>2
  <2>2. NoBurst \in BusType /\ NoBurst.kind = "none"
    BY Params DEF NoBurst, BusType
  <2>3. bus' \in BusType /\ bus'.kind = "none"
    BY <2>1, <2>2, Typed
  <2>. QED
    BY <1>2, <1>3, <1>6, <2>1, <2>3
<1>. QED
  BY <1>5, <1>6

\* The types after the edge, but for the bus.
LEMMA TypeStep ==
    ASSUME TypeOK, NEW r \in Requests, NEW accept \in BOOLEAN, NEW ack \in BOOLEAN,
           NEW err \in BOOLEAN, Clk(r, accept, ack, err), bus' \in BusType
    PROVE  TypeOK'
<1>0. /\ PmemClk(state', accept, ack) /\ ErrorClk(ack, err) /\ TagClk(r, state', ack)
      /\ DataClk(r, state', accept, ack, mem[BusAddr(bus)])
      /\ RequestClk(r) /\ FlushClk(state') /\ ReplaceClk(state')
      /\ BusClk(state', accept, ack) /\ ShadowClk(r) /\ ErrorSeen(r, ack, err)
  BY ClkParts
<1>1. state' \in {"RESET", "FLUSH_ADDR", "FLUSH", "LOOKUP", "READ", "WRITE",
                  "REFILL", "EVICT", "EVICT_WAIT", "INVALIDATE", "WRITEBACK"}
  BY ClkParts DEF next_state
<1>2. m' \in ReqType
  BY <1>0, RequestType, Params, Typed DEF RequestClk
<1>3. replace_way' \in Way
  BY <1>0 DEF ReplaceClk, TypeOK, Way
<1>4. flush_addr' \in Set
  <2>1. next_flush_addr \in Set
    BY Params DEF next_flush_addr, TypeOK, Set
  <2>. QED
    BY <1>0, <2>1, Params DEF FlushClk, TypeOK
<1>5. /\ flushing' \in BOOLEAN /\ flush_last' \in BOOLEAN /\ pmem_rd' \in BOOLEAN
      /\ pmem_wr0' \in BOOLEAN /\ pmem_wr' \in BOOLEAN /\ error' \in BOOLEAN
      /\ saw_error' \in BOOLEAN
  <2>1. flushing' \in BOOLEAN /\ flush_last' \in BOOLEAN
    BY <1>0 DEF FlushClk, TypeOK, next_flush_last
  <2>2. pmem_rd' \in BOOLEAN /\ pmem_wr0' \in BOOLEAN /\ pmem_wr' \in BOOLEAN
    BY <1>0 DEF PmemClk, TypeOK
  <2>3. error' \in BOOLEAN /\ saw_error' \in BOOLEAN
    BY <1>0 DEF ErrorClk, ErrorSeen, TypeOK
  <2>. QED
    BY <2>1, <2>2, <2>3
<1>6. tag_ram' \in [Way -> [Set -> TagEntry]] /\ tag_out' \in [Way -> TagEntry]
  BY <1>0, TagEdge
<1>7. /\ data_ram' \in [Way -> [Index -> Word]] /\ data_out' \in [Way -> Word]
      /\ data_write_addr' \in Index
  <2>. DEFINE ns == state'
              rdata == mem[BusAddr(bus)]
  <2>1. rdata \in Word /\ DataClk(r, ns, accept, ack, rdata)
    BY <1>0, Typed
  <2>. HIDE DEF ns, rdata
  <2>2. DataTyped(r, ns)
    BY <2>1, DataEdge
  <2>. QED
    BY <1>0, <2>2 DEF DataTyped
<1>8. pmem_len' \in 0 .. 255
  <2>1. Words - 1 \in 0 .. 255
    BY Params
  <2>2. (pmem_len - 1) % 256 \in 0 .. 255
    BY DEF TypeOK
  <2>. QED
    BY <1>0, <2>1, <2>2 DEF PmemClk, TypeOK
<1>9. pmem_write_data_w \in Word
  BY Typed DEF pmem_write_data_w, TypeOK
<1>10. pmem_write_data' \in Word
  BY <1>0, <1>9, Params DEF PmemClk
<1>11. mem' \in [Addr -> Word]
  BY <1>0, <1>9 DEF BusClk, TypeOK
<1>12. shadow' \in [Addr -> Word]
  <2>1. shadow \in [Addr -> Word] /\ mem \in [Addr -> Word]
    BY DEF TypeOK
  <2>2. CASE ~mem_accept_o(r) \/ r.op \notin {"store", "invalidate"}
    BY <1>0, <2>1, <2>2 DEF ShadowClk
  <2>3. CASE mem_accept_o(r) /\ r.op = "store"
    <3>1. Merge(shadow[r.addr], r.data, r.strb) \in Word
      BY <2>1, RequestType, MergeWord
    <3>2. shadow' = [shadow EXCEPT ![r.addr] = Merge(shadow[r.addr], r.data, r.strb)]
      BY <1>0, <2>1, <2>3, RequestType DEF ShadowClk
    <3>. HIDE DEF Merge
    <3>. QED
      BY <2>1, <3>1, <3>2
  <2>4. CASE mem_accept_o(r) /\ r.op = "invalidate"
    BY <1>0, <2>1, <2>4 DEF ShadowClk
  <2>. QED
    BY <2>2, <2>3, <2>4
<1>. QED
  BY <1>1, <1>2, <1>3, <1>4, <1>5, <1>6, <1>7, <1>8, <1>10, <1>11, <1>12
     DEF TypeOK, ReqType, BusType

-----------------------------------------------------------------------------
(* The control state, edge by edge. *)

\* Without a tag write the tags stay.
LEMMA TagsKept ==
    ASSUME TypeOK, NEW r \in Requests, NEW ns, NEW ack \in BOOLEAN, TagClk(r, ns, ack),
           \A w \in Way : ~tag_write(w, ack)
    PROVE  /\ tag_ram' = tag_ram
           /\ \A w \in Way : tag_out'[w] = tag_ram[w][tag_addr_x(r, ns)]
<1>1. tag_ram' = [w \in Way |-> tag_ram[w]]
  BY DEF TagClk
<1>2. tag_ram' = tag_ram
  BY <1>1, Typed
<1>. QED
  BY <1>2, TagEdge

\* Outside LOOKUP the tag outputs show the set being worked on, with what this
\* edge writes to it.
LEMMA OutFollows ==
    ASSUME TypeOK, NEW r \in Requests, NEW ns, NEW ack \in BOOLEAN, TagClk(r, ns, ack),
           state # "LOOKUP"
    PROVE  \A w \in Way : tag_out'[w] = tag_ram'[w][IF flushing THEN flush_addr ELSE MSet]
<1>1. tag_addr_x(r, ns) = IF flushing THEN flush_addr ELSE MSet
  BY DEF tag_addr_x, MSet
<1>. QED
  BY <1>1, TagEdge

\* Tag writes after which a line is still in one way: dropping a line, keeping
\* its tag, or putting the request's line in a way the other has no copy of.
LEMMA NoDuplicateStep ==
    ASSUME TypeOK, NoDuplicateLine, state # "RESET",
           \A w \in Way, s \in Set :
              \/ ~tag_ram'[w][s].valid
              \/ tag_ram[w][s].valid /\ tag_ram'[w][s].tag = tag_ram[w][s].tag
              \/ /\ s = MSet /\ tag_ram'[w][s].tag = m.addr.tag
                 /\ ~(tag_ram[1 - w][s].valid /\ tag_ram[1 - w][s].tag = m.addr.tag)
                 /\ tag_ram'[1 - w][s] = tag_ram[1 - w][s]
    PROVE  NoDuplicateLine'
<1>. SUFFICES ASSUME NEW s \in Set, tag_ram'[0][s].valid, tag_ram'[1][s].valid,
                     tag_ram'[0][s].tag = tag_ram'[1][s].tag
              PROVE  FALSE
  BY DEF NoDuplicateLine
<1>1. 0 \in Way /\ 1 \in Way /\ 1 - 0 = 1 /\ 1 - 1 = 0
  BY DEF Way
<1>2. ~(tag_ram[0][s].valid /\ tag_ram[1][s].valid /\ tag_ram[0][s].tag = tag_ram[1][s].tag)
  BY DEF NoDuplicateLine
<1>3. \/ tag_ram[0][s].valid /\ tag_ram'[0][s].tag = tag_ram[0][s].tag
      \/ /\ tag_ram'[0][s].tag = m.addr.tag
         /\ ~(tag_ram[1][s].valid /\ tag_ram[1][s].tag = m.addr.tag)
         /\ tag_ram'[1][s] = tag_ram[1][s]
  BY <1>1
<1>4. \/ tag_ram[1][s].valid /\ tag_ram'[1][s].tag = tag_ram[1][s].tag
      \/ /\ tag_ram'[1][s].tag = m.addr.tag
         /\ ~(tag_ram[0][s].valid /\ tag_ram[0][s].tag = m.addr.tag)
         /\ tag_ram'[0][s] = tag_ram[0][s]
  BY <1>1
<1>. QED
  BY <1>2, <1>3, <1>4

\* Outside LOOKUP the error flag gathers what the bus answers.
LEMMA ErrorHeld ==
    ASSUME Control, NEW r, NEW accept, NEW ack \in BOOLEAN, NEW err \in BOOLEAN,
           Clk(r, accept, ack, err), state # "LOOKUP", m.op # "none" \/ ~ack
    PROVE  ErrorKept'
<1>1. /\ m' = m
      /\ error' <=> (ack /\ err) \/ error
      /\ saw_error' <=> (ack /\ err) \/ saw_error
  BY HeldStep DEF Control
<1>. QED
  BY <1>1 DEF Control, ErrorKept

\* An edge in RESET clears both ways of one more set.
LEMMA ResetStep ==
    ASSUME Control, NEW r \in Requests, NEW accept \in BOOLEAN, NEW ack \in BOOLEAN,
           NEW err \in BOOLEAN, Clk(r, accept, ack, err), state = "RESET"
    PROVE  Control'
<1>0. TypeOK /\ ResetPhase
  BY DEF Control, Phases
<1>1. state' = IF flush_last THEN "LOOKUP" ELSE "RESET"
  BY ClkParts DEF next_state
<1>2. ~ack /\ bus' = bus /\ Calm'
  BY <1>0, <1>1, CalmStep DEF ResetPhase
<1>3. m' = m /\ ErrorKept'
  BY <1>0, <1>2, HeldStep, ErrorHeld
<1>4. ~flushing'
  BY <1>0, <1>1, ClkParts DEF FlushClk, ResetPhase
<1>5. TypeOK'
  BY <1>0, <1>2, TypeStep, Typed
<1>6. \A w \in Way, s \in Set : tag_ram'[w][s] = IF s = flush_addr THEN NoTag ELSE tag_ram[w][s]
  <2>1. \A w \in Way : tag_write(w, ack)
    BY DEF tag_write
  <2>2. tag_addr_m = flush_addr /\ tag_data_in = NoTag
    BY DEF tag_addr_m, tag_data_in
  <2>. QED
    BY <1>0, <2>1, <2>2, TagEdge, ClkParts
<1>7. ~NoTag.valid
  BY DEF NoTag
<1>8. \A s \in Set : Cleared(s) => Cleared(s)'
  BY <1>6, <1>7 DEF Cleared
<1>9. \A s \in Set : s = flush_addr => Cleared(s)'
  BY <1>6, <1>7 DEF Cleared
<1>10. /\ flush_last' <=> flush_last \/ flush_addr = Sets - 1
       /\ flush_addr' = (flush_addr + 1) % Sets
  BY ClkParts DEF FlushClk, next_flush_last, next_flush_addr
<1>11. \A s \in Set : s < flush_addr' \/ flush_last' => Cleared(s)'
  <2>. SUFFICES ASSUME NEW s \in Set, s < flush_addr' \/ flush_last' PROVE Cleared(s)'
    OBVIOUS
  <2>1. CASE flush_last
    BY <1>0, <1>8, <2>1 DEF ResetPhase
  <2>2. CASE ~flush_last
    <3>1. flush_addr \in Nat /\ flush_addr < Sets /\ s \in Nat /\ s < Sets /\ Sets \in Nat \ {0}
      BY <1>0, Typed, Params DEF Set
    <3>2. flush_addr' <= flush_addr + 1
      BY <1>10, <3>1
    <3>3. s < flush_addr \/ s = flush_addr
      <4>1. flush_addr' \in Nat
        BY <1>10, <3>1
      <4>. QED
        BY <1>10, <2>2, <3>1, <3>2, <4>1
    <3>. QED
      BY <1>0, <1>8, <1>9, <3>3 DEF ResetPhase
  <2>. QED
    BY <2>1, <2>2
<1>12. CASE flush_last
  <2>1. \A s \in Set : Cleared(s)'
    BY <1>10, <1>11, <1>12
  <2>2. NoDuplicateLine'
    BY <2>1 DEF NoDuplicateLine, Cleared, Way
  <2>3. LookupPhase'
    BY <1>0, <1>2, <1>3, <1>4 DEF LookupPhase, ResetPhase, IsAccess
  <2>. QED
    BY <1>1, <1>3, <1>5, <1>12, <2>2, <2>3 DEF Control, Phases
<1>13. CASE ~flush_last
  <2>1. ResetPhase'
    BY <1>0, <1>2, <1>3, <1>4, <1>11 DEF ResetPhase
  <2>2. NoDuplicateLine'
    BY <1>1, <1>13 DEF NoDuplicateLine
  <2>. QED
    BY <1>1, <1>3, <1>5, <1>13, <2>1, <2>2 DEF Control, Phases
<1>. QED
  BY <1>12, <1>13

\* An edge in READ goes back to LOOKUP.
LEMMA ReadStep ==
    ASSUME Control, NEW r \in Requests, NEW accept \in BOOLEAN, NEW ack \in BOOLEAN,
           NEW err \in BOOLEAN, Clk(r, accept, ack, err), state = "READ"
    PROVE  Control'
<1>0. TypeOK /\ ReadPhase
  BY DEF Control, Phases
<1>1. state' = "LOOKUP"
  BY ClkParts DEF next_state
<1>2. ~ack /\ bus' = bus /\ Calm'
  BY <1>0, <1>1, CalmStep DEF ReadPhase
<1>3. m' = m /\ ErrorKept'
  BY <1>0, <1>2, HeldStep, ErrorHeld
<1>4. ~flushing'
  BY <1>0, <1>1, ClkParts DEF FlushClk, ReadPhase
<1>5. TypeOK'
  BY <1>0, <1>2, TypeStep, Typed
<1>6. tag_ram' = tag_ram /\ \A w \in Way : tag_out'[w] = tag_ram'[w][MSet]
  <2>1. \A w \in Way : ~tag_write(w, ack)
    BY DEF tag_write
  <2>. QED
    BY <1>0, <2>1, TagsKept, OutFollows, ClkParts DEF ReadPhase
<1>7. NoDuplicateLine'
  BY <1>6 DEF Control, NoDuplicateLine
<1>8. LookupPhase'
  BY <1>2, <1>3, <1>4, <1>6 DEF LookupPhase, TagSeen, MSet
<1>. QED
  BY <1>1, <1>3, <1>5, <1>7, <1>8 DEF Control, Phases

\* An edge in WRITE marks the line filled as dirty.
LEMMA WriteStep ==
    ASSUME Control, NEW r \in Requests, NEW accept \in BOOLEAN, NEW ack \in BOOLEAN,
           NEW err \in BOOLEAN, Clk(r, accept, ack, err), state = "WRITE"
    PROVE  Control'
<1>0. TypeOK /\ WritePhase
  BY DEF Control, Phases
<1>1. state' = "LOOKUP"
  BY ClkParts DEF next_state
<1>2. ~ack /\ bus' = bus /\ Calm'
  BY <1>0, <1>1, CalmStep DEF WritePhase
<1>3. m' = m /\ ErrorKept'
  BY <1>0, <1>2, HeldStep, ErrorHeld
<1>4. ~flushing'
  BY <1>0, <1>1, ClkParts DEF FlushClk, WritePhase
<1>5. TypeOK'
  BY <1>0, <1>2, TypeStep, Typed
<1>6. \A w \in Way : tag_out'[w] = tag_ram'[w][MSet]
  BY <1>0, OutFollows, ClkParts DEF WritePhase
<1>7. \A w \in Way, s \in Set :
          tag_ram'[w][s] = IF w = replace_way /\ s = MSet THEN tag_data_in ELSE tag_ram[w][s]
  <2>1. \A w \in Way : tag_write(w, ack) <=> w = replace_way
    BY DEF tag_write
  <2>2. tag_addr_m = MSet
    BY <1>0 DEF tag_addr_m, WritePhase, MSet
  <2>. QED
    BY <1>0, <2>1, <2>2, TagEdge, ClkParts
<1>8. tag_data_in.tag = m.addr.tag
  BY <1>0 DEF tag_data_in, WritePhase
<1>9. tag_ram[replace_way][MSet].valid /\ tag_ram[replace_way][MSet].tag = m.addr.tag
  BY <1>0, Typed DEF WritePhase, TagSeen, Hit
<1>10. NoDuplicateLine'
  BY <1>0, <1>7, <1>8, <1>9, NoDuplicateStep DEF Control
<1>11. LookupPhase'
  BY <1>2, <1>3, <1>4, <1>6 DEF LookupPhase, TagSeen, MSet
<1>. QED
  BY <1>1, <1>3, <1>5, <1>10, <1>11 DEF Control, Phases

\* An edge in INVALIDATE drops lines only.
LEMMA InvalidateStep ==
    ASSUME Control, NEW r \in Requests, NEW accept \in BOOLEAN, NEW ack \in BOOLEAN,
           NEW err \in BOOLEAN, Clk(r, accept, ack, err), state = "INVALIDATE"
    PROVE  Control'
<1>0. TypeOK /\ InvalidatePhase
  BY DEF Control, Phases
<1>1. state' = "LOOKUP"
  BY ClkParts DEF next_state
<1>2. ~ack /\ bus' = bus /\ Calm'
  BY <1>0, <1>1, CalmStep DEF InvalidatePhase
<1>3. m' = m /\ ErrorKept'
  BY <1>0, <1>2, HeldStep, ErrorHeld
<1>4. ~flushing'
  BY <1>0, <1>1, ClkParts DEF FlushClk, InvalidatePhase
<1>5. TypeOK'
  BY <1>0, <1>2, TypeStep, Typed
<1>6. ~tag_data_in.valid
  BY <1>0 DEF tag_data_in, InvalidatePhase
<1>7. \A w \in Way, s \in Set :
          tag_ram'[w][s] = tag_data_in \/ tag_ram'[w][s] = tag_ram[w][s]
  BY <1>0, TagEdge, ClkParts
<1>8. NoDuplicateLine'
  <2>1. \A w \in Way, s \in Set :
           \/ ~tag_ram'[w][s].valid
           \/ tag_ram[w][s].valid /\ tag_ram'[w][s].tag = tag_ram[w][s].tag
    BY <1>6, <1>7
  <2>. QED
    BY <1>0, <2>1, NoDuplicateStep DEF Control
<1>9. LookupPhase'
  BY <1>0, <1>2, <1>3, <1>4 DEF LookupPhase, InvalidatePhase, IsAccess
<1>. QED
  BY <1>1, <1>3, <1>5, <1>8, <1>9 DEF Control, Phases

\* An eviction begins with the first word of the line.
LEMMA EnterEvict ==
    ASSUME TypeOK, Calm, NEW r \in Requests, NEW accept \in BOOLEAN, NEW ack \in BOOLEAN,
           NEW err \in BOOLEAN, Clk(r, accept, ack, err),
           state \in {"LOOKUP", "WRITEBACK", "FLUSH"}, state' = "EVICT", Evicting',
           evict_set_w' = (IF state = "FLUSH" THEN flush_addr ELSE MSet),
           flushing' /\ flush_last' => flush_addr' = Sets - 1
    PROVE  EvictPhase'
<1>1. /\ bus' = bus /\ ~pmem_rd' /\ pmem_wr0' /\ pmem_len' = Words - 1
      /\ data_write_addr' = (data_addr_m(state') + 1) % (Sets * Words)
  BY CalmStep
<1>2. data_addr_m(state') = LineStart(evict_set_w')
  BY DEF data_addr_m, uses_line, data_addr_line, MSet
<1>3. EvictBeat' = LineStart(evict_set_w')
  BY <1>1 DEF EvictBeat, LineStart
<1>4. data_write_addr' = (EvictBeat' + 1) % (Sets * Words)
  BY <1>1, <1>2, <1>3
<1>. QED
  BY <1>1, <1>4 DEF EvictPhase, Calm

\* A refill begins with no word filled.
LEMMA EnterRefill ==
    ASSUME TypeOK, NEW r \in Requests, NEW accept \in BOOLEAN, NEW ack \in BOOLEAN,
           NEW err \in BOOLEAN, Clk(r, accept, ack, err),
           ~pmem_rd, ~pmem_wr0, ~pmem_wr, state \notin {"REFILL", "EVICT"}, state' = "REFILL",
           bus.kind = "none" \/ (bus.kind = "write" /\ bus.left = 0 /\ ack),
           IsAccess(m), m' = m, ~flushing', TagSeen(MSet)', ~Hit(1 - replace_way)'
    PROVE  RefillPhase' /\ TypeOK'
<1>1. /\ ~pmem_wr0' /\ ~pmem_wr' /\ bus' \in BusType
      /\ data_write_addr' = LineStart(MSet)
      /\ \/ pmem_rd' /\ bus'.kind = "none"
         \/ /\ ~pmem_rd' /\ bus'.kind = "read" /\ bus'.left = Words
            /\ pmem_len' = Words - 1 /\ bus'.tag = m.addr.tag
            /\ bus'.idx = LineStart(MSet)
  BY AskStep
<1>2. MSet' = MSet /\ LineStart(MSet)' = LineStart(MSet)
  BY DEF MSet, LineStart, SetOf
<1>3. LineStart(MSet) + (Words - Words) = LineStart(MSet) /\ Words \in 1 .. Words
  BY Typed, Params DEF LineStart, Set
<1>4. \/ pmem_rd' /\ bus'.kind = "none" /\ data_write_addr' = LineStart(MSet)'
      \/ /\ ~pmem_rd' /\ bus'.kind = "read" /\ bus'.left \in 1 .. Words
         /\ pmem_len' = bus'.left - 1 /\ bus'.tag = m'.addr.tag
         /\ bus'.idx = LineStart(MSet)' + (Words - bus'.left)
         /\ data_write_addr' = bus'.idx
  BY <1>1, <1>2, <1>3
<1>5. IsAccess(m)'
  BY DEF IsAccess
<1>6. RefillPhase'
  BY <1>1, <1>4, <1>5 DEF RefillPhase
<1>. QED
  BY <1>1, <1>6, TypeStep

\* A miss keeps the request and writes back the line to be replaced if it is
\* dirty, else refills.
LEMMA LookupMissStep ==
    ASSUME Control, NEW r \in Requests, NEW accept \in BOOLEAN, NEW ack \in BOOLEAN,
           NEW err \in BOOLEAN, Clk(r, accept, ack, err), state = "LOOKUP", Missed
    PROVE  /\ Control' /\ m' = m /\ shadow' = shadow
           /\ tag_ram' = tag_ram /\ tag_out' = tag_out /\ replace_way' = replace_way
           /\ state' = IF Dirty(replace_way) THEN "EVICT" ELSE "REFILL"
           /\ ~flushing' /\ mem' = mem /\ ~HitAny
<1>0. TypeOK /\ LookupPhase
  BY DEF Control, Phases
<1>1. IsAccess(m) /\ ~HitAny
  BY DEF Missed
<1>2. state' = IF Dirty(replace_way) THEN "EVICT" ELSE "REFILL"
  BY <1>0, <1>1, ClkParts DEF next_state, evict_way_w, LookupPhase
<1>3. ~mem_accept_o(r) /\ ~mem_ack_o
  BY <1>1 DEF mem_accept_o, mem_ack_o, IsAccess
<1>4. m' = m /\ shadow' = shadow
  BY <1>3, ClkParts DEF RequestClk, ShadowClk
<1>5. ~ack
  BY <1>0, ClkParts DEF CanAck, LookupPhase, Calm
<1>6. ErrorKept'
  BY <1>3, <1>4, <1>5, ClkParts DEF Control, ErrorKept, ErrorClk, ErrorSeen
<1>7. \A w \in Way : ~tag_write(w, ack)
  BY <1>1 DEF tag_write, HitAny
<1>8. tag_addr_x(r, state') = MSet
  BY <1>0, <1>2 DEF tag_addr_x, LookupPhase, MSet
<1>9. tag_ram' = tag_ram /\ \A w \in Way : tag_out'[w] = tag_ram[w][MSet]
  BY <1>0, <1>7, <1>8, TagsKept, ClkParts
<1>10. tag_out' = tag_out
  <2>1. \A w \in Way : tag_out'[w] = tag_out[w]
    BY <1>0, <1>1, <1>9 DEF LookupPhase, TagSeen
  <2>2. tag_out' \in [Way -> TagEntry]
    BY <1>0, TagEdge, ClkParts
  <2>. QED
    BY <1>0, <2>1, <2>2, Typed
<1>11. replace_way' = replace_way
  BY <1>0, <1>2, ClkParts DEF ReplaceClk, flush_next_way, LookupPhase
<1>12. ~flushing' /\ MSet' = MSet
  BY <1>0, <1>2, <1>4, ClkParts DEF FlushClk, LookupPhase, MSet
<1>13. NoDuplicateLine'
  BY <1>9 DEF Control, NoDuplicateLine
<1>14. TagSeen(MSet)'
  BY <1>9, <1>12 DEF TagSeen
<1>15. \A w : Hit(w)' <=> Hit(w)
  BY <1>4, <1>10 DEF Hit
<1>16. ~HitAny' /\ IsAccess(m)'
  BY <1>1, <1>4, <1>15 DEF HitAny, IsAccess
<1>17. CASE Dirty(replace_way)
  <2>1. Evicting' /\ evict_set_w' = MSet
    BY <1>10, <1>11, <1>12, <1>14, <1>16, <1>17 DEF Evicting, ForMiss, Dirty, evict_set_w, MSet
  <2>2. EvictPhase'
    BY <1>0, <1>2, <1>12, <1>17, <2>1, EnterEvict DEF LookupPhase
  <2>3. mem' = mem /\ bus' = bus
    BY <1>0, <1>2, <1>17, CalmStep DEF LookupPhase
  <2>4. TypeOK'
    BY <1>0, <2>3, TypeStep, Typed
  <2>5. Control'
    BY <1>2, <1>6, <1>13, <1>17, <2>2, <2>4 DEF Control, Phases
  <2>. QED
    BY <1>1, <1>2, <1>4, <1>9, <1>10, <1>11, <1>12, <2>3, <2>5
<1>18. CASE ~Dirty(replace_way)
  <2>1. ~Hit(1 - replace_way)'
    <3>1. 1 - replace_way \in Way
      BY <1>0, Typed DEF Way
    <3>2. ~Hit(1 - replace_way)
      BY <1>1, <3>1 DEF HitAny
    <3>. QED
      BY <1>4, <1>10, <1>11, <3>2 DEF Hit
  <2>2. RefillPhase' /\ TypeOK' /\ mem' = mem
    <3>1. /\ ~pmem_rd /\ ~pmem_wr0 /\ ~pmem_wr /\ bus.kind = "none"
          /\ state \notin {"REFILL", "EVICT"} /\ state' = "REFILL"
      BY <1>0, <1>2, <1>18 DEF LookupPhase, Calm
    <3>2. mem' = mem
      BY <1>0, <3>1, AskStep
    <3>3. RefillPhase' /\ TypeOK'
      BY <1>0, <1>1, <1>4, <1>12, <1>14, <2>1, <3>1, EnterRefill
    <3>. QED
      BY <3>2, <3>3
  <2>3. Control'
    BY <1>2, <1>6, <1>13, <1>18, <2>2 DEF Control, Phases
  <2>. QED
    BY <1>1, <1>2, <1>4, <1>9, <1>10, <1>11, <1>12, <2>2, <2>3
<1>. QED
  BY <1>17, <1>18

\* An access that hits, or anything else in LOOKUP, is answered and the next
\* request taken.
LEMMA LookupServeStep ==
    ASSUME Control, NEW r \in Requests, NEW accept \in BOOLEAN, NEW ack \in BOOLEAN,
           NEW err \in BOOLEAN, Clk(r, accept, ack, err), state = "LOOKUP", ~Missed
    PROVE  /\ Control' /\ mem' = mem
           /\ \/ mem_accept_o(r) /\ m' = r
              \/ ~mem_accept_o(r) /\ m' = NoReq /\ m.op = "store" /\ r.op = "load" /\ r.addr = m.addr
           /\ state' = (IF m'.op = "writeback" THEN "WRITEBACK"
                        ELSE IF m'.op = "flush" THEN "FLUSH_ADDR"
                        ELSE IF m'.op = "invalidate" THEN "INVALIDATE"
                        ELSE "LOOKUP")
           /\ m.op # "none" => mem_ack_o
           /\ state' = "FLUSH_ADDR" => flush_addr' = 0
           /\ flushing' <=> state' = "FLUSH_ADDR"
<1>0. TypeOK /\ LookupPhase
  BY DEF Control, Phases
<1>1. ~ack
  BY <1>0, ClkParts DEF CanAck, LookupPhase, Calm
<1>2. m.op # "none" => mem_ack_o
  BY DEF mem_ack_o, Missed
<1>3. \/ mem_accept_o(r) /\ m' = r
      \/ ~mem_accept_o(r) /\ m' = NoReq /\ m.op = "store" /\ r.op = "load" /\ r.addr = m.addr
  BY <1>2, ClkParts DEF RequestClk, mem_accept_o
<1>4. state' = (IF m'.op = "writeback" THEN "WRITEBACK"
                ELSE IF m'.op = "flush" THEN "FLUSH_ADDR"
                ELSE IF m'.op = "invalidate" THEN "INVALIDATE"
                ELSE "LOOKUP")
  <2>1. CASE mem_accept_o(r) /\ m' = r
    BY <2>1, ClkParts DEF next_state
  <2>2. CASE ~mem_accept_o(r) /\ m' = NoReq
    BY <2>2, ClkParts DEF next_state, NoReq
  <2>. QED
    BY <1>3, <2>1, <2>2
<1>5. state' \in {"LOOKUP", "WRITEBACK", "FLUSH_ADDR", "INVALIDATE"}
  BY <1>4
<1>6. mem' = mem /\ bus' = bus /\ Calm'
  BY <1>0, <1>5, CalmStep DEF LookupPhase
<1>7. TypeOK'
  BY <1>0, <1>6, TypeStep, Typed
<1>8. flushing' <=> state' = "FLUSH_ADDR"
  BY <1>0, <1>5, ClkParts DEF FlushClk, LookupPhase
<1>9. ~flush_last' /\ flush_addr' = 0
  BY ClkParts DEF FlushClk, next_flush_last
<1>10. ErrorKept'
  <2>1. error' <=> error /\ ~mem_ack_o
    BY <1>1, ClkParts DEF ErrorClk
  <2>2. ~error'
    BY <1>2, <2>1 DEF Control, ErrorKept
  <2>3. CASE mem_accept_o(r) /\ m' = r
    <3>1. r.op # "none" => ~saw_error'
      BY <1>1, <2>3, ClkParts DEF ErrorSeen
    <3>. QED
      BY <2>2, <2>3, <3>1 DEF ErrorKept
  <2>4. CASE m' = NoReq
    BY <2>2, <2>4 DEF ErrorKept, NoReq
  <2>. QED
    BY <1>3, <2>3, <2>4
<1>11. NoDuplicateLine'
  <2>1. \A w \in Way, s \in Set :
           tag_ram'[w][s] = IF tag_write(w, ack) /\ s = tag_addr_m THEN tag_data_in ELSE tag_ram[w][s]
    BY <1>0, TagEdge, ClkParts
  <2>2. tag_addr_m = MSet /\ tag_data_in.tag = m.addr.tag
    BY <1>0 DEF tag_addr_m, tag_data_in, LookupPhase, MSet
  <2>3. \A w \in Way : tag_write(w, ack) => IsAccess(m) /\ Hit(w)
    BY DEF tag_write, IsAccess
  <2>4. \A w \in Way : tag_write(w, ack) => tag_ram[w][MSet].valid /\ tag_ram[w][MSet].tag = m.addr.tag
    BY <1>0, <2>3 DEF LookupPhase, TagSeen, Hit
  <2>. HIDE DEF tag_data_in, tag_write
  <2>5. \A w \in Way, s \in Set :
           \/ ~tag_ram'[w][s].valid
           \/ tag_ram[w][s].valid /\ tag_ram'[w][s].tag = tag_ram[w][s].tag
    BY <2>1, <2>2, <2>4
  <2>. QED
    BY <1>0, <2>5, NoDuplicateStep DEF Control
<1>12. state' \in {"LOOKUP", "WRITEBACK"} /\ m' = r => TagSeen(MSet)'
  BY <1>0, TagEdge, ClkParts DEF tag_addr_x, TagSeen, MSet
<1>13. Phases'
  <2>1. CASE state' = "LOOKUP"
    <3>1. IsAccess(m)' => TagSeen(MSet)'
      BY <1>3, <1>12, <2>1 DEF IsAccess, NoReq
    <3>. QED
      BY <1>6, <1>8, <2>1, <3>1 DEF Phases, LookupPhase
  <2>2. CASE state' = "WRITEBACK"
    <3>1. m'.op = "writeback" /\ m' = r
      BY <1>3, <1>4, <2>2 DEF NoReq
    <3>. QED
      BY <1>6, <1>8, <1>12, <2>2, <3>1 DEF Phases, WritebackPhase
  <2>3. CASE state' = "FLUSH_ADDR"
    BY <1>4, <1>6, <1>8, <1>9, <2>3 DEF Phases, FlushAddrPhase
  <2>4. CASE state' = "INVALIDATE"
    BY <1>4, <1>6, <1>8, <2>4 DEF Phases, InvalidatePhase
  <2>. QED
    BY <1>5, <2>1, <2>2, <2>3, <2>4
<1>. QED
  BY <1>2, <1>3, <1>4, <1>6, <1>7, <1>8, <1>9, <1>10, <1>11, <1>13 DEF Control

\* A writeback evicts the way that hits, if dirty, and is otherwise done.
LEMMA WritebackStep ==
    ASSUME Control, NEW r \in Requests, NEW accept \in BOOLEAN, NEW ack \in BOOLEAN,
           NEW err \in BOOLEAN, Clk(r, accept, ack, err), state = "WRITEBACK"
    PROVE  /\ Control' /\ mem' = mem /\ m' = m /\ shadow' = shadow /\ tag_ram' = tag_ram
           /\ \A w \in Way : tag_out'[w] = tag_out[w]
           /\ ~flushing' /\ state' = IF HitAndDirty THEN "EVICT" ELSE "LOOKUP"
<1>0. TypeOK /\ WritebackPhase
  BY DEF Control, Phases
<1>1. state' = IF HitAndDirty THEN "EVICT" ELSE "LOOKUP"
  BY ClkParts DEF next_state
<1>2. ~ack /\ bus' = bus /\ mem' = mem /\ (state' # "EVICT" => Calm')
  BY <1>0, <1>1, CalmStep DEF WritebackPhase
<1>3. m' = m /\ shadow' = shadow /\ ErrorKept' /\ MSet' = MSet
  BY <1>0, <1>2, HeldStep, ErrorHeld DEF MSet
<1>4. ~flushing'
  BY <1>0, <1>1, ClkParts DEF FlushClk, WritebackPhase
<1>5. TypeOK'
  BY <1>0, <1>2, TypeStep, Typed
<1>6. tag_ram' = tag_ram /\ \A w \in Way : tag_out'[w] = tag_ram'[w][MSet]
  <2>1. \A w \in Way : ~tag_write(w, ack)
    BY DEF tag_write
  <2>. QED
    BY <1>0, <2>1, TagsKept, OutFollows, ClkParts DEF WritebackPhase
<1>7. \A w \in Way : tag_out'[w] = tag_out[w] /\ tag_out[w] = tag_ram[w][MSet]
  BY <1>0, <1>6 DEF WritebackPhase, TagSeen
<1>8. NoDuplicateLine'
  BY <1>6 DEF Control, NoDuplicateLine
<1>9. CASE ~HitAndDirty
  <2>1. LookupPhase'
    BY <1>0, <1>1, <1>2, <1>3, <1>4, <1>9 DEF LookupPhase, WritebackPhase, IsAccess
  <2>. QED
    BY <1>1, <1>2, <1>3, <1>4, <1>5, <1>6, <1>7, <1>8, <1>9, <2>1 DEF Control, Phases
<1>10. CASE HitAndDirty
  <2>1. PICK v \in Way : Hit(v) /\ Dirty(v)
    BY <1>10 DEF HitAndDirty
  <2>2. \A w \in Way : Hit(w) => w = v
    BY <1>0, <1>7, <2>1, Typed DEF Control, NoDuplicateLine, Hit, Way
  <2>3. replace_way' = v
    <3>1. HitAny /\ ~flush_next_way
      BY <1>0, <2>1 DEF HitAny, flush_next_way, WritebackPhase
    <3>2. replace_way' = IF Hit(0) THEN 0 ELSE 1
      BY <1>1, <3>1, ClkParts DEF ReplaceClk
    <3>. QED
      BY <2>1, <2>2, <3>2 DEF Way
  <2>4. (Hit(replace_way) /\ Dirty(replace_way))'
    BY <1>3, <1>7, <2>1, <2>3 DEF Hit, Dirty
  <2>5. TagSeen(evict_set_w)' /\ evict_set_w' = MSet
    BY <1>3, <1>4, <1>6 DEF TagSeen, evict_set_w, MSet
  <2>6. Evicting'
    BY <1>0, <1>3, <1>4, <2>4, <2>5 DEF Evicting, ForSync, WritebackPhase
  <2>7. EvictPhase'
    <3>1. state' = "EVICT"
      BY <1>1, <1>10
    <3>. QED
      BY <1>0, <1>4, <2>5, <2>6, <3>1, EnterEvict DEF WritebackPhase
  <2>. QED
    BY <1>1, <1>2, <1>3, <1>4, <1>5, <1>6, <1>7, <1>8, <1>10, <2>7 DEF Control, Phases
<1>. QED
  BY <1>9, <1>10

\* The sweep reads the tags of the next set.
LEMMA FlushAddrStep ==
    ASSUME Control, NEW r \in Requests, NEW accept \in BOOLEAN, NEW ack \in BOOLEAN,
           NEW err \in BOOLEAN, Clk(r, accept, ack, err), state = "FLUSH_ADDR"
    PROVE  /\ Control' /\ mem' = mem /\ m' = m /\ shadow' = shadow /\ tag_ram' = tag_ram
           /\ state' = "FLUSH" /\ flushing' /\ flush_addr' = flush_addr
<1>0. TypeOK /\ FlushAddrPhase
  BY DEF Control, Phases
<1>1. state' = "FLUSH"
  BY ClkParts DEF next_state
<1>2. ~ack /\ bus' = bus /\ mem' = mem /\ Calm'
  BY <1>0, <1>1, CalmStep DEF FlushAddrPhase
<1>3. m' = m /\ shadow' = shadow /\ ErrorKept'
  BY <1>0, <1>2, HeldStep, ErrorHeld
<1>4. flushing' /\ flush_addr' = flush_addr /\ (flush_last' <=> flush_last \/ flush_addr = Sets - 1)
  BY <1>0, <1>1, ClkParts DEF FlushClk, FlushAddrPhase, next_flush_last
<1>5. TypeOK'
  BY <1>0, <1>2, TypeStep, Typed
<1>6. tag_ram' = tag_ram /\ \A w \in Way : tag_out'[w] = tag_ram'[w][flush_addr]
  <2>1. \A w \in Way : ~tag_write(w, ack)
    BY DEF tag_write
  <2>. QED
    BY <1>0, <2>1, TagsKept, OutFollows, ClkParts DEF FlushAddrPhase
<1>7. NoDuplicateLine'
  BY <1>6 DEF Control, NoDuplicateLine
<1>8. FlushPhase'
  BY <1>0, <1>2, <1>3, <1>4, <1>6 DEF FlushPhase, FlushAddrPhase, TagSeen
<1>. QED
  BY <1>1, <1>2, <1>3, <1>4, <1>5, <1>6, <1>7, <1>8 DEF Control, Phases

\* The sweep evicts the dirty ways of a set, then drops the set.
LEMMA FlushStep ==
    ASSUME Control, NEW r \in Requests, NEW accept \in BOOLEAN, NEW ack \in BOOLEAN,
           NEW err \in BOOLEAN, Clk(r, accept, ack, err), state = "FLUSH"
    PROVE  /\ Control' /\ mem' = mem /\ m' = m /\ shadow' = shadow
           /\ \/ /\ state' \in {"EVICT", "FLUSH"} /\ tag_ram' = tag_ram
                 /\ flushing' /\ flush_addr' = flush_addr
              \/ /\ ~DirtyAny
                 /\ \A w \in Way, s \in Set :
                      tag_ram'[w][s] = IF s = flush_addr THEN NoTag ELSE tag_ram[w][s]
                 /\ \/ state' = "LOOKUP" /\ ~flushing' /\ flush_addr = Sets - 1
                    \/ state' = "FLUSH_ADDR" /\ flushing' /\ flush_addr' = flush_addr + 1
<1>0. TypeOK /\ FlushPhase
  BY DEF Control, Phases
<1>1. /\ DirtyAny => state' = IF Dirty(replace_way) THEN "EVICT" ELSE "FLUSH"
      /\ ~DirtyAny => state' = IF flush_last THEN "LOOKUP" ELSE "FLUSH_ADDR"
  BY <1>0, ClkParts DEF next_state, evict_way_w, FlushPhase
<1>2. ~ack /\ bus' = bus /\ mem' = mem /\ (state' # "EVICT" => Calm')
  BY <1>0, <1>1, CalmStep DEF FlushPhase
<1>3. m' = m /\ shadow' = shadow /\ ErrorKept'
  BY <1>0, <1>2, HeldStep, ErrorHeld
<1>4. /\ flushing' <=> state' # "LOOKUP"
      /\ flush_addr' = IF state' = "FLUSH_ADDR" THEN (flush_addr + 1) % Sets ELSE flush_addr
      /\ flush_last' <=> flush_last \/ flush_addr = Sets - 1
  BY <1>0, <1>1, ClkParts DEF FlushClk, FlushPhase, next_flush_last, next_flush_addr
<1>5. TypeOK'
  BY <1>0, <1>2, TypeStep, Typed
<1>6. \A w \in Way : tag_out'[w] = tag_ram'[w][flush_addr]
  BY <1>0, OutFollows, ClkParts DEF FlushPhase
<1>7. \A w \in Way : tag_write(w, ack) <=> ~DirtyAny
  BY DEF tag_write
<1>8. CASE DirtyAny
  <2>1. tag_ram' = tag_ram
    BY <1>0, <1>7, <1>8, TagsKept, ClkParts
  <2>2. NoDuplicateLine'
    BY <2>1 DEF Control, NoDuplicateLine
  <2>3. \A w \in Way : tag_out'[w] = tag_out[w]
    BY <1>0, <1>6, <2>1 DEF FlushPhase, TagSeen
  <2>4. CASE Dirty(replace_way)
    <3>1. state' = "EVICT" /\ flushing' /\ flush_addr' = flush_addr
      BY <1>1, <1>4, <1>8, <2>4
    <3>2. replace_way' = replace_way
      BY <1>0, <2>4, <3>1, ClkParts DEF ReplaceClk, flush_next_way, evict_way_w, FlushPhase
    <3>3. Dirty(replace_way)' /\ TagSeen(evict_set_w)' /\ evict_set_w' = flush_addr
      BY <1>0, <1>6, <2>3, <2>4, <3>1, <3>2, Typed DEF Dirty, TagSeen, evict_set_w
    <3>4. Evicting'
      BY <1>0, <1>3, <3>1, <3>3 DEF Evicting, ForFlush, FlushPhase
    <3>5. flush_last' => flush_addr' = Sets - 1
      BY <1>0, <1>4, <3>1 DEF FlushPhase
    <3>6. EvictPhase'
      BY <1>0, <3>1, <3>3, <3>4, <3>5, EnterEvict DEF FlushPhase
    <3>. QED
      BY <1>2, <1>3, <1>5, <2>1, <2>2, <3>1, <3>6 DEF Control, Phases
  <2>5. CASE ~Dirty(replace_way)
    <3>1. state' = "FLUSH" /\ flushing' /\ flush_addr' = flush_addr
      BY <1>1, <1>4, <1>8, <2>5
    <3>2. FlushPhase'
      BY <1>0, <1>2, <1>3, <1>4, <1>6, <3>1 DEF FlushPhase, TagSeen
    <3>. QED
      BY <1>2, <1>3, <1>5, <2>1, <2>2, <3>1, <3>2 DEF Control, Phases
  <2>. QED
    BY <2>4, <2>5
<1>9. CASE ~DirtyAny
  <2>1. \A w \in Way, s \in Set :
           tag_ram'[w][s] = IF s = flush_addr THEN NoTag ELSE tag_ram[w][s]
    <3>1. tag_addr_m = flush_addr /\ tag_data_in = NoTag
      BY <1>0 DEF tag_addr_m, tag_data_in, FlushPhase
    <3>. QED
      BY <1>0, <1>7, <1>9, <3>1, TagEdge, ClkParts
  <2>2. ~NoTag.valid
    BY DEF NoTag
  <2>3. NoDuplicateLine'
    <3>1. \A w \in Way, s \in Set :
             \/ ~tag_ram'[w][s].valid
             \/ tag_ram[w][s].valid /\ tag_ram'[w][s].tag = tag_ram[w][s].tag
      BY <2>1, <2>2
    <3>. QED
      BY <1>0, <3>1, NoDuplicateStep DEF Control
  <2>4. CASE flush_last
    <3>1. state' = "LOOKUP" /\ ~flushing' /\ flush_addr = Sets - 1
      BY <1>0, <1>1, <1>4, <1>9, <2>4 DEF FlushPhase
    <3>2. LookupPhase'
      BY <1>0, <1>2, <1>3, <3>1 DEF LookupPhase, FlushPhase, IsAccess
    <3>. QED
      BY <1>2, <1>3, <1>5, <1>9, <2>1, <2>3, <3>1, <3>2 DEF Control, Phases
  <2>5. CASE ~flush_last
    <3>1. state' = "FLUSH_ADDR" /\ flushing'
      BY <1>1, <1>4, <1>9, <2>5
    <3>2. flush_addr # Sets - 1 /\ ~flush_last'
      BY <1>0, <1>4, <2>5 DEF FlushPhase
    <3>3. flush_addr' = flush_addr + 1
      <4>1. flush_addr \in Nat /\ flush_addr < Sets - 1 /\ Sets \in Nat
        BY <1>0, <3>2, Typed, Params DEF Set
      <4>. QED
        BY <1>4, <3>1, <4>1
    <3>4. FlushAddrPhase'
      BY <1>0, <1>2, <1>3, <3>1, <3>2 DEF FlushAddrPhase, FlushPhase
    <3>. QED
      BY <1>2, <1>3, <1>5, <1>9, <2>1, <2>3, <3>1, <3>3, <3>4 DEF Control, Phases
  <2>. QED
    BY <2>4, <2>5
<1>. QED
  BY <1>8, <1>9

\* Without a data write the data RAMs stay.
LEMMA DataKept ==
    ASSUME TypeOK, NEW r \in Requests, NEW ns, NEW accept \in BOOLEAN, NEW ack \in BOOLEAN,
           NEW rdata \in Word, DataClk(r, ns, accept, ack, rdata),
           \A w \in Way : data_write_m(w, ack) = {}
    PROVE  data_ram' = data_ram
<1>0. /\ data_ram' \in [Way -> [Index -> Word]]
      /\ \A w \in Way, i \in Index :
            data_ram'[w][i] = IF i = data_addr_m(ns)
                              THEN Merge(data_ram[w][i],
                                         IF state = "REFILL" THEN rdata ELSE m.data,
                                         data_write_m(w, ack))
                              ELSE data_ram[w][i]
  <2>1. DataTyped(r, ns) /\ DataWords(r, ns, ack, rdata)
    BY DataEdge
  <2>. QED
    BY <2>1 DEF DataTyped, DataWords
<1>1. \A w \in Way, i \in Index : data_ram'[w][i] = data_ram[w][i]
  <2>. DEFINE D == IF state = "REFILL" THEN rdata ELSE m.data
  <2>. SUFFICES ASSUME NEW w \in Way, NEW i \in Index PROVE data_ram'[w][i] = data_ram[w][i]
    OBVIOUS
  <2>1. data_ram[w][i] \in Word /\ D \in Word
    BY Typed
  <2>2. Merge(data_ram[w][i], D, {}) = data_ram[w][i]
    BY <2>1, MergeWord
  <2>3. data_write_m(w, ack) = {}
    OBVIOUS
  <2>4. data_ram'[w][i] = IF i = data_addr_m(ns) THEN Merge(data_ram[w][i], D, data_write_m(w, ack))
                          ELSE data_ram[w][i]
    BY <1>0
  <2>. HIDE DEF D
  <2>. QED
    BY <2>2, <2>3, <2>4
<1>2. data_ram' \in [Way -> [Index -> Word]] /\ data_ram \in [Way -> [Index -> Word]]
  BY <1>0, Typed
<1>. QED
  BY <1>1, <1>2

\* With left words to come the next index is still in the line, unless it was
\* the last.
LEMMA LineEnds ==
    ASSUME NEW s \in Set, NEW left \in 1 .. Words, NEW i \in Index,
           i = LineStart(s) + (Words - left)
    PROVE  /\ SetOf(i) = s
           /\ left >= 2 => /\ (i + 1) % (Sets * Words) = i + 1
                           /\ i + 1 = LineStart(s) + (Words - (left - 1))
                           /\ i + 1 \in Index /\ SetOf(i + 1) = s
<1>1. LineStart(s) \in Int /\ Words \in Nat /\ left \in Nat
  BY Params DEF LineStart, Set
<1>2. SetOf(i) = s
  <2>1. Words - left \in 0 .. Words - 1
    BY <1>1
  <2>. QED
    BY <2>1, IndexOfLine
<1>3. ASSUME left >= 2
      PROVE  /\ (i + 1) % (Sets * Words) = i + 1
             /\ i + 1 = LineStart(s) + (Words - (left - 1))
             /\ i + 1 \in Index /\ SetOf(i + 1) = s
  <2>1. Words - (left - 1) \in 0 .. Words - 1
    BY <1>1, <1>3
  <2>2. i + 1 = LineStart(s) + (Words - (left - 1))
    BY <1>1
  <2>3. i + 1 \in Index /\ SetOf(i + 1) = s
    BY <2>1, <2>2, IndexOfLine
  <2>4. (i + 1) % (Sets * Words) = i + 1
    BY <2>3, Params DEF Index
  <2>. QED
    BY <2>2, <2>3, <2>4
<1>. QED
  BY <1>2, <1>3

\* The burst after a beat.
LEMMA NextBeatIs ==
    ASSUME NEW b \in BusType, b.left >= 1
    PROVE  /\ NextBeat(b) \in BusType
           /\ NextBeat(b).kind = b.kind /\ NextBeat(b).tag = b.tag
           /\ NextBeat(b).left = b.left - 1
           /\ NextBeat(b).idx = (b.idx + 1) % (Sets * Words)
<1>1. b.left \in 0 .. Words /\ b.idx \in Index
  BY DEF BusType
<1>2. b.left - 1 \in 0 .. Words
  BY <1>1, Params
<1>3. (b.idx + 1) % (Sets * Words) \in Index
  BY <1>1, Params DEF Index
<1>. QED
  BY <1>2, <1>3 DEF NextBeat, BusType

\* A refill fills one word per beat and puts the tag in place with the last.
LEMMA RefillStep ==
    ASSUME Control, NEW r \in Requests, NEW accept \in BOOLEAN, NEW ack \in BOOLEAN,
           NEW err \in BOOLEAN, Clk(r, accept, ack, err), state = "REFILL"
    PROVE  /\ Control' /\ m' = m /\ shadow' = shadow /\ mem' = mem
           /\ ~flushing' /\ (state' = "REFILL" => replace_way' = replace_way)
           /\ \/ /\ ~ack /\ state' = "REFILL" /\ tag_ram' = tag_ram /\ data_ram' = data_ram
                 /\ data_write_addr' = data_write_addr
              \/ /\ ack /\ bus.kind = "read" /\ bus.left \in 1 .. Words
                 /\ \/ /\ bus.left >= 2 /\ state' = "REFILL" /\ tag_ram' = tag_ram
                       /\ data_write_addr' = data_write_addr + 1
                    \/ /\ bus.left = 1 /\ state' = IF m.op = "store" THEN "WRITE" ELSE "READ"
                       /\ \A w \in Way, s \in Set :
                             tag_ram'[w][s] = IF w = replace_way /\ s = MSet THEN tag_data_in
                                              ELSE tag_ram[w][s]
<1>0. TypeOK /\ RefillPhase
  BY DEF Control, Phases
<1>1. ~pmem_wr_w /\ (pmem_rd_w(state') <=> pmem_rd)
  BY <1>0 DEF pmem_wr_w, pmem_rd_w, Entering, RefillPhase
<1>2. m' = m /\ shadow' = shadow /\ MSet' = MSet /\ ErrorKept' /\ IsAccess(m)'
  BY <1>0, HeldStep, ErrorHeld DEF RefillPhase, IsAccess, MSet
<1>3. mem' = mem
  BY <1>1, ClkParts DEF BusClk
<1>4. ~flushing' /\ replace_way' = replace_way
  BY <1>0, ClkParts DEF FlushClk, ReplaceClk, flush_next_way, RefillPhase
<1>5. \A w \in Way : tag_out'[w] = tag_ram'[w][MSet]
  BY <1>0, OutFollows, ClkParts DEF RefillPhase
<1>6. ~pmem_wr0' /\ ~pmem_wr'
  BY <1>0, <1>1, ClkParts DEF PmemClk, Entering, RefillPhase, next_state
<1>7. /\ 1 - replace_way \in Way /\ 1 - replace_way # replace_way
      /\ replace_way \in Way /\ MSet \in Set
  BY <1>0, Typed DEF Way
<1>8. state' = IF ack /\ pmem_len = 0 THEN IF m.op = "store" THEN "WRITE" ELSE "READ" ELSE "REFILL"
  BY ClkParts DEF next_state
<1>9. TagSeen(MSet)'
  BY <1>2, <1>5 DEF TagSeen
<1>10. ASSUME tag_ram' = tag_ram PROVE NoDuplicateLine' /\ ~Hit(1 - replace_way)'
  <2>1. tag_out'[1 - replace_way] = tag_out[1 - replace_way]
    BY <1>0, <1>5, <1>7, <1>10 DEF RefillPhase, TagSeen
  <2>. QED
    BY <1>0, <1>2, <1>4, <1>10, <2>1 DEF Control, NoDuplicateLine, Hit, RefillPhase
<1>11. CASE pmem_rd
  <2>1. bus.kind = "none" /\ ~ack /\ data_write_addr = LineStart(MSet)
    BY <1>0, <1>11, ClkParts DEF CanAck, RefillPhase
  <2>2. state' = "REFILL" /\ data_write_addr' = data_write_addr
    BY <1>8, <2>1, ClkParts DEF DataClk, Entering
  <2>3. tag_ram' = tag_ram
    <3>1. \A w \in Way : ~tag_write(w, ack)
      BY <2>1 DEF tag_write
    <3>. QED
      BY <1>0, <3>1, TagsKept, ClkParts
  <2>4. data_ram' = data_ram
    <3>1. \A w \in Way : data_write_m(w, ack) = {}
      BY <2>1 DEF data_write_m
    <3>2. mem[BusAddr(bus)] \in Word
      BY <1>0, Typed
    <3>. QED
      BY <1>0, <3>1, <3>2, DataKept, ClkParts
  <2>5. /\ pmem_rd' <=> ~accept
        /\ pmem_len' = IF accept THEN Words - 1 ELSE pmem_len
    BY <1>1, <1>8, <1>11, <2>1, ClkParts DEF PmemClk, Entering
  <2>6. bus' = IF accept THEN Burst("read", m.addr.tag, MSet) ELSE bus
    BY <1>1, <1>11, <2>1, ClkParts DEF BusClk, MSet
  <2>7. LineStart(MSet) \in Index /\ LineStart(MSet) + (Words - Words) = LineStart(MSet)
        /\ Words \in 1 .. Words
    <3>1. 0 \in 0 .. Words - 1 /\ LineStart(MSet) \in Int
      BY <1>7, Params DEF LineStart, Set
    <3>2. LineStart(MSet) + 0 \in Index
      BY <1>7, <3>1, IndexOfLine
    <3>. QED
      BY <3>1, <3>2, Params
  <2>8. /\ bus' \in BusType
        /\ accept => /\ bus'.kind = "read" /\ bus'.left = Words /\ bus'.tag = m.addr.tag
                     /\ bus'.idx = LineStart(MSet)
        /\ ~accept => bus' = bus
    BY <1>0, <2>6, <2>7, Typed, Params DEF Burst, BusType
  <2>9. TypeOK'
    BY <1>0, <2>8, TypeStep
  <2>10. \/ pmem_rd' /\ bus'.kind = "none" /\ data_write_addr' = LineStart(MSet)'
         \/ /\ ~pmem_rd' /\ bus'.kind = "read" /\ bus'.left \in 1 .. Words
            /\ pmem_len' = bus'.left - 1 /\ bus'.tag = m'.addr.tag
            /\ bus'.idx = LineStart(MSet)' + (Words - bus'.left)
            /\ data_write_addr' = bus'.idx
    <3>1. LineStart(MSet)' = LineStart(MSet)
      BY <1>2 DEF LineStart
    <3>. QED
      BY <1>2, <2>1, <2>2, <2>5, <2>7, <2>8, <3>1
  <2>11. RefillPhase'
    BY <1>2, <1>4, <1>6, <1>9, <1>10, <2>3, <2>10 DEF RefillPhase
  <2>. QED
    BY <1>2, <1>3, <1>4, <1>10, <2>1, <2>2, <2>3, <2>4, <2>9, <2>11 DEF Control, Phases
<1>12. CASE ~pmem_rd
  <2>1. /\ bus.kind = "read" /\ bus.left \in 1 .. Words
        /\ pmem_len = bus.left - 1 /\ bus.tag = m.addr.tag
        /\ bus.idx = LineStart(MSet) + (Words - bus.left)
        /\ data_write_addr = bus.idx
    BY <1>0, <1>12 DEF RefillPhase
  <2>2. ~pmem_rd' /\ pmem_len' = IF ack THEN (pmem_len - 1) % 256 ELSE pmem_len
    BY <1>1, <1>8, <1>12, ClkParts DEF PmemClk, Entering
  <2>3. bus' = IF ~ack THEN bus ELSE IF bus.left <= 1 THEN NoBurst ELSE NextBeat(bus)
    BY <1>1, <1>12, ClkParts DEF BusClk
  <2>4. bus \in BusType /\ bus.idx \in Index /\ bus.left >= 1
    BY <1>0, <2>1, Typed
  <2>5. bus' \in BusType
    <3>1. NoBurst \in BusType
      BY Params DEF NoBurst, BusType
    <3>. QED
      BY <2>3, <2>4, <3>1, NextBeatIs
  <2>6. TypeOK'
    BY <1>0, <2>5, TypeStep
  <2>7. data_write_addr' = IF ack THEN (data_write_addr + 1) % (Sets * Words) ELSE data_write_addr
    BY <1>8, ClkParts DEF DataClk, Entering, data_addr_m, uses_line, data_addr_line
  <2>8. CASE ~ack
    <3>1. state' = "REFILL" /\ bus' = bus /\ pmem_len' = pmem_len /\ data_write_addr' = data_write_addr
      BY <1>8, <2>2, <2>3, <2>7, <2>8
    <3>2. tag_ram' = tag_ram
      <4>1. \A w \in Way : ~tag_write(w, ack)
        BY <2>8 DEF tag_write
      <4>. QED
        BY <1>0, <4>1, TagsKept, ClkParts
    <3>3. data_ram' = data_ram
      <4>1. \A w \in Way : data_write_m(w, ack) = {}
        BY <2>8 DEF data_write_m
      <4>2. mem[BusAddr(bus)] \in Word
        BY <1>0, Typed
      <4>. QED
        BY <1>0, <4>1, <4>2, DataKept, ClkParts
    <3>4. LineStart(MSet)' = LineStart(MSet)
      BY <1>2 DEF LineStart
    <3>5. RefillPhase'
      BY <1>2, <1>4, <1>6, <1>9, <1>10, <2>1, <2>2, <3>1, <3>2, <3>4 DEF RefillPhase
    <3>. QED
      BY <1>2, <1>3, <1>4, <1>10, <2>6, <2>8, <3>1, <3>2, <3>3, <3>5 DEF Control, Phases
  <2>9. CASE ack /\ bus.left >= 2
    <3>1. pmem_len \in Int /\ pmem_len # 0 /\ (pmem_len - 1) % 256 = bus.left - 2
      BY <2>1, <2>9, Params
    <3>2. state' = "REFILL" /\ bus' = NextBeat(bus) /\ pmem_len' = bus.left - 2
      BY <1>8, <2>1, <2>2, <2>3, <2>9, <3>1
    <3>3. /\ (bus.idx + 1) % (Sets * Words) = bus.idx + 1
          /\ bus.idx + 1 = LineStart(MSet) + (Words - (bus.left - 1))
      BY <1>7, <2>1, <2>4, <2>9, LineEnds
    <3>4. /\ bus'.kind = "read" /\ bus'.tag = m.addr.tag
          /\ bus'.left = bus.left - 1 /\ bus'.idx = bus.idx + 1
      BY <2>1, <2>4, <3>2, <3>3, NextBeatIs
    <3>5. tag_ram' = tag_ram
      <4>1. \A w \in Way : ~tag_write(w, ack)
        BY <3>1 DEF tag_write
      <4>. QED
        BY <1>0, <4>1, TagsKept, ClkParts
    <3>6. data_write_addr' = data_write_addr + 1
      BY <2>1, <2>7, <2>9, <3>3
    <3>7. /\ bus'.left \in 1 .. Words /\ pmem_len' = bus'.left - 1
          /\ bus'.idx = LineStart(MSet)' + (Words - bus'.left)
          /\ data_write_addr' = bus'.idx
      <4>1. LineStart(MSet)' = LineStart(MSet)
        BY <1>2 DEF LineStart
      <4>. QED
        BY <2>1, <2>9, <3>2, <3>3, <3>4, <3>6, <4>1, Params
    <3>8. RefillPhase'
      BY <1>2, <1>4, <1>6, <1>9, <1>10, <2>2, <3>4, <3>5, <3>7 DEF RefillPhase
    <3>. QED
      BY <1>2, <1>3, <1>4, <1>10, <2>1, <2>6, <2>9, <3>2, <3>5, <3>6, <3>8 DEF Control, Phases
  <2>10. CASE ack /\ bus.left = 1
    <3>1. pmem_len = 0 /\ bus' = NoBurst
      BY <2>1, <2>3, <2>10
    <3>2. state' = IF m.op = "store" THEN "WRITE" ELSE "READ"
      BY <1>8, <2>10, <3>1
    <3>3. \A w \in Way, s \in Set :
             tag_ram'[w][s] = IF w = replace_way /\ s = MSet THEN tag_data_in ELSE tag_ram[w][s]
      <4>1. \A w \in Way : tag_write(w, ack) <=> w = replace_way
        BY <2>10, <3>1 DEF tag_write
      <4>2. tag_addr_m = MSet
        BY <1>0 DEF tag_addr_m, RefillPhase, MSet
      <4>. QED
        BY <1>0, <4>1, <4>2, TagEdge, ClkParts
    <3>4. tag_data_in.valid /\ tag_data_in.tag = m.addr.tag
      BY <1>0 DEF tag_data_in, RefillPhase
    <3>5. ~(/\ tag_ram[1 - replace_way][MSet].valid
            /\ tag_ram[1 - replace_way][MSet].tag = m.addr.tag)
      BY <1>0, <1>7 DEF RefillPhase, TagSeen, Hit
    <3>6. NoDuplicateLine'
      <4>. HIDE DEF tag_data_in
      <4>1. \A w \in Way, s \in Set :
             \/ ~tag_ram'[w][s].valid
             \/ tag_ram[w][s].valid /\ tag_ram'[w][s].tag = tag_ram[w][s].tag
             \/ /\ s = MSet /\ tag_ram'[w][s].tag = m.addr.tag
                /\ ~(tag_ram[1 - w][s].valid /\ tag_ram[1 - w][s].tag = m.addr.tag)
                /\ tag_ram'[1 - w][s] = tag_ram[1 - w][s]
        BY <1>7, <3>3, <3>4, <3>5
      <4>. QED
        BY <1>0, <4>1, NoDuplicateStep DEF Control
    <3>7. Hit(replace_way)'
      BY <1>2, <1>4, <1>5, <1>7, <3>3, <3>4 DEF Hit
    <3>8. Calm'
      BY <1>6, <2>2, <3>1 DEF Calm, NoBurst
    <3>9. m.op = "store" \/ m.op = "load"
      BY <1>0 DEF RefillPhase, IsAccess
    <3>10. Phases'
      BY <1>2, <1>4, <1>9, <3>2, <3>7, <3>8, <3>9 DEF Phases, ReadPhase, WritePhase
    <3>. QED
      BY <1>2, <1>3, <1>4, <2>1, <2>6, <2>10, <3>2, <3>3, <3>6, <3>10 DEF Control
  <2>11. bus.left = 1 \/ bus.left >= 2
    BY <2>1
  <2>. QED
    BY <2>8, <2>9, <2>10, <2>11
<1>. QED
  BY <1>11, <1>12

\* An eviction writes the words in order, one per beat taken.
LEMMA EvictStep ==
    ASSUME Control, NEW r \in Requests, NEW accept \in BOOLEAN, NEW ack \in BOOLEAN,
           NEW err \in BOOLEAN, Clk(r, accept, ack, err), state = "EVICT"
    PROVE  /\ Control' /\ m' = m /\ shadow' = shadow /\ tag_ram' = tag_ram /\ data_ram' = data_ram
           /\ (flushing' <=> flushing) /\ flush_addr' = flush_addr /\ replace_way' = replace_way
           /\ \A w \in Way : tag_out'[w] = tag_out[w]
           /\ Evicting /\ EvictBeat \in Index /\ SetOf(EvictBeat) = evict_set_w
           /\ \/ /\ ~accept /\ mem' = mem /\ state' = "EVICT" /\ EvictBeat' = EvictBeat
                 /\ pmem_wr' /\ pmem_write_data' = pmem_write_data_w
              \/ /\ accept /\ mem' = [mem EXCEPT ![At(evict_tag_w, EvictBeat)] = pmem_write_data_w]
                 /\ ~pmem_wr'
                 /\ \/ /\ state' = "EVICT" /\ EvictBeat' = EvictBeat + 1 /\ EvictBeat' \in Index
                       /\ data_out'[replace_way] = data_ram[replace_way][EvictBeat']
                    \/ /\ state' = "EVICT_WAIT"
                       /\ EvictBeat = LineStart(evict_set_w) + (Words - 1)
<1>0. TypeOK /\ EvictPhase /\ Evicting
  BY DEF Control, Phases, EvictPhase
<1>. DEFINE left == IF pmem_wr0 THEN Words ELSE bus.left
            N == Sets * Words
            bst == WriteBurst(state')
<1>1. /\ left \in 1 .. Words /\ pmem_len = left - 1
      /\ EvictBeat = LineStart(evict_set_w) + (Words - left)
      /\ data_write_addr = (EvictBeat + 1) % N
  <2>1. LineStart(evict_set_w) \in Int /\ Words \in 1 .. Words
    BY <1>0, Typed, Params DEF LineStart, Set
  <2>2. LineStart(evict_set_w) = LineStart(evict_set_w) + (Words - Words)
    BY <2>1, Params
  <2>. QED
    BY <1>0, <2>1, <2>2 DEF EvictPhase, EvictBeat
<1>2. ~ack
  <2>1. bus.kind = "write" => bus.left # 0
    BY <1>0, <1>1 DEF EvictPhase
  <2>. QED
    BY <1>0, <2>1, ClkParts DEF CanAck, EvictPhase
<1>3. state' = IF accept /\ pmem_len = 0 THEN "EVICT_WAIT" ELSE "EVICT"
  BY ClkParts DEF next_state
<1>4. ~pmem_rd_w(state') /\ pmem_wr_w
  BY <1>0, <1>3 DEF pmem_rd_w, pmem_wr_w, Entering, EvictPhase, Evicting, ForMiss, ForSync,
                    ForFlush, evict_way_w
<1>5. m' = m /\ shadow' = shadow /\ MSet' = MSet
  BY <1>0, HeldStep DEF MSet
<1>6. ErrorKept'
  BY <1>2, ErrorHeld
<1>7. /\ (flushing' <=> flushing) /\ flush_addr' = flush_addr
      /\ flush_last' <=> flush_last \/ flush_addr = Sets - 1
  BY <1>3, ClkParts DEF FlushClk, next_flush_last
<1>8. replace_way' = replace_way
  BY <1>0, <1>3, ClkParts DEF ReplaceClk, flush_next_way, evict_way_w, Evicting
<1>9. tag_ram' = tag_ram
  <2>1. \A w \in Way : ~tag_write(w, ack)
    BY DEF tag_write
  <2>. QED
    BY <1>0, <2>1, TagsKept, ClkParts
<1>10. evict_set_w' = evict_set_w /\ \A w \in Way : tag_out'[w] = tag_ram'[w][evict_set_w]
  <2>1. evict_set_w = IF flushing THEN flush_addr ELSE MSet
    BY DEF evict_set_w, MSet
  <2>2. evict_set_w' = evict_set_w
    BY <1>5, <1>7 DEF evict_set_w
  <2>. QED
    BY <1>0, <2>1, <2>2, OutFollows, ClkParts
<1>11. \A w \in Way : tag_out'[w] = tag_out[w]
  BY <1>0, <1>9, <1>10 DEF Evicting, TagSeen
<1>12. TagSeen(evict_set_w)' /\ evict_tag_w' = evict_tag_w
  BY <1>0, <1>8, <1>10, <1>11, Typed DEF TagSeen, evict_tag_w
<1>13. data_ram' = data_ram
  <2>1. \A w \in Way : data_write_m(w, ack) = {}
    BY DEF data_write_m
  <2>2. mem[BusAddr(bus)] \in Word
    BY <1>0, Typed
  <2>. QED
    BY <1>0, <2>1, <2>2, DataKept, ClkParts
<1>14. NoDuplicateLine'
  BY <1>9 DEF Control, NoDuplicateLine
<1>15. Evicting'
  <2>1. \A w \in Way : (Hit(w)' <=> Hit(w)) /\ (Dirty(w)' <=> Dirty(w))
    BY <1>5, <1>11 DEF Hit, Dirty
  <2>2. HitAny' <=> HitAny
    BY <2>1 DEF HitAny
  <2>3. replace_way \in Way
    BY <1>0, Typed
  <2>4. (Hit(replace_way)' <=> Hit(replace_way)) /\ (Dirty(replace_way)' <=> Dirty(replace_way))
    BY <1>5, <1>8, <1>11, <2>3 DEF Hit, Dirty
  <2>. QED
    BY <1>0, <1>5, <1>7, <1>12, <2>2, <2>4 DEF Evicting, ForMiss, ForSync, ForFlush, IsAccess
<1>16. flushing' /\ flush_last' => flush_addr' = Sets - 1
  BY <1>0, <1>7 DEF EvictPhase
<1>17. /\ ~pmem_rd' /\ (pmem_wr0' <=> pmem_wr0 /\ ~accept)
       /\ pmem_len' = IF accept THEN (pmem_len - 1) % 256 ELSE pmem_len
       /\ pmem_wr' <=> ~accept
       /\ ~accept => pmem_write_data' = pmem_write_data_w
  <2>1. PmemClk(state', accept, ack)
    BY ClkParts
  <2>2. /\ ~Entering("EVICT", state') /\ ~(state = "REFILL" /\ ack)
        /\ (state = "EVICT" /\ accept <=> accept) /\ ~pmem_rd
    BY <1>0 DEF Entering, EvictPhase
  <2>3. ~pmem_rd' /\ (pmem_wr0' <=> pmem_wr0 /\ ~accept) /\ (pmem_wr' <=> ~accept)
    BY <1>4, <2>1, <2>2 DEF PmemClk
  <2>4. pmem_len' = IF accept THEN (pmem_len - 1) % 256 ELSE pmem_len
    BY <1>4, <2>1, <2>2 DEF PmemClk
  <2>5. ~accept => pmem_write_data' = pmem_write_data_w
    BY <2>1, <2>3 DEF PmemClk
  <2>. QED
    BY <2>3, <2>4, <2>5
<1>18. data_write_addr' = IF accept THEN (data_write_addr + 1) % N ELSE data_write_addr
  BY <1>2, <1>3, ClkParts DEF DataClk, Entering, data_addr_m, uses_line, data_addr_line
<1>19. \A w \in Way : data_out'[w] = data_ram[w][data_write_addr]
  BY ClkParts DEF DataClk, data_addr_x, uses_line, data_addr_line
<1>20. /\ bst = IF pmem_wr0 THEN Burst("write", evict_tag_w, evict_set_w) ELSE bus
       /\ bus' = IF accept THEN NextBeat(bst) ELSE bus
       /\ mem' = IF accept THEN [mem EXCEPT ![BusAddr(bst)] = pmem_write_data_w] ELSE mem
  BY <1>2, <1>4, ClkParts DEF BusClk, WriteBurst, first_beat_w
<1>21. EvictBeat \in Index
  <2>1. Words - left \in 0 .. Words - 1
    BY <1>1, Params
  <2>. QED
    BY <1>0, <1>1, <2>1, Typed, IndexOfLine
<1>22. /\ SetOf(EvictBeat) = evict_set_w
       /\ left >= 2 => /\ (EvictBeat + 1) % N = EvictBeat + 1
                       /\ EvictBeat + 1 = LineStart(evict_set_w) + (Words - (left - 1))
                       /\ EvictBeat + 1 \in Index
  <2>1. evict_set_w \in Set
    BY <1>0, Typed
  <2>. QED
    BY <1>1, <1>21, <2>1, LineEnds
<1>23. /\ bst \in BusType /\ bst.kind = "write" /\ bst.tag = evict_tag_w
       /\ bst.left = left /\ bst.idx = EvictBeat
  <2>1. CASE pmem_wr0
    <3>1. bst = Burst("write", evict_tag_w, evict_set_w) /\ EvictBeat = LineStart(evict_set_w)
          /\ left = Words /\ Words \in 0 .. Words
      BY <1>20, <2>1, Params DEF EvictBeat
    <3>. QED
      BY <1>0, <1>21, <3>1, Typed DEF Burst, BusType
  <2>2. CASE ~pmem_wr0
    <3>1. bst = bus /\ EvictBeat = bus.idx
      BY <1>20, <2>2 DEF EvictBeat
    <3>. QED
      BY <1>0, <2>2, <3>1, Typed DEF EvictPhase
  <2>. QED
    BY <2>1, <2>2
<1>24. BusAddr(bst) = At(evict_tag_w, EvictBeat)
  BY <1>23 DEF BusAddr, At
<1>. HIDE DEF left, bst
<1>25. bus' \in BusType
  <2>1. bst.left >= 1
    BY <1>1, <1>23
  <2>. QED
    BY <1>0, <1>20, <1>23, <2>1, NextBeatIs, Typed
<1>26. TypeOK'
  BY <1>0, <1>25, TypeStep
<1>27. CASE ~accept
  <2>1. /\ state' = "EVICT" /\ mem' = mem /\ bus' = bus /\ (pmem_wr0' <=> pmem_wr0)
        /\ pmem_len' = pmem_len /\ data_write_addr' = data_write_addr
    BY <1>3, <1>17, <1>18, <1>20, <1>27
  <2>2. LineStart(evict_set_w)' = LineStart(evict_set_w)
    BY <1>10 DEF LineStart
  <2>3. EvictBeat' = EvictBeat
    BY <2>1, <2>2 DEF EvictBeat
  <2>4. EvictPhase'
    BY <1>0, <1>12, <1>15, <1>16, <1>17, <2>1, <2>2, <2>3 DEF EvictPhase
  <2>5. Control'
    BY <1>6, <1>14, <1>26, <2>1, <2>4 DEF Control, Phases
  <2>. QED
    BY <1>0, <1>5, <1>7, <1>8, <1>9, <1>11, <1>13, <1>17, <1>21, <1>22, <1>27, <2>1, <2>3, <2>5
<1>28. CASE accept /\ left >= 2
  <2>1. pmem_len # 0 /\ (pmem_len - 1) % 256 = left - 2
    BY <1>1, <1>28, Params
  <2>2. state' = "EVICT" /\ ~pmem_wr0' /\ pmem_len' = left - 2 /\ bus' = NextBeat(bst)
    BY <1>3, <1>17, <1>20, <1>28, <2>1
  <2>3. /\ bus'.kind = "write" /\ bus'.tag = evict_tag_w /\ bus'.left = left - 1
        /\ bus'.idx = EvictBeat + 1
    <3>1. bst.left >= 1
      BY <1>1, <1>23
    <3>. QED
      BY <1>22, <1>23, <1>28, <2>2, <3>1, NextBeatIs
  <2>4. EvictBeat' = EvictBeat + 1
    BY <2>2, <2>3 DEF EvictBeat
  <2>5. data_write_addr = EvictBeat' /\ data_write_addr' = (EvictBeat' + 1) % N
    BY <1>1, <1>18, <1>22, <1>28, <2>4
  <2>6. LineStart(evict_set_w)' = LineStart(evict_set_w)
    BY <1>10 DEF LineStart
  <2>7. /\ bus'.left \in 1 .. Words /\ pmem_len' = bus'.left - 1
        /\ bus'.idx = LineStart(evict_set_w)' + (Words - bus'.left)
    BY <1>1, <1>22, <1>28, <2>2, <2>3, <2>6, Params
  <2>8. EvictPhase'
    BY <1>12, <1>15, <1>16, <1>17, <2>2, <2>3, <2>5, <2>7 DEF EvictPhase
  <2>9. Control'
    BY <1>6, <1>14, <1>26, <2>2, <2>8 DEF Control, Phases
  <2>10. /\ EvictBeat' \in Index /\ data_out'[replace_way] = data_ram[replace_way][EvictBeat']
    BY <1>0, <1>19, <1>22, <1>28, <2>4, <2>5, Typed
  <2>11. mem' = [mem EXCEPT ![At(evict_tag_w, EvictBeat)] = pmem_write_data_w] /\ ~pmem_wr'
    BY <1>17, <1>20, <1>24, <1>28
  <2>. QED
    BY <1>0, <1>5, <1>7, <1>8, <1>9, <1>11, <1>13, <1>21, <1>22, <1>28, <2>2, <2>4, <2>9, <2>10, <2>11
<1>29. CASE accept /\ left = 1
  <2>1. pmem_len = 0
    BY <1>1, <1>29
  <2>2. state' = "EVICT_WAIT" /\ ~pmem_wr0' /\ ~pmem_wr' /\ bus' = NextBeat(bst)
    BY <1>3, <1>17, <1>20, <1>29, <2>1
  <2>3. bus'.kind = "write" /\ bus'.left = 0
    <3>1. bst.left >= 1
      BY <1>1, <1>23
    <3>. QED
      BY <1>23, <1>29, <2>2, <3>1, NextBeatIs
  <2>4. WaitPhase'
    BY <1>15, <1>16, <1>17, <2>2, <2>3 DEF WaitPhase
  <2>5. Control'
    BY <1>6, <1>14, <1>26, <2>2, <2>4 DEF Control, Phases
  <2>6. EvictBeat = LineStart(evict_set_w) + (Words - 1)
    BY <1>1, <1>29
  <2>7. mem' = [mem EXCEPT ![At(evict_tag_w, EvictBeat)] = pmem_write_data_w]
    BY <1>20, <1>24, <1>29
  <2>. QED
    BY <1>0, <1>5, <1>7, <1>8, <1>9, <1>11, <1>13, <1>21, <1>22, <1>29, <2>2, <2>5, <2>6, <2>7
<1>30. left = 1 \/ left >= 2
  BY <1>1
<1>. QED
  BY <1>27, <1>28, <1>29, <1>30

\* The answer to a write marks the line clean or drops it.
LEMMA WaitStep ==
    ASSUME Control, NEW r \in Requests, NEW accept \in BOOLEAN, NEW ack \in BOOLEAN,
           NEW err \in BOOLEAN, Clk(r, accept, ack, err), state = "EVICT_WAIT"
    PROVE  /\ Control' /\ m' = m /\ shadow' = shadow /\ mem' = mem /\ data_ram' = data_ram
           /\ (flushing' <=> flushing) /\ flush_addr' = flush_addr /\ Evicting
           /\ \/ /\ state' = "EVICT_WAIT" /\ tag_ram' = tag_ram /\ replace_way' = replace_way
                 /\ \A w \in Way : tag_out'[w] = tag_out[w]
              \/ /\ ~flushing /\ replace_way' = replace_way
                 /\ \/ state' = "LOOKUP" /\ ForSync
                    \/ state' = "REFILL" /\ ForMiss
                 /\ \A w \in Way, s \in Set :
                       tag_ram'[w][s] = IF w = replace_way /\ s = MSet THEN tag_data_in
                                        ELSE tag_ram[w][s]
              \/ /\ flushing /\ state' = "FLUSH_ADDR"
                 /\ \A w \in Way, s \in Set :
                       tag_ram'[w][s] = IF w = replace_way /\ s = flush_addr THEN NoTag
                                        ELSE tag_ram[w][s]
<1>0. TypeOK /\ WaitPhase /\ Evicting
  BY DEF Control, Phases, WaitPhase
<1>1. state' = IF ~ack THEN "EVICT_WAIT" ELSE IF m.op = "writeback" THEN "LOOKUP"
               ELSE IF flushing THEN "FLUSH_ADDR" ELSE "REFILL"
  BY ClkParts DEF next_state
<1>2. m' = m /\ shadow' = shadow /\ MSet' = MSet
  BY <1>0, HeldStep DEF MSet
<1>3. ErrorKept'
  BY <1>0, ErrorHeld DEF Evicting, ForMiss, ForSync, ForFlush, IsAccess
<1>4. /\ (flushing' <=> flushing) /\ flush_addr' = flush_addr
      /\ flush_last' <=> flush_last \/ flush_addr = Sets - 1
  BY <1>1, ClkParts DEF FlushClk, next_flush_last
<1>5. data_ram' = data_ram
  <2>1. \A w \in Way : data_write_m(w, ack) = {}
    BY DEF data_write_m
  <2>2. mem[BusAddr(bus)] \in Word
    BY <1>0, Typed
  <2>. QED
    BY <1>0, <2>1, <2>2, DataKept, ClkParts
<1>6. \A w \in Way, s \in Set :
         tag_ram'[w][s] = IF ack /\ w = replace_way /\ s = evict_set_w THEN tag_data_in
                          ELSE tag_ram[w][s]
  <2>1. \A w \in Way : tag_write(w, ack) <=> ack /\ w = replace_way
    BY DEF tag_write
  <2>2. tag_addr_m = evict_set_w
    BY DEF tag_addr_m, evict_set_w
  <2>. QED
    BY <1>0, <2>1, <2>2, TagEdge, ClkParts
<1>7. evict_set_w' = evict_set_w /\ \A w \in Way : tag_out'[w] = tag_ram'[w][evict_set_w]
  <2>1. evict_set_w = IF flushing THEN flush_addr ELSE MSet
    BY DEF evict_set_w, MSet
  <2>2. evict_set_w' = evict_set_w
    BY <1>2, <1>4 DEF evict_set_w
  <2>. QED
    BY <1>0, <2>1, <2>2, OutFollows, ClkParts
<1>8. TagSeen(evict_set_w)'
  BY <1>7 DEF TagSeen
<1>9. ~pmem_wr_w /\ (pmem_rd_w(state') <=> state' = "REFILL")
  BY <1>0, <1>1 DEF pmem_wr_w, pmem_rd_w, Entering, WaitPhase
<1>10. state' # "REFILL" => /\ bus' = IF ack THEN NoBurst ELSE bus
                            /\ mem' = mem /\ ~pmem_rd' /\ ~pmem_wr0' /\ ~pmem_wr'
  <2>1. state' # "REFILL" => bus' = IF ack THEN NoBurst ELSE bus
    <3>1. bus.left <= 1
      BY <1>0 DEF WaitPhase
    <3>. QED
      BY <1>9, <3>1, ClkParts DEF BusClk
  <2>2. mem' = mem
    BY <1>9, ClkParts DEF BusClk
  <2>3. state' # "REFILL" => ~pmem_rd' /\ ~pmem_wr0' /\ ~pmem_wr'
    BY <1>0, <1>1, <1>9, ClkParts DEF PmemClk, Entering, WaitPhase
  <2>. QED
    BY <2>1, <2>2, <2>3
<1>11. mem' = mem
  BY <1>9, ClkParts DEF BusClk
<1>12. replace_way' = IF ack /\ flushing THEN 0 ELSE replace_way
  <2>1. ~flush_next_way
    BY <1>0 DEF flush_next_way, evict_way_w, Evicting
  <2>2. state' = "FLUSH_ADDR" <=> ack /\ flushing
    BY <1>0, <1>1 DEF Evicting, ForMiss, ForSync, ForFlush
  <2>. QED
    BY <2>1, <2>2, ClkParts DEF ReplaceClk
<1>13. state' # "REFILL" => TypeOK'
  <2>1. NoBurst \in BusType
    BY Params DEF NoBurst, BusType
  <2>2. state' # "REFILL" => bus' \in BusType
    BY <1>0, <1>10, <2>1, Typed
  <2>. QED
    BY <1>0, <2>2, TypeStep
<1>14. replace_way \in Way /\ 1 - replace_way \in Way /\ 1 - replace_way # replace_way
       /\ MSet \in Set /\ flush_addr \in Set /\ evict_set_w \in Set
  BY <1>0, Typed DEF Way
<1>15. CASE ~ack
  <2>1. state' = "EVICT_WAIT" /\ bus' = bus /\ replace_way' = replace_way
    BY <1>1, <1>10, <1>12, <1>15
  <2>2. tag_ram' = tag_ram
    <3>1. \A w \in Way : ~tag_write(w, ack)
      BY <1>15 DEF tag_write
    <3>. QED
      BY <1>0, <3>1, TagsKept, ClkParts
  <2>3. \A w \in Way : tag_out'[w] = tag_out[w]
    BY <1>0, <1>7, <2>2 DEF Evicting, TagSeen
  <2>4. Evicting'
    <3>1. \A w \in Way : (Hit(w)' <=> Hit(w)) /\ (Dirty(w)' <=> Dirty(w))
      BY <1>2, <2>3 DEF Hit, Dirty
    <3>2. HitAny' <=> HitAny
      BY <3>1 DEF HitAny
    <3>3. (Hit(replace_way)' <=> Hit(replace_way)) /\ (Dirty(replace_way)' <=> Dirty(replace_way))
      BY <1>2, <1>14, <2>1, <2>3 DEF Hit, Dirty
    <3>. QED
      BY <1>0, <1>2, <1>4, <1>8, <3>2, <3>3 DEF Evicting, ForMiss, ForSync, ForFlush, IsAccess
  <2>5. WaitPhase'
    BY <1>0, <1>4, <1>10, <2>1, <2>4 DEF WaitPhase
  <2>6. NoDuplicateLine'
    BY <2>2 DEF Control, NoDuplicateLine
  <2>7. Control'
    BY <1>3, <1>13, <2>1, <2>5, <2>6 DEF Control, Phases
  <2>. QED
    BY <1>0, <1>2, <1>4, <1>5, <1>11, <2>1, <2>2, <2>3, <2>7
<1>16. CASE ack /\ flushing
  <2>1. m.op = "flush" /\ evict_set_w = flush_addr
    BY <1>0, <1>16 DEF Evicting, ForMiss, ForSync, ForFlush, evict_set_w
  <2>2. state' = "FLUSH_ADDR" /\ bus' = NoBurst
    BY <1>1, <1>10, <1>16, <2>1
  <2>3. tag_data_in = NoTag /\ ~NoTag.valid
    BY <1>16 DEF tag_data_in, NoTag
  <2>4. \A w \in Way, s \in Set :
           tag_ram'[w][s] = IF w = replace_way /\ s = flush_addr THEN NoTag ELSE tag_ram[w][s]
    BY <1>6, <1>16, <2>1, <2>3
  <2>5. NoDuplicateLine'
    <3>1. \A w \in Way, s \in Set :
             \/ ~tag_ram'[w][s].valid
             \/ tag_ram[w][s].valid /\ tag_ram'[w][s].tag = tag_ram[w][s].tag
      BY <2>3, <2>4
    <3>. QED
      BY <1>0, <3>1, NoDuplicateStep DEF Control
  <2>6. Calm'
    BY <1>10, <2>2 DEF Calm, NoBurst
  <2>7. FlushAddrPhase'
    BY <1>0, <1>2, <1>4, <1>16, <2>1, <2>6 DEF FlushAddrPhase, WaitPhase
  <2>8. Control'
    BY <1>3, <1>13, <2>2, <2>5, <2>7 DEF Control, Phases
  <2>. QED
    BY <1>0, <1>2, <1>4, <1>5, <1>11, <1>16, <2>2, <2>4, <2>8
<1>17. CASE ack /\ ~flushing
  <2>1. /\ evict_set_w = MSet /\ tag_data_in.tag = m.addr.tag
        /\ replace_way' = replace_way /\ ~flushing'
    BY <1>4, <1>12, <1>17 DEF evict_set_w, MSet, tag_data_in
  <2>2. \A w \in Way, s \in Set :
           tag_ram'[w][s] = IF w = replace_way /\ s = MSet THEN tag_data_in ELSE tag_ram[w][s]
    BY <1>6, <1>17, <2>1
  <2>3. CASE ForSync
    <3>1. state' = "LOOKUP" /\ bus' = NoBurst /\ m.op = "writeback"
      BY <1>1, <1>10, <1>17, <2>3 DEF ForSync
    <3>2. tag_ram[replace_way][MSet].valid /\ tag_ram[replace_way][MSet].tag = m.addr.tag
      BY <1>0, <1>14, <2>1, <2>3 DEF Evicting, TagSeen, ForSync, Hit
    <3>3. NoDuplicateLine'
      <4>. HIDE DEF tag_data_in
      <4>1. \A w \in Way, s \in Set :
             \/ ~tag_ram'[w][s].valid
             \/ tag_ram[w][s].valid /\ tag_ram'[w][s].tag = tag_ram[w][s].tag
        BY <2>1, <2>2, <3>2
      <4>. QED
        BY <1>0, <4>1, NoDuplicateStep DEF Control
    <3>4. Calm'
      BY <1>10, <3>1 DEF Calm, NoBurst
    <3>5. LookupPhase'
      BY <1>2, <2>1, <3>1, <3>4 DEF LookupPhase, IsAccess
    <3>6. Control'
      BY <1>3, <1>13, <3>1, <3>3, <3>5 DEF Control, Phases
    <3>. QED
      BY <1>0, <1>2, <1>4, <1>5, <1>11, <1>17, <2>1, <2>2, <2>3, <3>1, <3>6
  <2>4. CASE ForMiss
    <3>1. state' = "REFILL" /\ ~HitAny /\ IsAccess(m)
      BY <1>1, <1>17, <2>4 DEF ForMiss, IsAccess
    <3>2. ~(/\ tag_ram[1 - replace_way][MSet].valid
            /\ tag_ram[1 - replace_way][MSet].tag = m.addr.tag)
      BY <1>0, <1>14, <2>1, <3>1 DEF Evicting, TagSeen, HitAny, Hit
    <3>3. NoDuplicateLine'
      <4>. HIDE DEF tag_data_in
      <4>1. \A w \in Way, s \in Set :
             \/ ~tag_ram'[w][s].valid
             \/ tag_ram[w][s].valid /\ tag_ram'[w][s].tag = tag_ram[w][s].tag
             \/ /\ s = MSet /\ tag_ram'[w][s].tag = m.addr.tag
                /\ ~(tag_ram[1 - w][s].valid /\ tag_ram[1 - w][s].tag = m.addr.tag)
                /\ tag_ram'[1 - w][s] = tag_ram[1 - w][s]
        BY <1>14, <2>1, <2>2, <3>2
      <4>. QED
        BY <1>0, <4>1, NoDuplicateStep DEF Control
    <3>4. TagSeen(MSet)'
      BY <1>2, <1>7, <2>1 DEF TagSeen
    <3>5. ~Hit(1 - replace_way)'
      <4>1. tag_out'[1 - replace_way] = tag_ram[1 - replace_way][MSet]
        BY <1>7, <1>14, <2>1, <2>2
      <4>. QED
        BY <1>2, <2>1, <3>2, <4>1 DEF Hit
    <3>6. /\ ~pmem_rd /\ ~pmem_wr0 /\ ~pmem_wr /\ state \notin {"REFILL", "EVICT"}
          /\ bus.kind = "write" /\ bus.left = 0 /\ ack
      BY <1>0, <1>17 DEF WaitPhase
    <3>7. RefillPhase' /\ TypeOK'
      BY <1>0, <1>2, <2>1, <3>1, <3>4, <3>5, <3>6, EnterRefill
    <3>8. Control'
      BY <1>3, <3>1, <3>3, <3>7 DEF Control, Phases
    <3>. QED
      BY <1>0, <1>2, <1>4, <1>5, <1>11, <1>17, <2>1, <2>2, <2>4, <3>1, <3>8
  <2>. QED
    BY <1>0, <1>17, <2>3, <2>4 DEF Evicting, ForFlush
<1>. QED
  BY <1>15, <1>16, <1>17

-----------------------------------------------------------------------------

\* A reset keeps the invariant of the control state.
LEMMA ResetControl == ASSUME Control, Reset PROVE Control'
<1>1. TypeOK'
  <2>1. NoBurst \in BusType
    BY Params DEF NoBurst, BusType
  <2>2. tag_out' \in [Way -> TagEntry] /\ mem' \in [Addr -> Word] /\ shadow' \in [Addr -> Word]
        /\ tag_ram' \in [Way -> [Set -> TagEntry]]
        /\ data_ram' \in [Way -> [Index -> Word]] /\ data_out' \in [Way -> Word]
    BY DEF Reset, Control, TypeOK
  <2>3. m' \in ReqType /\ bus' \in BusType /\ pmem_write_data' \in Word
    BY <2>1, Params DEF Reset
  <2>4. /\ state' = "RESET" /\ replace_way' \in Way /\ flush_addr' \in Set
        /\ data_write_addr' \in Index /\ pmem_len' \in 0 .. 255
    BY Params DEF Reset, Way
  <2>5. {flushing', flush_last', pmem_rd', pmem_wr0', pmem_wr', error', saw_error'}
             \subseteq BOOLEAN
    BY DEF Reset
  <2>. QED
    BY <2>2, <2>3, <2>4, <2>5 DEF TypeOK, ReqType, BusType
<1>2. ResetPhase'
  <2>1. flush_addr' = 0 /\ ~flush_last' /\ m'.op = "none" /\ ~flushing' /\ Calm'
    BY DEF Reset, NoReq, NoBurst, Calm
  <2>2. \A s \in Set : ~(s < 0)
    BY Params DEF Set
  <2>. QED
    BY <2>1, <2>2 DEF ResetPhase
<1>3. state' = "RESET" /\ ErrorKept' /\ NoDuplicateLine'
  BY DEF Reset, ErrorKept, NoReq, NoDuplicateLine
<1>. QED
  BY <1>1, <1>2, <1>3 DEF Control, Phases

\* So does power up establish it.
LEMMA InitControl == Init => Control
<1>. SUFFICES ASSUME Init PROVE Control
  OBVIOUS
<1>1. TypeOK
  <2>1. NoBurst \in BusType
    BY Params DEF NoBurst, BusType
  <2>2. /\ tag_ram \in [Way -> [Set -> TagEntry]] /\ tag_out \in [Way -> TagEntry]
        /\ data_ram \in [Way -> [Index -> Word]] /\ data_out \in [Way -> Word]
        /\ mem \in [Addr -> Word] /\ shadow \in [Addr -> Word]
    BY Params DEF Init
  <2>3. m \in ReqType /\ bus \in BusType /\ pmem_write_data \in Word
    BY <2>1, Params DEF Init
  <2>4. /\ state = "RESET" /\ replace_way \in Way /\ flush_addr \in Set
        /\ data_write_addr \in Index /\ pmem_len \in 0 .. 255
    BY Params DEF Init, Way
  <2>5. {flushing, flush_last, pmem_rd, pmem_wr0, pmem_wr, error, saw_error}
             \subseteq BOOLEAN
    BY DEF Init
  <2>. QED
    BY <2>2, <2>3, <2>4, <2>5 DEF TypeOK, ReqType, BusType
<1>2. ResetPhase
  <2>1. flush_addr = 0 /\ ~flush_last /\ m.op = "none" /\ ~flushing /\ Calm
    BY DEF Init, NoReq, NoBurst, Calm
  <2>2. \A s \in Set : ~(s < 0)
    BY Params DEF Set
  <2>. QED
    BY <2>1, <2>2 DEF ResetPhase
<1>3. state = "RESET" /\ ErrorKept /\ NoDuplicateLine
  BY DEF Init, ErrorKept, NoReq, NoDuplicateLine
<1>. QED
  BY <1>1, <1>2, <1>3 DEF Control, Phases

\* The bus's error flags are Booleans.
LEMMA ErrorFlags == Errors \subseteq BOOLEAN
BY DCacheAssumption

\* Every step keeps the invariant of the control state.
LEMMA NextControl == Control /\ [Next]_vars => Control'
<1>. SUFFICES ASSUME Control, [Next]_vars PROVE Control'
  OBVIOUS
<1>1. CASE Tick
  <2>1. PICK r \in Requests, accept \in BOOLEAN, ack \in BOOLEAN, err \in Errors :
            Clk(r, accept, ack, err)
    BY <1>1 DEF Tick
  <2>2. err \in BOOLEAN
    BY ErrorFlags
  <2>3. state \in {"RESET", "FLUSH_ADDR", "FLUSH", "LOOKUP", "READ", "WRITE",
                  "REFILL", "EVICT", "EVICT_WAIT", "INVALIDATE", "WRITEBACK"}
    BY DEF Control, TypeOK
  <2>. QED
    BY <2>1, <2>2, <2>3, ResetStep, FlushAddrStep, FlushStep, LookupMissStep, LookupServeStep,
       ReadStep, WriteStep, RefillStep, EvictStep, WaitStep, InvalidateStep, WritebackStep
<1>2. CASE Reset
  BY <1>2, ResetControl
<1>3. CASE UNCHANGED vars
  <2>1. UNCHANGED <<fsm_vars, ram_vars, pmem_vars, env_vars>>
    BY <1>3 DEF vars
  <2>2. TypeOK' /\ ErrorKept' /\ NoDuplicateLine'
    <3>1. TypeOK'
      BY <2>1 DEF fsm_vars, ram_vars, pmem_vars, env_vars, Control, TypeOK
    <3>2. ErrorKept'
      BY <2>1 DEF fsm_vars, pmem_vars, env_vars, Control, ErrorKept
    <3>3. NoDuplicateLine'
      BY <2>1 DEF fsm_vars, ram_vars, Control, NoDuplicateLine
    <3>. QED
      BY <3>1, <3>2, <3>3
  <2>3. /\ Calm' <=> Calm
        /\ MSet' = MSet /\ evict_set_w' = evict_set_w /\ evict_tag_w' = evict_tag_w
        /\ EvictBeat' = EvictBeat
    BY <2>1 DEF fsm_vars, ram_vars, pmem_vars, env_vars, Calm, MSet, evict_set_w, evict_tag_w,
                EvictBeat
  <2>4. \A w : (Hit(w)' <=> Hit(w)) /\ (Dirty(w)' <=> Dirty(w))
    BY <2>1 DEF fsm_vars, ram_vars, Hit, Dirty
  <2>5. \A s : (TagSeen(s)' <=> TagSeen(s)) /\ (Cleared(s)' <=> Cleared(s))
    BY <2>1 DEF ram_vars, TagSeen, Cleared
  <2>6. Evicting' <=> Evicting
    <3>1. HitAny' <=> HitAny
      BY <2>4 DEF HitAny
    <3>2. replace_way' = replace_way /\ m' = m /\ flushing' = flushing
      BY <2>1 DEF fsm_vars
    <3>. QED
      BY <2>3, <2>4, <2>5, <3>1, <3>2 DEF Evicting, ForMiss, ForSync, ForFlush
  <2>7. Phases
    BY DEF Control
  <2>8. state' = state
    BY <2>1 DEF fsm_vars
  <2>9. /\ state = "RESET" => ResetPhase'
        /\ state = "INVALIDATE" => InvalidatePhase'
        /\ state = "FLUSH_ADDR" => FlushAddrPhase'
    BY <2>1, <2>3, <2>5, <2>7
       DEF fsm_vars, Phases, ResetPhase, InvalidatePhase, FlushAddrPhase
  <2>10. /\ state = "LOOKUP" => LookupPhase'
         /\ state = "READ" => ReadPhase'
         /\ state = "WRITE" => WritePhase'
    BY <2>1, <2>3, <2>4, <2>5, <2>7 DEF fsm_vars, Phases, LookupPhase, ReadPhase, WritePhase
  <2>11. /\ state = "WRITEBACK" => WritebackPhase'
         /\ state = "FLUSH" => FlushPhase'
    BY <2>1, <2>3, <2>5, <2>7 DEF fsm_vars, Phases, WritebackPhase, FlushPhase
  <2>12. state = "REFILL" => RefillPhase'
    BY <2>1, <2>3, <2>4, <2>5, <2>7
       DEF fsm_vars, ram_vars, pmem_vars, env_vars, Phases, RefillPhase
  <2>13. state = "EVICT" => EvictPhase'
    BY <2>1, <2>3, <2>6, <2>7
       DEF fsm_vars, ram_vars, pmem_vars, env_vars, Phases, EvictPhase
  <2>14. state = "EVICT_WAIT" => WaitPhase'
    BY <2>1, <2>6, <2>7 DEF fsm_vars, ram_vars, pmem_vars, env_vars, Phases, WaitPhase
  <2>15. Phases'
    BY <2>8, <2>9, <2>10, <2>11, <2>12, <2>13, <2>14 DEF Phases
  <2>. QED
    BY <2>2, <2>15 DEF Control
<1>. QED
  BY <1>1, <1>2, <1>3 DEF Next

\* The control invariant always holds: registers of their types, the phases of
\* the state machine, and a line in at most one way, for every set of
\* operations.
THEOREM ControlCorrect == Spec => []Control
BY InitControl, NextControl, PTL DEF Spec

\* The invariant gives the error flag of an answer.
LEMMA ControlErrors == Control => ErrorReported
BY DEF Control, ErrorKept, ErrorReported, mem_ack_o, IsAccess

\* An answer carries the error flag exactly when the bus reported an error for
\* its request (mem_error_o of dcache_core.v), for every set of operations.
THEOREM ErrorReportedCorrect == Spec => []ErrorReported
BY ControlCorrect, ControlErrors, PTL

-----------------------------------------------------------------------------
(* What the lines hold. *)

\* A store over what it stored changes nothing.
LEMMA StoreTwice ==
    ASSUME TypeOK, NEW a, NEW c \in Word
    PROVE  /\ MStore(a, c) \in Word /\ MStore(a, MStore(a, c)) = MStore(a, c)
           /\ m.op # "store" => MStore(a, c) = c
BY Typed, MergeWord DEF MStore

\* An address is its tag and its index.
LEMMA AddrParts ==
    ASSUME NEW a \in Addr
    PROVE  /\ a.tag \in Tag /\ a.idx \in Index /\ SetOf(a.idx) \in Set
           /\ a = At(a.tag, a.idx)
<1>1. a.tag \in Tag /\ a.idx \in Index /\ a = At(a.tag, a.idx)
  BY DEF Addr, At
<1>. QED
  BY <1>1, LineOfIndex

\* A tag and an index are an address.
LEMMA AtAddr ==
    ASSUME NEW t \in Tag, NEW i \in Index
    PROVE  At(t, i) \in Addr /\ At(t, i).tag = t /\ At(t, i).idx = i
BY DEF At, Addr

\* Lines may leave the cache, or be marked clean, when memory has their words:
\* the newest copies stay known.
LEMMA KeepData ==
    ASSUME TypeOK, Data, state # "RESET", mem' = mem, m' = m, shadow' = shadow,
           \A w \in Way, a \in Addr :
              /\ Holds(w, a)' => Holds(w, a) /\ data_ram'[w][a.idx] = data_ram[w][a.idx]
              /\ Holds(w, a) /\ ~Holds(w, a)' => data_ram[w][a.idx] = mem[a]
              /\ Holds(w, a)' /\ ~tag_ram'[w][SetOf(a.idx)].dirty =>
                    ~tag_ram[w][SetOf(a.idx)].dirty \/ data_ram[w][a.idx] = mem[a]
    PROVE  (\A a \in Addr : Newest(a)') /\ CleanLineIsMemory'
<1>1. ASSUME NEW a \in Addr PROVE Newest(a)'
  <2>1. Newest(a)
    BY DEF Data
  <2>2. \A c : MStore(a, c)' = MStore(a, c)
    BY DEF MStore
  <2>3. ASSUME NEW w \in Way, Holds(w, a)' PROVE shadow'[a] = MStore(a, data_ram'[w][a.idx])
    BY <2>1, <2>3 DEF Newest
  <2>4. ASSUME \A w \in Way : ~Holds(w, a)' PROVE shadow'[a] = MStore(a, mem'[a])
    <3>1. CASE \A w \in Way : ~Holds(w, a)
      BY <2>1, <3>1 DEF Newest
    <3>2. CASE \E w \in Way : Holds(w, a)
      <4>1. PICK w \in Way : Holds(w, a)
        BY <3>2
      <4>2. data_ram[w][a.idx] = mem[a]
        BY <2>4, <4>1
      <4>. QED
        BY <2>1, <4>1, <4>2 DEF Newest
    <3>. QED
      BY <3>1, <3>2
  <2>. QED
    BY <2>2, <2>3, <2>4 DEF Newest
<1>2. CleanLineIsMemory'
  <2>. SUFFICES ASSUME NEW w \in Way, NEW a \in Addr, Holds(w, a)',
                       ~tag_ram'[w][SetOf(a.idx)].dirty
                PROVE  data_ram'[w][a.idx] = mem'[a]
    BY DEF CleanLineIsMemory
  <2>1. Holds(w, a) /\ data_ram'[w][a.idx] = data_ram[w][a.idx]
    OBVIOUS
  <2>2. ~tag_ram[w][SetOf(a.idx)].dirty \/ data_ram[w][a.idx] = mem[a]
    OBVIOUS
  <2>. QED
    BY <2>1, <2>2 DEF Data, CleanLineIsMemory
<1>. QED
  BY <1>1, <1>2

\* In particular when the RAMs, the request and memory stay.
LEMMA QuietData ==
    ASSUME TypeOK, Data, state # "RESET", mem' = mem, m' = m, shadow' = shadow,
           tag_ram' = tag_ram, data_ram' = data_ram,
           \/ state # "REFILL" /\ state' # "REFILL"
           \/ state = "REFILL" /\ state' = "REFILL" /\ replace_way' = replace_way
    PROVE  (\A a \in Addr : Newest(a)') /\ CleanLineIsMemory'
<1>1. \A w \in Way, a \in Addr : Holds(w, a)' <=> Holds(w, a)
  BY DEF Holds, Refilling
<1>2. \A w \in Way, a \in Addr :
              /\ Holds(w, a)' => Holds(w, a) /\ data_ram'[w][a.idx] = data_ram[w][a.idx]
              /\ Holds(w, a) /\ ~Holds(w, a)' => data_ram[w][a.idx] = mem[a]
              /\ Holds(w, a)' /\ ~tag_ram'[w][SetOf(a.idx)].dirty =>
                    ~tag_ram[w][SetOf(a.idx)].dirty \/ data_ram[w][a.idx] = mem[a]
  BY <1>1
<1>. QED
  BY <1>2, KeepData

\* In READ the word of the load is read from the line just filled.
LEMMA ReadData ==
    ASSUME Control, Data, NEW r \in Requests, NEW accept \in BOOLEAN, NEW ack \in BOOLEAN,
           NEW err \in BOOLEAN, Clk(r, accept, ack, err), state = "READ"
    PROVE  Data'
<1>0. TypeOK /\ ReadPhase
  BY DEF Control, Phases
<1>1. state' = "LOOKUP" /\ m' = m /\ shadow' = shadow
  BY <1>0, HeldStep, ClkParts DEF next_state
<1>2. mem' = mem
  BY <1>0, <1>1, CalmStep DEF ReadPhase
<1>3. tag_ram' = tag_ram
  <2>1. \A w \in Way : ~tag_write(w, ack)
    BY DEF tag_write
  <2>. QED
    BY <1>0, <2>1, TagsKept, ClkParts
<1>4. data_ram' = data_ram
  <2>1. \A w \in Way : data_write_m(w, ack) = {}
    BY DEF data_write_m
  <2>2. mem[BusAddr(bus)] \in Word
    BY <1>0, Typed
  <2>. QED
    BY <1>0, <2>1, <2>2, DataKept, ClkParts
<1>5. (\A a \in Addr : Newest(a)') /\ CleanLineIsMemory'
  BY <1>0, <1>1, <1>2, <1>3, <1>4, QuietData
<1>6. ~flushing'
  BY <1>0, <1>1, ClkParts DEF FlushClk, ReadPhase
<1>7. \A w \in Way : data_out'[w] = data_ram[w][m.addr.idx]
  BY <1>1, ClkParts DEF DataClk, data_addr_x, uses_line
<1>8. LookupData'
  BY <1>0, <1>1, <1>4, <1>7 DEF LookupData, ReadPhase
<1>. QED
  BY <1>0, <1>1, <1>5, <1>6, <1>8 DEF Data, ReadPhase

\* A store writes the ways that hit: their line is the same, its word is the
\* one stored, and it is dirty.
LEMMA StoreLands ==
    ASSUME TypeOK, Data, NEW r \in Requests, NEW accept \in BOOLEAN, NEW ack \in BOOLEAN,
           NEW err \in BOOLEAN, Clk(r, accept, ack, err), state \in {"WRITE", "LOOKUP"},
           state' \notin {"EVICT", "REFILL"}, m.op = "store", ~flushing, TagSeen(MSet), HitAny,
           \A w \in Way : tag_write(w, ack) <=> Hit(w)
    PROVE  /\ \A w \in Way, a \in Addr : Holds(w, a)' <=> Holds(w, a)
           /\ \A w \in Way, a \in Addr : Holds(w, a) =>
                 /\ data_ram'[w][a.idx] \in Word
                 /\ data_ram'[w][a.idx] = MStore(a, data_ram[w][a.idx])
           /\ \A w \in Way, a \in Addr :
                 Holds(w, a) /\ ~tag_ram'[w][SetOf(a.idx)].dirty =>
                     /\ data_ram'[w][a.idx] = data_ram[w][a.idx]
                     /\ ~tag_ram[w][SetOf(a.idx)].dirty
           /\ \E w \in Way : Holds(w, m.addr)
           /\ \A w \in Way : Hit(w) => tag_ram'[w][MSet].tag = m.addr.tag
<1>1. /\ tag_addr_m = MSet /\ tag_data_in.valid /\ tag_data_in.dirty
      /\ tag_data_in.tag = m.addr.tag
  BY DEF tag_addr_m, tag_data_in, MSet
<1>2. \A w \in Way, s \in Set :
         tag_ram'[w][s] = IF Hit(w) /\ s = MSet THEN tag_data_in ELSE tag_ram[w][s]
  BY <1>1, TagEdge, ClkParts
<1>. HIDE DEF tag_data_in
<1>3. \A w \in Way : Hit(w) <=> tag_ram[w][MSet].valid /\ tag_ram[w][MSet].tag = m.addr.tag
  BY DEF TagSeen, Hit
<1>4. \A w \in Way, a \in Addr : Holds(w, a)' <=> Holds(w, a)
  <2>. SUFFICES ASSUME NEW w \in Way, NEW a \in Addr PROVE Holds(w, a)' <=> Holds(w, a)
    OBVIOUS
  <2>1. SetOf(a.idx) \in Set
    BY AddrParts
  <2>. QED
    BY <1>1, <1>2, <1>3, <2>1 DEF Holds, Refilling
<1>5. \A w \in Way, a \in Addr : Holds(w, a) /\ SetOf(a.idx) = MSet => (Hit(w) <=> a.tag = m.addr.tag)
  BY <1>3 DEF Holds
<1>6. \A w \in Way, i \in Index :
         data_ram'[w][i] = IF i = m.addr.idx /\ Hit(w) THEN Merge(data_ram[w][i], m.data, m.strb)
                           ELSE data_ram[w][i]
  <2>. SUFFICES ASSUME NEW w \in Way, NEW i \in Index
                PROVE  data_ram'[w][i] = IF i = m.addr.idx /\ Hit(w)
                                         THEN Merge(data_ram[w][i], m.data, m.strb)
                                         ELSE data_ram[w][i]
    OBVIOUS
  <2>1. data_addr_m(state') = m.addr.idx
    BY DEF data_addr_m, uses_line
  <2>2. data_write_m(w, ack) = IF Hit(w) THEN m.strb ELSE {}
    BY DEF data_write_m
  <2>3. mem[BusAddr(bus)] \in Word /\ data_ram[w][i] \in Word /\ m.data \in Word
    BY Typed
  <2>4. data_ram'[w][i] = IF i = data_addr_m(state')
                          THEN Merge(data_ram[w][i], m.data, data_write_m(w, ack))
                          ELSE data_ram[w][i]
    <3>1. data_ram'[w][i] = IF i = data_addr_m(state')
                            THEN Merge(data_ram[w][i],
                                       IF state = "REFILL" THEN mem[BusAddr(bus)] ELSE m.data,
                                       data_write_m(w, ack))
                            ELSE data_ram[w][i]
      BY <2>3, WordsEdge DEF DataWords
    <3>. QED
      BY <3>1
  <2>5. Merge(data_ram[w][i], m.data, {}) = data_ram[w][i]
    BY <2>3, MergeWord
  <2>. QED
    BY <2>1, <2>2, <2>4, <2>5
<1>7. \A w \in Way, a \in Addr : Holds(w, a) =>
                 /\ data_ram'[w][a.idx] \in Word
                 /\ data_ram'[w][a.idx] = MStore(a, data_ram[w][a.idx])
  <2>. SUFFICES ASSUME NEW w \in Way, NEW a \in Addr, Holds(w, a)
                PROVE  /\ data_ram'[w][a.idx] \in Word
                       /\ data_ram'[w][a.idx] = MStore(a, data_ram[w][a.idx])
    OBVIOUS
  <2>1. a.idx \in Index /\ a = At(a.tag, a.idx) /\ m.addr = At(m.addr.tag, m.addr.idx)
    BY AddrParts, Typed
  <2>2. a = m.addr <=> a.idx = m.addr.idx /\ Hit(w)
    BY <1>5, <2>1 DEF MSet
  <2>3. data_ram'[w][a.idx] = MStore(a, data_ram[w][a.idx])
    BY <1>6, <2>1, <2>2 DEF MStore
  <2>4. data_ram[w][a.idx] \in Word
    BY <2>1, Typed
  <2>. QED
    BY <2>3, <2>4, StoreTwice
<1>8. \A w \in Way, a \in Addr :
                 Holds(w, a) /\ ~tag_ram'[w][SetOf(a.idx)].dirty =>
                     /\ data_ram'[w][a.idx] = data_ram[w][a.idx]
                     /\ ~tag_ram[w][SetOf(a.idx)].dirty
  <2>. SUFFICES ASSUME NEW w \in Way, NEW a \in Addr, Holds(w, a),
                       ~tag_ram'[w][SetOf(a.idx)].dirty
                PROVE  /\ data_ram'[w][a.idx] = data_ram[w][a.idx]
                       /\ ~tag_ram[w][SetOf(a.idx)].dirty
    OBVIOUS
  <2>1. SetOf(a.idx) \in Set /\ a.idx \in Index
    BY AddrParts
  <2>2. ~(Hit(w) /\ SetOf(a.idx) = MSet)
    BY <1>1, <1>2, <2>1
  <2>. QED
    BY <1>2, <1>6, <2>1, <2>2 DEF MSet
<1>9. \E w \in Way : Holds(w, m.addr)
  <2>1. PICK w \in Way : Hit(w)
    BY DEF HitAny
  <2>. QED
    BY <1>3, <2>1 DEF Holds, MSet, Refilling
<1>10. \A w \in Way : Hit(w) => tag_ram'[w][MSet].tag = m.addr.tag
  BY <1>1, <1>2, Typed
<1>. QED
  BY <1>4, <1>7, <1>8, <1>9, <1>10

\* The store that caused a refill goes into the line filled.
LEMMA WriteData ==
    ASSUME Control, Data, NEW r \in Requests, NEW accept \in BOOLEAN, NEW ack \in BOOLEAN,
           NEW err \in BOOLEAN, Clk(r, accept, ack, err), state = "WRITE"
    PROVE  Data'
<1>0. TypeOK /\ WritePhase
  BY DEF Control, Phases
<1>1. state' = "LOOKUP" /\ m' = m /\ shadow' = shadow
  BY <1>0, HeldStep, ClkParts DEF next_state
<1>2. mem' = mem
  BY <1>0, <1>1, CalmStep DEF WritePhase
<1>3. \A w \in Way : Hit(w) <=> w = replace_way
  BY <1>0, Typed DEF Control, NoDuplicateLine, WritePhase, TagSeen, Hit, Way
<1>4. \A w \in Way : tag_write(w, ack) <=> Hit(w)
  BY <1>3 DEF tag_write
<1>5. HitAny
  BY <1>0, Typed DEF HitAny, WritePhase
<1>6. /\ \A w \in Way, a \in Addr : Holds(w, a)' <=> Holds(w, a)
      /\ \A w \in Way, a \in Addr : Holds(w, a) =>
                 /\ data_ram'[w][a.idx] \in Word
                 /\ data_ram'[w][a.idx] = MStore(a, data_ram[w][a.idx])
      /\ \A w \in Way, a \in Addr :
                 Holds(w, a) /\ ~tag_ram'[w][SetOf(a.idx)].dirty =>
                     /\ data_ram'[w][a.idx] = data_ram[w][a.idx]
                     /\ ~tag_ram[w][SetOf(a.idx)].dirty
  BY <1>0, <1>1, <1>4, <1>5, StoreLands DEF WritePhase
<1>7. ASSUME NEW a \in Addr PROVE Newest(a)'
  <2>1. Newest(a)
    BY <1>0 DEF Data
  <2>2. \A c : MStore(a, c)' = MStore(a, c)
    BY <1>1 DEF MStore
  <2>3. ASSUME NEW w \in Way, Holds(w, a)' PROVE shadow'[a] = MStore(a, data_ram'[w][a.idx])
    <3>1. Holds(w, a) /\ data_ram[w][a.idx] \in Word
      BY <1>0, <1>6, <2>3, AddrParts, Typed
    <3>2. shadow[a] = MStore(a, data_ram[w][a.idx])
      BY <2>1, <3>1 DEF Newest
    <3>3. MStore(a, MStore(a, data_ram[w][a.idx])) = MStore(a, data_ram[w][a.idx])
      BY <1>0, <3>1, StoreTwice
    <3>. QED
      BY <1>1, <1>6, <3>1, <3>2, <3>3
  <2>4. ASSUME \A w \in Way : ~Holds(w, a)' PROVE shadow'[a] = MStore(a, mem'[a])
    BY <1>1, <1>2, <1>6, <2>1, <2>4 DEF Newest
  <2>. QED
    BY <2>2, <2>3, <2>4 DEF Newest
<1>8. CleanLineIsMemory'
  <2>. SUFFICES ASSUME NEW w \in Way, NEW a \in Addr, Holds(w, a)',
                       ~tag_ram'[w][SetOf(a.idx)].dirty
                PROVE  data_ram'[w][a.idx] = mem'[a]
    BY DEF CleanLineIsMemory
  <2>. QED
    BY <1>0, <1>2, <1>6 DEF Data, CleanLineIsMemory
<1>9. ~flushing'
  BY <1>0, <1>1, ClkParts DEF FlushClk, WritePhase
<1>10. LookupData'
  BY <1>0, <1>1 DEF LookupData, WritePhase
<1>. QED
  BY <1>0, <1>1, <1>7, <1>8, <1>9, <1>10 DEF Data, WritePhase

\* In LOOKUP a store reaches the ways that hit, and the load accepted at the
\* same edge, which reads the RAM before that write, is never of the word
\* stored.
LEMMA LookupServeData ==
    ASSUME NoInvalidate, Control, Data, NEW r \in Requests, NEW accept \in BOOLEAN,
           NEW ack \in BOOLEAN, NEW err \in BOOLEAN, Clk(r, accept, ack, err),
           state = "LOOKUP", ~Missed
    PROVE  Data'
<1>0. TypeOK /\ LookupPhase
  BY DEF Control, Phases
<1>1. /\ mem' = mem
      /\ \/ mem_accept_o(r) /\ m' = r
         \/ ~mem_accept_o(r) /\ m' = NoReq /\ m.op = "store" /\ r.op = "load" /\ r.addr = m.addr
      /\ state' = (IF m'.op = "writeback" THEN "WRITEBACK"
                   ELSE IF m'.op = "flush" THEN "FLUSH_ADDR"
                   ELSE IF m'.op = "invalidate" THEN "INVALIDATE"
                   ELSE "LOOKUP")
      /\ state' = "FLUSH_ADDR" => flush_addr' = 0
      /\ flushing' <=> state' = "FLUSH_ADDR"
  BY LookupServeStep
<1>2. m'.op # "invalidate" /\ state' \in {"LOOKUP", "WRITEBACK", "FLUSH_ADDR"}
  <2>1. r.op # "invalidate"
    BY RequestType DEF NoInvalidate
  <2>. QED
    BY <1>1, <2>1 DEF NoReq
<1>3. /\ \A w \in Way, a \in Addr : Holds(w, a)' <=> Holds(w, a)
      /\ \A w \in Way, a \in Addr : Holds(w, a) => shadow[a] = data_ram'[w][a.idx]
      /\ \A a \in Addr : (\A w \in Way : ~Holds(w, a)) => shadow[a] = mem[a]
      /\ \A w \in Way, a \in Addr : Holds(w, a) /\ ~tag_ram'[w][SetOf(a.idx)].dirty =>
            data_ram'[w][a.idx] = mem[a]
      /\ m.op # "store" => data_ram' = data_ram
      /\ m.op = "store" => \A w \in Way : Hit(w) => tag_ram'[w][MSet].tag = m.addr.tag
  <2>1. CASE m.op = "store"
    <3>1. HitAny /\ TagSeen(MSet)
      BY <1>0, <2>1 DEF Missed, IsAccess, LookupPhase
    <3>2. \A w \in Way : tag_write(w, ack) <=> Hit(w)
      BY <2>1 DEF tag_write
    <3>3. /\ \A w \in Way, a \in Addr : Holds(w, a)' <=> Holds(w, a)
          /\ \A w \in Way, a \in Addr : Holds(w, a) =>
                     /\ data_ram'[w][a.idx] \in Word
                     /\ data_ram'[w][a.idx] = MStore(a, data_ram[w][a.idx])
          /\ \A w \in Way, a \in Addr :
                     Holds(w, a) /\ ~tag_ram'[w][SetOf(a.idx)].dirty =>
                         /\ data_ram'[w][a.idx] = data_ram[w][a.idx]
                         /\ ~tag_ram[w][SetOf(a.idx)].dirty
          /\ \E w \in Way : Holds(w, m.addr)
          /\ \A w \in Way : Hit(w) => tag_ram'[w][MSet].tag = m.addr.tag
      BY <1>0, <1>2, <2>1, <3>1, <3>2, StoreLands DEF LookupPhase
    <3>4. \A w \in Way, a \in Addr : Holds(w, a) => shadow[a] = data_ram'[w][a.idx]
      BY <3>3 DEF Data, Newest
    <3>5. \A a \in Addr : (\A w \in Way : ~Holds(w, a)) => shadow[a] = mem[a]
      BY <3>3 DEF Data, Newest, MStore
    <3>6. \A w \in Way, a \in Addr : Holds(w, a) /\ ~tag_ram'[w][SetOf(a.idx)].dirty =>
            data_ram'[w][a.idx] = mem[a]
      BY <3>3 DEF Data, CleanLineIsMemory
    <3>. QED
      BY <2>1, <3>3, <3>4, <3>5, <3>6
  <2>2. CASE m.op # "store"
    <3>1. tag_ram' = tag_ram
      <4>1. \A w \in Way : ~tag_write(w, ack)
        BY <2>2 DEF tag_write
      <4>. QED
        BY <1>0, <4>1, TagsKept, ClkParts
    <3>2. data_ram' = data_ram
      <4>1. \A w \in Way : data_write_m(w, ack) = {}
        BY <2>2 DEF data_write_m
      <4>2. mem[BusAddr(bus)] \in Word
        BY <1>0, Typed
      <4>. QED
        BY <1>0, <4>1, <4>2, DataKept, ClkParts
    <3>3. \A w \in Way, a \in Addr : Holds(w, a)' <=> Holds(w, a)
      BY <1>2, <3>1 DEF Holds, Refilling
    <3>4. \A w \in Way, a \in Addr : Holds(w, a) => shadow[a] = data_ram'[w][a.idx]
      BY <2>2, <3>2 DEF Data, Newest, MStore
    <3>5. \A a \in Addr : (\A w \in Way : ~Holds(w, a)) => shadow[a] = mem[a]
      BY <2>2 DEF Data, Newest, MStore
    <3>6. \A w \in Way, a \in Addr : Holds(w, a) /\ ~tag_ram'[w][SetOf(a.idx)].dirty =>
            data_ram'[w][a.idx] = mem[a]
      BY <3>1, <3>2 DEF Data, CleanLineIsMemory
    <3>. QED
      BY <2>2, <3>2, <3>3, <3>4, <3>5, <3>6
  <2>. QED
    BY <2>1, <2>2
<1>4. \A a \in Addr : \A c : c = shadow[a] => shadow'[a] = MStore(a, c)'
  <2>. SUFFICES ASSUME NEW a \in Addr PROVE \A c : c = shadow[a] => shadow'[a] = MStore(a, c)'
    OBVIOUS
  <2>1. CASE mem_accept_o(r) /\ r.op = "store" /\ m' = r
    <3>1. shadow' = [shadow EXCEPT ![r.addr] = Merge(shadow[r.addr], r.data, r.strb)]
      BY <1>0, <2>1, ClkParts, RequestType DEF ShadowClk, TypeOK
    <3>2. shadow'[a] = IF a = r.addr THEN Merge(shadow[a], r.data, r.strb) ELSE shadow[a]
      BY <1>0, <3>1 DEF TypeOK
    <3>. QED
      BY <2>1, <3>2 DEF MStore
  <2>2. CASE ~(mem_accept_o(r) /\ r.op = "store")
    <3>1. m'.op # "store"
      BY <1>1, <2>2 DEF NoReq
    <3>2. shadow' = shadow
      <4>1. r.op # "invalidate"
        BY RequestType DEF NoInvalidate
      <4>. QED
        BY <2>2, <4>1, ClkParts DEF ShadowClk
    <3>. QED
      BY <3>1, <3>2 DEF MStore
  <2>. QED
    BY <1>1, <2>1, <2>2
<1>5. ASSUME NEW a \in Addr PROVE Newest(a)'
  <2>1. \A c : c = shadow[a] => shadow'[a] = MStore(a, c)'
    BY <1>4
  <2>2. \A w \in Way : Holds(w, a)' => data_ram'[w][a.idx] = shadow[a]
    BY <1>3
  <2>3. (\A w \in Way : ~Holds(w, a)') => mem'[a] = shadow[a]
    BY <1>1, <1>3
  <2>4. \A w \in Way : Holds(w, a)' => shadow'[a] = MStore(a, data_ram[w][a.idx])'
    BY <2>1, <2>2
  <2>5. (\A w \in Way : ~Holds(w, a)') => shadow'[a] = MStore(a, mem[a])'
    BY <2>1, <2>3
  <2>. QED
    BY <2>4, <2>5 DEF Newest
<1>6. CleanLineIsMemory'
  <2>. SUFFICES ASSUME NEW w \in Way, NEW a \in Addr, Holds(w, a)',
                       ~tag_ram'[w][SetOf(a.idx)].dirty
                PROVE  data_ram'[w][a.idx] = mem'[a]
    BY DEF CleanLineIsMemory
  <2>. QED
    BY <1>1, <1>3
<1>7. flushing' => \A s \in Set : s < flush_addr' => Cleared(s)'
  <2>1. \A s \in Set : ~(s < 0)
    BY Params DEF Set
  <2>. QED
    BY <1>1, <2>1
<1>8. state' = "LOOKUP" => LookupData'
  <2>. SUFFICES ASSUME state' = "LOOKUP" PROVE LookupData'
    OBVIOUS
  <2>1. m'.op # "flush" /\ m'.op # "writeback"
    BY <1>1
  <2>2. ASSUME m'.op = "load", NEW w \in Way, Hit(w)' PROVE data_out'[w] = data_ram'[w][m'.addr.idx]
    <3>1. mem_accept_o(r) /\ m' = r /\ r.op = "load"
      BY <1>1, <2>2 DEF NoReq
    <3>2. data_out'[w] = data_ram[w][r.addr.idx]
      BY ClkParts DEF DataClk, data_addr_x, uses_line
    <3>3. CASE m.op # "store"
      BY <1>3, <3>1, <3>2, <3>3
    <3>4. CASE m.op = "store"
      <4>1. r.addr # m.addr
        BY <3>1, <3>4 DEF mem_accept_o
      <4>2. tag_out'[w] = tag_ram'[w][SetOf(r.addr.idx)]
        BY <1>0, TagEdge, ClkParts DEF tag_addr_x
      <4>3. ~(Hit(w) /\ r.addr.idx = m.addr.idx)
        <5>. SUFFICES ASSUME Hit(w), r.addr.idx = m.addr.idx PROVE FALSE
          OBVIOUS
        <5>1. tag_ram'[w][MSet].tag = m.addr.tag
          BY <1>3, <3>4
        <5>2. tag_out'[w].tag = r.addr.tag
          BY <2>2, <3>1 DEF Hit
        <5>3. r.addr.tag = m.addr.tag
          BY <4>2, <5>1, <5>2 DEF MSet
        <5>4. r.addr = At(r.addr.tag, r.addr.idx) /\ m.addr = At(m.addr.tag, m.addr.idx)
          BY <1>0, RequestType, AddrParts, Typed
        <5>. QED
          BY <4>1, <5>3, <5>4
      <4>4. data_ram'[w][r.addr.idx] = data_ram[w][r.addr.idx]
        <5>1. mem[BusAddr(bus)] \in Word /\ r.addr.idx \in Index
          BY <1>0, Typed, RequestType
        <5>2. data_addr_m(state') = m.addr.idx
          BY DEF data_addr_m, uses_line
        <5>3. CASE r.addr.idx # m.addr.idx
          BY <1>0, <5>1, <5>2, <5>3, WordsEdge DEF DataWords
        <5>4. CASE r.addr.idx = m.addr.idx
          <6>1. data_write_m(w, ack) = {}
            BY <4>3, <5>4 DEF data_write_m
          <6>2. data_ram'[w][r.addr.idx] = Merge(data_ram[w][r.addr.idx], m.data,
                                                 data_write_m(w, ack))
            <7>1. data_ram'[w][r.addr.idx] =
                     IF r.addr.idx = data_addr_m(state')
                     THEN Merge(data_ram[w][r.addr.idx],
                                IF state = "REFILL" THEN mem[BusAddr(bus)] ELSE m.data,
                                data_write_m(w, ack))
                     ELSE data_ram[w][r.addr.idx]
              BY <1>0, <5>1, WordsEdge DEF DataWords
            <7>. QED
              BY <5>2, <5>4, <7>1
          <6>3. data_ram[w][r.addr.idx] \in Word /\ m.data \in Word
            BY <1>0, <5>1, Typed
          <6>4. Merge(data_ram[w][r.addr.idx], m.data, {}) = data_ram[w][r.addr.idx]
            BY <6>3, MergeWord
          <6>. QED
            BY <6>1, <6>2, <6>4
        <5>. QED
          BY <5>3, <5>4
      <4>. QED
        BY <3>1, <3>2, <4>4
    <3>. QED
      BY <3>3, <3>4
  <2>. QED
    BY <2>1, <2>2 DEF LookupData
<1>. QED
  BY <1>2, <1>5, <1>6, <1>7, <1>8 DEF Data

\* The first word of the line leaves the RAMs as an eviction begins.
LEMMA EnterEvictData ==
    ASSUME TypeOK, Calm, NEW r \in Requests, NEW accept \in BOOLEAN, NEW ack \in BOOLEAN,
           NEW err \in BOOLEAN, Clk(r, accept, ack, err), data_ram' = data_ram, replace_way' \in Way,
           state \in {"LOOKUP", "WRITEBACK", "FLUSH"}, state' = "EVICT",
           evict_set_w' = (IF state = "FLUSH" THEN flush_addr ELSE MSet)
    PROVE  EvictData'
<1>1. ~pmem_wr' /\ pmem_wr0'
  BY CalmStep
<1>2. EvictBeat' = LineStart(evict_set_w')
  BY <1>1 DEF EvictBeat, LineStart
<1>3. data_addr_x(r, state') = LineStart(evict_set_w')
  BY DEF data_addr_x, uses_line, data_addr_line, MSet
<1>4. pmem_write_data_w' = data_ram[replace_way'][EvictBeat']
  <2>1. data_out'[replace_way'] = data_ram[replace_way'][data_addr_x(r, state')]
    BY ClkParts DEF DataClk
  <2>. QED
    BY <1>1, <1>2, <1>3, <2>1 DEF pmem_write_data_w
<1>5. \A i \in Index : ~(SetOf(i) = evict_set_w' /\ i < EvictBeat')
  <2>. SUFFICES ASSUME NEW i \in Index, SetOf(i) = evict_set_w', i < EvictBeat' PROVE FALSE
    OBVIOUS
  <2>1. i >= LineStart(SetOf(i)) /\ LineStart(SetOf(i)) \in Nat /\ i \in Nat
    BY LineOfIndex, Params DEF Index
  <2>. QED
    BY <1>2, <2>1
<1>6. data_ram'[replace_way'][EvictBeat'] = pmem_write_data_w'
  BY <1>4
<1>. QED
  BY <1>5, <1>6 DEF EvictData

\* A miss gives up only a line memory has.
LEMMA LookupMissData ==
    ASSUME Control, Data, NEW r \in Requests, NEW accept \in BOOLEAN, NEW ack \in BOOLEAN,
           NEW err \in BOOLEAN, Clk(r, accept, ack, err), state = "LOOKUP", Missed
    PROVE  Data'
<1>0. TypeOK /\ LookupPhase /\ TagSeen(MSet) /\ IsAccess(m)
  BY DEF Control, Phases, LookupPhase, Missed
<1>1. /\ Control' /\ m' = m /\ shadow' = shadow
      /\ tag_ram' = tag_ram /\ tag_out' = tag_out /\ replace_way' = replace_way
      /\ state' = IF Dirty(replace_way) THEN "EVICT" ELSE "REFILL"
      /\ ~flushing' /\ mem' = mem /\ ~HitAny
  BY LookupMissStep
<1>2. data_ram' = data_ram
  <2>1. \A w \in Way : data_write_m(w, ack) = {}
    BY <1>1 DEF data_write_m, HitAny
  <2>2. mem[BusAddr(bus)] \in Word
    BY <1>0, Typed
  <2>. QED
    BY <1>0, <2>1, <2>2, DataKept, ClkParts
<1>3. m'.op # "invalidate" /\ ~flushing'
  BY <1>1 DEF Data
<1>4. CASE Dirty(replace_way)
  <2>1. (\A a \in Addr : Newest(a)') /\ CleanLineIsMemory'
    BY <1>0, <1>1, <1>2, <1>4, QuietData
  <2>2. EvictData'
    <3>1. evict_set_w' = MSet /\ replace_way' \in Way
      BY <1>0, <1>1, Typed DEF evict_set_w, MSet
    <3>. QED
      BY <1>0, <1>1, <1>2, <1>4, <3>1, EnterEvictData DEF LookupPhase
  <2>. QED
    BY <1>1, <1>3, <1>4, <2>1, <2>2 DEF Data
<1>5. CASE ~Dirty(replace_way)
  <2>1. state' = "REFILL"
    BY <1>1, <1>5
  <2>2. \A w \in Way, a \in Addr :
              /\ Holds(w, a)' => Holds(w, a) /\ data_ram'[w][a.idx] = data_ram[w][a.idx]
              /\ Holds(w, a) /\ ~Holds(w, a)' => data_ram[w][a.idx] = mem[a]
              /\ Holds(w, a)' /\ ~tag_ram'[w][SetOf(a.idx)].dirty =>
                    ~tag_ram[w][SetOf(a.idx)].dirty \/ data_ram[w][a.idx] = mem[a]
    <3>. SUFFICES ASSUME NEW w \in Way, NEW a \in Addr
                  PROVE  /\ Holds(w, a)' => Holds(w, a)
                         /\ Holds(w, a) /\ ~Holds(w, a)' => data_ram[w][a.idx] = mem[a]
      BY <1>1, <1>2
    <3>1. Holds(w, a)' => Holds(w, a)
      BY <1>1 DEF Holds, Refilling
    <3>2. ASSUME Holds(w, a), ~Holds(w, a)' PROVE data_ram[w][a.idx] = mem[a]
      <4>1. w = replace_way /\ SetOf(a.idx) = MSet
        BY <1>1, <2>1, <3>2 DEF Holds, Refilling, MSet
      <4>2. ~tag_ram[w][SetOf(a.idx)].dirty
        BY <1>0, <1>5, <3>2, <4>1 DEF Holds, TagSeen, Dirty
      <4>. QED
        BY <1>0, <3>2, <4>2 DEF Data, CleanLineIsMemory
    <3>. QED
      BY <3>1, <3>2
  <2>3. (\A a \in Addr : Newest(a)') /\ CleanLineIsMemory'
    BY <1>0, <1>1, <2>2, KeepData
  <2>4. data_write_addr' = LineStart(MSet) /\ MSet' = MSet
    BY <1>1, <2>1, ClkParts DEF DataClk, Entering, MSet
  <2>5. RefillData'
    <3>. SUFFICES ASSUME NEW i \in Index, SetOf(i) = MSet, i < LineStart(MSet) PROVE FALSE
      BY <2>4 DEF RefillData
    <3>1. i >= LineStart(SetOf(i)) /\ LineStart(SetOf(i)) \in Nat /\ i \in Nat
      BY LineOfIndex, Params DEF Index
    <3>. QED
      BY <3>1
  <2>. QED
    BY <1>3, <2>1, <2>3, <2>5 DEF Data
<1>. QED
  BY <1>4, <1>5

\* Each beat of a refill fills the word memory has there; the line counts once
\* it is whole.
LEMMA RefillFills ==
    ASSUME Control, Data, NEW r \in Requests, NEW accept \in BOOLEAN, NEW ack \in BOOLEAN,
           NEW err \in BOOLEAN, Clk(r, accept, ack, err), state = "REFILL"
    PROVE  Data'
<1>0. TypeOK /\ RefillPhase
  BY DEF Control, Phases
<1>1. /\ Control' /\ m' = m /\ shadow' = shadow /\ mem' = mem
      /\ ~flushing' /\ (state' = "REFILL" => replace_way' = replace_way)
  BY RefillStep
<1>2. state' \in {"REFILL", "READ", "WRITE"} /\ m'.op # "invalidate"
  BY <1>1, ClkParts DEF next_state, Data
<1>3. MSet' = MSet /\ replace_way \in Way /\ MSet \in Set /\ m.addr.tag \in Tag
      /\ 1 - replace_way \in Way
  BY <1>0, <1>1, Typed DEF MSet, Way
<1>4. CASE /\ ~ack /\ state' = "REFILL" /\ tag_ram' = tag_ram /\ data_ram' = data_ram
           /\ data_write_addr' = data_write_addr
  <2>1. (\A a \in Addr : Newest(a)') /\ CleanLineIsMemory'
    BY <1>0, <1>1, <1>4, QuietData
  <2>2. RefillData'
    BY <1>1, <1>3, <1>4 DEF Data, RefillData
  <2>. QED
    BY <1>1, <1>2, <1>4, <2>1, <2>2 DEF Data
<1>5. CASE ack /\ bus.kind = "read" /\ bus.left \in 1 .. Words
  <2>1. /\ data_write_addr \in Index /\ SetOf(data_write_addr) = MSet
        /\ BusAddr(bus) = At(m.addr.tag, data_write_addr)
        /\ data_write_addr = LineStart(MSet) + (Words - bus.left)
    <3>1. /\ bus.idx = LineStart(MSet) + (Words - bus.left) /\ data_write_addr = bus.idx
          /\ bus.tag = m.addr.tag
      BY <1>0, <1>5 DEF RefillPhase
    <3>2. bus.idx \in Index
      BY <1>0, Typed
    <3>3. SetOf(bus.idx) = MSet
      BY <1>3, <1>5, <3>1, <3>2, LineEnds
    <3>. QED
      BY <3>1, <3>2, <3>3 DEF BusAddr, At
  <2>2. \A w \in Way, i \in Index :
           data_ram'[w][i] = IF w = replace_way /\ i = data_write_addr THEN mem[At(m.addr.tag, i)]
                             ELSE data_ram[w][i]
    <3>. SUFFICES ASSUME NEW w \in Way, NEW i \in Index
                  PROVE  data_ram'[w][i] =
                            IF w = replace_way /\ i = data_write_addr THEN mem[At(m.addr.tag, i)]
                            ELSE data_ram[w][i]
      OBVIOUS
    <3>. DEFINE v == mem[BusAddr(bus)]
    <3>1. data_addr_m(state') = data_write_addr
      BY DEF data_addr_m, uses_line, data_addr_line
    <3>2. data_write_m(w, ack) = IF w = replace_way THEN Byte ELSE {}
      BY <1>5 DEF data_write_m
    <3>3. v \in Word /\ data_ram[w][i] \in Word
      BY <1>0, Typed
    <3>4. data_ram'[w][i] = IF i = data_addr_m(state')
                            THEN Merge(data_ram[w][i], v, data_write_m(w, ack))
                            ELSE data_ram[w][i]
      <4>1. data_ram'[w][i] = IF i = data_addr_m(state')
                              THEN Merge(data_ram[w][i],
                                         IF state = "REFILL" THEN mem[BusAddr(bus)] ELSE m.data,
                                         data_write_m(w, ack))
                              ELSE data_ram[w][i]
        BY <1>0, <3>3, WordsEdge DEF DataWords
      <4>. QED
        BY <4>1
    <3>5. /\ Merge(data_ram[w][i], v, {}) = data_ram[w][i]
          /\ Merge(data_ram[w][i], v, Byte) = v
      BY <3>3, MergeWord
    <3>6. i = data_write_addr => v = mem[At(m.addr.tag, i)]
      BY <2>1
    <3>. HIDE DEF v
    <3>. QED
      BY <3>1, <3>2, <3>4, <3>5, <3>6
  <2>3. \A w \in Way, a \in Addr : Holds(w, a) => data_ram'[w][a.idx] = data_ram[w][a.idx]
    <3>. SUFFICES ASSUME NEW w \in Way, NEW a \in Addr, Holds(w, a)
                  PROVE  data_ram'[w][a.idx] = data_ram[w][a.idx]
      OBVIOUS
    <3>1. a.idx \in Index
      BY AddrParts
    <3>2. ~(w = replace_way /\ SetOf(a.idx) = MSet)
      BY DEF Holds, Refilling, MSet
    <3>. QED
      BY <2>1, <2>2, <3>1, <3>2
  <2>4. \A i \in Index : SetOf(i) = MSet /\ i < data_write_addr + 1 =>
             data_ram'[replace_way][i] = mem[At(m.addr.tag, i)]
    <3>. SUFFICES ASSUME NEW i \in Index, SetOf(i) = MSet, i < data_write_addr + 1
                  PROVE  data_ram'[replace_way][i] = mem[At(m.addr.tag, i)]
      OBVIOUS
    <3>1. CASE i = data_write_addr
      BY <1>3, <2>2, <3>1
    <3>2. CASE i # data_write_addr
      <4>1. i < data_write_addr
        BY <2>1, <3>2, Params DEF Index
      <4>2. data_ram[replace_way][i] = mem[At(m.addr.tag, i)]
        BY <4>1 DEF Data, RefillData
      <4>. QED
        BY <1>3, <2>2, <3>2, <4>2
    <3>. QED
      BY <3>1, <3>2
  <2>5. CASE /\ bus.left >= 2 /\ state' = "REFILL" /\ tag_ram' = tag_ram
             /\ data_write_addr' = data_write_addr + 1
    <3>1. \A w \in Way, a \in Addr : Holds(w, a)' <=> Holds(w, a)
      BY <1>1, <2>5 DEF Holds, Refilling
    <3>2. \A w \in Way, a \in Addr :
              /\ Holds(w, a)' => Holds(w, a) /\ data_ram'[w][a.idx] = data_ram[w][a.idx]
              /\ Holds(w, a) /\ ~Holds(w, a)' => data_ram[w][a.idx] = mem[a]
              /\ Holds(w, a)' /\ ~tag_ram'[w][SetOf(a.idx)].dirty =>
                    ~tag_ram[w][SetOf(a.idx)].dirty \/ data_ram[w][a.idx] = mem[a]
      BY <2>3, <2>5, <3>1
    <3>3. (\A a \in Addr : Newest(a)') /\ CleanLineIsMemory'
      BY <1>0, <1>1, <3>2, KeepData
    <3>4. RefillData'
      BY <1>1, <1>3, <2>4, <2>5 DEF RefillData
    <3>. QED
      BY <1>1, <1>2, <2>5, <3>3, <3>4 DEF Data
  <2>6. CASE /\ bus.left = 1 /\ state' = IF m.op = "store" THEN "WRITE" ELSE "READ"
             /\ \A w \in Way, s \in Set :
                   tag_ram'[w][s] = IF w = replace_way /\ s = MSet THEN tag_data_in
                                    ELSE tag_ram[w][s]
    <3>1. tag_data_in.valid /\ tag_data_in.tag = m.addr.tag
      BY <1>0 DEF tag_data_in, RefillPhase
    <3>. HIDE DEF tag_data_in
    <3>2. state' # "REFILL"
      BY <2>6
    <3>3. \A w \in Way, a \in Addr :
             Holds(w, a)' <=> IF w = replace_way /\ SetOf(a.idx) = MSet THEN a.tag = m.addr.tag
                              ELSE Holds(w, a)
      <4>. SUFFICES ASSUME NEW w \in Way, NEW a \in Addr
                    PROVE  Holds(w, a)' <=> IF w = replace_way /\ SetOf(a.idx) = MSet
                                            THEN a.tag = m.addr.tag ELSE Holds(w, a)
        OBVIOUS
      <4>1. SetOf(a.idx) \in Set
        BY AddrParts
      <4>. QED
        BY <2>6, <3>1, <3>2, <4>1 DEF Holds, Refilling, MSet
    <3>4. \A i \in Index : SetOf(i) = MSet =>
             data_ram'[replace_way][i] = mem[At(m.addr.tag, i)]
      <4>. SUFFICES ASSUME NEW i \in Index, SetOf(i) = MSet PROVE i < data_write_addr + 1
        BY <2>4
      <4>1. i < LineStart(MSet) + Words /\ LineStart(MSet) \in Nat
        BY LineOfIndex
      <4>2. data_write_addr + 1 = LineStart(MSet) + Words
        BY <2>1, <2>6, <4>1, Params
      <4>. QED
        BY <4>1, <4>2
    <3>5. \A a \in Addr : SetOf(a.idx) = MSet /\ a.tag = m.addr.tag =>
             /\ data_ram'[replace_way][a.idx] = mem[a]
             /\ \A w \in Way : ~Holds(w, a)
      <4>. SUFFICES ASSUME NEW a \in Addr, SetOf(a.idx) = MSet, a.tag = m.addr.tag
                    PROVE  /\ data_ram'[replace_way][a.idx] = mem[a]
                           /\ \A w \in Way : ~Holds(w, a)
        OBVIOUS
      <4>1. a.idx \in Index /\ a = At(m.addr.tag, a.idx)
        BY AddrParts
      <4>2. data_ram'[replace_way][a.idx] = mem[a]
        BY <3>4, <4>1
      <4>3. ~Holds(1 - replace_way, a)
        BY <1>0, <1>3 DEF RefillPhase, TagSeen, Hit, Holds
      <4>4. ~Holds(replace_way, a)
        BY DEF Holds, Refilling, MSet
      <4>5. \A w \in Way : w = replace_way \/ w = 1 - replace_way
        BY <1>3 DEF Way
      <4>7. \A w \in Way : ~Holds(w, a)
        BY <4>3, <4>4, <4>5
      <4>. QED
        BY <4>2, <4>7
    <3>6. ASSUME NEW a \in Addr PROVE Newest(a)'
      <4>1. Newest(a)
        BY DEF Data
      <4>2. \A c : MStore(a, c)' = MStore(a, c)
        BY <1>1 DEF MStore
      <4>3. ASSUME NEW w \in Way, Holds(w, a)' PROVE shadow'[a] = MStore(a, data_ram'[w][a.idx])
        <5>1. CASE w = replace_way /\ SetOf(a.idx) = MSet
          <6>1. a.tag = m.addr.tag
            BY <3>3, <4>3, <5>1
          <6>2. shadow[a] = MStore(a, mem[a])
            BY <3>5, <4>1, <5>1, <6>1 DEF Newest
          <6>. QED
            BY <1>1, <3>5, <5>1, <6>1, <6>2
        <5>2. CASE ~(w = replace_way /\ SetOf(a.idx) = MSet)
          <6>1. Holds(w, a)
            BY <3>3, <4>3, <5>2
          <6>. QED
            BY <1>1, <2>3, <4>1, <6>1 DEF Newest
        <5>. QED
          BY <5>1, <5>2
      <4>4. ASSUME \A w \in Way : ~Holds(w, a)' PROVE shadow'[a] = MStore(a, mem'[a])
        <5>1. \A w \in Way : ~Holds(w, a)
          <6>. SUFFICES ASSUME NEW w \in Way, Holds(w, a) PROVE FALSE
            OBVIOUS
          <6>1. ~(w = replace_way /\ SetOf(a.idx) = MSet)
            BY DEF Holds, Refilling, MSet
          <6>. QED
            BY <3>3, <4>4, <6>1
        <5>. QED
          BY <1>1, <4>1, <5>1 DEF Newest
      <4>. QED
        BY <4>2, <4>3, <4>4 DEF Newest
    <3>7. CleanLineIsMemory'
      <4>. SUFFICES ASSUME NEW w \in Way, NEW a \in Addr, Holds(w, a)',
                           ~tag_ram'[w][SetOf(a.idx)].dirty
                    PROVE  data_ram'[w][a.idx] = mem'[a]
        BY DEF CleanLineIsMemory
      <4>1. CASE w = replace_way /\ SetOf(a.idx) = MSet
        BY <1>1, <3>3, <3>5, <4>1
      <4>2. CASE ~(w = replace_way /\ SetOf(a.idx) = MSet)
        <5>1. Holds(w, a) /\ SetOf(a.idx) \in Set
          BY <3>3, <4>2, AddrParts
        <5>2. ~tag_ram[w][SetOf(a.idx)].dirty
          BY <2>6, <4>2, <5>1
        <5>. QED
          BY <1>1, <2>3, <5>1, <5>2 DEF Data, CleanLineIsMemory
      <4>. QED
        BY <4>1, <4>2
    <3>. QED
      BY <1>1, <1>2, <3>2, <3>6, <3>7 DEF Data
  <2>. QED
    BY <1>5, <2>5, <2>6, RefillStep
<1>. QED
  BY <1>4, <1>5, RefillStep

\* The line being written back is held by the replacement way alone.
LEMMA EvictedLine ==
    ASSUME TypeOK, Evicting, NoDuplicateLine, state \in {"EVICT", "EVICT_WAIT"},
           NEW i \in Index, SetOf(i) = evict_set_w
    PROVE  /\ At(evict_tag_w, i) \in Addr /\ At(evict_tag_w, i).idx = i
           /\ At(evict_tag_w, i).tag = evict_tag_w
           /\ Holds(replace_way, At(evict_tag_w, i))
           /\ tag_ram[replace_way][evict_set_w].dirty
           /\ \A w \in Way : Holds(w, At(evict_tag_w, i)) => w = replace_way
<1>1. evict_tag_w \in Tag /\ replace_way \in Way /\ evict_set_w \in Set
  BY Typed
<1>2. /\ At(evict_tag_w, i) \in Addr /\ At(evict_tag_w, i).idx = i
      /\ At(evict_tag_w, i).tag = evict_tag_w
  BY <1>1, AtAddr
<1>3. /\ tag_ram[replace_way][evict_set_w].valid /\ tag_ram[replace_way][evict_set_w].dirty
      /\ tag_ram[replace_way][evict_set_w].tag = evict_tag_w
  BY <1>1 DEF Evicting, Dirty, TagSeen, evict_tag_w
<1>4. Holds(replace_way, At(evict_tag_w, i))
  BY <1>2, <1>3 DEF Holds, Refilling
<1>5. \A w \in Way : Holds(w, At(evict_tag_w, i)) => w = replace_way
  <2>1. \A w \in Way : Holds(w, At(evict_tag_w, i)) =>
           tag_ram[w][evict_set_w].valid /\ tag_ram[w][evict_set_w].tag = evict_tag_w
    BY <1>2 DEF Holds
  <2>. QED
    BY <1>1, <1>3, <2>1 DEF NoDuplicateLine, Way
<1>. QED
  BY <1>2, <1>3, <1>4, <1>5

\* Each beat of an eviction brings memory one word nearer to the line.
LEMMA EvictWrites ==
    ASSUME Control, Data, NEW r \in Requests, NEW accept \in BOOLEAN, NEW ack \in BOOLEAN,
           NEW err \in BOOLEAN, Clk(r, accept, ack, err), state = "EVICT"
    PROVE  Data'
<1>0. TypeOK /\ NoDuplicateLine /\ EvictData
  BY DEF Control, Data
<1>1. /\ Control' /\ m' = m /\ shadow' = shadow /\ tag_ram' = tag_ram /\ data_ram' = data_ram
      /\ (flushing' <=> flushing) /\ flush_addr' = flush_addr /\ replace_way' = replace_way
      /\ \A w \in Way : tag_out'[w] = tag_out[w]
      /\ Evicting /\ EvictBeat \in Index /\ SetOf(EvictBeat) = evict_set_w
  BY EvictStep
<1>2. /\ replace_way \in Way /\ evict_set_w \in Set /\ evict_tag_w \in Tag
      /\ evict_tag_w' = evict_tag_w /\ evict_set_w' = evict_set_w
  BY <1>0, <1>1, Typed DEF evict_tag_w, evict_set_w
<1>3. m'.op # "invalidate" /\ state' \in {"EVICT", "EVICT_WAIT"}
  BY <1>1, ClkParts DEF Data, next_state
<1>4. flushing' => \A s \in Set : s < flush_addr' => Cleared(s)'
  BY <1>1 DEF Data, Cleared
<1>5. CASE /\ ~accept /\ mem' = mem /\ state' = "EVICT" /\ EvictBeat' = EvictBeat
           /\ pmem_wr' /\ pmem_write_data' = pmem_write_data_w
  <2>1. (\A a \in Addr : Newest(a)') /\ CleanLineIsMemory'
    BY <1>0, <1>1, <1>5, QuietData
  <2>2. pmem_write_data_w' = pmem_write_data_w
    <3>1. pmem_write_data_w' = pmem_write_data'
      BY <1>5 DEF pmem_write_data_w
    <3>. QED
      BY <1>5, <3>1
  <2>3. EvictData'
    <3>. HIDE DEF pmem_write_data_w
    <3>. QED
      BY <1>0, <1>1, <1>2, <1>5, <2>2 DEF EvictData
  <2>. QED
    BY <1>3, <1>4, <1>5, <2>1, <2>3 DEF Data
<1>6. CASE /\ accept /\ mem' = [mem EXCEPT ![At(evict_tag_w, EvictBeat)] = pmem_write_data_w]
           /\ ~pmem_wr'
  <2>. DEFINE A == At(evict_tag_w, EvictBeat)
  <2>1. /\ A \in Addr /\ A.idx = EvictBeat /\ A.tag = evict_tag_w /\ Holds(replace_way, A)
        /\ tag_ram[replace_way][evict_set_w].dirty
        /\ \A w \in Way : Holds(w, A) => w = replace_way
    BY <1>0, <1>1, EvictedLine
  <2>2. data_ram[replace_way][EvictBeat] = pmem_write_data_w
    BY <1>0 DEF EvictData
  <2>3. \A a \in Addr : mem'[a] = IF a = A THEN data_ram[replace_way][EvictBeat] ELSE mem[a]
    BY <1>0, <1>6, <2>2 DEF TypeOK
  <2>. HIDE DEF A
  <2>4. \A w \in Way, a \in Addr : Holds(w, a)' <=> Holds(w, a)
    BY <1>1, <1>3 DEF Holds, Refilling
  <2>5. ASSUME NEW a \in Addr PROVE Newest(a)'
    <3>1. Newest(a)
      BY DEF Data
    <3>2. \A c : MStore(a, c)' = MStore(a, c)
      BY <1>1 DEF MStore
    <3>3. ASSUME NEW w \in Way, Holds(w, a)' PROVE shadow'[a] = MStore(a, data_ram'[w][a.idx])
      BY <1>1, <2>4, <3>1, <3>3 DEF Newest
    <3>4. ASSUME \A w \in Way : ~Holds(w, a)' PROVE shadow'[a] = MStore(a, mem'[a])
      <4>1. \A w \in Way : ~Holds(w, a)
        BY <2>4, <3>4
      <4>2. a # A
        BY <1>2, <2>1, <4>1
      <4>. QED
        BY <1>1, <2>3, <3>1, <4>1, <4>2 DEF Newest
    <3>. QED
      BY <3>2, <3>3, <3>4 DEF Newest
  <2>6. CleanLineIsMemory'
    <3>. SUFFICES ASSUME NEW w \in Way, NEW a \in Addr, Holds(w, a)',
                         ~tag_ram'[w][SetOf(a.idx)].dirty
                  PROVE  data_ram'[w][a.idx] = mem'[a]
      BY DEF CleanLineIsMemory
    <3>1. Holds(w, a) /\ ~tag_ram[w][SetOf(a.idx)].dirty
      BY <1>1, <2>4
    <3>2. a # A
      BY <1>1, <2>1, <3>1
    <3>3. data_ram[w][a.idx] = mem[a]
      BY <1>0, <3>1 DEF Data, CleanLineIsMemory
    <3>. QED
      BY <1>1, <2>3, <3>2, <3>3
  <2>7. \A i \in Index : SetOf(i) = evict_set_w /\ i < EvictBeat + 1 =>
             data_ram[replace_way][i] = mem'[At(evict_tag_w, i)]
    <3>. SUFFICES ASSUME NEW i \in Index, SetOf(i) = evict_set_w, i < EvictBeat + 1
                  PROVE  data_ram[replace_way][i] = mem'[At(evict_tag_w, i)]
      OBVIOUS
    <3>1. At(evict_tag_w, i) \in Addr /\ At(evict_tag_w, i).idx = i
      BY <1>2, AtAddr
    <3>2. CASE i = EvictBeat
      BY <2>3, <3>1, <3>2 DEF A
    <3>3. CASE i # EvictBeat
      <4>1. i < EvictBeat
        BY <1>1, <3>3, Params DEF Index
      <4>2. data_ram[replace_way][i] = mem[At(evict_tag_w, i)]
        BY <1>0, <4>1 DEF EvictData
      <4>3. At(evict_tag_w, i) # A
        BY <2>1, <3>1, <3>3
      <4>. QED
        BY <2>3, <3>1, <4>2, <4>3
    <3>. QED
      BY <3>2, <3>3
  <2>8. CASE /\ state' = "EVICT" /\ EvictBeat' = EvictBeat + 1 /\ EvictBeat' \in Index
             /\ data_out'[replace_way] = data_ram[replace_way][EvictBeat']
    <3>1. pmem_write_data_w' = data_out'[replace_way']
      BY <1>6 DEF pmem_write_data_w
    <3>2. data_ram'[replace_way'][EvictBeat'] = pmem_write_data_w'
      BY <1>1, <2>8, <3>1
    <3>3. \A i \in Index : SetOf(i) = evict_set_w' /\ i < EvictBeat' =>
             data_ram'[replace_way'][i] = mem'[At(evict_tag_w', i)]
      BY <1>1, <1>2, <2>7, <2>8
    <3>4. \A i : At(evict_tag_w, i)' = At(evict_tag_w', i)
      BY DEF At
    <3>5. EvictData'
      BY <3>2, <3>3, <3>4 DEF EvictData
    <3>. QED
      BY <1>3, <1>4, <2>5, <2>6, <2>8, <3>5 DEF Data
  <2>9. CASE state' = "EVICT_WAIT" /\ EvictBeat = LineStart(evict_set_w) + (Words - 1)
    <3>1. \A i \in Index : SetOf(i) = evict_set_w => i < EvictBeat + 1
      <4>. SUFFICES ASSUME NEW i \in Index, SetOf(i) = evict_set_w PROVE i < EvictBeat + 1
        OBVIOUS
      <4>1. i < LineStart(evict_set_w) + Words /\ LineStart(evict_set_w) \in Nat
        BY LineOfIndex
      <4>. QED
        BY <2>9, <4>1, Params
    <3>2. \A i \in Index : SetOf(i) = evict_set_w' =>
             data_ram'[replace_way'][i] = mem'[At(evict_tag_w', i)]
      BY <1>1, <1>2, <2>7, <3>1
    <3>3. \A i : At(evict_tag_w, i)' = At(evict_tag_w', i)
      BY DEF At
    <3>4. WaitData'
      BY <3>2, <3>3 DEF WaitData
    <3>. QED
      BY <1>3, <1>4, <2>5, <2>6, <2>9, <3>4 DEF Data
  <2>. QED
    BY <1>6, <2>8, <2>9, EvictStep
<1>. QED
  BY <1>5, <1>6, EvictStep

\* Marked clean or dropped, the line written back is memory's.
LEMMA WaitSettles ==
    ASSUME Control, Data, NEW r \in Requests, NEW accept \in BOOLEAN, NEW ack \in BOOLEAN,
           NEW err \in BOOLEAN, Clk(r, accept, ack, err), state = "EVICT_WAIT"
    PROVE  Data'
<1>0. TypeOK /\ NoDuplicateLine /\ WaitData
  BY DEF Control, Data
<1>1. /\ Control' /\ m' = m /\ shadow' = shadow /\ mem' = mem /\ data_ram' = data_ram
      /\ (flushing' <=> flushing) /\ flush_addr' = flush_addr /\ Evicting
  BY WaitStep
<1>2. /\ replace_way \in Way /\ evict_set_w \in Set /\ evict_tag_w \in Tag
      /\ evict_set_w = IF flushing THEN flush_addr ELSE MSet
  BY <1>0, Typed DEF evict_set_w, MSet
<1>3. m'.op # "invalidate"
  BY <1>1 DEF Data
\* What the line evicted holds, memory has.
<1>4. \A a \in Addr : Holds(replace_way, a) /\ SetOf(a.idx) = evict_set_w =>
         a.tag = evict_tag_w /\ data_ram[replace_way][a.idx] = mem[a]
  <2>. SUFFICES ASSUME NEW a \in Addr, Holds(replace_way, a), SetOf(a.idx) = evict_set_w
                PROVE  a.tag = evict_tag_w /\ data_ram[replace_way][a.idx] = mem[a]
    OBVIOUS
  <2>1. a.tag = evict_tag_w
    BY <1>1, <1>2 DEF Holds, Evicting, TagSeen, evict_tag_w
  <2>2. a.idx \in Index /\ a = At(evict_tag_w, a.idx)
    BY <2>1, AddrParts
  <2>. QED
    BY <1>0, <2>1, <2>2 DEF WaitData
<1>5. CASE /\ state' = "EVICT_WAIT" /\ tag_ram' = tag_ram /\ replace_way' = replace_way
           /\ \A w \in Way : tag_out'[w] = tag_out[w]
  <2>1. (\A a \in Addr : Newest(a)') /\ CleanLineIsMemory'
    BY <1>0, <1>1, <1>5, QuietData
  <2>2. evict_tag_w' = evict_tag_w /\ evict_set_w' = evict_set_w
    BY <1>1, <1>2, <1>5 DEF evict_tag_w, evict_set_w
  <2>3. WaitData'
    BY <1>0, <1>1, <1>5, <2>2 DEF WaitData
  <2>4. flushing' => \A s \in Set : s < flush_addr' => Cleared(s)'
    BY <1>1, <1>5 DEF Data, Cleared
  <2>. QED
    BY <1>3, <1>5, <2>1, <2>3, <2>4 DEF Data
<1>6. CASE /\ ~flushing /\ state' = "LOOKUP" /\ ForSync
           /\ \A w \in Way, s \in Set :
                 tag_ram'[w][s] = IF w = replace_way /\ s = MSet THEN tag_data_in
                                  ELSE tag_ram[w][s]
  <2>1. evict_set_w = MSet /\ evict_tag_w = m.addr.tag /\ m.op = "writeback"
    BY <1>2, <1>6 DEF ForSync, Hit, evict_tag_w
  <2>2. tag_data_in.valid /\ tag_data_in.tag = m.addr.tag
    BY <1>6 DEF tag_data_in
  <2>3. tag_ram[replace_way][MSet].valid /\ tag_ram[replace_way][MSet].tag = m.addr.tag
    BY <1>1, <1>2, <1>6, <2>1 DEF Evicting, TagSeen, ForSync, Hit
  <2>. HIDE DEF tag_data_in
  <2>4. \A w \in Way, a \in Addr : Holds(w, a)' <=> Holds(w, a)
    <3>. SUFFICES ASSUME NEW w \in Way, NEW a \in Addr PROVE Holds(w, a)' <=> Holds(w, a)
      OBVIOUS
    <3>1. SetOf(a.idx) \in Set
      BY AddrParts
    <3>2. state' # "REFILL"
      BY <1>6
    <3>. QED
      BY <1>6, <2>2, <2>3, <3>1, <3>2 DEF Holds, Refilling
  <2>5. \A w \in Way, a \in Addr :
              /\ Holds(w, a)' => Holds(w, a) /\ data_ram'[w][a.idx] = data_ram[w][a.idx]
              /\ Holds(w, a) /\ ~Holds(w, a)' => data_ram[w][a.idx] = mem[a]
              /\ Holds(w, a)' /\ ~tag_ram'[w][SetOf(a.idx)].dirty =>
                    ~tag_ram[w][SetOf(a.idx)].dirty \/ data_ram[w][a.idx] = mem[a]
    <3>. SUFFICES ASSUME NEW w \in Way, NEW a \in Addr, Holds(w, a),
                         ~tag_ram'[w][SetOf(a.idx)].dirty
                  PROVE  ~tag_ram[w][SetOf(a.idx)].dirty \/ data_ram[w][a.idx] = mem[a]
      BY <1>1, <2>4
    <3>1. SetOf(a.idx) \in Set
      BY AddrParts
    <3>2. CASE w = replace_way /\ SetOf(a.idx) = MSet
      BY <1>4, <2>1, <3>2
    <3>3. CASE ~(w = replace_way /\ SetOf(a.idx) = MSet)
      BY <1>6, <3>1, <3>3
    <3>. QED
      BY <3>2, <3>3
  <2>6. (\A a \in Addr : Newest(a)') /\ CleanLineIsMemory'
    BY <1>0, <1>1, <2>5, <1>6, KeepData
  <2>7. \A a \in Addr : InLine(a, m.addr.tag, MSet) => mem[a] = shadow[a]
    <3>. SUFFICES ASSUME NEW a \in Addr, InLine(a, m.addr.tag, MSet) PROVE mem[a] = shadow[a]
      OBVIOUS
    <3>1. Holds(replace_way, a)
      BY <2>3 DEF InLine, Holds, Refilling
    <3>2. data_ram[replace_way][a.idx] = mem[a]
      BY <1>4, <2>1, <3>1 DEF InLine
    <3>3. shadow[a] = data_ram[replace_way][a.idx]
      BY <1>2, <2>1, <3>1 DEF Data, Newest, MStore
    <3>. QED
      BY <3>2, <3>3
  <2>8. LookupData'
    BY <1>1, <2>1, <2>7 DEF LookupData, InLine, MSet
  <2>. QED
    BY <1>1, <1>3, <1>6, <2>6, <2>8 DEF Data
\* Where the line is dropped.
<1>7. ASSUME NEW s0 \in Set, s0 = evict_set_w, state' \in {"REFILL", "FLUSH_ADDR"},
             \A w \in Way, s \in Set : w # replace_way \/ s # s0 => tag_ram'[w][s] = tag_ram[w][s],
             \A a \in Addr : SetOf(a.idx) = s0 => \A w \in Way : w = replace_way => ~Holds(w, a)',
             state' = "REFILL" => replace_way' = replace_way /\ MSet = s0
      PROVE  (\A a \in Addr : Newest(a)') /\ CleanLineIsMemory'
  <2>1. \A w \in Way, a \in Addr :
              /\ Holds(w, a)' => Holds(w, a) /\ data_ram'[w][a.idx] = data_ram[w][a.idx]
              /\ Holds(w, a) /\ ~Holds(w, a)' => data_ram[w][a.idx] = mem[a]
              /\ Holds(w, a)' /\ ~tag_ram'[w][SetOf(a.idx)].dirty =>
                    ~tag_ram[w][SetOf(a.idx)].dirty \/ data_ram[w][a.idx] = mem[a]
    <3>. TAKE w \in Way, a \in Addr
    <3>1. SetOf(a.idx) \in Set
      BY AddrParts
    <3>2. CASE w = replace_way /\ SetOf(a.idx) = s0
      BY <1>4, <1>7, <3>2
    <3>3. CASE ~(w = replace_way /\ SetOf(a.idx) = s0)
      <4>1. tag_ram'[w][SetOf(a.idx)] = tag_ram[w][SetOf(a.idx)]
        BY <1>7, <3>1, <3>3
      <4>2. ~(Refilling(w, SetOf(a.idx))') /\ ~Refilling(w, SetOf(a.idx))
        BY <1>1, <1>7, <3>3 DEF Refilling, MSet
      <4>3. Holds(w, a)' <=> Holds(w, a)
        BY <4>1, <4>2 DEF Holds
      <4>. QED
        BY <1>1, <4>1, <4>3
    <3>. QED
      BY <3>2, <3>3
  <2>2. state' # "RESET"
    BY <1>7
  <2>. QED
    BY <1>0, <1>1, <2>1, <2>2, KeepData
<1>8. CASE /\ ~flushing /\ replace_way' = replace_way /\ state' = "REFILL" /\ ForMiss
           /\ \A w \in Way, s \in Set :
                 tag_ram'[w][s] = IF w = replace_way /\ s = MSet THEN tag_data_in
                                  ELSE tag_ram[w][s]
  <2>1. evict_set_w = MSet /\ MSet \in Set
    BY <1>0, <1>2, <1>8, Typed
  <2>2. \A a \in Addr : SetOf(a.idx) = MSet => \A w \in Way : w = replace_way => ~Holds(w, a)'
    BY <1>1, <1>8 DEF Holds, Refilling, MSet
  <2>3. \A w \in Way, s \in Set : w # replace_way \/ s # MSet => tag_ram'[w][s] = tag_ram[w][s]
    BY <1>8
  <2>4. (\A a \in Addr : Newest(a)') /\ CleanLineIsMemory'
    BY <1>7, <1>8, <2>1, <2>2, <2>3
  <2>5. data_write_addr' = LineStart(MSet) /\ MSet' = MSet
    BY <1>1, <1>8, ClkParts DEF DataClk, Entering, MSet
  <2>6. RefillData'
    <3>. SUFFICES ASSUME NEW i \in Index, SetOf(i) = MSet, i < LineStart(MSet) PROVE FALSE
      BY <2>5 DEF RefillData
    <3>1. i >= LineStart(SetOf(i)) /\ LineStart(SetOf(i)) \in Nat /\ i \in Nat
      BY LineOfIndex, Params DEF Index
    <3>. QED
      BY <3>1
  <2>. QED
    BY <1>1, <1>3, <1>8, <2>4, <2>6 DEF Data
<1>9. CASE /\ flushing /\ state' = "FLUSH_ADDR"
           /\ \A w \in Way, s \in Set :
                 tag_ram'[w][s] = IF w = replace_way /\ s = flush_addr THEN NoTag
                                  ELSE tag_ram[w][s]
  <2>1. evict_set_w = flush_addr /\ flush_addr \in Set
    BY <1>0, <1>2, <1>9, Typed
  <2>2. ~NoTag.valid
    BY DEF NoTag
  <2>3. \A a \in Addr : SetOf(a.idx) = flush_addr => \A w \in Way : w = replace_way => ~Holds(w, a)'
    BY <1>9, <2>1, <2>2 DEF Holds
  <2>4. \A w \in Way, s \in Set : w # replace_way \/ s # flush_addr => tag_ram'[w][s] = tag_ram[w][s]
    BY <1>9
  <2>5. (\A a \in Addr : Newest(a)') /\ CleanLineIsMemory'
    BY <1>7, <1>9, <2>1, <2>3, <2>4
  <2>6. \A s \in Set : s < flush_addr' => Cleared(s)'
    <3>1. \A s \in Set : Cleared(s) => Cleared(s)'
      BY <1>9, <2>2 DEF Cleared
    <3>. QED
      BY <1>1, <1>9, <3>1 DEF Data
  <2>. QED
    BY <1>3, <1>9, <2>5, <2>6 DEF Data
<1>. QED
  BY <1>5, <1>6, <1>8, <1>9, WaitStep

\* A writeback that finds no dirty copy finds memory up to date.
LEMMA WritebackData ==
    ASSUME Control, Data, NEW r \in Requests, NEW accept \in BOOLEAN, NEW ack \in BOOLEAN,
           NEW err \in BOOLEAN, Clk(r, accept, ack, err), state = "WRITEBACK"
    PROVE  Data'
<1>0. TypeOK /\ WritebackPhase /\ TagSeen(MSet) /\ NoDuplicateLine
  BY DEF Control, Phases, WritebackPhase
<1>1. /\ Control' /\ mem' = mem /\ m' = m /\ shadow' = shadow /\ tag_ram' = tag_ram
      /\ ~flushing' /\ state' = IF HitAndDirty THEN "EVICT" ELSE "LOOKUP"
  BY WritebackStep
<1>2. data_ram' = data_ram
  <2>1. \A w \in Way : data_write_m(w, ack) = {}
    BY DEF data_write_m
  <2>2. mem[BusAddr(bus)] \in Word
    BY <1>0, Typed
  <2>. QED
    BY <1>0, <2>1, <2>2, DataKept, ClkParts
<1>3. (\A a \in Addr : Newest(a)') /\ CleanLineIsMemory'
  BY <1>0, <1>1, <1>2, QuietData
<1>4. m'.op # "invalidate" /\ m.op = "writeback" /\ m'.op = "writeback"
  BY <1>0, <1>1 DEF WritebackPhase
<1>5. CASE HitAndDirty
  <2>1. state' = "EVICT"
    BY <1>1, <1>5
  <2>2. evict_set_w' = MSet /\ replace_way' \in Way
    BY <1>1, Typed DEF evict_set_w, MSet, Control, TypeOK
  <2>3. EvictData'
    BY <1>0, <1>2, <2>1, <2>2, EnterEvictData DEF WritebackPhase
  <2>. QED
    BY <1>1, <1>3, <1>4, <2>1, <2>3 DEF Data
<1>6. CASE ~HitAndDirty
  <2>1. state' = "LOOKUP"
    BY <1>1, <1>6
  <2>2. \A a \in Addr : InLine(a, m.addr.tag, MSet) => mem[a] = shadow[a]
    <3>. SUFFICES ASSUME NEW a \in Addr, InLine(a, m.addr.tag, MSet) PROVE mem[a] = shadow[a]
      OBVIOUS
    <3>1. Newest(a)
      BY <1>0 DEF Data
    <3>2. ASSUME NEW w \in Way, Holds(w, a) PROVE data_ram[w][a.idx] = mem[a]
      <4>1. Hit(w) /\ tag_out[w] = tag_ram[w][SetOf(a.idx)]
        BY <1>0, <3>2 DEF Holds, InLine, TagSeen, Hit
      <4>2. ~tag_ram[w][SetOf(a.idx)].dirty
        BY <1>6, <4>1 DEF HitAndDirty, Dirty, Hit
      <4>. QED
        BY <1>0, <3>2, <4>2 DEF Data, CleanLineIsMemory
    <3>3. \A c : MStore(a, c) = c
      BY <1>4 DEF MStore
    <3>. QED
      BY <3>1, <3>2, <3>3 DEF Newest
  <2>3. LookupData'
    BY <1>1, <1>4, <2>2 DEF LookupData, InLine, MSet
  <2>. QED
    BY <1>1, <1>3, <1>4, <2>1, <2>3 DEF Data
<1>. QED
  BY <1>5, <1>6

\* Reading the next set changes no word.
LEMMA FlushAddrData ==
    ASSUME Control, Data, NEW r \in Requests, NEW accept \in BOOLEAN, NEW ack \in BOOLEAN,
           NEW err \in BOOLEAN, Clk(r, accept, ack, err), state = "FLUSH_ADDR"
    PROVE  Data'
<1>0. TypeOK /\ flushing
  BY DEF Control, Phases, FlushAddrPhase
<1>1. /\ mem' = mem /\ m' = m /\ shadow' = shadow /\ tag_ram' = tag_ram
      /\ state' = "FLUSH" /\ flushing' /\ flush_addr' = flush_addr
  BY FlushAddrStep
<1>2. data_ram' = data_ram
  <2>1. \A w \in Way : data_write_m(w, ack) = {}
    BY DEF data_write_m
  <2>2. mem[BusAddr(bus)] \in Word
    BY <1>0, Typed
  <2>. QED
    BY <1>0, <2>1, <2>2, DataKept, ClkParts
<1>3. (\A a \in Addr : Newest(a)') /\ CleanLineIsMemory'
  BY <1>0, <1>1, <1>2, QuietData
<1>4. \A s \in Set : s < flush_addr' => Cleared(s)'
  BY <1>0, <1>1 DEF Data, Cleared
<1>. QED
  BY <1>1, <1>3, <1>4 DEF Data

\* The sweep drops clean lines only; after the last set memory is what the
\* processor stored.
LEMMA FlushData ==
    ASSUME Control, Data, NEW r \in Requests, NEW accept \in BOOLEAN, NEW ack \in BOOLEAN,
           NEW err \in BOOLEAN, Clk(r, accept, ack, err), state = "FLUSH"
    PROVE  Data'
<1>0. TypeOK /\ FlushPhase /\ flushing /\ m.op = "flush"
  BY DEF Control, Phases, FlushPhase
<1>1. Control' /\ mem' = mem /\ m' = m /\ shadow' = shadow
  BY FlushStep
<1>2. data_ram' = data_ram
  <2>1. \A w \in Way : data_write_m(w, ack) = {}
    BY DEF data_write_m
  <2>2. mem[BusAddr(bus)] \in Word
    BY <1>0, Typed
  <2>. QED
    BY <1>0, <2>1, <2>2, DataKept, ClkParts
<1>3. m'.op # "invalidate" /\ m'.op = "flush"
  BY <1>0, <1>1
<1>4. CASE /\ state' \in {"EVICT", "FLUSH"} /\ tag_ram' = tag_ram
           /\ flushing' /\ flush_addr' = flush_addr
  <2>1. (\A a \in Addr : Newest(a)') /\ CleanLineIsMemory'
    BY <1>0, <1>1, <1>2, <1>4, QuietData
  <2>2. \A s \in Set : s < flush_addr' => Cleared(s)'
    BY <1>0, <1>4 DEF Data, Cleared
  <2>3. state' = "EVICT" => EvictData'
    <3>1. evict_set_w' = flush_addr /\ replace_way' \in Way
      BY <1>1, <1>4 DEF evict_set_w, Control, TypeOK
    <3>. QED
      BY <1>0, <1>2, <3>1, EnterEvictData DEF FlushPhase
  <2>. QED
    BY <1>3, <1>4, <2>1, <2>2, <2>3 DEF Data
<1>5. CASE /\ ~DirtyAny
           /\ \A w \in Way, s \in Set :
                tag_ram'[w][s] = IF s = flush_addr THEN NoTag ELSE tag_ram[w][s]
           /\ \/ state' = "LOOKUP" /\ ~flushing' /\ flush_addr = Sets - 1
              \/ state' = "FLUSH_ADDR" /\ flushing' /\ flush_addr' = flush_addr + 1
  <2>1. ~NoTag.valid /\ flush_addr \in Set
    BY <1>0, Typed DEF NoTag
  <2>2. \A w \in Way, a \in Addr : Holds(w, a)' <=> Holds(w, a) /\ SetOf(a.idx) # flush_addr
    <3>. SUFFICES ASSUME NEW w \in Way, NEW a \in Addr
                  PROVE  Holds(w, a)' <=> Holds(w, a) /\ SetOf(a.idx) # flush_addr
      OBVIOUS
    <3>1. SetOf(a.idx) \in Set /\ state' # "REFILL"
      BY <1>5, AddrParts
    <3>. QED
      BY <1>5, <2>1, <3>1 DEF Holds, Refilling
  <2>3. \A w \in Way, a \in Addr :
              /\ Holds(w, a)' => Holds(w, a) /\ data_ram'[w][a.idx] = data_ram[w][a.idx]
              /\ Holds(w, a) /\ ~Holds(w, a)' => data_ram[w][a.idx] = mem[a]
              /\ Holds(w, a)' /\ ~tag_ram'[w][SetOf(a.idx)].dirty =>
                    ~tag_ram[w][SetOf(a.idx)].dirty \/ data_ram[w][a.idx] = mem[a]
    <3>. TAKE w \in Way, a \in Addr
    <3>1. SetOf(a.idx) \in Set
      BY AddrParts
    <3>2. ASSUME Holds(w, a), SetOf(a.idx) = flush_addr PROVE data_ram[w][a.idx] = mem[a]
      <4>1. ~tag_ram[w][SetOf(a.idx)].dirty
        BY <1>0, <1>5, <3>2 DEF DirtyAny, Dirty, FlushPhase, TagSeen, Holds
      <4>. QED
        BY <1>0, <3>2, <4>1 DEF Data, CleanLineIsMemory
    <3>3. Holds(w, a)' => tag_ram'[w][SetOf(a.idx)] = tag_ram[w][SetOf(a.idx)]
      BY <1>5, <2>2, <3>1
    <3>. QED
      BY <1>2, <2>2, <3>2, <3>3
  <2>4. (\A a \in Addr : Newest(a)') /\ CleanLineIsMemory'
    <3>1. state' # "RESET"
      BY <1>5
    <3>. QED
      BY <1>0, <1>1, <2>3, <3>1, KeepData
  <2>5. \A s \in Set : s < flush_addr + 1 => Cleared(s)'
    <3>. SUFFICES ASSUME NEW s \in Set, s < flush_addr + 1 PROVE Cleared(s)'
      OBVIOUS
    <3>1. s = flush_addr \/ s < flush_addr
      BY <2>1, Params DEF Set
    <3>2. CASE s = flush_addr
      BY <1>5, <2>1, <3>2 DEF Cleared
    <3>3. CASE s < flush_addr
      <4>1. Cleared(s)
        BY <1>0, <3>3 DEF Data
      <4>. QED
        BY <1>5, <2>1, <4>1 DEF Cleared
    <3>. QED
      BY <3>1, <3>2, <3>3
  <2>6. CASE state' = "FLUSH_ADDR" /\ flushing' /\ flush_addr' = flush_addr + 1
    BY <1>3, <2>4, <2>5, <2>6 DEF Data
  <2>7. CASE state' = "LOOKUP" /\ ~flushing' /\ flush_addr = Sets - 1
    <3>1. \A s \in Set : Cleared(s)'
      <4>. SUFFICES ASSUME NEW s \in Set PROVE s < flush_addr + 1
        BY <2>5
      <4>. QED
        BY <2>7, Params DEF Set
    <3>2. mem' = shadow'
      <4>1. \A a \in Addr : mem'[a] = shadow'[a]
        <5>. SUFFICES ASSUME NEW a \in Addr PROVE mem'[a] = shadow'[a]
          OBVIOUS
        <5>1. SetOf(a.idx) \in Set
          BY AddrParts
        <5>2. \A w \in Way : ~Holds(w, a)'
          BY <3>1, <5>1 DEF Holds, Cleared
        <5>3. Newest(a)'
          BY <2>4
        <5>4. shadow'[a] = MStore(a, mem[a])'
          BY <5>2, <5>3 DEF Newest
        <5>. QED
          BY <1>3, <5>4 DEF MStore
      <4>2. mem' \in [Addr -> Word] /\ shadow' \in [Addr -> Word]
        BY <1>1 DEF Control, TypeOK
      <4>. QED
        BY <4>1, <4>2
    <3>3. LookupData'
      BY <1>3, <3>1, <3>2 DEF LookupData
    <3>. QED
      BY <1>3, <2>4, <2>7, <3>3 DEF Data
  <2>. QED
    BY <1>5, <2>6, <2>7
<1>. QED
  BY <1>4, <1>5, FlushStep

\* While the tags are cleared memory is all there is.
LEMMA ResetData ==
    ASSUME Control, Data, NEW r \in Requests, NEW accept \in BOOLEAN, NEW ack \in BOOLEAN,
           NEW err \in BOOLEAN, Clk(r, accept, ack, err), state = "RESET"
    PROVE  Data'
<1>0. TypeOK /\ ResetPhase /\ m.op = "none"
  BY DEF Control, Phases, ResetPhase
<1>1. state' = (IF flush_last THEN "LOOKUP" ELSE "RESET") /\ m' = m /\ shadow' = shadow
  BY <1>0, HeldStep, ClkParts DEF next_state
<1>2. mem' = mem /\ mem' = shadow'
  <2>1. mem' = mem
    BY <1>0, <1>1, CalmStep DEF ResetPhase
  <2>. QED
    BY <1>1, <2>1 DEF Data
<1>3. ~flushing'
  BY <1>0, <1>1, ClkParts DEF FlushClk, ResetPhase
<1>4. m'.op = "none"
  BY <1>0, <1>1
<1>5. CASE ~flush_last
  BY <1>1, <1>2, <1>3, <1>4, <1>5 DEF Data, CleanLineIsMemory
<1>6. CASE flush_last
  <2>1. tag_data_in = NoTag /\ ~NoTag.valid
    BY DEF tag_data_in, NoTag
  <2>2. \A w \in Way, s \in Set : ~tag_ram'[w][s].valid
    <3>1. \A w \in Way, s \in Set : tag_ram'[w][s] = NoTag \/ tag_ram'[w][s] = tag_ram[w][s]
      BY <1>0, <2>1, TagEdge, ClkParts
    <3>2. \A w \in Way, s \in Set : ~tag_ram[w][s].valid
      BY <1>0, <1>6 DEF ResetPhase, Cleared
    <3>. QED
      BY <2>1, <3>1, <3>2
  <2>3. \A w \in Way, a \in Addr : ~(Holds(w, a)')
    BY <2>2, AddrParts DEF Holds
  <2>4. \A a \in Addr : Newest(a)'
    BY <1>2, <1>4, <2>3 DEF Newest, MStore
  <2>5. CleanLineIsMemory'
    BY <2>3 DEF CleanLineIsMemory
  <2>6. LookupData'
    BY <1>4 DEF LookupData
  <2>. QED
    BY <1>1, <1>3, <1>4, <1>6, <2>4, <2>5, <2>6 DEF Data
<1>. QED
  BY <1>5, <1>6

-----------------------------------------------------------------------------

\* The invariant holds at power up.
LEMMA InitInv == Init => Inv
<1>. SUFFICES ASSUME Init PROVE Data
  BY InitControl DEF Inv
<1>. QED
  BY DEF Init, Data, CleanLineIsMemory, NoReq

\* Without invalidates every step keeps it.
LEMMA NextInv == NoInvalidate /\ Inv /\ [Next]_vars => Inv'
<1>. SUFFICES ASSUME NoInvalidate, Control, Data, [Next]_vars PROVE Data'
  BY NextControl DEF Inv
<1>1. CASE Tick
  <2>1. PICK r \in Requests, accept \in BOOLEAN, ack \in BOOLEAN, err \in Errors :
            Clk(r, accept, ack, err)
    BY <1>1 DEF Tick
  <2>2. err \in BOOLEAN
    BY ErrorFlags
  <2>3. state \in {"RESET", "FLUSH_ADDR", "FLUSH", "LOOKUP", "READ", "WRITE",
                  "REFILL", "EVICT", "EVICT_WAIT", "WRITEBACK"}
    BY DEF Control, TypeOK, Data
  <2>. QED
    BY <2>1, <2>2, <2>3, ResetData, FlushAddrData, FlushData, LookupMissData, LookupServeData,
       ReadData, WriteData, RefillFills, EvictWrites, WaitSettles, WritebackData
<1>2. CASE Reset
  BY <1>2 DEF Reset, Data, CleanLineIsMemory, NoReq
<1>3. CASE UNCHANGED vars
  <2>1. UNCHANGED <<fsm_vars, ram_vars, pmem_vars, env_vars>>
    BY <1>3 DEF vars
  <2>2. \A w, a : Holds(w, a)' <=> Holds(w, a)
    BY <2>1 DEF fsm_vars, ram_vars, Holds, Refilling
  <2>3. \A a : Newest(a)' <=> Newest(a)
    BY <2>1, <2>2 DEF fsm_vars, ram_vars, env_vars, Newest, MStore
  <2>4. /\ MSet' = MSet /\ evict_set_w' = evict_set_w /\ evict_tag_w' = evict_tag_w
        /\ EvictBeat' = EvictBeat /\ pmem_write_data_w' = pmem_write_data_w
    BY <2>1 DEF fsm_vars, ram_vars, pmem_vars, env_vars, MSet, evict_set_w, evict_tag_w,
                EvictBeat, pmem_write_data_w
  <2>5. \A s : Cleared(s)' <=> Cleared(s)
    BY <2>1 DEF ram_vars, Cleared
  <2>6. CleanLineIsMemory'
    BY <2>1, <2>2 DEF fsm_vars, ram_vars, env_vars, Data, CleanLineIsMemory
  <2>7. LookupData => LookupData'
    <3>1. \A w : Hit(w)' <=> Hit(w)
      BY <2>1 DEF fsm_vars, ram_vars, Hit
    <3>. QED
      BY <2>1, <2>4, <2>5, <3>1 DEF fsm_vars, ram_vars, env_vars, LookupData
  <2>8. RefillData => RefillData'
    BY <2>1, <2>4 DEF fsm_vars, ram_vars, env_vars, RefillData
  <2>9. EvictData => EvictData'
    BY <2>1, <2>4 DEF fsm_vars, ram_vars, env_vars, EvictData
  <2>10. WaitData => WaitData'
    BY <2>1, <2>4 DEF fsm_vars, ram_vars, env_vars, WaitData
  <2>11. UNCHANGED <<state, mem, shadow, flushing, flush_addr, m>>
    BY <2>1 DEF fsm_vars, env_vars
  <2>. QED
    BY <2>3, <2>5, <2>6, <2>7, <2>8, <2>9, <2>10, <2>11 DEF Data
<1>. QED
  BY <1>1, <1>2, <1>3 DEF Next

\* Without invalidates it always holds.
LEMMA InvCorrect == ASSUME NoInvalidate PROVE Spec => []Inv
<1>1. Inv /\ [Next]_vars => Inv'
  BY NextInv
<1>. QED
  BY <1>1, InitInv, PTL DEF Spec

\* The control invariant says that both ends of the bus are at the same beat.
LEMMA ControlBeats == Control => BeatsInStep
<1>. SUFFICES ASSUME Control PROVE BeatsInStep
  OBVIOUS
<1>0. TypeOK /\ Phases
  BY DEF Control
<1>1. state \in {"RESET", "FLUSH_ADDR", "FLUSH", "LOOKUP", "READ", "WRITE",
                  "REFILL", "EVICT", "EVICT_WAIT", "INVALIDATE", "WRITEBACK"}
  BY <1>0 DEF TypeOK
<1>2. CASE state \notin {"REFILL", "EVICT", "EVICT_WAIT"}
  <2>1. Calm
    BY <1>0, <1>1, <1>2 DEF Phases, ResetPhase, LookupPhase, ReadPhase, WritePhase,
       InvalidatePhase, WritebackPhase, FlushAddrPhase, FlushPhase
  <2>. QED
    BY <1>2, <2>1 DEF BeatsInStep, Calm
<1>3. CASE state = "REFILL"
  <2>1. RefillPhase
    BY <1>0, <1>3 DEF Phases
  <2>2. bus.kind = "read" => SetOf(bus.idx) = MSet
    <3>. SUFFICES ASSUME bus.kind = "read" PROVE SetOf(bus.idx) = MSet
      OBVIOUS
    <3>1. bus.left \in 1 .. Words /\ bus.idx = LineStart(MSet) + (Words - bus.left)
      BY <2>1 DEF RefillPhase
    <3>. QED
      BY <1>0, <3>1, LineEnds, Typed
  <2>. QED
    BY <1>3, <2>1, <2>2 DEF BeatsInStep, RefillPhase, MSet
<1>4. CASE state = "EVICT"
  <2>1. EvictPhase
    BY <1>0, <1>4 DEF Phases
  <2>2. bus.kind = "write" => SetOf(bus.idx) = evict_set_w
    <3>. SUFFICES ASSUME bus.kind = "write" PROVE SetOf(bus.idx) = evict_set_w
      OBVIOUS
    <3>1. bus.left \in 1 .. Words /\ bus.idx = LineStart(evict_set_w) + (Words - bus.left)
      BY <2>1 DEF EvictPhase
    <3>. QED
      BY <1>0, <3>1, LineEnds, Typed
  <2>. QED
    BY <1>4, <2>1, <2>2 DEF BeatsInStep, EvictPhase
<1>5. CASE state = "EVICT_WAIT"
  BY <1>0, <1>5 DEF Phases, WaitPhase, BeatsInStep
<1>. QED
  BY <1>1, <1>2, <1>3, <1>4, <1>5

\* The cache asks for a burst only when none is open, counts the beats to come
\* as the bus does and fills the words the bus sends, for every set of
\* operations.
THEOREM BeatsInStepCorrect == Spec => []BeatsInStep
BY ControlCorrect, ControlBeats, PTL

\* The invariant of the words says that no store is lost.
LEMMA DataNothingLost == Data => NothingLost
<1>. SUFFICES ASSUME Data, state # "RESET", NEW a \in Addr,
                     NEW c \in IF Copies(a) = {} THEN {mem[a]} ELSE Copies(a)
              PROVE  shadow[a] = MStore(a, c)
  BY DEF NothingLost, MStore
<1>1. Newest(a)
  BY DEF Data
<1>2. CASE Copies(a) = {}
  <2>1. \A w \in Way : ~Holds(w, a)
    BY <1>2 DEF Copies
  <2>. QED
    BY <1>1, <1>2, <2>1 DEF Newest
<1>3. CASE Copies(a) # {}
  <2>1. PICK w \in Way : Holds(w, a) /\ c = data_ram[w][a.idx]
    BY <1>3 DEF Copies
  <2>. QED
    BY <1>1, <2>1 DEF Newest
<1>. QED
  BY <1>2, <1>3

\* Without invalidates: registers of their types, every store in the newest
\* copy of its word, one copy of a line, clean lines equal to memory, and both
\* ends of the bus at the same beat.
THEOREM CacheInvCorrect == ASSUME NoInvalidate PROVE Spec => []CacheInv
<1>1. Inv => CacheInv
  BY DataNothingLost, ControlBeats DEF Inv, Control, CacheInv, Data
<1>. QED
  BY <1>1, InvCorrect, PTL

\* Without invalidates a load is answered with what was last stored to its word
\* (mem_data_rd_o of dcache_core.v), across hits, evictions, refills,
\* writebacks, flushes and resets.
THEOREM LoadReturnsLastStoreCorrect == ASSUME NoInvalidate PROVE Spec => []LoadReturnsLastStore
<1>1. Inv => LoadReturnsLastStore
  <2>. SUFFICES ASSUME Inv, mem_ack_o, m.op = "load" PROVE mem_data_rd_o = shadow[m.addr]
    BY DEF LoadReturnsLastStore
  <2>1. TypeOK /\ state = "LOOKUP" /\ HitAny /\ TagSeen(MSet) /\ LookupData /\ Newest(m.addr)
    BY Typed DEF Inv, Control, Data, Phases, LookupPhase, mem_ack_o, IsAccess
  <2>2. PICK w \in Way : Hit(w) /\ mem_data_rd_o = data_out[w]
    <3>1. 0 \in Way /\ 1 \in Way /\ \A w \in Way : w = 0 \/ w = 1
      BY DEF Way
    <3>2. CASE Hit(0)
      BY <3>1, <3>2 DEF mem_data_rd_o
    <3>3. CASE ~Hit(0)
      <4>1. Hit(1)
        BY <2>1, <3>1, <3>3 DEF HitAny
      <4>. QED
        BY <3>1, <3>3, <4>1 DEF mem_data_rd_o
    <3>. QED
      BY <3>2, <3>3
  <2>3. data_out[w] = data_ram[w][m.addr.idx]
    BY <2>1, <2>2 DEF LookupData
  <2>4. Holds(w, m.addr)
    BY <2>1, <2>2 DEF Holds, TagSeen, Hit, MSet, Refilling
  <2>5. shadow[m.addr] = data_ram[w][m.addr.idx]
    BY <2>1, <2>4 DEF Newest, MStore
  <2>. QED
    BY <2>2, <2>3, <2>5
<1>. QED
  BY <1>1, InvCorrect, PTL

\* Without invalidates a flush is answered with memory up to date and the cache
\* empty, and a writeback with the words of its line in memory.
THEOREM SyncReachesMemoryCorrect == ASSUME NoInvalidate PROVE Spec => []SyncReachesMemory
<1>1. Inv => SyncReachesMemory
  <2>. SUFFICES ASSUME Inv, mem_ack_o PROVE
            /\ m.op = "flush" =>
               /\ mem = shadow
               /\ \A w \in Way, s \in Set : ~tag_ram[w][s].valid
            /\ m.op = "writeback" =>
               \A i \in LineOf(m.addr.idx) :
                   LET a == [tag |-> m.addr.tag, idx |-> i] IN mem[a] = shadow[a]
    BY DEF SyncReachesMemory
  <2>1. TypeOK /\ LookupData
    BY DEF Inv, Control, Data, mem_ack_o
  <2>2. m.op = "flush" => mem = shadow /\ \A w \in Way, s \in Set : ~tag_ram[w][s].valid
    BY <2>1 DEF LookupData, Cleared
  <2>3. ASSUME m.op = "writeback", NEW i \in LineOf(m.addr.idx)
        PROVE  mem[At(m.addr.tag, i)] = shadow[At(m.addr.tag, i)]
    <3>1. MSet \in Set /\ LineStart(MSet) \in Int /\ m.addr.tag \in Tag
      BY <2>1, Typed, Params DEF LineStart, Set
    <3>2. i \in Int /\ i - LineStart(MSet) \in 0 .. Words - 1
      BY <2>3, <3>1, Params DEF LineOf, MSet
    <3>3. i = LineStart(MSet) + (i - LineStart(MSet))
      BY <3>1, <3>2
    <3>4. i \in Index /\ SetOf(i) = MSet
      BY <3>1, <3>2, <3>3, IndexOfLine
    <3>5. At(m.addr.tag, i) \in Addr /\ InLine(At(m.addr.tag, i), m.addr.tag, MSet)
      BY <3>1, <3>4, AtAddr DEF InLine
    <3>. QED
      BY <2>1, <2>3, <3>5 DEF LookupData
  <2>. QED
    BY <2>2, <2>3 DEF At
<1>. QED
  BY <1>1, InvCorrect, PTL
=============================================================================
