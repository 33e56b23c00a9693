------------------------------ MODULE TbProofs ------------------------------
(***************************************************************************)
(* Proofs about the test benches.  The AXI memory of the cache test bench  *)
(* (TbAxi.tla): for every set of transactions and every sequence of delays *)
(* it is a slave as AxiBridge assumes it, so that what is proved of the    *)
(* bridge holds in front of it; its assertion that data never comes before *)
(* a command holds; and a read returns of the watched byte what the last   *)
(* write to it left. The invariant adds to that of the bridge              *)
(* (AxiBridgeProofs) which beats the two queues hold and what the beats    *)
(* written so far have left.                                               *)
(*                                                                         *)
(* The benches around it (TbBench.tla): for every number of clock edges,   *)
(* every order of the processes of a delta cycle and every entry point the *)
(* wrapper is a wire, the processor starts where it should, and the        *)
(* waveform file is closed once. The invariant says which delta cycle of   *)
(* an edge it is, and of which edge ports and pins have the values.        *)
(***************************************************************************)
EXTENDS TbAxi, AxiBridgeProofs, TbBench

\* Where beat k of a burst goes that starts at address first: the recursion of
\* calc_next_addr in one formula.
ItemAddr(first, burst, len, k) ==
    LET total == calc_wrap_mask(len) + 1
    IN  CASE burst = "INCR" -> first + 4 * k
          [] burst = "FIXED" -> first
          [] burst = "WRAP" -> first - (first % total) + (((first % total) + 4 * k) % total)

\* A read starts at the word of its address, a write at its address.
ReadAddr(t, k)  == ItemAddr(High(t.addr, 3), t.burst, t.len, k)
WriteAddr(t, k) == ItemAddr(t.addr, t.burst, t.len, k)

ReadItem  == [addr : Nat, last : BOOLEAN]
WriteItem == [addr : Nat, beat : Nat, strb : SUBSET (0 .. 3), last : BOOLEAN]

\* The read queue q holds the last n beats of the transaction t.
ReadsQueued(t, q, n) ==
    /\ q \in Seq(ReadItem) /\ Len(q) = n
    /\ \A i \in 1 .. n : q[i].addr = ReadAddr(t, t.len + i - n) /\ (q[i].last <=> i = n)

\* The write queue q holds the newest of the beats w, which end with the last one
\* of the transaction only if that is still in the queue.
WritesQueued(t, q, w) ==
    /\ q \in Seq(WriteItem) /\ Len(q) <= Len(w) /\ Len(w) <= t.len + 1
    /\ \A i \in 1 .. Len(q) :
         LET k == Len(w) - Len(q) + i - 1
         IN  /\ q[i].addr = WriteAddr(t, k) /\ q[i].beat = k /\ q[i].strb = t.strb
             /\ q[i].last <=> k = t.len
    /\ (Len(w) = t.len + 1 => q # <<>>)

\* The command is there from the address to the last beat, and knows where the
\* next beat goes.
CommandHeld(t, req, aw, w) ==
    /\ req \in [valid : BOOLEAN, addr : Nat]
    /\ aw = <<>> => w = <<>>
    /\ req.valid <=> aw # <<>> /\ Len(w) <= t.len
    /\ req.valid => req.addr = WriteAddr(t, Len(w))

TbTypes ==
    /\ tx \in [kind : {"read", "write"}, len : Lens \cup {0}, addr : Nat, burst : Bursts,
               strb : SUBSET (0 .. 3), tag : {"odd", "even"}]
    /\ cur.kind # "none" => tx.kind = cur.kind /\ tx.len = cur.len
    /\ resp \in {"none", "b", "r", "rlast"}

\* The inductive invariant.
TbInv ==
    /\ Inv /\ TbTypes
    /\ ReadsQueued(tx, rd_q, s_r) /\ WritesQueued(tx, wr_q, s_w)
    /\ CommandHeld(tx, wr_req, s_aw, s_w)
    /\ ready.w => ready.aw \/ wr_req.valid

\* The test bench writes words and bytes of words, and its wrapping bursts have
\* lengths that AXI allows.
WordWrites == \A t \in Transfers : t.kind = "write" => t.addr % 4 = 0
LegalWraps == \A t \in Transfers : t.burst = "WRAP" => t.len \in {0, 1, 3, 7, 15}

\* So does the transaction in progress.
LegalTx == /\ tx.kind = "write" => tx.addr % 4 = 0
           /\ tx.burst = "WRAP" => tx.len \in {0, 1, 3, 7, 15}

\* Beat k of the transaction t is the last of the first n that writes the byte.
LastHit(t, k, n) == k \in Hits(t) /\ k < n /\ \A y \in Hits(t) : y < n => y <= k
LeftBy(t, k) == Value(t.tag, k, watch - BeatAddr(t, k))

\* n beats of the write t are in memory: b is there, w will be.
WrittenTo(t, n, b, w) ==
    /\ Hits(t) = {} => b = w
    /\ \A k \in 0 .. t.len : /\ LastHit(t, k, t.len + 1) => w = LeftBy(t, k)
                             /\ LastHit(t, k, n) => b = LeftBy(t, k)

\* The invariant of the data.
DataInv ==
    /\ LegalTx
    /\ cur.kind # "write" \/ resp = "b" => byte = want
    /\ cur.kind = "write" /\ resp = "none" => WrittenTo(tx, Len(s_w) - Len(wr_q), byte, want)
    /\ resp \in {"r", "rlast"} => rdata = read32(BeatAddr(tx, cur.got))

-----------------------------------------------------------------------------

\* The masks of wrapping bursts, plus one.
WrapSizes == {4, 8, 16, 32, 64}

\* The mask of a wrapping burst is one less than the size of its window.
LEMMA MaskType == \A len : calc_wrap_mask(len) + 1 \in WrapSizes
BY DEF calc_wrap_mask, WrapSizes

\* A wrapping burst advances by a word within its window.
LEMMA WrapAdvances ==
    ASSUME NEW total \in WrapSizes, NEW f \in Nat, NEW k \in Nat, NEW a,
           a = f - (f % total) + (((f % total) + 4 * k) % total)
    PROVE  a \in Nat /\ a - (a % total) + ((a + 4) % total)
                          = f - (f % total) + (((f % total) + 4 * (k + 1)) % total)
<1>1. CASE total = 4
  BY <1>1
<1>2. CASE total = 8
  BY <1>2
<1>3. CASE total = 16
  BY <1>3
<1>4. CASE total = 32
  BY <1>4
<1>5. CASE total = 64
  BY <1>5
<1>. QED
  BY <1>1, <1>2, <1>3, <1>4, <1>5 DEF WrapSizes

\* It starts at its first address.
LEMMA WrapStarts ==
    ASSUME NEW total \in WrapSizes, NEW f \in Nat
    PROVE  f - (f % total) + (((f % total) + 4 * 0) % total) = f
<1>1. CASE total = 4
  BY <1>1
<1>2. CASE total = 8
  BY <1>2
<1>3. CASE total = 16
  BY <1>3
<1>4. CASE total = 32
  BY <1>4
<1>5. CASE total = 64
  BY <1>5
<1>. QED
  BY <1>1, <1>2, <1>3, <1>4, <1>5 DEF WrapSizes

\* The memory's next address is that of the next beat.
LEMMA NextItem ==
    ASSUME NEW f \in Nat, NEW burst \in Bursts, NEW len, NEW k \in Nat
    PROVE  /\ ItemAddr(f, burst, len, k) \in Nat
           /\ calc_next_addr(ItemAddr(f, burst, len, k), burst, len)
                = ItemAddr(f, burst, len, k + 1)
<1>1. CASE burst = "INCR"
  BY <1>1 DEF ItemAddr, calc_next_addr
<1>2. CASE burst = "FIXED"
  BY <1>2 DEF ItemAddr, calc_next_addr
<1>3. CASE burst = "WRAP"
  <2>. DEFINE total == calc_wrap_mask(len) + 1
              a == ItemAddr(f, burst, len, k)
  <2>1. total \in WrapSizes
    BY MaskType
  <2>2. /\ a = f - (f % total) + (((f % total) + 4 * k) % total)
        /\ ItemAddr(f, burst, len, k + 1) = f - (f % total) + (((f % total) + 4 * (k + 1)) % total)
    BY <1>3 DEF ItemAddr
  <2>3. calc_next_addr(a, burst, len) = a - (a % total) + ((a + 4) % total)
    BY <1>3 DEF calc_next_addr, High, Low
  <2>. HIDE DEF total, a
  <2>4. a \in Nat /\ a - (a % total) + ((a + 4) % total)
                       = f - (f % total) + (((f % total) + 4 * (k + 1)) % total)
    BY <2>1, <2>2, WrapAdvances
  <2>5. a \in Nat /\ calc_next_addr(a, burst, len) = ItemAddr(f, burst, len, k + 1)
    BY <2>2, <2>3, <2>4
  <2>. QED
    BY <2>5 DEF a
<1>. QED
  BY <1>1, <1>2, <1>3 DEF Bursts

\* The closed form begins at the burst's first address.
LEMMA FirstItem ==
    ASSUME NEW f \in Nat, NEW burst \in Bursts, NEW len
    PROVE  ItemAddr(f, burst, len, 0) = f
<1>1. CASE burst = "INCR"
  BY <1>1 DEF ItemAddr
<1>2. CASE burst = "FIXED"
  BY <1>2 DEF ItemAddr
<1>3. CASE burst = "WRAP"
  <2>. DEFINE total == calc_wrap_mask(len) + 1
  <2>1. total \in WrapSizes
    BY MaskType
  <2>2. ItemAddr(f, burst, len, 0) = f - (f % total) + (((f % total) + 4 * 0) % total)
    BY <1>3 DEF ItemAddr
  <2>. HIDE DEF total
  <2>. QED
    BY <2>1, <2>2, WrapStarts
<1>. QED
  BY <1>1, <1>2, <1>3 DEF Bursts

\* By the AXI rules it is the same address if the burst is legal and starts at a word.
LEMMA ItemIsBeat ==
    ASSUME NEW t, t.addr \in Nat, t.burst \in Bursts, t.len \in Nat, NEW k \in Nat,
           t.burst = "WRAP" => t.len \in {0, 1, 3, 7, 15}
    PROVE  ItemAddr(t.addr - (t.addr % 4), t.burst, t.len, k) = BeatAddr(t, k)
<1>. DEFINE f == t.addr - (t.addr % 4)
<1>1. CASE t.burst = "INCR"
  BY <1>1 DEF ItemAddr, BeatAddr
<1>2. CASE t.burst = "FIXED"
  BY <1>2 DEF ItemAddr, BeatAddr
<1>3. CASE t.burst = "WRAP"
  <2>1. calc_wrap_mask(t.len) + 1 = 4 * (t.len + 1)
    BY <1>3 DEF calc_wrap_mask
  <2>. QED
    BY <1>3, <2>1 DEF ItemAddr, BeatAddr
<1>. QED
  BY <1>1, <1>2, <1>3 DEF Bursts

\* The first address of a read is a word.
LEMMA HighType == \A a \in Nat : High(a, 3) = a - (a % 4) /\ High(a, 3) \in Nat
BY DEF High, Low

\* The unrolled burst of a read, beat by beat: were an address wrong, the first
\* wrong one would follow from a right one.
LEMMA ItemsUnrolled ==
    ASSUME NEW t, t.addr \in Nat, t.burst \in Bursts, t.len \in Nat
    PROVE  ReadItems(t) = [k \in 1 .. t.len + 1 |-> [addr |-> ReadAddr(t, k - 1),
                                                     last |-> k = t.len + 1]]
<1>. DEFINE N == t.len
            Rec(h) == [k \in 0 .. t.len |-> IF k = 0 THEN High(t.addr, 3)
                                            ELSE calc_next_addr(h[k - 1], t.burst, t.len)]
            at == CHOOSE h : h = Rec(h)
            g == [k \in 0 .. t.len |-> ReadAddr(t, k)]
<1>0. High(t.addr, 3) \in Nat
  BY HighType
<1>1. ReadAddr(t, 0) = High(t.addr, 3)
  BY <1>0, FirstItem DEF ReadAddr
<1>2. \A k \in Nat : calc_next_addr(ReadAddr(t, k), t.burst, t.len) = ReadAddr(t, k + 1)
  BY <1>0, NextItem DEF ReadAddr
<1>3. \A k \in 1 .. t.len : calc_next_addr(ReadAddr(t, k - 1), t.burst, t.len) = ReadAddr(t, k)
  <2>. SUFFICES ASSUME NEW k \in 1 .. t.len
                PROVE  calc_next_addr(ReadAddr(t, k - 1), t.burst, t.len) = ReadAddr(t, k)
    OBVIOUS
  <2>1. k - 1 \in Nat /\ (k - 1) + 1 = k
    OBVIOUS
  <2>. QED
    BY <2>1, <1>2
<1>4. g = Rec(g)
  <2>. SUFFICES ASSUME NEW k \in 0 .. t.len PROVE g[k] = Rec(g)[k]
    OBVIOUS
  <2>1. CASE k = 0
    BY <2>1, <1>1
  <2>2. CASE k # 0
    <3>1. k \in 1 .. t.len /\ k - 1 \in 0 .. t.len
      BY <2>2
    <3>2. g[k] = ReadAddr(t, k) /\ g[k - 1] = ReadAddr(t, k - 1)
      BY <3>1
    <3>3. Rec(g)[k] = calc_next_addr(g[k - 1], t.burst, t.len)
      BY <2>2
    <3>. QED
      BY <3>1, <3>2, <3>3, <1>3
  <2>. QED
    BY <2>1, <2>2
<1>5. at = Rec(at)
  <2>1. \E h : h = Rec(h)
    BY <1>4
  <2>. HIDE DEF Rec
  <2>. QED
    BY <2>1
<1>6. \A k \in 0 .. t.len : at[k] = (IF k = 0 THEN High(t.addr, 3)
                                    ELSE calc_next_addr(at[k - 1], t.burst, t.len))
  <2>. HIDE DEF at
  <2>. QED
    BY <1>5
<1>. HIDE DEF at
<1>7. \A k \in 0 .. t.len : at[k] = ReadAddr(t, k)
  <2>. DEFINE S == {k \in 0 .. t.len : at[k] # ReadAddr(t, k)}
  <2>. SUFFICES ASSUME S # {} PROVE FALSE
    OBVIOUS
  <2>1. S \in SUBSET Nat
    OBVIOUS
  <2>2. PICK n \in S : \A k \in S : n <= k
    <3>. HIDE DEF S
    <3>. QED
      BY <2>1, LeastNumber
  <2>3. n # 0
    BY <1>1, <1>6
  <2>4. n \in 1 .. t.len /\ n - 1 \in 0 .. t.len /\ n - 1 \notin S
    BY <2>2, <2>3
  <2>5. at[n - 1] = ReadAddr(t, n - 1)
    BY <2>4
  <2>6. at[n] = calc_next_addr(at[n - 1], t.burst, t.len)
    BY <2>3, <2>4, <1>6
  <2>7. at[n] = ReadAddr(t, n)
    BY <2>4, <2>5, <2>6, <1>3
  <2>. QED
    BY <2>7
<1>8. ReadItems(t) = [k \in 1 .. t.len + 1 |-> [addr |-> at[k - 1], last |-> k = t.len + 1]]
  BY DEF ReadItems, at
<1>9. \A k \in 1 .. t.len + 1 : at[k - 1] = ReadAddr(t, k - 1)
  BY <1>7
<1>. QED
  BY <1>8, <1>9

-----------------------------------------------------------------------------

\* A queue with an entry appended.
LEMMA Appended ==
    ASSUME NEW S, NEW q \in Seq(S), NEW e \in S
    PROVE  /\ Append(q, e) \in Seq(S) /\ Len(Append(q, e)) = Len(q) + 1
           /\ Append(q, e)[Len(q) + 1] = e /\ Append(q, e) # <<>>
           /\ \A i \in 1 .. Len(q) : Append(q, e)[i] = q[i]
<1>1. /\ Append(q, e) \in Seq(S) /\ Len(Append(q, e)) = Len(q) + 1
      /\ Append(q, e)[Len(q) + 1] = e
      /\ \A i \in 1 .. Len(q) : Append(q, e)[i] = q[i]
  OBVIOUS
<1>2. Append(q, e) # <<>>
  <2>1. Len(<<>>) = 0 /\ Len(q) \in Nat
    BY EmptySeq, LenProperties
  <2>. DEFINE a == Append(q, e)
  <2>2. Len(a) # 0
    BY <1>1, <2>1
  <2>. HIDE DEF a
  <2>3. a # <<>>
    BY <2>1, <2>2
  <2>. QED
    BY <2>3 DEF a
<1>. QED
  BY <1>1, <1>2

\* A queue without its head.
LEMMA Shortened ==
    ASSUME NEW S, NEW q \in Seq(S), q # <<>>
    PROVE  /\ Len(q) \in Nat \ {0} /\ Head(q) = q[1]
           /\ Tail(q) \in Seq(S) /\ Len(Tail(q)) = Len(q) - 1
           /\ \A i \in 1 .. Len(q) - 1 : Tail(q)[i] = q[i + 1]
           /\ Tail(q) = <<>> <=> Len(q) = 1
<1>1. /\ Len(q) \in Nat \ {0} /\ Head(q) = q[1]
      /\ Tail(q) \in Seq(S) /\ Len(Tail(q)) = Len(q) - 1
      /\ \A i \in 1 .. Len(q) - 1 : Tail(q)[i] = q[i + 1]
  OBVIOUS
<1>. DEFINE s == Tail(q)
<1>. HIDE DEF s
<1>2. s \in Seq(S) /\ Len(s) = Len(q) - 1
  BY <1>1 DEF s
<1>3. s = <<>> => Len(s) = 0
  BY EmptySeq
<1>4. s # <<>> => Len(s) # 0
  BY <1>2, EmptySeq
<1>5. s = <<>> <=> Len(q) = 1
  <2>1. Len(s) = 0 <=> Len(q) = 1
    BY <1>1, <1>2
  <2>. QED
    BY <2>1, <1>3, <1>4
<1>. QED
  BY <1>1, <1>5 DEF s

\* What the memory has got of the transaction, and what it takes in this cycle.
LEMMA Offered ==
    ASSUME Inv
    PROVE  /\ Len(s_w) \in Nat /\ s_r \in Nat /\ cur.len \in Nat
           /\ s_aw # <<>> \/ s_w # <<>> => cur.kind = "write" /\ s_r = 0 /\ resp = "none"
           /\ cur.kind = "write" => Len(s_w) <= cur.len + 1 /\ s_r = 0
           /\ awvalid_o => cur.kind = "write" /\ s_aw = <<>>
           /\ wvalid_o => /\ cur.kind = "write" /\ resp = "none" /\ s_r = 0
                          /\ Len(s_w) <= cur.len /\ inport_w.beat = Len(s_w)
                          /\ inport_w.last = (Len(s_w) = cur.len)
                          /\ (s_aw = <<>> => awvalid_o)
           /\ arvalid_o => /\ cur.kind = "read" /\ s_r = 0 /\ s_aw = <<>> /\ s_w = <<>>
                           /\ inport_w.len = cur.len
<1>0. /\ s_w \in Seq([beat : Nat, last : BOOLEAN]) /\ s_r \in Nat
      /\ cur.len \in Nat /\ cur.sent \in Nat
  BY CurType DEF Inv, Types
<1>1. CASE IdleInv \/ ReadingInv \/ WrittenInv
  <2>1. ~awvalid_o /\ ~wvalid_o /\ ~arvalid_o
    BY <1>1, NothingOffered
  <2>2. s_aw = <<>> /\ s_w = <<>> /\ (cur.kind = "write" => s_r = 0)
    BY <1>1 DEF IdleInv, ReadingInv, WrittenInv, NothingTaken, Idle
  <2>. QED
    BY <1>0, <2>1, <2>2
<1>2. CASE AskedInv
  <2>1. ~awvalid_o /\ ~wvalid_o /\ inport_w.len = cur.len
    BY <1>2, ReadOffered
  <2>. QED
    BY <1>0, <1>2, <2>1 DEF AskedInv, NothingTaken
<1>3. CASE WritingInv
  <2>1. /\ cur.kind = "write" /\ resp = "none" /\ s_r = 0 /\ popped \in 0 .. cur.len + 1
        /\ cur.sent <= cur.len + 1
        /\ SkidHolds(cur, popped, valid, buf, awvalid, wvalid, wlast, s_aw, s_w)
    BY <1>3 DEF WritingInv
  <2>2. Len(s_w) <= cur.len + 1
    <3>1. Len(s_w) = popped \/ s_w = <<>> \/ Len(s_w) = 1
      BY <2>1 DEF SkidHolds
    <3>2. s_w = <<>> => Len(s_w) = 0
      OBVIOUS
    <3>3. CASE Len(s_w) = popped
      <4>1. popped <= cur.len + 1
        BY <1>0, <2>1
      <4>. QED
        BY <3>3, <4>1
    <3>4. CASE s_w = <<>>
      BY <1>0, <3>2, <3>4
    <3>5. CASE Len(s_w) = 1
      BY <1>0, <3>5
    <3>. QED
      BY <3>1, <3>3, <3>4, <3>5
  <2>3. /\ ~arvalid_o
        /\ awvalid_o <=> s_aw = <<>>
        /\ wvalid_o => Len(s_w) < cur.sent
        /\ wvalid_o => /\ inport_w.beat = Len(s_w)
                       /\ inport_w.last = (Len(s_w) = cur.len)
    BY <1>3, WriteOffered DEF Inv
  <2>4. wvalid_o => Len(s_w) <= cur.len
    <3>1. Len(s_w) < cur.sent => Len(s_w) <= cur.len
      BY <1>0, <2>1
    <3>. QED
      BY <3>1, <2>3
  <2>. QED
    BY <1>0, <2>1, <2>2, <2>3, <2>4
<1>. QED
  BY <1>1, <1>2, <1>3 DEF Inv

\* A read taken in this cycle is in the queue with all its beats.
LEMMA ReadsGrow ==
    ASSUME TbInv
    PROVE  ReadsQueued(tx, RdQueued, Owed)
<1>1. CASE ~ar_taken
  BY <1>1 DEF TbInv, RdQueued, Owed
<1>2. CASE ar_taken
  <2>1. cur.kind = "read" /\ s_r = 0 /\ inport_w.len = cur.len /\ cur.len \in Nat
    BY <1>2, Offered DEF ar_taken, TbInv
  <2>2. tx.len = cur.len /\ tx.burst \in Bursts /\ tx.addr \in Nat
    BY <2>1 DEF TbInv, TbTypes
  <2>3. tx.len \in Nat
    BY <2>1, <2>2
  <2>. DEFINE n == tx.len + 1
              s == [k \in 1 .. n |-> [addr |-> ReadAddr(tx, k - 1), last |-> k = n]]
  <2>4. ReadItems(tx) = s
    BY <2>2, <2>3, ItemsUnrolled
  <2>5. \A k \in 1 .. n : ReadAddr(tx, k - 1) \in Nat
    <3>. SUFFICES ASSUME NEW k \in 1 .. n PROVE ReadAddr(tx, k - 1) \in Nat
      OBVIOUS
    <3>1. k - 1 \in Nat
      BY <2>3
    <3>2. High(tx.addr, 3) \in Nat
      BY <2>2, HighType
    <3>. QED
      BY <2>2, <3>1, <3>2, NextItem DEF ReadAddr
  <2>6. s \in Seq(ReadItem) /\ Len(s) = n
    <3>1. n \in Nat
      BY <2>3
    <3>2. s \in [1 .. n -> ReadItem]
      BY <2>5 DEF ReadItem
    <3>. HIDE DEF s
    <3>. QED
      BY <3>1, <3>2
  <2>7. rd_q = <<>>
    BY <2>1 DEF TbInv, ReadsQueued
  <2>8. RdQueued = s
    <3>1. RdQueued = <<>> \o s
      BY <1>2, <2>4, <2>7 DEF RdQueued
    <3>. HIDE DEF s
    <3>. QED
      BY <3>1, <2>6
  <2>9. Owed = n
    BY <1>2, <2>1, <2>2 DEF Owed
  <2>10. \A i \in 1 .. n : s[i].addr = ReadAddr(tx, tx.len + i - n) /\ (s[i].last <=> i = n)
    <3>. SUFFICES ASSUME NEW i \in 1 .. n
                  PROVE  s[i].addr = ReadAddr(tx, tx.len + i - n) /\ (s[i].last <=> i = n)
      OBVIOUS
    <3>1. i - 1 = tx.len + i - n
      BY <2>3
    <3>. QED
      BY <3>1
  <2>. HIDE DEF s, n
  <2>. QED
    BY <2>6, <2>8, <2>9, <2>10 DEF ReadsQueued
<1>. QED
  BY <1>1, <1>2

\* The entry at the head of the read queue is the next beat of the burst.
LEMMA ReadsShrink ==
    ASSUME NEW t, t.len \in Nat, NEW q, NEW n \in Nat, ReadsQueued(t, q, n), q # <<>>
    PROVE  /\ n > 0 /\ Head(q).addr = ReadAddr(t, t.len + 1 - n)
           /\ Head(q).last <=> n = 1
           /\ ReadsQueued(t, Tail(q), n - 1)
<1>1. /\ q \in Seq(ReadItem) /\ Len(q) = n
      /\ \A i \in 1 .. n : q[i].addr = ReadAddr(t, t.len + i - n) /\ (q[i].last <=> i = n)
  BY DEF ReadsQueued
<1>2. n > 0 /\ Head(q) = q[1] /\ 1 \in 1 .. n
  BY <1>1
<1>3. Tail(q) \in Seq(ReadItem) /\ Len(Tail(q)) = n - 1
      /\ \A i \in 1 .. n - 1 : Tail(q)[i] = q[i + 1]
  BY <1>1
<1>4. \A i \in 1 .. n - 1 : /\ Tail(q)[i].addr = ReadAddr(t, t.len + i - (n - 1))
                            /\ Tail(q)[i].last <=> i = n - 1
  <2>. SUFFICES ASSUME NEW i \in 1 .. n - 1
                PROVE  /\ Tail(q)[i].addr = ReadAddr(t, t.len + i - (n - 1))
                       /\ Tail(q)[i].last <=> i = n - 1
    OBVIOUS
  <2>1. i + 1 \in 1 .. n /\ t.len + (i + 1) - n = t.len + i - (n - 1)
    OBVIOUS
  <2>2. (i + 1 = n) <=> (i = n - 1)
    OBVIOUS
  <2>3. Tail(q)[i] = q[i + 1]
    BY <1>3
  <2>4. q[i + 1].addr = ReadAddr(t, t.len + (i + 1) - n) /\ (q[i + 1].last <=> i + 1 = n)
    BY <1>1, <2>1
  <2>. QED
    BY <2>1, <2>2, <2>3, <2>4
<1>5. Head(q).addr = ReadAddr(t, t.len + 1 - n) /\ (Head(q).last <=> n = 1)
  <2>1. q[1].addr = ReadAddr(t, t.len + 1 - n) /\ (q[1].last <=> 1 = n)
    BY <1>1, <1>2
  <2>. QED
    BY <2>1, <1>2
<1>. QED
  BY <1>2, <1>3, <1>4, <1>5 DEF ReadsQueued

\* A beat taken in this cycle is at the end of the write queue, at the address the
\* command was for.
LEMMA WritesGrow ==
    ASSUME TbInv
    PROVE  /\ WritesQueued(tx, WrQueued, GotW)
           /\ CommandHeld(tx, CommandNext, GotAw, GotW)
           /\ w_taken => Commanded.valid = TRUE
<1>0. /\ WritesQueued(tx, wr_q, s_w) /\ CommandHeld(tx, wr_req, s_aw, s_w)
      /\ tx.len \in Nat /\ tx.addr \in Nat /\ tx.burst \in Bursts /\ tx.strb \in SUBSET (0 .. 3)
  <2>1. tx.len \in Nat
    BY LenType DEF TbInv, TbTypes
  <2>. QED
    BY <2>1 DEF TbInv, TbTypes
<1>1. /\ s_w \in Seq([beat : Nat, last : BOOLEAN]) /\ Len(s_w) \in Nat
      /\ wr_q \in Seq(WriteItem) /\ Len(wr_q) <= Len(s_w) /\ Len(wr_q) \in Nat
  BY <1>0 DEF TbInv, Inv, Types, WritesQueued
<1>2. CommandHeld(tx, Commanded, GotAw, s_w)
  <2>1. CASE ~aw_taken
    BY <2>1, <1>0 DEF Commanded, GotAw
  <2>2. CASE aw_taken
    <3>1. cur.kind = "write" /\ s_aw = <<>>
      BY <2>2, Offered DEF aw_taken, TbInv
    <3>2. s_w = <<>>
      BY <3>1, <1>0 DEF CommandHeld
    <3>3. Len(s_w) = 0 /\ GotAw # <<>>
      BY <2>2, <3>1, <3>2 DEF GotAw
    <3>4. WriteAddr(tx, Len(s_w)) = tx.addr
      BY <3>3, <1>0, FirstItem DEF WriteAddr
    <3>5. Commanded = [valid |-> TRUE, addr |-> tx.addr]
      BY <2>2 DEF Commanded
    <3>. QED
      BY <1>0, <3>2, <3>3, <3>4, <3>5 DEF CommandHeld
  <2>. QED
    BY <2>1, <2>2
<1>3. CASE ~w_taken
  BY <1>0, <1>2, <1>3 DEF WrQueued, GotW, CommandNext
<1>4. CASE w_taken
  <2>1. /\ cur.kind = "write" /\ Len(s_w) <= cur.len /\ inport_w.beat = Len(s_w)
        /\ inport_w.last = (Len(s_w) = cur.len) /\ (s_aw = <<>> => awvalid_o)
    BY <1>4, Offered DEF w_taken, TbInv
  <2>2. tx.len = cur.len
    BY <2>1 DEF TbInv, TbTypes
  <2>3. GotAw # <<>>
    <3>1. CASE s_aw # <<>>
      BY <3>1 DEF GotAw
    <3>2. CASE s_aw = <<>>
      <4>1. awvalid_o /\ ~wr_req.valid
        BY <2>1, <3>2, <1>0 DEF CommandHeld
      <4>2. ready.aw
        BY <1>4, <4>1 DEF TbInv, w_taken
      <4>. QED
        BY <3>2, <4>1, <4>2 DEF aw_taken, GotAw
    <3>. QED
      BY <3>1, <3>2
  <2>4. Commanded.valid = TRUE /\ Commanded.addr = WriteAddr(tx, Len(s_w))
    BY <1>2, <2>1, <2>2, <2>3 DEF CommandHeld
  <2>. DEFINE n == Len(s_w)
              b == [beat |-> inport_w.beat, last |-> inport_w.last]
              item == [addr |-> Commanded.addr, beat |-> inport_w.beat,
                       strb |-> tx.strb, last |-> inport_w.last]
  <2>5. WriteAddr(tx, n) \in Nat
        /\ calc_next_addr(WriteAddr(tx, n), tx.burst, tx.len) = WriteAddr(tx, n + 1)
    BY <1>0, <1>1, NextItem DEF WriteAddr
  <2>6. item \in WriteItem /\ item.addr = WriteAddr(tx, n) /\ item.beat = n
        /\ item.strb = tx.strb /\ (item.last <=> n = tx.len)
    BY <1>0, <1>1, <2>1, <2>2, <2>4, <2>5 DEF WriteItem
  <2>7. GotW = Append(s_w, b) /\ WrQueued = Append(wr_q, item)
    BY <1>4 DEF GotW, WrQueued
  <2>8. Len(GotW) = n + 1 /\ GotW # <<>>
    <3>1. b \in [beat : Nat, last : BOOLEAN]
      BY <1>1, <2>1
    <3>. HIDE DEF b
    <3>. QED
      BY <1>1, <2>7, <3>1, Appended
  <2>. HIDE DEF item, b
  <2>9. /\ WrQueued \in Seq(WriteItem) /\ Len(WrQueued) = Len(wr_q) + 1
        /\ WrQueued[Len(wr_q) + 1] = item /\ WrQueued # <<>>
        /\ \A i \in 1 .. Len(wr_q) : WrQueued[i] = wr_q[i]
    BY <1>1, <2>6, <2>7, Appended
  <2>10. \A i \in 1 .. Len(WrQueued) :
           LET k == Len(GotW) - Len(WrQueued) + i - 1
           IN  /\ WrQueued[i].addr = WriteAddr(tx, k) /\ WrQueued[i].beat = k
               /\ WrQueued[i].strb = tx.strb
               /\ WrQueued[i].last <=> k = tx.len
    <3>. SUFFICES ASSUME NEW i \in 1 .. Len(WrQueued), NEW k,
                         k = Len(GotW) - Len(WrQueued) + i - 1
                  PROVE  /\ WrQueued[i].addr = WriteAddr(tx, k) /\ WrQueued[i].beat = k
                         /\ WrQueued[i].strb = tx.strb
                         /\ WrQueued[i].last <=> k = tx.len
      OBVIOUS
    <3>1. k = Len(s_w) - Len(wr_q) + i - 1
      BY <1>1, <2>8, <2>9
    <3>2. CASE i = Len(wr_q) + 1
      <4>1. k = n
        BY <1>1, <3>1, <3>2
      <4>. QED
        BY <2>6, <2>9, <3>2, <4>1
    <3>3. CASE i # Len(wr_q) + 1
      <4>1. i \in 1 .. Len(wr_q)
        BY <1>1, <2>9, <3>3
      <4>2. /\ wr_q[i].addr = WriteAddr(tx, k) /\ wr_q[i].beat = k /\ wr_q[i].strb = tx.strb
            /\ wr_q[i].last <=> k = tx.len
        BY <1>0, <3>1, <4>1 DEF WritesQueued
      <4>3. WrQueued[i] = wr_q[i]
        BY <2>9, <4>1
      <4>. QED
        BY <4>2, <4>3
    <3>. QED
      BY <3>2, <3>3
  <2>11. WritesQueued(tx, WrQueued, GotW)
    <3>1. Len(WrQueued) <= Len(GotW) /\ Len(GotW) <= tx.len + 1
      BY <1>0, <1>1, <2>1, <2>2, <2>8, <2>9
    <3>. QED
      BY <2>9, <2>10, <3>1 DEF WritesQueued
  <2>12. CommandHeld(tx, CommandNext, GotAw, GotW)
    <3>1. CommandNext = [valid |-> ~inport_w.last,
                         addr |-> calc_next_addr(Commanded.addr, tx.burst, tx.len)]
      BY <1>4 DEF CommandNext
    <3>2. CommandNext.valid = ~(n = cur.len) /\ CommandNext.addr = WriteAddr(tx, n + 1)
      BY <3>1, <2>1, <2>4, <2>5
    <3>3. WriteAddr(tx, n + 1) \in Nat
      BY <1>0, <1>1, NextItem DEF WriteAddr
    <3>4. CommandNext \in [valid : BOOLEAN, addr : Nat]
      BY <3>1, <3>2, <3>3, <2>1
    <3>5. CommandNext.valid <=> Len(GotW) <= tx.len
      <4>1. ~(n = cur.len) <=> n + 1 <= tx.len
        BY <1>0, <1>1, <2>1, <2>2
      <4>. QED
        BY <3>2, <4>1, <2>8
    <3>. QED
      BY <2>3, <2>8, <3>2, <3>4, <3>5 DEF CommandHeld
  <2>. QED
    BY <2>4, <2>11, <2>12
<1>. QED
  BY <1>3, <1>4

\* The entry at the head of the write queue is the next beat to be written; the last
\* one is alone in the queue.
LEMMA WritesShrink ==
    ASSUME NEW t, t.len \in Nat, NEW q, NEW w, Len(w) \in Nat, WritesQueued(t, q, w), q # <<>>
    PROVE  LET k == Len(w) - Len(q)
           IN  /\ k \in 0 .. t.len /\ Len(q) \in Nat
               /\ Head(q).addr = WriteAddr(t, k) /\ Head(q).beat = k /\ Head(q).strb = t.strb
               /\ Head(q).last <=> k = t.len
               /\ Len(Tail(q)) = Len(q) - 1
               /\ Head(q).last => Len(w) = t.len + 1 /\ Tail(q) = <<>>
               /\ ~Head(q).last => WritesQueued(t, Tail(q), w)
<1>. DEFINE k == Len(w) - Len(q)
<1>1. /\ q \in Seq(WriteItem) /\ Len(q) \in Nat \ {0} /\ Len(q) <= Len(w) /\ Len(w) <= t.len + 1
  BY DEF WritesQueued
<1>2. k \in 0 .. t.len
  BY <1>1
<1>3. Head(q) = q[1] /\ 1 \in 1 .. Len(q) /\ Len(w) - Len(q) + 1 - 1 = k
  BY <1>1
<1>4. /\ Head(q).addr = WriteAddr(t, k) /\ Head(q).beat = k /\ Head(q).strb = t.strb
      /\ Head(q).last <=> k = t.len
  <2>1. /\ q[1].addr = WriteAddr(t, k) /\ q[1].beat = k /\ q[1].strb = t.strb
        /\ q[1].last <=> k = t.len
    BY <1>3 DEF WritesQueued
  <2>. QED
    BY <2>1, <1>3
<1>5. /\ Tail(q) \in Seq(WriteItem) /\ Len(Tail(q)) = Len(q) - 1
      /\ \A i \in 1 .. Len(q) - 1 : Tail(q)[i] = q[i + 1]
      /\ Tail(q) = <<>> <=> Len(q) = 1
  BY <1>1, Shortened
<1>0. \A m, n \in Nat, l \in Nat \ {0} :
        l <= n /\ n <= m + 1 => (/\ n - l = m => n = m + 1 /\ l = 1
                                 /\ n - l # m => ~(n = m + 1 /\ l = 1))
  OBVIOUS
<1>6. k = t.len => Len(w) = t.len + 1 /\ Tail(q) = <<>>
  <2>1. k = t.len => Len(w) = t.len + 1 /\ Len(q) = 1
    BY <1>0, <1>1
  <2>. QED
    BY <2>1, <1>5
<1>7. ASSUME k # t.len PROVE WritesQueued(t, Tail(q), w)
  <2>1. Len(w) = t.len + 1 => Tail(q) # <<>>
    <3>1. Len(w) = t.len + 1 => Len(q) # 1
      <4>. DEFINE all == Len(w)
                  left == Len(q)
                  len == t.len
      <4>1. /\ all \in Nat /\ left \in Nat /\ len \in Nat
            /\ all - left # len
        BY <1>1, <1>7
      <4>. HIDE DEF all, left, len
      <4>2. all = len + 1 => left # 1
        BY <4>1
      <4>. QED
        BY <4>2 DEF all, left, len
    <3>. QED
      BY <3>1, <1>5
  <2>2. \A i \in 1 .. Len(Tail(q)) :
          LET m == Len(w) - Len(Tail(q)) + i - 1
          IN  /\ Tail(q)[i].addr = WriteAddr(t, m) /\ Tail(q)[i].beat = m
              /\ Tail(q)[i].strb = t.strb
              /\ Tail(q)[i].last <=> m = t.len
    <3>. SUFFICES ASSUME NEW i \in 1 .. Len(Tail(q)), NEW m, m = Len(w) - Len(Tail(q)) + i - 1
                  PROVE  /\ Tail(q)[i].addr = WriteAddr(t, m) /\ Tail(q)[i].beat = m
                         /\ Tail(q)[i].strb = t.strb
                         /\ Tail(q)[i].last <=> m = t.len
      OBVIOUS
    <3>1. i \in 1 .. Len(q) - 1 /\ i + 1 \in 1 .. Len(q) /\ m = Len(w) - Len(q) + (i + 1) - 1
      BY <1>1, <1>5
    <3>2. /\ q[i + 1].addr = WriteAddr(t, m) /\ q[i + 1].beat = m /\ q[i + 1].strb = t.strb
          /\ q[i + 1].last <=> m = t.len
      BY <3>1 DEF WritesQueued
    <3>. QED
      BY <3>1, <3>2, <1>5
  <2>3. Len(Tail(q)) <= Len(w)
    BY <1>1, <1>5
  <2>. QED
    BY <2>1, <2>2, <2>3, <1>1, <1>5 DEF WritesQueued
<1>. QED
  BY <1>1, <1>2, <1>4, <1>5, <1>6, <1>7

-----------------------------------------------------------------------------

\* Between two transactions the slave owes nothing and is offered nothing; within
\* one the first beat has been handed over.
LEMMA Boundary ==
    ASSUME Inv
    PROVE  /\ Acked.kind = "none" =>
                /\ s_aw = <<>> /\ s_w = <<>> /\ s_r = 0
                /\ ~awvalid_o /\ ~wvalid_o /\ ~arvalid_o
                /\ cur.kind # "write" \/ resp = "b"
           /\ Acked.kind # "none" => cur.sent >= 1 /\ resp \in {"none", "r"}
                                     /\ (resp = "r" => cur.kind = "read")
<1>0. cur.len \in Nat /\ cur.got \in Nat /\ cur.sent \in Nat
  BY CurType DEF Inv
<1>1. CASE IdleInv
  <2>1. Acked.kind = "none"
    BY <1>1 DEF IdleInv, Acked, inport_ack_o, Idle
  <2>. QED
    BY <1>1, <2>1, NothingOffered DEF IdleInv, NothingTaken, Idle
<1>2. CASE AskedInv
  BY <1>2 DEF AskedInv, Acked, inport_ack_o
<1>3. CASE WritingInv
  <2>1. Acked = cur /\ cur.kind = "write" /\ cur.sent >= 1 /\ resp = "none"
    BY <1>3, <1>0 DEF WritingInv, Acked, inport_ack_o
  <2>. QED
    BY <2>1
<1>4. CASE WrittenInv
  <2>1. Acked.kind = "none"
    BY <1>4 DEF WrittenInv, Acked, inport_ack_o, Answers, Idle
  <2>. QED
    BY <1>4, <2>1, NothingOffered DEF WrittenInv, NothingTaken
<1>5. CASE ReadingInv /\ resp = "rlast"
  <2>1. Acked.kind = "none"
    BY <1>5, <1>0 DEF ReadingInv, Acked, inport_ack_o, Answers, Idle
  <2>. QED
    BY <1>5, <2>1, NothingOffered DEF ReadingInv
<1>6. CASE ReadingInv /\ resp # "rlast"
  <2>1. /\ cur.kind = "read" /\ cur.sent = 1 /\ s_r \in Nat /\ s_r > 0
        /\ \/ resp = "none" /\ cur.got + s_r = cur.len + 1
           \/ resp = "r" /\ cur.got + s_r = cur.len
    BY <1>6 DEF ReadingInv, Inv, Types
  <2>2. resp = "r" => cur.got + 1 # cur.len + 1
    BY <1>0, <2>1
  <2>3. Acked.kind = "read"
    BY <2>1, <2>2 DEF Acked, inport_ack_o, Answers
  <2>. QED
    BY <2>1, <2>3
<1>. QED
  BY <1>1, <1>2, <1>3, <1>4, <1>5, <1>6 DEF Inv

\* A queue of no entries is empty.
LEMMA NoEntries ==
    ASSUME NEW S, NEW q \in Seq(S)
    PROVE  q = <<>> <=> Len(q) = 0
BY EmptySeq

\* Reads and writes are never queued at once.
LEMMA OneKindQueued ==
    ASSUME TbInv
    PROVE  /\ WrQueued # <<>> => /\ RdQueued = <<>> /\ Owed = 0 /\ cur.kind = "write"
                                 /\ resp = "none" /\ GotW # <<>>
           /\ s_r = 0 /\ ~ar_taken => RdQueued = <<>>
           /\ s_w = <<>> /\ ~w_taken => WrQueued = <<>>
<1>1. WritesQueued(tx, WrQueued, GotW) /\ ReadsQueued(tx, RdQueued, Owed)
  BY WritesGrow, ReadsGrow
<1>2. RdQueued = <<>> <=> Owed = 0
  BY <1>1, NoEntries DEF ReadsQueued
<1>3. s_r = 0 /\ ~ar_taken => RdQueued = <<>>
  BY <1>2 DEF Owed
<1>4. GotW = <<>> => WrQueued = <<>>
  <2>. SUFFICES ASSUME GotW = <<>> PROVE WrQueued = <<>>
    OBVIOUS
  <2>1. WrQueued \in Seq(WriteItem) /\ Len(WrQueued) <= 0
    BY <1>1, EmptySeq DEF WritesQueued
  <2>2. Len(WrQueued) \in Nat
    BY <2>1, LenProperties
  <2>3. Len(WrQueued) = 0
    BY <2>1, <2>2
  <2>. QED
    BY <2>1, <2>3, NoEntries
<1>5. s_w = <<>> /\ ~w_taken => WrQueued = <<>>
  BY <1>4 DEF GotW
<1>6. ASSUME WrQueued # <<>>
      PROVE  Owed = 0 /\ cur.kind = "write" /\ resp = "none"
  <2>1. s_w # <<>> \/ w_taken
    BY <1>5, <1>6
  <2>2. cur.kind = "write" /\ s_r = 0 /\ resp = "none"
    BY <2>1, Offered DEF w_taken, TbInv
  <2>3. ~ar_taken
    BY <2>2, Offered DEF ar_taken, TbInv
  <2>. QED
    BY <2>2, <2>3 DEF Owed
<1>. QED
  BY <1>2, <1>3, <1>4, <1>5, <1>6

\* What the memory answers, and what it then still holds.
LEMMA AnswerCases ==
    ASSUME TbInv, NEW d \in Delays, Answer(d.r, d.b), TakenClk
    PROVE  \/ /\ WrQueued # <<>> /\ Head(WrQueued).last /\ resp' = "b"
              /\ wr_q' = Tail(WrQueued) /\ byte' = write32(Head(WrQueued)) /\ rd_q' = <<>>
              /\ s_aw' = <<>> /\ s_w' = <<>> /\ s_r' = Owed /\ Owed = 0 /\ rdata' = NoData
           \/ /\ WrQueued # <<>> /\ ~Head(WrQueued).last /\ resp' = "none"
              /\ wr_q' = Tail(WrQueued) /\ byte' = write32(Head(WrQueued)) /\ rd_q' = RdQueued
              /\ s_aw' = GotAw /\ s_w' = GotW /\ s_r' = Owed /\ rdata' = NoData
           \/ /\ RdQueued # <<>> /\ WrQueued = <<>>
              /\ resp' = (IF Head(RdQueued).last THEN "rlast" ELSE "r")
              /\ wr_q' = WrQueued /\ byte' = byte /\ rd_q' = Tail(RdQueued)
              /\ s_aw' = GotAw /\ s_w' = GotW /\ s_r' = Owed - 1
              /\ rdata' = read32(Head(RdQueued).addr)
           \/ /\ resp' = "none" /\ wr_q' = WrQueued /\ byte' = byte /\ rd_q' = RdQueued
              /\ s_aw' = GotAw /\ s_w' = GotW /\ s_r' = Owed /\ rdata' = NoData
<1>. DEFINE read == RdQueued # <<>> /\ ~d.r
            write == WrQueued # <<>> /\ ~d.b
<1>1. /\ rd_q' = IF read THEN Tail(RdQueued) ELSE RdQueued
      /\ rdata' = IF read THEN read32(Head(RdQueued).addr) ELSE NoData
      /\ wr_q' = IF write THEN Tail(WrQueued) ELSE WrQueued
      /\ byte' = IF write THEN write32(Head(WrQueued)) ELSE byte
      /\ resp' = IF write /\ Head(WrQueued).last THEN "b"
                 ELSE IF ~read THEN "none"
                 ELSE IF Head(RdQueued).last THEN "rlast" ELSE "r"
  BY DEF Answer
<1>2. /\ s_aw' = IF resp' = "b" THEN <<>> ELSE GotAw
      /\ s_w' = IF resp' = "b" THEN <<>> ELSE GotW
      /\ s_r' = IF resp' \in {"r", "rlast"} THEN Owed - 1 ELSE Owed
  BY DEF TakenClk
<1>3. write => ~read /\ WrQueued # <<>> /\ RdQueued = <<>> /\ Owed = 0
  BY OneKindQueued
<1>4. read => RdQueued # <<>> /\ WrQueued = <<>>
  BY OneKindQueued
<1>. HIDE DEF read, write
<1>5. CASE write /\ Head(WrQueued).last
  BY <1>1, <1>2, <1>3, <1>5
<1>6. CASE write /\ ~Head(WrQueued).last
  BY <1>1, <1>2, <1>3, <1>6
<1>7. CASE ~write /\ read
  BY <1>1, <1>2, <1>4, <1>7
<1>8. CASE ~write /\ ~read
  BY <1>1, <1>2, <1>8
<1>. QED
  BY <1>5, <1>6, <1>7, <1>8

\* The ready lines are Booleans, and data is asked for only when a command is, or is
\* there.
LEMMA ReadyStep ==
    ASSUME NEW d \in Delays, Handshake(d.ar, d.aw, d.w), wr_req'.valid \in BOOLEAN
    PROVE  ready' \in Ready /\ (ready'.w => ready'.aw \/ wr_req'.valid)
<1>. DEFINE a == ~d.ar /\ Len(rd_q') < QueueLimit
            b == ~d.aw /\ Len(wr_q') < QueueLimit /\ ~wr_req'.valid
            c == Len(wr_q') < QueueLimit /\ ~d.aw /\ ~d.w
<1>1. ready' = [ar |-> a, aw |-> b, w |-> c]
  BY DEF Handshake, WReadyNext
<1>2. a \in BOOLEAN /\ b \in BOOLEAN /\ c \in BOOLEAN
  OBVIOUS
<1>3. c => b \/ wr_req'.valid
  OBVIOUS
<1>. HIDE DEF a, b, c
<1>. QED
  BY <1>1, <1>2, <1>3 DEF Ready

\* What the memory answers is due.
LEMMA AnswersDue ==
    ASSUME TbInv, NEW d \in Delays, Answer(d.r, d.b), TakenClk
    PROVE  \/ resp' = "none" /\ s_aw' = GotAw /\ s_w' = GotW /\ s_r' = Owed
           \/ WriteDue /\ resp' = "b" /\ s_aw' = <<>> /\ s_w' = <<>> /\ s_r' = Owed
           \/ /\ Owed > 0 /\ resp' = (IF Owed = 1 THEN "rlast" ELSE "r")
              /\ s_aw' = GotAw /\ s_w' = GotW /\ s_r' = Owed - 1
<1>0. /\ WritesQueued(tx, WrQueued, GotW) /\ CommandHeld(tx, CommandNext, GotAw, GotW)
      /\ ReadsQueued(tx, RdQueued, Owed)
  BY WritesGrow, ReadsGrow
<1>1. tx.len \in Nat /\ Inv
  BY LenType DEF TbInv, TbTypes
<1>2. CASE WrQueued # <<>> /\ Head(WrQueued).last /\ resp' = "b"
  <2>1. cur.kind = "write" /\ resp = "none" /\ GotW # <<>> /\ tx.len = cur.len
    BY <1>2, OneKindQueued DEF TbInv, TbTypes
  <2>2. BurstInOrder(cur, GotW) /\ GotW \in Seq([beat : Nat, last : BOOLEAN])
    <3>1. BurstInOrder(cur, s_w)
      BY <1>1, <2>1, InvBridge DEF BridgeInv, SlaveGetsTheBurst, BurstInOrder
    <3>2. Len(s_w) \in Nat
      BY <1>1, Offered
    <3>3. w_taken => inport_w.beat = Len(s_w) /\ inport_w.last = (Len(s_w) = cur.len)
      BY <1>1, Offered DEF w_taken
    <3>. QED
      BY <3>1, <3>2, <3>3, BurstGrows, <1>1 DEF Inv
  <2>3. Len(GotW) \in Nat /\ Len(GotW) = tx.len + 1
    <3>1. Len(GotW) \in Nat
      BY <2>2, LenProperties
    <3>. QED
      BY <3>1, <1>0, <1>1, <1>2, WritesShrink
  <2>4. GotW[Len(GotW)].last
    <3>1. Len(GotW) \in 1 .. Len(GotW) /\ Len(GotW) - 1 = cur.len
      BY <1>1, <2>1, <2>3
    <3>. DEFINE mark == Len(GotW) - 1 = cur.len
    <3>2. GotW[Len(GotW)] = [beat |-> Len(GotW) - 1, last |-> mark]
      BY <2>2, <3>1 DEF BurstInOrder
    <3>3. mark = TRUE
      BY <3>1
    <3>. HIDE DEF mark
    <3>. QED
      BY <3>2, <3>3
  <2>5. GotAw # <<>>
    BY <1>0, <2>1 DEF CommandHeld
  <2>6. WriteDue
    BY <2>1, <2>4, <2>5 DEF WriteDue
  <2>. QED
    BY <1>2, <2>6, AnswerCases
<1>3. CASE RdQueued # <<>> /\ resp' = (IF Head(RdQueued).last THEN "rlast" ELSE "r")
  <2>1. Owed \in Nat
    BY <1>0, LenProperties DEF ReadsQueued
  <2>2. Owed > 0 /\ (Head(RdQueued).last <=> Owed = 1)
    BY <1>0, <1>1, <1>3, <2>1, ReadsShrink
  <2>3. resp' = (IF Owed = 1 THEN "rlast" ELSE "r")
    BY <1>3, <2>2
  <2>4. resp' # "none" /\ resp' # "b"
    BY <2>3
  <2>. QED
    BY <2>2, <2>3, <2>4, AnswerCases
<1>. QED
  BY <1>2, <1>3, AnswerCases

\* So the memory is a slave as AxiBridge has it.
LEMMA IsSlave ==
    ASSUME TbInv, NEW o \in Offers, NEW d \in Delays, TbClk(o, d)
    PROVE  Next
<1>1. wr_req'.valid \in BOOLEAN
  BY WritesGrow DEF TbClk, CommandHeld
<1>2. ready' \in Ready
  BY <1>1, ReadyStep DEF TbClk
<1>3. PICK answer \in BOOLEAN : SlaveClk(ready', answer)
  <2>1. SlaveClk(ready', FALSE) \/ SlaveClk(ready', TRUE)
    BY AnswersDue DEF SlaveClk, TbClk
  <2>. QED
    BY <2>1
<1>4. Clk(o, ready', answer)
  BY <1>3 DEF Clk, TbClk
<1>. QED
  BY <1>2, <1>4 DEF Next

\* A step begins a transaction with one of the Transfers, or leaves the one there is.
LEMMA TxCases ==
    ASSUME TbInv, NEW o \in Offers, Addressed(o), MasterClk(o)
    PROVE  \/ /\ tx' = tx /\ want' = want
              /\ cur'.kind = Acked.kind
              /\ cur'.kind # "none" => cur'.kind = cur.kind /\ cur'.len = cur.len
           \/ /\ Acked.kind = "none" /\ cur' = o.next
              /\ \E t \in Transfers, tag \in {"odd", "even"} :
                   /\ tx' = Tagged(t, tag) /\ want' = Left(tx')
                   /\ cur'.kind = t.kind /\ cur'.len = t.len
<1>0. Types /\ Inv /\ tx.tag \in {"odd", "even"}
  BY DEF TbInv, Inv, TbTypes
<1>1. Acked.kind # "none" => /\ Acked.len = cur.len /\ Acked.kind = cur.kind
                             /\ Acked.sent = cur.sent
  BY <1>0, AckedType
<1>2. CASE o.in = <<>> /\ o.next = Acked
  <2>1. cur' = Acked
    BY <1>2 DEF MasterClk
  <2>2. ~Begins(o)
    BY <1>2 DEF Begins
  <2>. QED
    BY <1>1, <2>1, <2>2 DEF Addressed
<1>3. ASSUME Acked.kind = "none", NEW k \in {"read", "write"}, NEW n \in Lens, o.next = Started(k, n),
             o.in # <<>>
      PROVE  \/ tx' = tx /\ want' = want /\ cur' = Acked
             \/ /\ cur' = o.next
                /\ \E t \in Transfers, tag \in {"odd", "even"} :
                     /\ tx' = Tagged(t, tag) /\ want' = Left(tx')
                     /\ cur'.kind = t.kind /\ cur'.len = t.len
  <2>1. Begins(o)
    BY <1>3 DEF Begins, Started
  <2>2. CASE ~inport_accept_o
    <3>1. cur' = Acked
      BY <2>2 DEF MasterClk
    <3>. QED
      BY <1>3, <2>2, <3>1 DEF Addressed
  <2>3. CASE inport_accept_o
    <3>1. PICK t \in Transfers :
             /\ t.kind = o.next.kind /\ t.len = o.next.len
             /\ tx' = Tagged(t, IF t.kind = "write" THEN Other(tx.tag) ELSE tx.tag)
             /\ want' = Left(tx')
      BY <2>1, <2>3 DEF Addressed
    <3>2. (IF t.kind = "write" THEN Other(tx.tag) ELSE tx.tag) \in {"odd", "even"}
      BY <1>0 DEF Other
    <3>3. cur' = o.next
      BY <2>3 DEF MasterClk
    <3>. QED
      BY <3>1, <3>2, <3>3
  <2>. QED
    BY <2>2, <2>3
<1>4. CASE Acked.kind # "none" /\ o.next = [Acked EXCEPT !.sent = @ + 1]
  <2>1. cur.sent >= 1 /\ cur.sent \in Nat
    BY <1>0, <1>4, Boundary, CurType
  <2>2. Acked \in [kind : {"none", "read", "write"}, len : Lens \cup {0}, sent : Nat, got : Nat]
    BY <1>0, AckedType
  <2>3. o.next.sent = cur.sent + 1 /\ o.next.kind = Acked.kind /\ o.next.len = Acked.len
    BY <1>1, <1>4, <2>2
  <2>4. ~Begins(o)
    BY <2>1, <2>3 DEF Begins
  <2>5. cur'.kind = Acked.kind /\ cur'.len = Acked.len
    BY <2>3 DEF MasterClk
  <2>. QED
    BY <1>1, <1>4, <2>4, <2>5 DEF Addressed
<1>. QED
  <2>1. \A b : <<b>> # <<>>
    OBVIOUS
  <2>2. CASE Acked.kind = "none" /\ ~(o.in = <<>> /\ o.next = Acked)
    <3>1. \E k \in {"read", "write"}, n \in Lens : o.next = Started(k, n) /\ o.in # <<>>
      BY <2>1, <2>2, OfferCases
    <3>. QED
      BY <2>2, <3>1, <1>3
  <2>. QED
    BY <1>2, <1>4, <2>2, OfferCases

\* Nothing queued, whatever the transaction.
LEMMA NothingQueued ==
    ASSUME NEW t, t.len \in Nat, NEW req \in [valid : BOOLEAN, addr : Nat], ~req.valid
    PROVE  /\ ReadsQueued(t, <<>>, 0) /\ WritesQueued(t, <<>>, <<>>)
           /\ CommandHeld(t, req, <<>>, <<>>)
<1>1. Len(<<>>) = 0 /\ <<>> \in Seq(ReadItem) /\ <<>> \in Seq(WriteItem)
  BY EmptySeq
<1>. QED
  BY <1>1 DEF ReadsQueued, WritesQueued, CommandHeld

\* After the edge the queues hold what of the burst is not answered yet.
LEMMA QueuesStep ==
    ASSUME TbInv, NEW d \in Delays, Answer(d.r, d.b), TakenClk, wr_req' = CommandNext
    PROVE  /\ ReadsQueued(tx, rd_q', s_r') /\ WritesQueued(tx, wr_q', s_w')
           /\ CommandHeld(tx, wr_req', s_aw', s_w')
<1>0. /\ WritesQueued(tx, WrQueued, GotW) /\ CommandHeld(tx, CommandNext, GotAw, GotW)
      /\ ReadsQueued(tx, RdQueued, Owed)
  BY WritesGrow, ReadsGrow
<1>1. tx.len \in Nat /\ Inv
  BY LenType DEF TbInv, TbTypes
<1>2. Owed \in Nat /\ Len(GotW) \in Nat
  <2>1. Owed \in Nat
    BY <1>0, LenProperties DEF ReadsQueued
  <2>2. Len(GotW) \in Nat
    <3>1. Len(s_w) \in Nat
      BY <1>1, Offered
    <3>2. s_w \in Seq([beat : Nat, last : BOOLEAN])
      BY <1>1 DEF Inv, Types
    <3>3. w_taken => [beat |-> inport_w.beat, last |-> inport_w.last] \in [beat : Nat, last : BOOLEAN]
      <4>1. w_taken => inport_w.beat \in Nat /\ inport_w.last \in BOOLEAN
        BY <1>1, <3>1, Offered DEF w_taken
      <4>. QED
        BY <4>1
    <3>4. GotW \in Seq([beat : Nat, last : BOOLEAN])
      BY <3>2, <3>3, Appended DEF GotW
    <3>. QED
      BY <3>4, LenProperties
  <2>. QED
    BY <2>1, <2>2
<1>3. CASE /\ WrQueued # <<>> /\ Head(WrQueued).last /\ wr_q' = Tail(WrQueued) /\ rd_q' = <<>>
           /\ s_aw' = <<>> /\ s_w' = <<>> /\ s_r' = Owed /\ Owed = 0
  <2>1. Len(GotW) = tx.len + 1 /\ wr_q' = <<>>
    BY <1>0, <1>1, <1>2, <1>3, WritesShrink
  <2>2. CommandNext \in [valid : BOOLEAN, addr : Nat] /\ ~CommandNext.valid
    <3>1. ~(Len(GotW) <= tx.len)
      BY <1>1, <2>1
    <3>. QED
      BY <1>0, <3>1 DEF CommandHeld
  <2>. QED
    BY <1>1, <1>3, <2>1, <2>2, NothingQueued
<1>4. CASE /\ WrQueued # <<>> /\ ~Head(WrQueued).last /\ wr_q' = Tail(WrQueued)
           /\ rd_q' = RdQueued /\ s_aw' = GotAw /\ s_w' = GotW /\ s_r' = Owed
  <2>1. WritesQueued(tx, Tail(WrQueued), GotW)
    BY <1>0, <1>1, <1>2, <1>4, WritesShrink
  <2>. QED
    BY <1>0, <1>4, <2>1
<1>5. CASE /\ RdQueued # <<>> /\ wr_q' = WrQueued /\ rd_q' = Tail(RdQueued)
           /\ s_aw' = GotAw /\ s_w' = GotW /\ s_r' = Owed - 1
  <2>1. ReadsQueued(tx, Tail(RdQueued), Owed - 1)
    BY <1>0, <1>1, <1>2, <1>5, ReadsShrink
  <2>. QED
    BY <1>0, <1>5, <2>1
<1>6. CASE /\ wr_q' = WrQueued /\ rd_q' = RdQueued /\ s_aw' = GotAw /\ s_w' = GotW /\ s_r' = Owed
  BY <1>0, <1>6
<1>. QED
  BY <1>3, <1>4, <1>5, <1>6, AnswerCases

\* Between two transactions nothing is queued or taken.
LEMMA BoundaryQueues ==
    ASSUME TbInv, NEW d \in Delays, Answer(d.r, d.b), TakenClk, Acked.kind = "none"
    PROVE  /\ RdQueued = <<>> /\ WrQueued = <<>> /\ GotAw = <<>> /\ GotW = <<>> /\ Owed = 0
           /\ rd_q' = <<>> /\ wr_q' = <<>> /\ s_aw' = <<>> /\ s_w' = <<>> /\ s_r' = 0
           /\ byte' = byte /\ resp' = "none" /\ (cur.kind # "write" \/ resp = "b")
<1>1. /\ s_aw = <<>> /\ s_w = <<>> /\ s_r = 0 /\ (cur.kind # "write" \/ resp = "b")
      /\ ~aw_taken /\ ~w_taken /\ ~ar_taken
  BY Boundary DEF TbInv, aw_taken, w_taken, ar_taken
<1>2. RdQueued = <<>> /\ WrQueued = <<>>
  BY <1>1, OneKindQueued
<1>3. GotAw = <<>> /\ GotW = <<>> /\ Owed = 0
  BY <1>1 DEF GotAw, GotW, Owed
<1>. QED
  BY <1>1, <1>2, <1>3, AnswerCases

\* A transaction keeps the types.
LEMMA TaggedType ==
    ASSUME NEW t \in Transfers, NEW tag \in {"odd", "even"}
    PROVE  /\ Tagged(t, tag) \in [kind : {"read", "write"}, len : Lens \cup {0}, addr : Nat,
                                  burst : Bursts, strb : SUBSET (0 .. 3), tag : {"odd", "even"}]
           /\ Tagged(t, tag).kind = t.kind /\ Tagged(t, tag).len = t.len
           /\ Tagged(t, tag).addr = t.addr /\ Tagged(t, tag).burst = t.burst
           /\ Tagged(t, tag).strb = t.strb
<1>1. t \in [kind : {"read", "write"}, len : Lens, addr : Nat, burst : Bursts,
             strb : SUBSET (0 .. 3)]
  BY TbAxiAssumption
<1>. QED
  BY <1>1 DEF Tagged

\* The types after a step.
LEMMA TbTypesStep ==
    ASSUME TbInv, NEW o \in Offers, NEW d \in Delays, TbClk(o, d)
    PROVE  TbTypes'
<1>1. resp' \in {"none", "b", "r", "rlast"}
  BY AnswersDue DEF TbClk
<1>2. TbTypes
  BY DEF TbInv
<1>3. CASE /\ tx' = tx
           /\ cur'.kind # "none" => cur'.kind = cur.kind /\ cur'.len = cur.len
  BY <1>1, <1>2, <1>3 DEF TbTypes
<1>4. ASSUME NEW t \in Transfers, NEW tag \in {"odd", "even"}, tx' = Tagged(t, tag),
             cur'.kind = t.kind, cur'.len = t.len
      PROVE  TbTypes'
  BY <1>1, <1>4, TaggedType DEF TbTypes
<1>. QED
  BY <1>3, <1>4, TxCases DEF TbClk

\* Every step keeps the invariant.
LEMMA TbStep ==
    ASSUME TbInv, NEW o \in Offers, NEW d \in Delays, TbClk(o, d)
    PROVE  TbInv'
<1>1. Inv'
  BY IsSlave, NextInv DEF TbInv
<1>2. TbTypes'
  BY TbTypesStep
<1>3. /\ ReadsQueued(tx, rd_q', s_r') /\ WritesQueued(tx, wr_q', s_w')
      /\ CommandHeld(tx, wr_req', s_aw', s_w')
  BY QueuesStep DEF TbClk
<1>4. ready'.w => ready'.aw \/ wr_req'.valid
  <2>1. wr_req'.valid \in BOOLEAN
    BY <1>3 DEF CommandHeld
  <2>. QED
    BY <2>1, ReadyStep DEF TbClk
<1>5. /\ ReadsQueued(tx', rd_q', s_r') /\ WritesQueued(tx', wr_q', s_w')
      /\ CommandHeld(tx', wr_req', s_aw', s_w')
  <2>1. CASE tx' = tx
    BY <1>3, <2>1
  <2>2. CASE Acked.kind = "none"
    <3>1. rd_q' = <<>> /\ wr_q' = <<>> /\ s_aw' = <<>> /\ s_w' = <<>> /\ s_r' = 0
      BY <2>2, BoundaryQueues DEF TbClk
    <3>2. wr_req' \in [valid : BOOLEAN, addr : Nat] /\ ~wr_req'.valid
      BY <1>3, <3>1 DEF CommandHeld
    <3>3. tx'.len \in Nat
      BY <1>2, LenType DEF TbTypes
    <3>. QED
      BY <3>1, <3>2, <3>3, NothingQueued
  <2>. QED
    BY <2>1, <2>2, TxCases DEF TbClk
<1>. QED
  BY <1>1, <1>2, <1>4, <1>5 DEF TbInv, ReadsQueued, WritesQueued, CommandHeld, ReadAddr, WriteAddr

\* It holds at first.
LEMMA TbInitInv == TbInit => TbInv
<1>. SUFFICES ASSUME TbInit PROVE TbInv
  OBVIOUS
<1>1. Inv
  BY InitInv DEF TbInit
<1>2. NoTx \in [kind : {"read", "write"}, len : Lens \cup {0}, addr : Nat, burst : Bursts,
                strb : SUBSET (0 .. 3), tag : {"odd", "even"}]
  BY DEF NoTx, Bursts
<1>3. TbTypes
  BY <1>2 DEF TbTypes, TbInit, Init, Idle
<1>4. tx.len \in Nat
  BY DEF TbInit, NoTx
<1>5. wr_req \in [valid : BOOLEAN, addr : Nat] /\ ~wr_req.valid
  BY DEF TbInit, NoCommand
<1>6. rd_q = <<>> /\ wr_q = <<>> /\ s_aw = <<>> /\ s_w = <<>> /\ s_r = 0 /\ ~ready.w
  BY DEF TbInit, Init
<1>7. /\ ReadsQueued(tx, rd_q, s_r) /\ WritesQueued(tx, wr_q, s_w)
      /\ CommandHeld(tx, wr_req, s_aw, s_w)
  BY <1>4, <1>5, <1>6, NothingQueued
<1>. QED
  BY <1>1, <1>3, <1>6, <1>7 DEF TbInv

\* So it is an invariant, and every step is one of the bridge with its slave.
LEMMA TbNextInv == TbInv /\ [TbNext]_all_vars => TbInv' /\ [Next]_vars
<1>1. CASE UNCHANGED all_vars
  <2>. SUFFICES ASSUME TbInv PROVE TbInv' /\ UNCHANGED vars
    BY <1>1
  <2>1. UNCHANGED vars /\ UNCHANGED tb_vars
    BY <1>1 DEF all_vars
  <2>2. Inv'
    BY <2>1, NextInv DEF TbInv
  <2>3. TbTypes'
    BY <2>1 DEF TbInv, TbTypes, vars, tb_vars
  <2>4. (ReadsQueued(tx, rd_q, s_r) /\ WritesQueued(tx, wr_q, s_w)
         /\ CommandHeld(tx, wr_req, s_aw, s_w))'
    BY <2>1 DEF TbInv, ReadsQueued, WritesQueued, CommandHeld, ReadAddr, WriteAddr, vars, tb_vars
  <2>5. (ready.w => ready.aw \/ wr_req.valid)'
    BY <2>1 DEF TbInv, vars, tb_vars
  <2>. QED
    BY <2>1, <2>2, <2>3, <2>4, <2>5 DEF TbInv
<1>2. ASSUME TbInv, NEW o \in Offers, NEW d \in Delays, TbClk(o, d)
      PROVE  TbInv' /\ Next
  BY <1>2, IsSlave, TbStep
<1>. QED
  BY <1>1, <1>2 DEF TbNext

\* The memory of the test bench is a slave as AxiBridge assumes it, and in front of it the
\* bridge withdraws or changes no offer: what is proved of the bridge with any slave holds
\* for it with this one.
THEOREM TbRefinesSlave == TbSpec => ImplementsSlave
<1>1. TbInit => Init
  BY DEF TbInit
<1>2. TbInv => Inv
  BY DEF TbInv
<1>. QED
  BY TbInitInv, TbNextInv, <1>1, <1>2, OffersHold, PTL
     DEF TbSpec, ImplementsSlave, OffersStand

\* The bursts reach the memory whole and in order, and the cache gets the answers it
\* waits for, whatever the memory delays.
THEOREM TbBridgeCorrect == TbSpec => []BridgeInv
<1>1. TbInv => BridgeInv
  BY InvBridge DEF TbInv
<1>. QED
  BY TbInitInv, TbNextInv, <1>1, PTL DEF TbSpec

\* The assertion in the memory's write data branch never fails: a beat is taken only
\* with a command, taken in the same cycle or before.
THEOREM DataHasCommandCorrect == TbSpec => []DataHasCommand
<1>1. TbInv => DataHasCommand
  BY WritesGrow DEF DataHasCommand
<1>. QED
  BY TbInitInv, TbNextInv, <1>1, PTL DEF TbSpec

-----------------------------------------------------------------------------

\* A read gets its beats from where the AXI rules have them, a write leaves them there.
LEMMA AddressesRight ==
    ASSUME TbTypes, LegalTx, NEW k \in Nat
    PROVE  /\ ReadAddr(tx, k) = BeatAddr(tx, k)
           /\ tx.kind = "write" => WriteAddr(tx, k) = BeatAddr(tx, k)
<1>1. tx.addr \in Nat /\ tx.burst \in Bursts /\ tx.len \in Nat
  BY LenType DEF TbTypes
<1>2. ItemAddr(tx.addr - (tx.addr % 4), tx.burst, tx.len, k) = BeatAddr(tx, k)
  BY <1>1, ItemIsBeat DEF LegalTx
<1>3. High(tx.addr, 3) = tx.addr - (tx.addr % 4)
  BY <1>1, HighType
<1>4. tx.kind = "write" => tx.addr - (tx.addr % 4) = tx.addr
  BY <1>1 DEF LegalTx
<1>. QED
  BY <1>2, <1>3, <1>4 DEF ReadAddr, WriteAddr

\* Writing beat n leaves the byte to it if it is a hit.
LEMMA WriteOne ==
    ASSUME NEW item, NEW n \in 0 .. tx.len, item.addr = BeatAddr(tx, n), item.beat = n,
           item.strb = tx.strb
    PROVE  write32(item) = IF n \in Hits(tx) THEN LeftBy(tx, n) ELSE byte
<1>1. n \in Hits(tx) <=> Touches(item.addr) /\ Lane(item.addr) \in item.strb
  BY DEF Hits, Touches, Lane
<1>2. Lane(item.addr) = watch - BeatAddr(tx, n)
  BY DEF Lane
<1>. QED
  BY <1>1, <1>2 DEF write32, LeftBy

\* One beat more in memory.
LEMMA OneMore ==
    ASSUME NEW t, t.len \in Nat, NEW n \in 0 .. t.len, NEW b, NEW w, WrittenTo(t, n, b, w)
    PROVE  WrittenTo(t, n + 1, IF n \in Hits(t) THEN LeftBy(t, n) ELSE b, w)
<1>. DEFINE c == IF n \in Hits(t) THEN LeftBy(t, n) ELSE b
<1>1. Hits(t) = {} => c = w
  BY DEF WrittenTo
<1>2. ASSUME NEW k \in 0 .. t.len, LastHit(t, k, n + 1)
      PROVE  c = LeftBy(t, k)
  <2>1. Hits(t) \subseteq 0 .. t.len
    BY DEF Hits
  <2>2. k \in Hits(t) /\ \A y \in Hits(t) : y < n + 1 => y <= k
    BY <1>2 DEF LastHit
  <2>3. CASE n \in Hits(t)
    <3>1. k = n
      <4>1. n <= k /\ k < n + 1
        BY <1>2, <2>3 DEF LastHit
      <4>. QED
        BY <4>1
    <3>. QED
      BY <2>3, <3>1
  <2>4. CASE n \notin Hits(t)
    <3>1. k # n /\ k < n + 1
      BY <1>2, <2>2, <2>4 DEF LastHit
    <3>2. k < n
      BY <3>1
    <3>3. \A y \in Hits(t) : y < n => y <= k
      BY <2>1, <2>2
    <3>4. LastHit(t, k, n)
      BY <2>2, <3>2, <3>3 DEF LastHit
    <3>. QED
      BY <2>4, <3>4 DEF WrittenTo
  <2>. QED
    BY <2>3, <2>4
<1>3. \A k \in 0 .. t.len : LastHit(t, k, t.len + 1) => w = LeftBy(t, k)
  BY DEF WrittenTo
<1>. HIDE DEF c
<1>4. WrittenTo(t, n + 1, c, w)
  BY <1>1, <1>2, <1>3 DEF WrittenTo
<1>. QED
  BY <1>4 DEF c

\* All beats in memory: the byte is what it should be.
LEMMA AllWritten ==
    ASSUME NEW t, t.len \in 0 .. 255, NEW b, NEW w, WrittenTo(t, t.len + 1, b, w)
    PROVE  b = w
<1>1. CASE Hits(t) = {}
  BY <1>1 DEF WrittenTo
<1>2. CASE Hits(t) # {}
  <2>1. Hits(t) \subseteq 0 .. t.len
    BY DEF Hits
  <2>3. PICK k \in Hits(t) : \A y \in Hits(t) : y <= k
    BY <1>2, <2>1, t.len \in Nat, GreatestNumber
  <2>4. k \in 0 .. t.len /\ k < t.len + 1
    BY <2>1
  <2>5. LastHit(t, k, t.len + 1)
    BY <2>3, <2>4 DEF LastHit
  <2>. QED
    BY <2>4, <2>5 DEF WrittenTo
<1>. QED
  BY <1>1, <1>2

\* No beat of a new write in memory.
LEMMA NoneWritten ==
    ASSUME NEW t, t.len \in 0 .. 255, t.kind = "write", NEW w, w = Left(t)
    PROVE  WrittenTo(t, 0, want, w)
<1>0. Hits(t) \subseteq 0 .. t.len
  BY DEF Hits
<1>1. Hits(t) = {} => want = w
  BY DEF Left
<1>2. ASSUME NEW k \in 0 .. t.len, LastHit(t, k, t.len + 1)
      PROVE  w = LeftBy(t, k)
  <2>1. k \in Hits(t) /\ \A y \in Hits(t) : y <= k
    BY <1>0, <1>2 DEF LastHit
  <2>. DEFINE m == CHOOSE x \in Hits(t) : \A y \in Hits(t) : y <= x
  <2>2. m \in Hits(t) /\ \A y \in Hits(t) : y <= m
    BY <2>1
  <2>3. w = Value(t.tag, m, watch - BeatAddr(t, m))
    BY <2>1 DEF Left
  <2>. HIDE DEF m
  <2>4. k <= m /\ m <= k /\ m \in 0 .. t.len
    BY <1>0, <2>1, <2>2
  <2>5. m = k
    BY <2>4
  <2>. QED
    BY <2>3, <2>5 DEF LeftBy
<1>3. \A k \in 0 .. t.len : ~LastHit(t, k, 0)
  BY DEF LastHit
<1>. QED
  BY <1>1, <1>2, <1>3 DEF WrittenTo

\* A beat taken is a beat queued: the number written stays.
LEMMA BeatsWritten ==
    ASSUME TbInv
    PROVE  /\ Len(GotW) - Len(WrQueued) = Len(s_w) - Len(wr_q)
           /\ Len(GotW) \in Nat /\ Len(WrQueued) \in Nat
<1>1. /\ s_w \in Seq([beat : Nat, last : BOOLEAN]) /\ wr_q \in Seq(WriteItem)
      /\ WritesQueued(tx, WrQueued, GotW)
  BY WritesGrow DEF TbInv, Inv, Types, WritesQueued
<1>2. Len(s_w) \in Nat /\ Len(wr_q) \in Nat /\ Len(WrQueued) \in Nat
  BY <1>1, LenProperties DEF WritesQueued
<1>3. CASE ~w_taken
  BY <1>2, <1>3 DEF GotW, WrQueued
<1>4. CASE w_taken
  <2>. DEFINE b == [beat |-> inport_w.beat, last |-> inport_w.last]
              item == [addr |-> Commanded.addr, beat |-> inport_w.beat,
                       strb |-> tx.strb, last |-> inport_w.last]
  <2>1. inport_w.beat \in Nat /\ inport_w.last \in BOOLEAN
    BY <1>2, <1>4, Offered DEF TbInv, w_taken
  <2>2. b \in [beat : Nat, last : BOOLEAN]
    BY <2>1
  <2>3. GotW = Append(s_w, b) /\ WrQueued = Append(wr_q, item)
    BY <1>4 DEF GotW, WrQueued
  <2>. HIDE DEF b, item
  <2>4. Len(GotW) = Len(s_w) + 1
    BY <1>1, <2>2, <2>3, Appended
  <2>5. Len(WrQueued) = Len(wr_q) + 1
    BY <1>1, <2>3
  <2>. QED
    BY <1>2, <2>4, <2>5
<1>. QED
  BY <1>3, <1>4

\* A step in a write in progress.
LEMMA WriteDataStep ==
    ASSUME TbInv, DataInv, NEW d \in Delays, Answer(d.r, d.b), TakenClk,
           cur.kind = "write", resp = "none"
    PROVE  \/ resp' = "b" /\ byte' = want
           \/ resp' = "none" /\ WrittenTo(tx, Len(s_w') - Len(wr_q'), byte', want)
<1>. DEFINE n == Len(GotW) - Len(WrQueued)
<1>0. TbTypes /\ Inv /\ LegalTx /\ tx.kind = "write" /\ tx.len = cur.len
  BY DEF TbInv, DataInv, TbTypes
<1>1. tx.len \in 0 .. 255 /\ tx.len \in Nat
  BY <1>0, LenType DEF TbTypes
<1>2. WrittenTo(tx, n, byte, want) /\ Len(GotW) \in Nat /\ Len(WrQueued) \in Nat
  BY BeatsWritten DEF DataInv
<1>3. RdQueued = <<>>
  <2>1. s_r = 0 /\ ~ar_taken
    BY <1>0, Offered DEF ar_taken
  <2>. QED
    BY <2>1, OneKindQueued
<1>4. WritesQueued(tx, WrQueued, GotW)
  BY WritesGrow
<1>5. ASSUME WrQueued # <<>>
      PROVE  /\ n \in 0 .. tx.len /\ Len(Tail(WrQueued)) = Len(WrQueued) - 1
             /\ Head(WrQueued).last <=> n = tx.len
             /\ WrittenTo(tx, n + 1, write32(Head(WrQueued)), want)
  <2>1. /\ n \in 0 .. tx.len /\ Len(Tail(WrQueued)) = Len(WrQueued) - 1
        /\ Head(WrQueued).addr = WriteAddr(tx, n) /\ Head(WrQueued).beat = n
        /\ Head(WrQueued).strb = tx.strb
        /\ Head(WrQueued).last <=> n = tx.len
    BY <1>1, <1>2, <1>4, <1>5, WritesShrink
  <2>2. n \in Nat
    BY <2>1
  <2>. HIDE DEF n
  <2>3. Head(WrQueued).addr = BeatAddr(tx, n)
    BY <1>0, <2>1, <2>2, AddressesRight
  <2>4. write32(Head(WrQueued)) = IF n \in Hits(tx) THEN LeftBy(tx, n) ELSE byte
    BY <2>1, <2>3, WriteOne
  <2>5. WrittenTo(tx, n + 1, IF n \in Hits(tx) THEN LeftBy(tx, n) ELSE byte, want)
    BY <1>1, <1>2, <2>1, OneMore
  <2>. QED
    BY <2>1, <2>4, <2>5
<1>6. CASE /\ WrQueued # <<>> /\ Head(WrQueued).last /\ resp' = "b"
           /\ byte' = write32(Head(WrQueued))
  <2>1. n = tx.len /\ WrittenTo(tx, n + 1, byte', want)
    BY <1>5, <1>6
  <2>2. WrittenTo(tx, tx.len + 1, byte', want)
    BY <2>1
  <2>. QED
    BY <1>1, <1>6, <2>2, AllWritten
<1>7. CASE /\ WrQueued # <<>> /\ ~Head(WrQueued).last /\ resp' = "none"
           /\ wr_q' = Tail(WrQueued) /\ byte' = write32(Head(WrQueued)) /\ s_w' = GotW
  <2>1. Len(s_w') - Len(wr_q') = n + 1
    <3>1. Len(wr_q') = Len(WrQueued) - 1 /\ Len(s_w') = Len(GotW)
      BY <1>5, <1>7
    <3>. QED
      BY <1>2, <3>1
  <2>. QED
    BY <1>5, <1>7, <2>1
<1>8. CASE resp' = "none" /\ wr_q' = WrQueued /\ byte' = byte /\ s_w' = GotW
  BY <1>2, <1>8
<1>. QED
  BY <1>3, <1>6, <1>7, <1>8, AnswerCases

\* A step in a read in progress.
LEMMA ReadDataStep ==
    ASSUME TbInv, DataInv, NEW d \in Delays, Answer(d.r, d.b), TakenClk, Inv',
           cur.kind = "read", cur'.len = cur.len
    PROVE  /\ byte' = want /\ resp' # "b"
           /\ resp' \in {"r", "rlast"} => rdata' = read32(BeatAddr(tx, cur'.got))
<1>0. TbTypes /\ Inv /\ LegalTx /\ tx.len = cur.len /\ byte = want
  BY DEF TbInv, DataInv, TbTypes
<1>1. tx.len \in Nat
  BY <1>0, LenType DEF TbTypes
<1>2. WrQueued = <<>>
  <2>1. s_w = <<>> /\ ~w_taken
    BY <1>0, Offered DEF w_taken
  <2>. QED
    BY <2>1, OneKindQueued
<1>3. CASE resp' = "none" /\ byte' = byte
  BY <1>0, <1>3
<1>4. CASE /\ RdQueued # <<>> /\ byte' = byte /\ s_r' = Owed - 1
           /\ resp' = (IF Head(RdQueued).last THEN "rlast" ELSE "r")
           /\ rdata' = read32(Head(RdQueued).addr)
  <2>1. ReadsQueued(tx, RdQueued, Owed)
    BY ReadsGrow
  <2>2. Owed \in Nat
    BY <2>1, LenProperties DEF ReadsQueued
  <2>3. Owed > 0 /\ Head(RdQueued).addr = ReadAddr(tx, tx.len + 1 - Owed)
    BY <1>1, <1>4, <2>1, <2>2, ReadsShrink
  <2>4. resp' \in {"r", "rlast"}
    BY <1>4
  <2>5. ReadingInv'
    BY <2>4 DEF Inv, IdleInv, AskedInv, WritingInv, WrittenInv
  <2>6. cur'.got + s_r' = cur'.len /\ cur'.got \in Nat
    <3>1. cur'.got \in Nat /\ cur'.len \in Nat
      <4>1. Types'
        BY DEF Inv
      <4>2. cur'.len \in Lens \cup {0} /\ cur'.got \in Nat
        BY <4>1 DEF Types
      <4>. QED
        BY <4>2, LenType
    <3>2. \/ resp' = "none" \/ (resp' = "r" /\ cur'.got + s_r' = cur'.len)
          \/ (resp' = "rlast" /\ s_r' = 0 /\ cur'.got = cur'.len)
      BY <2>5 DEF ReadingInv
    <3>. QED
      BY <2>4, <3>1, <3>2
  <2>7. cur'.got = tx.len + 1 - Owed
    BY <1>0, <1>1, <1>4, <2>2, <2>6
  <2>8. ReadAddr(tx, cur'.got) = BeatAddr(tx, cur'.got)
    BY <1>0, <2>6, AddressesRight
  <2>9. rdata' = read32(BeatAddr(tx, cur'.got))
    BY <1>4, <2>3, <2>7, <2>8
  <2>10. resp' # "b"
    BY <2>4
  <2>. QED
    BY <1>0, <1>4, <2>9, <2>10
<1>. QED
  BY <1>2, <1>3, <1>4, AnswerCases

\* Every step keeps the invariant of the data.
LEMMA DataStep ==
    ASSUME WordWrites, LegalWraps, TbInv, DataInv, NEW o \in Offers, NEW d \in Delays,
           TbClk(o, d)
    PROVE  DataInv'
<1>0. /\ Answer(d.r, d.b) /\ TakenClk /\ Addressed(o) /\ MasterClk(o) /\ watch' = watch
      /\ Inv /\ Inv' /\ TbTypes /\ TbTypes'
  BY TbStep DEF TbClk, TbInv
<1>1. CASE /\ tx' = tx /\ want' = want /\ cur'.kind = Acked.kind
           /\ cur'.kind # "none" => cur'.kind = cur.kind /\ cur'.len = cur.len
  <2>0. LegalTx'
    BY <1>1 DEF DataInv, LegalTx
  <2>1. CASE Acked.kind = "none"
    <3>1. byte' = byte /\ resp' = "none" /\ byte = want /\ cur'.kind = "none"
      BY <1>0, <1>1, <2>1, BoundaryQueues DEF DataInv
    <3>. QED
      BY <1>1, <2>0, <3>1 DEF DataInv
  <2>2. CASE Acked.kind # "none" /\ cur.kind = "write"
    <3>1. resp = "none"
      BY <1>0, <2>2, Boundary
    <3>2. \/ resp' = "b" /\ byte' = want
          \/ resp' = "none" /\ WrittenTo(tx, Len(s_w') - Len(wr_q'), byte', want)
      BY <1>0, <2>2, <3>1, WriteDataStep
    <3>3. cur'.kind = "write"
      BY <1>1, <2>2
    <3>4. CASE resp' = "b" /\ byte' = want
      BY <1>1, <2>0, <3>3, <3>4 DEF DataInv
    <3>5. CASE resp' = "none" /\ WrittenTo(tx, Len(s_w') - Len(wr_q'), byte', want)
      <4>1. WrittenTo(tx, Len(s_w) - Len(wr_q), byte, want)'
        BY <1>0, <1>1, <3>5 DEF WrittenTo, Hits, LastHit, LeftBy
      <4>. QED
        BY <2>0, <3>3, <3>5, <4>1 DEF DataInv
    <3>. QED
      BY <3>2, <3>4, <3>5
  <2>3. CASE Acked.kind # "none" /\ cur.kind # "write"
    <3>1. cur'.kind = "read" /\ cur.kind = "read" /\ cur'.len = cur.len
      BY <1>0, <1>1, <2>3 DEF Inv, Types
    <3>2. /\ byte' = want /\ resp' # "b"
          /\ resp' \in {"r", "rlast"} => rdata' = read32(BeatAddr(tx, cur'.got))
      BY <1>0, <3>1, ReadDataStep
    <3>3. byte' = byte
      BY <3>1, <3>2 DEF DataInv
    <3>4. resp' \in {"r", "rlast"} => (rdata = read32(BeatAddr(tx, cur.got)))'
      BY <1>0, <1>1, <3>2, <3>3 DEF read32, Touches
    <3>. QED
      BY <1>1, <2>0, <3>1, <3>2, <3>4 DEF DataInv
  <2>. QED
    BY <2>1, <2>2, <2>3
<1>2. ASSUME Acked.kind = "none", NEW t \in Transfers, NEW tag \in {"odd", "even"},
             tx' = Tagged(t, tag), want' = Left(tx'), cur'.kind = t.kind
      PROVE  DataInv'
  <2>1. /\ tx'.kind = t.kind /\ tx'.len = t.len /\ tx'.addr = t.addr /\ tx'.burst = t.burst
    BY <1>2, TaggedType
  <2>2. LegalTx'
    BY <2>1 DEF LegalTx, WordWrites, LegalWraps
  <2>3. /\ byte' = byte /\ resp' = "none" /\ byte = want /\ s_w' = <<>> /\ wr_q' = <<>>
    BY <1>0, <1>2, BoundaryQueues DEF DataInv
  <2>4. CASE t.kind = "read"
    <3>1. want' = want
      BY <1>2, <2>1, <2>4 DEF Left
    <3>. QED
      BY <1>2, <2>2, <2>3, <2>4, <3>1 DEF DataInv
  <2>5. CASE t.kind # "read"
    <3>1. tx'.kind = "write" /\ cur'.kind = "write" /\ tx'.len \in 0 .. 255
      <4>1. tx'.kind \in {"read", "write"} /\ tx'.len \in Lens \cup {0}
        BY <1>0 DEF TbTypes
      <4>. QED
        BY <1>2, <2>1, <2>5, <4>1, LenType
    <3>2. WrittenTo(tx', 0, want, want')
      BY <1>2, <3>1, NoneWritten
    <3>3. Len(s_w') - Len(wr_q') = 0
      BY <2>3, EmptySeq
    <3>4. WrittenTo(tx', Len(s_w') - Len(wr_q'), byte', want')
      BY <2>3, <3>2, <3>3
    <3>5. WrittenTo(tx, Len(s_w) - Len(wr_q), byte, want)'
      BY <1>0, <3>4 DEF WrittenTo, Hits, LastHit, LeftBy
    <3>. QED
      BY <2>2, <2>3, <3>1, <3>5 DEF DataInv
  <2>. QED
    BY <2>4, <2>5
<1>. QED
  BY <1>0, <1>1, <1>2, TxCases

\* At first.
LEMMA DataInitInv == TbInit => DataInv
<1>. SUFFICES ASSUME TbInit PROVE DataInv
  OBVIOUS
<1>1. LegalTx
  BY DEF TbInit, NoTx, LegalTx
<1>2. cur.kind = "none" /\ resp = "none" /\ byte = want
  BY DEF TbInit, Init, Idle
<1>. QED
  BY <1>1, <1>2 DEF DataInv

\* And in a step that changes nothing.
LEMMA DataStutter == DataInv /\ UNCHANGED all_vars => DataInv'
<1>. SUFFICES ASSUME DataInv, UNCHANGED all_vars PROVE DataInv'
  OBVIOUS
<1>1. /\ tx' = tx /\ cur' = cur /\ resp' = resp /\ byte' = byte /\ want' = want
      /\ watch' = watch /\ rdata' = rdata /\ s_w' = s_w /\ wr_q' = wr_q
  BY DEF all_vars, vars, tb_vars
<1>2. LegalTx'
  BY <1>1 DEF DataInv, LegalTx
<1>3. cur.kind = "write" /\ resp = "none" => WrittenTo(tx, Len(s_w) - Len(wr_q), byte, want)'
  BY <1>1 DEF DataInv, WrittenTo, Hits, LastHit, LeftBy
<1>4. resp \in {"r", "rlast"} => (rdata = read32(BeatAddr(tx, cur.got)))'
  BY <1>1 DEF DataInv, read32, Touches
<1>. QED
  BY <1>1, <1>2, <1>3, <1>4 DEF DataInv

\* What the invariants say of a read, and of the time between two transactions.
LEMMA DataSeen == TbInv /\ DataInv => ReadSeesWrites
<1>. SUFFICES ASSUME TbInv, DataInv PROVE ReadSeesWrites
  OBVIOUS
<1>1. BridgeInv /\ Inv
  BY InvBridge DEF TbInv
<1>2. ASSUME resp \in {"r", "rlast"}
      PROVE  rdata = (IF watch \in BeatAddr(tx, cur.got) .. (BeatAddr(tx, cur.got) + 3)
                      THEN want ELSE Elsewhere)
  <2>1. cur.kind = "read"
    BY <1>1, <1>2 DEF BridgeInv, AnswerOnlyWhenDue, inport_ack_o
  <2>2. byte = want /\ rdata = read32(BeatAddr(tx, cur.got))
    BY <1>2, <2>1 DEF DataInv
  <2>. QED
    BY <2>2 DEF read32, Touches
<1>3. ASSUME cur.kind = "none"
      PROVE  wr_q = <<>> /\ rd_q = <<>> /\ ~wr_req.valid /\ byte = want
  <2>1. s_aw = <<>> /\ s_w = <<>> /\ s_r = 0
    BY <1>1, <1>3 DEF Inv, IdleInv, AskedInv, ReadingInv, WritingInv, WrittenInv, NothingTaken
  <2>2. ReadsQueued(tx, rd_q, 0) /\ WritesQueued(tx, wr_q, <<>>) /\ CommandHeld(tx, wr_req, <<>>, <<>>)
    BY <2>1 DEF TbInv
  <2>3. rd_q = <<>>
    BY <2>2, NoEntries DEF ReadsQueued
  <2>4. wr_q = <<>>
    <3>1. wr_q \in Seq(WriteItem) /\ Len(wr_q) <= 0
      BY <2>2, EmptySeq DEF WritesQueued
    <3>2. Len(wr_q) = 0
      BY <3>1, LenProperties
    <3>. QED
      BY <3>1, <3>2, NoEntries
  <2>5. ~wr_req.valid
    BY <2>2 DEF CommandHeld
  <2>. QED
    BY <1>3, <2>3, <2>4, <2>5 DEF DataInv
<1>. QED
  BY <1>2, <1>3 DEF ReadSeesWrites

\* A read returns of the watched byte, hence of every byte, what the last write to it
\* left, for bursts of all three kinds, any length, any strobes and any delays.
THEOREM ReadSeesWritesCorrect ==
    ASSUME WordWrites, LegalWraps
    PROVE  TbSpec => []ReadSeesWrites
<1>1. TbInv /\ DataInv /\ [TbNext]_all_vars => DataInv'
  <2>1. ASSUME TbInv, DataInv, NEW o \in Offers, NEW d \in Delays, TbClk(o, d)
        PROVE  DataInv'
    BY <2>1, DataStep
  <2>. QED
    BY <2>1, DataStutter DEF TbNext
<1>. QED
  BY TbInitInv, TbNextInv, DataInitInv, <1>1, DataSeen, PTL DEF TbSpec

-----------------------------------------------------------------------------
(* The test benches. *)

SignalNames == {"clk", "rst", "rst_cpu", "vector", "slave", "master"}
Threads == {"reset_gen", "process", "mem"}

\* A bundle of lines, and a set of signals.
Bundle == [valid : BOOLEAN, data : Nat]
SignalType == [clk : BOOLEAN, rst : BOOLEAN, rst_cpu : BOOLEAN, vector : {0, Entry},
               slave : Bundle, master : Bundle]

BenchTypes ==
    /\ bench \in {"cache", "tcm"} /\ edge \in Nat /\ run \subseteq Threads \cup {"wrapper", "rtl"}
    /\ now \in [port : SignalType, pin : SignalType]
    /\ nxt \in [port : SignalType, pin : SignalType]
    /\ mem \in [drives : Bundle, saw : Bundle, at : Nat] /\ mem.at <= edge
    /\ rtl \in [clk : BOOLEAN, rst : BOOLEAN, reset_q : BOOLEAN, drives : Bundle,
                started : BOOLEAN, start : {0, Entry, BootVector}, saw : Bundle, at : Nat]
    /\ rtl.at <= edge
    /\ before \in [slave : Bundle, master : Bundle]

\* The new values are those of their drivers; without the wrapper to run its copies
\* are made, and the RTL knows its clock unless it is to run.
Wires ==
    /\ nxt.pin.master = rtl.drives /\ nxt.port.slave = mem.drives /\ nxt.port.clk = now.port.clk
    /\ "wrapper" \notin run => /\ nxt.port.master = now.pin.master
                               /\ \A s \in Inputs : nxt.pin[s] = now.port[s]
    /\ now.pin.clk # rtl.clk => "rtl" \in run

\* The first delta cycle of a rising edge: ports and pins are those of before.
FirstDelta == now.port.clk /\ ~now.pin.clk

EdgePhases ==
    /\ run \cap Threads # {} => FirstDelta
    /\ now.port.clk => edge # 0
    /\ FirstDelta => /\ ~rtl.clk
                     /\ now.port.slave = before.slave /\ now.pin.slave = before.slave
                     /\ now.port.master = before.master
    /\ now.pin.clk /\ ~rtl.clk => now.port.clk /\ now.pin.slave = before.slave

\* The edges a thread has seen, and what it has counted of them.
EdgesSeen(p) == IF p \in run THEN edge - 1 ELSE edge
Capped(n, c) == IF n < c THEN n ELSE c

ThreadsCount ==
    /\ gen = Capped(EdgesSeen("reset_gen"), 2) /\ thr = Capped(EdgesSeen("process"), 3)
    /\ nxt.port.rst = (gen = 1)
    /\ nxt.port.vector = (IF bench = "cache" /\ thr >= 2 THEN Entry ELSE 0)
    /\ nxt.port.rst_cpu = (bench = "tcm" /\ thr = 2)

\* The resets and the vector as the threads have left them k edges after the start.
Shows(x, k) == IF bench = "cache"
               THEN x.rst = (k = 1) /\ x.vector = (IF k >= 2 THEN Entry ELSE 0)
               ELSE x.rst_cpu = (k = 2)

\* The edge whose values the ports have, and the pins.  The RTL has seen its reset
\* only if the pins are past it.
PortsAt == IF FirstDelta THEN edge - 1 ELSE edge
PinsAt(k) == /\ k = edge \/ k + 1 = edge
             /\ Shows(now.pin, k)
             /\ now.port.clk /\ ~rtl.clk => k + 1 = edge
             /\ rtl.reset_q => k >= (IF bench = "cache" THEN 1 ELSE 2)
ResetInv == Shows(now.port, PortsAt) /\ \E k \in Nat : PinsAt(k)

FileOpen == ended = "no" => flushes = 0 /\ (waves <=> vcd = "open")

\* The inductive invariant.
KernelInv == BenchTypes /\ Wires /\ EdgePhases /\ ThreadsCount /\ ResetInv
BenchInv == KernelInv /\ SamplesBeforeEdge /\ StartsAtEntry /\ FileOpen /\ ClosedOnce

-----------------------------------------------------------------------------

\* Signals are compared by value, bundles of lines too.
LEMMA SignalFields ==
    ASSUME NEW u \in SignalType
    PROVE  /\ DOMAIN u = SignalNames
           /\ u.clk \in BOOLEAN /\ u.rst \in BOOLEAN /\ u.rst_cpu \in BOOLEAN
           /\ u.vector \in {0, Entry} /\ u.slave \in Bundle /\ u.master \in Bundle
BY DEF SignalType, SignalNames

LEMMA SameIs ==
    ASSUME NEW u \in SignalType, NEW v \in SignalType, NEW s \in SignalNames
    PROVE  SameValue(s, u[s], v[s]) <=> u[s] = v[s]
<1>1. \A x, y \in Bundle : SameLines(x, y) <=> x = y
  BY DEF SameLines, Bundle
<1>2. CASE s \in Bundles
  <2>1. u[s] \in Bundle /\ v[s] \in Bundle
    BY <1>2 DEF SignalType, Bundles
  <2>. QED
    BY <1>1, <1>2, <2>1 DEF SameValue
<1>3. CASE s \notin Bundles
  BY <1>3 DEF SameValue
<1>. QED
  BY <1>2, <1>3

\* Signals with the same values are the same.
LEMMA SignalsEqual ==
    ASSUME NEW u \in SignalType, NEW v \in SignalType, \A s \in SignalNames : u[s] = v[s]
    PROVE  u = v
BY DEF SignalType, SignalNames

LEMMA UpdateIs ==
    ASSUME NEW u \in SignalType, NEW v \in SignalType
    PROVE  /\ Updated(u, v) = v
           /\ Changed(u, v) = {s \in SignalNames : u[s] # v[s]}
           /\ Changed(u, v) = {} => u = v
<1>1. DOMAIN u = SignalNames /\ DOMAIN v = SignalNames
  BY DEF SignalType, SignalNames
<1>2. Changed(u, v) = {s \in SignalNames : u[s] # v[s]}
  BY <1>1, SameIs DEF Changed
<1>3. Updated(u, v) = [s \in SignalNames |-> v[s]]
  BY <1>1, SameIs DEF Updated
<1>4. v = [s \in SignalNames |-> v[s]]
  BY DEF SignalType, SignalNames
<1>5. Changed(u, v) = {} => u = v
  BY <1>2, SignalsEqual
<1>. QED
  BY <1>2, <1>3, <1>4, <1>5

\* Signals copied over others.
LEMMA CopiedOver ==
    ASSUME NEW u \in SignalType, NEW v \in SignalType, NEW S
    PROVE  [s \in DOMAIN v |-> IF s \in S THEN u[s] ELSE v[s]] \in SignalType
<1>. DEFINE f == [s \in DOMAIN v |-> IF s \in S THEN u[s] ELSE v[s]]
<1>1. DOMAIN v = SignalNames
  BY DEF SignalType, SignalNames
<1>2. DOMAIN f = SignalNames /\ \A s \in SignalNames : f[s] = IF s \in S THEN u[s] ELSE v[s]
  BY <1>1
<1>3. f = [s \in SignalNames |-> f[s]]
  BY <1>1
<1>. HIDE DEF f
<1>4. f = [clk |-> f["clk"], rst |-> f["rst"], rst_cpu |-> f["rst_cpu"], vector |-> f["vector"],
           slave |-> f["slave"], master |-> f["master"]]
  BY <1>3 DEF SignalNames
<1>5. /\ f["clk"] \in BOOLEAN /\ f["rst"] \in BOOLEAN /\ f["rst_cpu"] \in BOOLEAN
      /\ f["vector"] \in {0, Entry} /\ f["slave"] \in Bundle /\ f["master"] \in Bundle
  BY <1>2, SignalFields DEF SignalNames
<1>. QED
  BY <1>4, <1>5 DEF SignalType

SignalPair == [port : SignalType, pin : SignalType]

\* A thread sets one signal of the ports.
PortSet(x, y, s, b) == /\ y \in SignalPair /\ y.pin = x.pin /\ y.port[s] = b
                       /\ \A r \in SignalNames \ {s} : y.port[r] = x.port[r]

LEMMA SetsClk ==
    ASSUME NEW x \in SignalPair, NEW b \in BOOLEAN, NEW y, y = [x EXCEPT !.port.clk = b]
    PROVE  PortSet(x, y, "clk", b)
<1>1. x.port \in SignalType /\ x.pin \in SignalType
  BY DEF SignalPair
<1>. DEFINE p == [x.port EXCEPT !.clk = b]
<1>2. p \in SignalType
  BY <1>1 DEF SignalType
<1>3. p["clk"] = b /\ \A r \in SignalNames \ {"clk"} : p[r] = x.port[r]
  BY <1>1, SignalFields DEF SignalNames
<1>4. y.port = p /\ y.pin = x.pin /\ y \in SignalPair
  BY <1>1, <1>2 DEF SignalPair
<1>. HIDE DEF p
<1>. QED
  BY <1>3, <1>4 DEF PortSet

LEMMA SetsRst ==
    ASSUME NEW x \in SignalPair, NEW b \in BOOLEAN, NEW y, y = [x EXCEPT !.port.rst = b]
    PROVE  PortSet(x, y, "rst", b)
<1>1. x.port \in SignalType /\ x.pin \in SignalType
  BY DEF SignalPair
<1>. DEFINE p == [x.port EXCEPT !.rst = b]
<1>2. p \in SignalType
  BY <1>1 DEF SignalType
<1>3. p["rst"] = b /\ \A r \in SignalNames \ {"rst"} : p[r] = x.port[r]
  BY <1>1, SignalFields DEF SignalNames
<1>4. y.port = p /\ y.pin = x.pin /\ y \in SignalPair
  BY <1>1, <1>2 DEF SignalPair
<1>. HIDE DEF p
<1>. QED
  BY <1>3, <1>4 DEF PortSet

LEMMA SetsRstCpu ==
    ASSUME NEW x \in SignalPair, NEW b \in BOOLEAN, NEW y, y = [x EXCEPT !.port.rst_cpu = b]
    PROVE  PortSet(x, y, "rst_cpu", b)
<1>1. x.port \in SignalType /\ x.pin \in SignalType
  BY DEF SignalPair
<1>. DEFINE p == [x.port EXCEPT !.rst_cpu = b]
<1>2. p \in SignalType
  BY <1>1 DEF SignalType
<1>3. p["rst_cpu"] = b /\ \A r \in SignalNames \ {"rst_cpu"} : p[r] = x.port[r]
  BY <1>1, SignalFields DEF SignalNames
<1>4. y.port = p /\ y.pin = x.pin /\ y \in SignalPair
  BY <1>1, <1>2 DEF SignalPair
<1>. HIDE DEF p
<1>. QED
  BY <1>3, <1>4 DEF PortSet

LEMMA SetsVector ==
    ASSUME NEW x \in SignalPair, NEW b \in {0, Entry}, NEW y, y = [x EXCEPT !.port.vector = b]
    PROVE  PortSet(x, y, "vector", b)
<1>1. x.port \in SignalType /\ x.pin \in SignalType
  BY DEF SignalPair
<1>. DEFINE p == [x.port EXCEPT !.vector = b]
<1>2. p \in SignalType
  BY <1>1 DEF SignalType
<1>3. p["vector"] = b /\ \A r \in SignalNames \ {"vector"} : p[r] = x.port[r]
  BY <1>1, SignalFields DEF SignalNames
<1>4. y.port = p /\ y.pin = x.pin /\ y \in SignalPair
  BY <1>1, <1>2 DEF SignalPair
<1>. HIDE DEF p
<1>. QED
  BY <1>3, <1>4 DEF PortSet

LEMMA SetsSlave ==
    ASSUME NEW x \in SignalPair, NEW b \in Bundle, NEW y, y = [x EXCEPT !.port.slave = b]
    PROVE  PortSet(x, y, "slave", b)
<1>1. x.port \in SignalType /\ x.pin \in SignalType
  BY DEF SignalPair
<1>. DEFINE p == [x.port EXCEPT !.slave = b]
<1>2. p \in SignalType
  BY <1>1 DEF SignalType
<1>3. p["slave"] = b /\ \A r \in SignalNames \ {"slave"} : p[r] = x.port[r]
  BY <1>1, SignalFields DEF SignalNames
<1>4. y.port = p /\ y.pin = x.pin /\ y \in SignalPair
  BY <1>1, <1>2 DEF SignalPair
<1>. HIDE DEF p
<1>. QED
  BY <1>3, <1>4 DEF PortSet

\* A process that is not a thread leaves what the threads count.
WrapperStep == /\ run' = run \ {"wrapper"} /\ nxt' \in SignalPair
               /\ nxt'.pin.master = nxt.pin.master /\ nxt'.port.master = now.pin.master
               /\ \A s \in Inputs : nxt'.pin[s] = now.port[s]
               /\ \A s \in {"clk", "rst", "rst_cpu", "vector", "slave"} : nxt'.port[s] = nxt.port[s]

LEMMA WrapperCopies ==
    ASSUME BenchTypes, async_outputs, run' = run \ {"wrapper"}
    PROVE  WrapperStep
<1>. DEFINE p == [nxt.port EXCEPT !.master = now.pin.master]
            q == [s \in DOMAIN nxt.pin |-> IF s \in Inputs THEN now.port[s] ELSE nxt.pin[s]]
<1>1. /\ nxt.port \in SignalType /\ nxt.pin \in SignalType
      /\ now.port \in SignalType /\ now.pin \in SignalType
  BY DEF BenchTypes
<1>2. p \in SignalType
  BY <1>1 DEF SignalType
<1>3. q \in SignalType
  BY <1>1, CopiedOver
<1>4. nxt' = [port |-> p, pin |-> q]
  BY DEF async_outputs
<1>5. p.master = now.pin.master
        /\ \A s \in {"clk", "rst", "rst_cpu", "vector", "slave"} : p[s] = nxt.port[s]
  BY <1>1, SignalFields DEF SignalNames
<1>6. DOMAIN nxt.pin = SignalNames /\ Inputs \subseteq SignalNames /\ "master" \notin Inputs
  BY <1>1, SignalFields DEF Inputs, CacheInputs, TcmInputs, SignalNames
<1>7. q.master = nxt.pin.master /\ \A s \in Inputs : q[s] = now.port[s]
  <2>1. "master" \in SignalNames
    BY DEF SignalNames
  <2>. QED
    BY <1>6, <2>1
<1>. HIDE DEF p, q
<1>8. nxt'.port = p /\ nxt'.pin = q /\ nxt' \in SignalPair
  BY <1>2, <1>3, <1>4 DEF SignalPair
<1>. QED
  BY <1>5, <1>7, <1>8 DEF WrapperStep

LEMMA WrapperKeeps ==
    ASSUME KernelInv, Process("wrapper")
    PROVE  KernelInv'
<1>0. BenchTypes /\ Wires /\ EdgePhases /\ ThreadsCount /\ ResetInv
  BY DEF KernelInv
<1>1. /\ async_outputs /\ run' = run \ {"wrapper"}
      /\ UNCHANGED <<bench, now, edge, gen, thr, mem, rtl, before>>
  BY DEF Process
<1>2. WrapperStep
  BY <1>0, <1>1, WrapperCopies
<1>3. BenchTypes'
  BY <1>0, <1>1, <1>2 DEF BenchTypes, WrapperStep, SignalPair
<1>4. Wires'
  BY <1>0, <1>1, <1>2 DEF Wires, WrapperStep, Inputs
<1>5. EdgePhases'
  <2>1. run' \cap Threads = run \cap Threads
    BY <1>1 DEF Threads
  <2>. QED
    BY <1>0, <1>1, <2>1 DEF EdgePhases, FirstDelta
<1>6. ThreadsCount'
  <2>1. EdgesSeen("reset_gen")' = EdgesSeen("reset_gen") /\ EdgesSeen("process")' = EdgesSeen("process")
    BY <1>1 DEF EdgesSeen
  <2>2. nxt'.port["rst"] = nxt.port["rst"] /\ nxt'.port["vector"] = nxt.port["vector"]
          /\ nxt'.port["rst_cpu"] = nxt.port["rst_cpu"]
    BY <1>2 DEF WrapperStep
  <2>. QED
    BY <1>0, <1>1, <2>1, <2>2 DEF ThreadsCount
<1>7. ResetInv'
  BY <1>0, <1>1 DEF ResetInv, PortsAt, FirstDelta, PinsAt, Shows
<1>. QED
  BY <1>3, <1>4, <1>5, <1>6, <1>7 DEF KernelInv

\* The RTL: what it registers, and what it drives.
RtlStep(clkRises) ==
    /\ nxt' = [nxt EXCEPT !.pin.master = rtl'.drives]
    /\ rtl'.clk = now.pin.clk
    /\ rtl'.reset_q => CoreReset \/ (rtl.reset_q /\ ~clkRises)
    /\ \/ clkRises /\ ~CoreReset /\ rtl'.at = edge /\ rtl'.saw = now.pin.slave
          /\ (rtl'.started => rtl.started \/ rtl.reset_q)
          /\ rtl'.start = (IF rtl.reset_q THEN Vector ELSE rtl.start)
       \/ /\ rtl'.at = rtl.at /\ rtl'.saw = rtl.saw /\ rtl'.start = rtl.start
          /\ (rtl'.started => rtl.started)
    /\ rtl' \in [clk : BOOLEAN, rst : BOOLEAN, reset_q : BOOLEAN, drives : Bundle,
                 started : BOOLEAN, start : {0, Entry, BootVector}, saw : Bundle, at : Nat]

LEMMA RtlDoes ==
    ASSUME BenchTypes, RtlEval
    PROVE  RtlStep(now.pin.clk /\ ~rtl.clk)
<1>. DEFINE clkRises == now.pin.clk /\ ~rtl.clk
            rstRises == CoreReset /\ ~rtl.rst
            known == [rtl EXCEPT !.clk = now.pin.clk, !.rst = CoreReset]
            R == [clk : BOOLEAN, rst : BOOLEAN, reset_q : BOOLEAN, drives : Bundle,
                  started : BOOLEAN, start : {0, Entry, BootVector}, saw : Bundle, at : Nat]
<1>1. /\ rtl \in R /\ edge \in Nat /\ bench \in {"cache", "tcm"}
      /\ now.pin \in SignalType
  BY DEF BenchTypes
<1>2. CoreReset \in BOOLEAN /\ now.pin.clk \in BOOLEAN /\ Vector \in {0, Entry, BootVector}
        /\ now.pin.slave \in Bundle
  BY <1>1, SignalFields DEF CoreReset, Vector
<1>3. /\ known \in R /\ known.clk = now.pin.clk /\ known.reset_q = rtl.reset_q
      /\ known.started = rtl.started /\ known.start = rtl.start /\ known.saw = rtl.saw
      /\ known.at = rtl.at /\ known.drives = rtl.drives
  BY <1>1, <1>2
<1>4. NoLines \in Bundle /\ Lines(edge) \in Bundle
  BY <1>1 DEF NoLines, Lines, Bundle
<1>. HIDE DEF known
<1>5. nxt' = [nxt EXCEPT !.pin.master = rtl'.drives]
  BY DEF RtlEval
<1>6. CASE CoreReset /\ (clkRises \/ rstRises)
  <2>1. rtl' = [known EXCEPT !.reset_q = TRUE, !.drives = NoLines, !.started = FALSE]
    BY <1>6 DEF RtlEval, known
  <2>2. rtl' \in R /\ rtl'.clk = known.clk /\ rtl'.at = known.at /\ rtl'.saw = known.saw
          /\ rtl'.start = known.start /\ ~rtl'.started
    BY <1>3, <1>4, <2>1
  <2>. QED
    BY <1>3, <1>5, <1>6, <2>2 DEF RtlStep
<1>7. CASE ~(CoreReset /\ (clkRises \/ rstRises)) /\ clkRises
  <2>1. rtl' = [known EXCEPT !.reset_q = FALSE, !.drives = Lines(edge),
                             !.started = @ \/ rtl.reset_q,
                             !.start = IF rtl.reset_q THEN Vector ELSE @,
                             !.saw = now.pin.slave, !.at = edge]
    BY <1>7 DEF RtlEval, known, RtlSamples, PinsOfRtl
  <2>2. /\ rtl' \in R /\ rtl'.clk = known.clk /\ rtl'.at = edge /\ rtl'.saw = now.pin.slave
        /\ rtl'.start = (IF rtl.reset_q THEN Vector ELSE known.start)
        /\ rtl'.started = (known.started \/ rtl.reset_q) /\ ~rtl'.reset_q
    BY <1>1, <1>2, <1>3, <1>4, <2>1
  <2>. QED
    BY <1>3, <1>5, <1>7, <2>2 DEF RtlStep
<1>8. CASE ~(CoreReset /\ (clkRises \/ rstRises)) /\ ~clkRises
  <2>1. rtl' = known
    BY <1>8 DEF RtlEval, known
  <2>. QED
    BY <1>3, <1>5, <1>8, <2>1 DEF RtlStep
<1>. QED
  BY <1>6, <1>7, <1>8

\* What an edge of the RTL finds: the lines of before, and after the reset the entry.
LEMMA RtlFinds ==
    ASSUME KernelInv, now.pin.clk, ~rtl.clk
    PROVE  /\ now.pin.slave = before.slave
           /\ rtl.reset_q /\ ~CoreReset =>
                thr >= 2 /\ Vector = (IF bench = "cache" THEN Entry ELSE BootVector)
<1>0. BenchTypes /\ EdgePhases /\ ThreadsCount /\ ResetInv
  BY DEF KernelInv
<1>1. now.port.clk /\ now.pin.slave = before.slave
  BY <1>0 DEF EdgePhases
<1>2. ASSUME rtl.reset_q, ~CoreReset
      PROVE  thr >= 2 /\ Vector = (IF bench = "cache" THEN Entry ELSE BootVector)
  <2>1. PICK k \in Nat : PinsAt(k)
    BY <1>0 DEF ResetInv
  <2>2. k + 1 = edge /\ Shows(now.pin, k) /\ k >= (IF bench = "cache" THEN 1 ELSE 2)
    BY <1>1, <1>2, <2>1 DEF PinsAt
  <2>3. thr = Capped(EdgesSeen("process"), 3) /\ EdgesSeen("process") \in {k, k + 1}
    BY <1>0, <2>2 DEF ThreadsCount, EdgesSeen, BenchTypes
  <2>4. bench \in {"cache", "tcm"}
    BY <1>0 DEF BenchTypes
  <2>5. k >= 2
    <3>1. CASE bench = "cache"
      <4>1. k # 1
        BY <1>2, <2>2, <3>1 DEF Shows, CoreReset
      <4>. QED
        BY <2>2, <3>1, <4>1
    <3>2. CASE bench # "cache"
      BY <2>2, <3>2
    <3>. QED
      BY <3>1, <3>2
  <2>6. thr >= 2
    BY <2>3, <2>5 DEF Capped
  <2>7. bench = "cache" => Vector = Entry
    BY <2>2, <2>5 DEF Vector, Shows
  <2>. QED
    BY <2>6, <2>7 DEF Vector
<1>. QED
  BY <1>1, <1>2

LEMMA RtlKeeps ==
    ASSUME KernelInv, SamplesBeforeEdge, StartsAtEntry, Process("rtl")
    PROVE  KernelInv' /\ SamplesBeforeEdge' /\ StartsAtEntry'
<1>. DEFINE clkRises == now.pin.clk /\ ~rtl.clk
<1>0. BenchTypes /\ Wires /\ EdgePhases /\ ThreadsCount /\ ResetInv
  BY DEF KernelInv
<1>1. /\ RtlEval /\ run' = run \ {"rtl"}
      /\ UNCHANGED <<bench, now, edge, gen, thr, mem, before>>
  BY DEF Process
<1>2. RtlStep(clkRises)
  BY <1>0, <1>1, RtlDoes
<1>3. now.pin.clk \in BOOLEAN /\ now.port.clk \in BOOLEAN
  BY <1>0, SignalFields DEF BenchTypes
<1>4. /\ nxt' \in SignalPair /\ nxt'.port = nxt.port /\ nxt'.pin.master = rtl'.drives
      /\ \A s \in Inputs : nxt'.pin[s] = nxt.pin[s]
  <2>1. nxt.port \in SignalType /\ nxt.pin \in SignalType /\ rtl'.drives \in Bundle
        /\ nxt \in SignalPair
    BY <1>0, <1>2 DEF BenchTypes, RtlStep, SignalPair
  <2>2. nxt' = [nxt EXCEPT !.pin.master = rtl'.drives]
    BY <1>2 DEF RtlStep
  <2>. DEFINE p == [nxt.pin EXCEPT !.master = rtl'.drives]
  <2>3. p \in SignalType /\ p.master = rtl'.drives
    BY <2>1 DEF SignalType
  <2>4. \A s \in Inputs : p[s] = nxt.pin[s]
    <3>1. "master" \notin Inputs /\ Inputs \subseteq SignalNames
      BY DEF Inputs, CacheInputs, TcmInputs, SignalNames
    <3>2. DOMAIN nxt.pin = SignalNames
      BY <2>1, SignalFields
    <3>. QED
      BY <3>1, <3>2
  <2>5. nxt' \in SignalPair /\ nxt'.port = nxt.port /\ nxt'.pin = p
    BY <2>1, <2>2, <2>3 DEF SignalPair
  <2>. HIDE DEF p
  <2>. QED
    BY <2>3, <2>4, <2>5
<1>5. rtl'.at <= edge /\ rtl'.at \in Nat
  BY <1>0, <1>2 DEF BenchTypes, RtlStep
<1>6. BenchTypes'
  <2>1. /\ rtl' \in [clk : BOOLEAN, rst : BOOLEAN, reset_q : BOOLEAN, drives : Bundle,
                     started : BOOLEAN, start : {0, Entry, BootVector}, saw : Bundle, at : Nat]
        /\ nxt' \in [port : SignalType, pin : SignalType]
    BY <1>2, <1>4 DEF RtlStep, SignalPair
  <2>. QED
    BY <1>0, <1>1, <1>5, <2>1 DEF BenchTypes
<1>7. Wires'
  <2>1. rtl'.clk = now.pin.clk
    BY <1>2 DEF RtlStep
  <2>2. "wrapper" \in run' <=> "wrapper" \in run
    BY <1>1
  <2>. QED
    BY <1>0, <1>1, <1>4, <2>1, <2>2 DEF Wires, Inputs
<1>8. EdgePhases'
  <2>1. run' \cap Threads = run \cap Threads
    BY <1>1 DEF Threads
  <2>2. rtl'.clk = now.pin.clk
    BY <1>2 DEF RtlStep
  <2>. QED
    BY <1>0, <1>1, <2>1, <2>2 DEF EdgePhases, FirstDelta
<1>9. ThreadsCount'
  <2>1. EdgesSeen("reset_gen")' = EdgesSeen("reset_gen") /\ EdgesSeen("process")' = EdgesSeen("process")
    BY <1>1 DEF EdgesSeen
  <2>. QED
    BY <1>0, <1>1, <1>4, <2>1 DEF ThreadsCount
<1>10. ResetInv'
  <2>1. PICK k \in Nat : PinsAt(k)
    BY <1>0 DEF ResetInv
  <2>2. Shows(now.port, PortsAt)'
    BY <1>0, <1>1 DEF ResetInv, Shows, PortsAt, FirstDelta
  <2>3. Shows(now.pin, k)' /\ (k = edge' \/ k + 1 = edge')
    BY <1>1, <2>1 DEF PinsAt, Shows
  <2>4. now'.port.clk /\ ~rtl'.clk => k + 1 = edge'
    <3>1. rtl'.clk = now.pin.clk
      BY <1>2 DEF RtlStep
    <3>2. now.port.clk /\ ~now.pin.clk => ~rtl.clk
      BY <1>0 DEF EdgePhases, FirstDelta
    <3>. QED
      BY <1>1, <2>1, <3>1, <3>2 DEF PinsAt
  <2>5. rtl'.reset_q => k >= (IF bench' = "cache" THEN 1 ELSE 2)
    <3>1. rtl'.reset_q => CoreReset \/ rtl.reset_q
      BY <1>2 DEF RtlStep
    <3>2. CoreReset => k >= (IF bench = "cache" THEN 1 ELSE 2)
      <4>1. Shows(now.pin, k)
        BY <2>1 DEF PinsAt
      <4>2. CASE bench = "cache"
        <5>1. CoreReset => k = 1
          BY <4>1, <4>2 DEF Shows, CoreReset
        <5>. QED
          BY <4>2, <5>1
      <4>3. CASE bench # "cache"
        <5>1. CoreReset => k = 2
          BY <4>1, <4>3 DEF Shows, CoreReset
        <5>. QED
          BY <4>3, <5>1
      <4>. QED
        BY <4>2, <4>3
    <3>. QED
      BY <1>1, <2>1, <3>1, <3>2 DEF PinsAt
  <2>6. PinsAt(k)'
    BY <2>3, <2>4, <2>5 DEF PinsAt
  <2>. QED
    BY <2>2, <2>6 DEF ResetInv
<1>11. CASE clkRises /\ ~CoreReset /\ rtl'.at = edge /\ rtl'.saw = now.pin.slave
            /\ (rtl'.started => rtl.started \/ rtl.reset_q)
            /\ rtl'.start = (IF rtl.reset_q THEN Vector ELSE rtl.start)
  <2>1. /\ now.pin.slave = before.slave
        /\ rtl.reset_q => thr >= 2 /\ Vector = (IF bench = "cache" THEN Entry ELSE BootVector)
    BY <1>11, RtlFinds
  <2>2. SamplesBeforeEdge'
    BY <1>1, <1>11, <2>1 DEF SamplesBeforeEdge
  <2>3. StartsAtEntry'
    BY <1>1, <1>11, <2>1 DEF StartsAtEntry
  <2>. QED
    BY <1>6, <1>7, <1>8, <1>9, <1>10, <2>2, <2>3 DEF KernelInv
<1>12. CASE /\ rtl'.at = rtl.at /\ rtl'.saw = rtl.saw /\ rtl'.start = rtl.start
            /\ (rtl'.started => rtl.started)
  <2>1. SamplesBeforeEdge' /\ StartsAtEntry'
    BY <1>1, <1>12 DEF SamplesBeforeEdge, StartsAtEntry
  <2>. QED
    BY <1>6, <1>7, <1>8, <1>9, <1>10, <2>1 DEF KernelInv
<1>. QED
  BY <1>2, <1>11, <1>12 DEF RtlStep

\* A thread runs in the first delta cycle of its edge, and drives ports.
ThreadStep(p) ==
    /\ p \in run /\ run' = run \ {p} /\ UNCHANGED <<bench, now, edge, rtl, before>>
    /\ nxt' \in SignalPair /\ nxt'.pin = nxt.pin
    /\ nxt'.port.clk = nxt.port.clk /\ nxt'.port.master = nxt.port.master
    /\ nxt'.port.slave = mem'.drives
    /\ mem' \in [drives : Bundle, saw : Bundle, at : Nat] /\ mem'.at <= edge

LEMMA ThreadRuns ==
    ASSUME KernelInv, NEW p \in Threads, p \in run
    PROVE  FirstDelta /\ edge \in Nat \ {0}
<1>1. BenchTypes /\ EdgePhases
  BY DEF KernelInv
<1>2. FirstDelta
  BY <1>1 DEF EdgePhases
<1>. QED
  BY <1>1, <1>2 DEF EdgePhases, FirstDelta, BenchTypes

LEMMA ThreadKeeps ==
    ASSUME KernelInv, NEW p \in Threads, ThreadStep(p)
    PROVE  BenchTypes' /\ Wires' /\ EdgePhases' /\ ResetInv'
<1>0. BenchTypes /\ Wires /\ EdgePhases /\ ResetInv
  BY DEF KernelInv
<1>1. /\ p \in run /\ run' = run \ {p} /\ UNCHANGED <<bench, now, edge, rtl, before>>
      /\ nxt' \in SignalPair /\ nxt'.pin = nxt.pin
      /\ nxt'.port.clk = nxt.port.clk /\ nxt'.port.master = nxt.port.master
      /\ nxt'.port.slave = mem'.drives
      /\ mem' \in [drives : Bundle, saw : Bundle, at : Nat] /\ mem'.at <= edge
  BY DEF ThreadStep
<1>2. BenchTypes'
  BY <1>0, <1>1 DEF BenchTypes, SignalPair
<1>3. Wires'
  <2>1. ("wrapper" \in run' <=> "wrapper" \in run) /\ ("rtl" \in run' <=> "rtl" \in run)
    BY <1>1 DEF Threads
  <2>. QED
    BY <1>0, <1>1, <2>1 DEF Wires, Inputs
<1>4. EdgePhases'
  <2>1. run' \cap Threads \subseteq run \cap Threads
    BY <1>1
  <2>. QED
    BY <1>0, <1>1, <2>1 DEF EdgePhases, FirstDelta
<1>5. ResetInv'
  BY <1>0, <1>1 DEF ResetInv, PortsAt, FirstDelta, PinsAt, Shows
<1>. QED
  BY <1>2, <1>3, <1>4, <1>5

LEMMA ResetThreadKeeps ==
    ASSUME KernelInv, SamplesBeforeEdge, StartsAtEntry, Process("reset_gen")
    PROVE  KernelInv' /\ SamplesBeforeEdge' /\ StartsAtEntry'
<1>0. BenchTypes /\ Wires /\ ThreadsCount
  BY DEF KernelInv
<1>1. /\ ResetThread /\ "reset_gen" \in run /\ run' = run \ {"reset_gen"}
      /\ UNCHANGED <<bench, now, edge, thr, mem, rtl, before>>
  BY DEF Process
<1>2. nxt \in SignalPair
  BY <1>0 DEF BenchTypes, SignalPair
<1>3. "reset_gen" \in Threads
  BY DEF Threads
<1>4. edge \in Nat \ {0}
  BY <1>1, <1>3, ThreadRuns
<1>5. gen = Capped(edge - 1, 2) /\ nxt.port.rst = (gen = 1)
  BY <1>0, <1>1 DEF ThreadsCount, EdgesSeen
<1>6. gen \in Nat /\ gen' = (IF gen < 2 THEN gen + 1 ELSE gen) /\ gen' = Capped(edge, 2)
  <2>1. gen' = IF gen < 2 THEN gen + 1 ELSE gen
    BY <1>1 DEF ResetThread
  <2>2. gen = Capped(edge - 1, 2)
    BY <1>5
  <2>. QED
    BY <1>4, <2>1, <2>2 DEF Capped
<1>7. /\ nxt' \in SignalPair /\ nxt'.pin = nxt.pin /\ nxt'.port.rst = (gen' = 1)
      /\ \A s \in SignalNames \ {"rst"} : nxt'.port[s] = nxt.port[s]
  <2>1. CASE gen = 0
    <3>1. nxt' = [nxt EXCEPT !.port.rst = TRUE]
      BY <1>1, <2>1 DEF ResetThread
    <3>2. PortSet(nxt, nxt', "rst", TRUE)
      BY <1>2, <3>1, SetsRst
    <3>3. gen' = 1
      BY <1>6, <2>1
    <3>. QED
      BY <3>2, <3>3 DEF PortSet
  <2>2. CASE gen = 1
    <3>1. nxt' = [nxt EXCEPT !.port.rst = FALSE]
      BY <1>1, <2>2 DEF ResetThread
    <3>2. PortSet(nxt, nxt', "rst", FALSE)
      BY <1>2, <3>1, SetsRst
    <3>3. gen' # 1
      BY <1>6, <2>2
    <3>. QED
      BY <3>2, <3>3 DEF PortSet
  <2>3. CASE gen # 0 /\ gen # 1
    <3>1. nxt' = nxt
      BY <1>1, <2>3 DEF ResetThread
    <3>2. gen' = gen
      BY <1>6, <2>3
    <3>. QED
      BY <1>2, <1>5, <3>1, <3>2
  <2>. QED
    BY <2>1, <2>2, <2>3
<1>8. /\ nxt'.port.clk = nxt.port.clk /\ nxt'.port.master = nxt.port.master
      /\ nxt'.port.slave = nxt.port.slave /\ nxt'.port.vector = nxt.port.vector
      /\ nxt'.port.rst_cpu = nxt.port.rst_cpu
  BY <1>7 DEF SignalNames
<1>9. ThreadStep("reset_gen")
  BY <1>0, <1>1, <1>7, <1>8 DEF ThreadStep, BenchTypes, Wires
<1>10. BenchTypes' /\ Wires' /\ EdgePhases' /\ ResetInv'
  BY <1>3, <1>9, ThreadKeeps
<1>11. ThreadsCount'
  <2>1. EdgesSeen("reset_gen")' = edge
    BY <1>1 DEF EdgesSeen
  <2>2. EdgesSeen("process")' = EdgesSeen("process")
    BY <1>1 DEF EdgesSeen
  <2>3. gen' = Capped(EdgesSeen("reset_gen"), 2)'
    BY <1>6, <2>1 DEF Capped
  <2>4. thr' = Capped(EdgesSeen("process"), 3)'
    BY <1>0, <1>1, <2>2 DEF ThreadsCount, Capped
  <2>5. /\ nxt'.port.vector = (IF bench' = "cache" /\ thr' >= 2 THEN Entry ELSE 0)
        /\ nxt'.port.rst_cpu = (bench' = "tcm" /\ thr' = 2)
    BY <1>0, <1>1, <1>8 DEF ThreadsCount
  <2>. QED
    BY <1>7, <2>3, <2>4, <2>5 DEF ThreadsCount
<1>12. SamplesBeforeEdge' /\ StartsAtEntry'
  BY <1>1 DEF SamplesBeforeEdge, StartsAtEntry
<1>. QED
  BY <1>10, <1>11, <1>12 DEF KernelInv

LEMMA TestThreadKeeps ==
    ASSUME KernelInv, SamplesBeforeEdge, StartsAtEntry, Process("process")
    PROVE  KernelInv' /\ SamplesBeforeEdge' /\ StartsAtEntry'
<1>0. BenchTypes /\ Wires /\ ThreadsCount
  BY DEF KernelInv
<1>1. /\ TestThread /\ "process" \in run /\ run' = run \ {"process"}
      /\ UNCHANGED <<bench, now, edge, gen, mem, rtl, before>>
  BY DEF Process
<1>2. nxt \in SignalPair /\ bench \in {"cache", "tcm"} /\ Entry \in {0, Entry}
  BY <1>0 DEF BenchTypes, SignalPair
<1>3. "process" \in Threads
  BY DEF Threads
<1>4. edge \in Nat \ {0}
  BY <1>1, <1>3, ThreadRuns
<1>5. /\ thr = Capped(edge - 1, 3)
      /\ nxt.port.vector = (IF bench = "cache" /\ thr >= 2 THEN Entry ELSE 0)
      /\ nxt.port.rst_cpu = (bench = "tcm" /\ thr = 2)
  BY <1>0, <1>1 DEF ThreadsCount, EdgesSeen
<1>6. thr \in Nat /\ thr' = (IF thr < 3 THEN thr + 1 ELSE thr) /\ thr' = Capped(edge, 3)
  <2>1. thr' = IF thr < 3 THEN thr + 1 ELSE thr
    BY <1>1 DEF TestThread
  <2>2. thr = Capped(edge - 1, 3)
    BY <1>5
  <2>. QED
    BY <1>4, <2>1, <2>2 DEF Capped
<1>7. /\ nxt' \in SignalPair /\ nxt'.pin = nxt.pin
      /\ \A s \in SignalNames \ {"vector", "rst_cpu"} : nxt'.port[s] = nxt.port[s]
      /\ nxt'.port.vector = (IF bench = "cache" /\ thr' >= 2 THEN Entry ELSE 0)
      /\ nxt'.port.rst_cpu = (bench = "tcm" /\ thr' = 2)
  <2>1. CASE thr = 1 /\ bench = "cache"
    <3>1. nxt' = [nxt EXCEPT !.port.vector = Entry]
      BY <1>1, <2>1 DEF TestThread, ResetCall
    <3>2. PortSet(nxt, nxt', "vector", Entry)
      BY <1>2, <3>1, SetsVector
    <3>3. thr' >= 2
      BY <1>6, <2>1
    <3>4. nxt'.port.rst_cpu = nxt.port.rst_cpu
      BY <3>2 DEF PortSet, SignalNames
    <3>. QED
      BY <1>5, <2>1, <3>2, <3>3, <3>4 DEF PortSet
  <2>2. CASE bench = "tcm" /\ thr \in {1, 2}
    <3>1. nxt' = [nxt EXCEPT !.port.rst_cpu = (thr = 1)]
      BY <1>1, <2>2 DEF TestThread, ResetCall
    <3>2. PortSet(nxt, nxt', "rst_cpu", thr = 1)
      <4>1. (thr = 1) \in BOOLEAN
        OBVIOUS
      <4>. QED
        BY <1>2, <3>1, <4>1, SetsRstCpu
    <3>3. (thr = 1) = (thr' = 2)
      BY <1>6, <2>2
    <3>4. nxt'.port.vector = nxt.port.vector
      BY <3>2 DEF PortSet, SignalNames
    <3>. QED
      BY <1>5, <2>2, <3>2, <3>3, <3>4 DEF PortSet
  <2>3. CASE ~(thr = 1 /\ bench = "cache") /\ ~(bench = "tcm" /\ thr \in {1, 2})
    <3>1. nxt' = nxt
      BY <1>1, <2>3 DEF TestThread, ResetCall
    <3>2. bench = "cache" => (thr' >= 2 <=> thr >= 2)
      BY <1>6, <2>3
    <3>3. bench = "tcm" => ((thr' = 2) = (thr = 2))
      BY <1>6, <2>3
    <3>4. nxt'.port.vector = (IF bench = "cache" /\ thr' >= 2 THEN Entry ELSE 0)
      BY <1>5, <3>1, <3>2
    <3>5. nxt'.port.rst_cpu = (bench = "tcm" /\ thr' = 2)
      BY <1>5, <3>1, <3>3
    <3>. QED
      BY <1>2, <3>1, <3>4, <3>5
  <2>. QED
    BY <2>1, <2>2, <2>3
<1>8. /\ nxt'.port.clk = nxt.port.clk /\ nxt'.port.master = nxt.port.master
      /\ nxt'.port.slave = nxt.port.slave /\ nxt'.port.rst = nxt.port.rst
  BY <1>7 DEF SignalNames
<1>9. ThreadStep("process")
  BY <1>0, <1>1, <1>7, <1>8 DEF ThreadStep, BenchTypes, Wires
<1>10. BenchTypes' /\ Wires' /\ EdgePhases' /\ ResetInv'
  BY <1>3, <1>9, ThreadKeeps
<1>11. ThreadsCount'
  <2>1. EdgesSeen("process")' = edge
    BY <1>1 DEF EdgesSeen
  <2>2. EdgesSeen("reset_gen")' = EdgesSeen("reset_gen")
    BY <1>1 DEF EdgesSeen
  <2>3. thr' = Capped(EdgesSeen("process"), 3)'
    BY <1>6, <2>1 DEF Capped
  <2>4. gen' = Capped(EdgesSeen("reset_gen"), 2)'
    BY <1>0, <1>1, <2>2 DEF ThreadsCount, Capped
  <2>5. nxt'.port.rst = (gen' = 1)
    BY <1>0, <1>1, <1>8 DEF ThreadsCount
  <2>. QED
    BY <1>1, <1>7, <2>3, <2>4, <2>5 DEF ThreadsCount
<1>12. SamplesBeforeEdge' /\ StartsAtEntry'
  <2>1. thr >= 2 => thr' >= 2
    BY <1>6
  <2>. QED
    BY <1>1, <2>1 DEF SamplesBeforeEdge, StartsAtEntry
<1>. QED
  BY <1>10, <1>11, <1>12 DEF KernelInv

LEMMA MemThreadKeeps ==
    ASSUME KernelInv, SamplesBeforeEdge, StartsAtEntry, Process("mem")
    PROVE  KernelInv' /\ SamplesBeforeEdge' /\ StartsAtEntry'
<1>0. BenchTypes /\ Wires /\ ThreadsCount /\ EdgePhases
  BY DEF KernelInv
<1>1. /\ MemThread /\ "mem" \in run /\ run' = run \ {"mem"}
      /\ UNCHANGED <<bench, now, edge, gen, thr, rtl, before>>
  BY DEF Process
<1>2. nxt \in SignalPair /\ now.port.master \in Bundle
  BY <1>0, SignalFields DEF BenchTypes, SignalPair
<1>3. "mem" \in Threads
  BY DEF Threads
<1>4. FirstDelta /\ edge \in Nat \ {0}
  BY <1>1, <1>3, ThreadRuns
<1>5. Lines(edge) \in Bundle
  BY <1>4 DEF Lines, Bundle
<1>6. PortSet(nxt, nxt', "slave", Lines(edge))
  <2>1. nxt' = [nxt EXCEPT !.port.slave = Lines(edge)]
    BY <1>1 DEF MemThread
  <2>. QED
    BY <1>2, <1>5, <2>1, SetsSlave
<1>7. mem' = [drives |-> Lines(edge), saw |-> now.port.master, at |-> edge]
  BY <1>1 DEF MemThread
<1>8. /\ nxt'.port.clk = nxt.port.clk /\ nxt'.port.master = nxt.port.master
      /\ nxt'.port.rst = nxt.port.rst /\ nxt'.port.vector = nxt.port.vector
      /\ nxt'.port.rst_cpu = nxt.port.rst_cpu
  BY <1>6 DEF SignalNames, PortSet
<1>9. ThreadStep("mem")
  <2>1. nxt' \in SignalPair /\ nxt'.pin = nxt.pin /\ nxt'.port.slave = mem'.drives
    BY <1>6, <1>7 DEF PortSet
  <2>2. mem' \in [drives : Bundle, saw : Bundle, at : Nat] /\ mem'.at <= edge
    BY <1>2, <1>4, <1>5, <1>7
  <2>. QED
    BY <1>1, <1>8, <2>1, <2>2 DEF ThreadStep
<1>10. BenchTypes' /\ Wires' /\ EdgePhases' /\ ResetInv'
  BY <1>3, <1>9, ThreadKeeps
<1>11. ThreadsCount'
  <2>1. EdgesSeen("reset_gen")' = EdgesSeen("reset_gen") /\ EdgesSeen("process")' = EdgesSeen("process")
    BY <1>1 DEF EdgesSeen
  <2>. QED
    BY <1>0, <1>1, <1>8, <2>1 DEF ThreadsCount, Capped
<1>12. SamplesBeforeEdge' /\ StartsAtEntry'
  <2>1. mem'.saw = before.master
    BY <1>0, <1>4, <1>7 DEF EdgePhases
  <2>. QED
    BY <1>1, <2>1 DEF SamplesBeforeEdge, StartsAtEntry
<1>. QED
  BY <1>10, <1>11, <1>12 DEF KernelInv

\* When the delta cycle is over no thread has anything to do, and every driver's value is
\* on its way.
LEMMA QuietIs ==
    ASSUME KernelInv, run = {}
    PROVE  /\ now.pin.clk = rtl.clk
           /\ nxt.port.master = now.pin.master /\ \A s \in Inputs : nxt.pin[s] = now.port[s]
           /\ gen = Capped(edge, 2) /\ thr = Capped(edge, 3)
           /\ "clk" \in Inputs /\ "slave" \in Inputs /\ "master" \notin Inputs
           /\ Inputs \subseteq SignalNames
<1>1. BenchTypes /\ Wires /\ ThreadsCount
  BY DEF KernelInv
<1>2. /\ now.pin.clk = rtl.clk
      /\ nxt.port.master = now.pin.master /\ \A s \in Inputs : nxt.pin[s] = now.port[s]
  BY <1>1 DEF Wires
<1>3. gen = Capped(edge, 2) /\ thr = Capped(edge, 3)
  BY <1>1 DEF ThreadsCount, EdgesSeen
<1>4. /\ "clk" \in Inputs /\ "slave" \in Inputs /\ "master" \notin Inputs
      /\ Inputs \subseteq SignalNames
  BY DEF Inputs, CacheInputs, TcmInputs, SignalNames
<1>. QED
  BY <1>2, <1>3, <1>4

\* Pins that have the values of the ports show the same resets and vector.
LEMMA ShowsCopied ==
    ASSUME NEW x, NEW y, NEW k, bench \in {"cache", "tcm"},
           \A s \in Inputs : y[s] = x[s], Shows(x, k)
    PROVE  Shows(y, k)
<1>1. CASE bench = "cache"
  <2>1. y["rst"] = x["rst"] /\ y["vector"] = x["vector"]
    BY <1>1 DEF Inputs, CacheInputs
  <2>. QED
    BY <1>1, <2>1 DEF Shows
<1>2. CASE bench = "tcm"
  <2>1. y["rst_cpu"] = x["rst_cpu"]
    BY <1>2 DEF Inputs, TcmInputs
  <2>. QED
    BY <1>2, <2>1 DEF Shows
<1>. QED
  BY <1>1, <1>2

LEMMA UpdateKeeps ==
    ASSUME KernelInv, SamplesBeforeEdge, StartsAtEntry, Update
    PROVE  KernelInv' /\ SamplesBeforeEdge' /\ StartsAtEntry'
<1>. DEFINE ports == Changed(now.port, nxt.port)
            pins == Changed(now.pin, nxt.pin)
<1>0. BenchTypes /\ Wires /\ ThreadsCount /\ EdgePhases /\ ResetInv
  BY DEF KernelInv
<1>1. /\ run = {} /\ UNCHANGED <<bench, edge, gen, thr, mem, rtl, before>>
      /\ run' = Woken(ports, pins, FALSE)
  BY DEF Update
<1>2. /\ now.port \in SignalType /\ nxt.port \in SignalType /\ nxt \in SignalPair
      /\ now.pin \in SignalType /\ nxt.pin \in SignalType /\ nxt = [port |-> nxt.port, pin |-> nxt.pin]
  BY <1>0 DEF BenchTypes, SignalPair
<1>3. now' = nxt /\ nxt' = nxt
  <2>1. Updated(now.port, nxt.port) = nxt.port /\ Updated(now.pin, nxt.pin) = nxt.pin
    BY <1>2, UpdateIs
  <2>. QED
    BY <1>2, <2>1 DEF Update
<1>4. /\ ports = {s \in SignalNames : now.port[s] # nxt.port[s]}
      /\ pins = {s \in SignalNames : now.pin[s] # nxt.pin[s]}
  BY <1>2, UpdateIs
<1>. HIDE DEF ports, pins
<1>5. /\ now.pin.clk = rtl.clk
      /\ nxt.port.master = now.pin.master /\ \A s \in Inputs : nxt.pin[s] = now.port[s]
      /\ gen = Capped(edge, 2) /\ thr = Capped(edge, 3)
      /\ "clk" \in Inputs /\ "slave" \in Inputs /\ "master" \notin Inputs
      /\ Inputs \subseteq SignalNames
  BY <1>1, QuietIs
<1>6. /\ run' \subseteq {"wrapper", "rtl"}
      /\ "wrapper" \in run' <=> (ports \cap Inputs # {} \/ "master" \in pins)
      /\ "rtl" \in run' <=> pins \cap Inputs # {}
  BY <1>1 DEF Woken, WrapperSensitive
<1>7. BenchTypes'
  <2>1. run' \subseteq Threads \cup {"wrapper", "rtl"}
    BY <1>6
  <2>. QED
    BY <1>0, <1>1, <1>3, <2>1 DEF BenchTypes
<1>8. Wires'
  <2>1. ASSUME "wrapper" \notin run'
        PROVE  /\ nxt'.port.master = now'.pin.master
               /\ \A s \in Inputs' : nxt'.pin[s] = now'.port[s]
    <3>1. ports \cap Inputs = {} /\ "master" \notin pins
      BY <1>6, <2>1
    <3>2. \A s \in Inputs : nxt.port[s] = now.port[s]
      BY <1>4, <1>5, <3>1
    <3>3. nxt.pin["master"] = now.pin["master"]
      BY <1>4, <3>1 DEF SignalNames
    <3>4. Inputs' = Inputs
      BY <1>1 DEF Inputs
    <3>. QED
      BY <1>3, <1>5, <3>2, <3>3, <3>4
  <2>2. now'.pin.clk # rtl'.clk => "rtl" \in run'
    <3>1. nxt.pin["clk"] # now.pin["clk"] => "clk" \in pins
      BY <1>4 DEF SignalNames
    <3>. QED
      BY <1>1, <1>3, <1>5, <1>6, <3>1
  <2>3. nxt'.pin.master = rtl'.drives /\ nxt'.port.slave = mem'.drives
          /\ nxt'.port.clk = now'.port.clk
    BY <1>0, <1>1, <1>3 DEF Wires
  <2>. QED
    BY <2>1, <2>2, <2>3 DEF Wires
<1>9. nxt.port.clk = now.port.clk /\ nxt.pin.clk = now.port.clk /\ nxt.pin.slave = now.port.slave
  BY <1>0, <1>5 DEF Wires
<1>10. ~FirstDelta'
  BY <1>3, <1>9 DEF FirstDelta
<1>11. EdgePhases'
  <2>1. run' \cap Threads = {}
    BY <1>6 DEF Threads
  <2>2. now'.port.clk => edge' # 0
    BY <1>0, <1>1, <1>3, <1>9 DEF EdgePhases
  <2>3. ASSUME now'.pin.clk, ~rtl'.clk PROVE now'.port.clk /\ now'.pin.slave = before'.slave
    <3>1. FirstDelta
      BY <1>1, <1>3, <1>5, <1>9, <2>3 DEF FirstDelta
    <3>. QED
      BY <1>0, <1>1, <1>3, <1>9, <3>1 DEF EdgePhases, FirstDelta
  <2>. QED
    BY <1>10, <2>1, <2>2, <2>3 DEF EdgePhases
<1>12. ThreadsCount'
  <2>1. EdgesSeen("reset_gen")' = edge /\ EdgesSeen("process")' = edge
    BY <1>1, <1>6 DEF EdgesSeen
  <2>2. gen' = Capped(EdgesSeen("reset_gen"), 2)' /\ thr' = Capped(EdgesSeen("process"), 3)'
    BY <1>1, <1>5, <2>1 DEF Capped
  <2>3. /\ nxt'.port.rst = (gen' = 1)
        /\ nxt'.port.vector = (IF bench' = "cache" /\ thr' >= 2 THEN Entry ELSE 0)
        /\ nxt'.port.rst_cpu = (bench' = "tcm" /\ thr' = 2)
    BY <1>0, <1>1, <1>3 DEF ThreadsCount
  <2>. QED
    BY <2>2, <2>3 DEF ThreadsCount
<1>13. edge \in Nat /\ bench \in {"cache", "tcm"} /\ (now.port.clk => edge # 0)
  BY <1>0 DEF BenchTypes, EdgePhases
<1>14. Shows(now.port, PortsAt)'
  <2>1. PortsAt' = edge
    BY <1>1, <1>10 DEF PortsAt
  <2>2. (gen = 1) = (edge = 1) /\ (thr >= 2) = (edge >= 2) /\ (thr = 2) = (edge = 2)
    BY <1>5, <1>13 DEF Capped
  <2>3. nxt.port.rst = (edge = 1) /\ nxt.port.vector = (IF bench = "cache" /\ edge >= 2 THEN Entry ELSE 0)
          /\ nxt.port.rst_cpu = (bench = "tcm" /\ edge = 2)
    BY <1>0, <2>2 DEF ThreadsCount
  <2>4. Shows(nxt.port, edge)
    BY <1>13, <2>3 DEF Shows
  <2>. QED
    BY <1>1, <1>3, <2>1, <2>4 DEF Shows
<1>15. \E k \in Nat : PinsAt(k)'
  <2>1. PICK l \in Nat : PinsAt(l)
    BY <1>0 DEF ResetInv
  <2>2. PICK k \in Nat : /\ k = PortsAt /\ (k = edge \/ k + 1 = edge)
                         /\ FirstDelta <=> k + 1 = edge
    BY <1>13 DEF PortsAt, FirstDelta
  <2>3. Shows(now.port, k)
    BY <1>0, <2>2 DEF ResetInv
  <2>4. now.port.clk /\ ~rtl.clk => FirstDelta
    BY <1>5 DEF FirstDelta
  <2>5. Shows(nxt.pin, k)
    BY <1>5, <1>13, <2>3, ShowsCopied
  <2>6. Shows(now.pin, k)'
    BY <1>1, <1>3, <2>5 DEF Shows
  <2>7. now'.port.clk /\ ~rtl'.clk => k + 1 = edge'
    BY <1>1, <1>3, <1>9, <2>2, <2>4
  <2>8. l <= k
    <3>1. FirstDelta => l + 1 = edge
      BY <1>5, <2>1 DEF PinsAt, FirstDelta
    <3>2. l = edge \/ l + 1 = edge
      BY <2>1 DEF PinsAt
    <3>. QED
      BY <1>13, <2>1, <2>2, <3>1, <3>2
  <2>9. rtl'.reset_q => k >= (IF bench' = "cache" THEN 1 ELSE 2)
    <3>1. rtl.reset_q => l >= (IF bench = "cache" THEN 1 ELSE 2)
      BY <2>1 DEF PinsAt
    <3>. QED
      BY <1>1, <2>1, <2>2, <2>8, <3>1
  <2>10. PinsAt(k)'
    BY <1>1, <2>2, <2>6, <2>7, <2>9 DEF PinsAt
  <2>. QED
    BY <2>2, <2>10
<1>16. ResetInv'
  BY <1>14, <1>15 DEF ResetInv
<1>17. SamplesBeforeEdge' /\ StartsAtEntry'
  BY <1>1 DEF SamplesBeforeEdge, StartsAtEntry
<1>. QED
  BY <1>7, <1>8, <1>11, <1>12, <1>16, <1>17 DEF KernelInv

LEMMA ClockKeeps ==
    ASSUME KernelInv, SamplesBeforeEdge, StartsAtEntry, Clock
    PROVE  KernelInv' /\ SamplesBeforeEdge' /\ StartsAtEntry'
<1>. DEFINE rising == ~now.port.clk
<1>0. BenchTypes /\ Wires /\ ThreadsCount /\ EdgePhases /\ ResetInv
  BY DEF KernelInv
<1>1. /\ run = {} /\ Settled /\ UNCHANGED <<bench, gen, thr, mem, rtl>>
      /\ now' = [now EXCEPT !.port.clk = rising] /\ nxt' = [nxt EXCEPT !.port.clk = rising]
      /\ edge' = IF rising THEN edge + 1 ELSE edge
      /\ run' = Woken({"clk"}, {}, rising)
      /\ before' = IF rising THEN [slave |-> mem.drives, master |-> rtl.drives] ELSE before
  BY DEF Clock
<1>2. /\ now \in SignalPair /\ nxt \in SignalPair /\ now.port.clk \in BOOLEAN
      /\ edge \in Nat /\ bench \in {"cache", "tcm"} /\ rtl.clk \in BOOLEAN
  BY <1>0, SignalFields DEF BenchTypes, SignalPair
<1>3. now.port = nxt.port /\ now.pin = nxt.pin
  <2>1. /\ now.port \in SignalType /\ nxt.port \in SignalType
        /\ now.pin \in SignalType /\ nxt.pin \in SignalType
    BY <1>0 DEF BenchTypes
  <2>2. Changed(now.port, nxt.port) = {} /\ Changed(now.pin, nxt.pin) = {}
    BY <1>1 DEF Settled
  <2>3. now.port = nxt.port
    BY <2>1, <2>2, UpdateIs
  <2>4. now.pin = nxt.pin
    BY <2>1, <2>2, UpdateIs
  <2>. QED
    BY <2>3, <2>4
<1>4. /\ now.pin.clk = rtl.clk
      /\ nxt.port.master = now.pin.master /\ \A s \in Inputs : nxt.pin[s] = now.port[s]
      /\ gen = Capped(edge, 2) /\ thr = Capped(edge, 3)
      /\ "clk" \in Inputs /\ "slave" \in Inputs /\ "master" \notin Inputs
      /\ Inputs \subseteq SignalNames
  BY <1>1, QuietIs
<1>5. PortSet(now, now', "clk", rising) /\ PortSet(nxt, nxt', "clk", rising)
  <2>1. rising \in BOOLEAN
    OBVIOUS
  <2>. HIDE DEF rising
  <2>2. now' = [now EXCEPT !.port.clk = rising] /\ nxt' = [nxt EXCEPT !.port.clk = rising]
    BY <1>1
  <2>. QED
    BY <1>2, <2>1, <2>2, SetsClk
<1>6. /\ now'.pin = now.pin /\ nxt'.pin = nxt.pin
      /\ now'.port.clk = rising /\ nxt'.port.clk = rising
      /\ now'.port.rst = now.port.rst /\ nxt'.port.rst = now.port.rst
      /\ now'.port.rst_cpu = now.port.rst_cpu /\ nxt'.port.rst_cpu = now.port.rst_cpu
      /\ now'.port.vector = now.port.vector /\ nxt'.port.vector = now.port.vector
      /\ now'.port.slave = now.port.slave /\ nxt'.port.slave = now.port.slave
      /\ now'.port.master = now.port.master /\ nxt'.port.master = now.port.master
      /\ now' \in SignalPair /\ nxt' \in SignalPair
  BY <1>3, <1>5 DEF PortSet, SignalNames
<1>7. /\ now.pin.clk = now.port.clk /\ now.pin.slave = now.port.slave
      /\ now.port.slave = mem.drives /\ now.port.master = rtl.drives
      /\ now.pin.master = rtl.drives
  BY <1>0, <1>3, <1>4 DEF Wires
<1>8. /\ run' \subseteq Threads \cup {"wrapper", "rtl"} /\ "wrapper" \in run'
      /\ rising => "reset_gen" \in run' /\ "process" \in run'
      /\ ~rising => run' \cap Threads = {}
  <2>1. {"clk"} \cap WrapperSensitive # {}
    BY <1>4 DEF WrapperSensitive
  <2>. HIDE DEF rising
  <2>2. run' = (IF rising THEN {"reset_gen", "process"} \cup (IF bench = "cache" THEN {"mem"} ELSE {})
                ELSE {}) \cup {"wrapper"}
    BY <1>1, <2>1 DEF Woken
  <2>. QED
    BY <2>2 DEF Threads
<1>9. BenchTypes'
  <2>1. edge' \in Nat /\ edge <= edge'
    BY <1>1, <1>2
  <2>2. before' \in [slave : Bundle, master : Bundle]
    BY <1>0, <1>1 DEF BenchTypes
  <2>3. mem'.at <= edge' /\ rtl'.at <= edge'
    <3>1. mem.at \in Nat /\ rtl.at \in Nat /\ mem.at <= edge /\ rtl.at <= edge
      BY <1>0 DEF BenchTypes
    <3>. QED
      BY <1>1, <1>2, <2>1, <3>1
  <2>4. /\ now' \in [port : SignalType, pin : SignalType] /\ nxt' \in [port : SignalType, pin : SignalType]
    BY <1>6 DEF SignalPair
  <2>. QED
    BY <1>0, <1>1, <1>8, <2>1, <2>2, <2>3, <2>4 DEF BenchTypes
<1>10. Wires'
  <2>1. /\ nxt'.pin.master = rtl'.drives /\ nxt'.port.slave = mem'.drives
        /\ nxt'.port.clk = now'.port.clk /\ now'.pin.clk = rtl'.clk
    BY <1>1, <1>3, <1>4, <1>6, <1>7
  <2>. QED
    BY <1>8, <2>1 DEF Wires
<1>11. FirstDelta' = rising
  BY <1>2, <1>6, <1>7 DEF FirstDelta
<1>12. EdgePhases'
  <2>1. run' \cap Threads # {} => FirstDelta'
    BY <1>8, <1>11
  <2>2. now'.port.clk => edge' # 0
    <3>1. CASE rising
      <4>1. edge' = edge + 1
        BY <1>1, <3>1
      <4>. QED
        BY <1>2, <4>1
    <3>2. CASE ~rising
      BY <1>6, <3>2
    <3>. QED
      BY <3>1, <3>2
  <2>3. ASSUME FirstDelta'
        PROVE  /\ ~rtl'.clk
               /\ now'.port.slave = before'.slave /\ now'.pin.slave = before'.slave
               /\ now'.port.master = before'.master
    <3>1. rising
      BY <1>11, <2>3
    <3>2. before' = [slave |-> mem.drives, master |-> rtl.drives] /\ rtl' = rtl
      BY <1>1, <3>1
    <3>. QED
      BY <1>4, <1>6, <1>7, <3>1, <3>2
  <2>4. now'.pin.clk = rtl'.clk
    BY <1>1, <1>4, <1>6
  <2>. QED
    BY <2>1, <2>2, <2>3, <2>4 DEF EdgePhases
<1>13. EdgesSeen("reset_gen")' = edge /\ EdgesSeen("process")' = edge
  <2>1. CASE rising
    BY <1>1, <1>2, <1>8, <2>1 DEF EdgesSeen
  <2>2. CASE ~rising
    BY <1>1, <1>8, <2>2 DEF EdgesSeen, Threads
  <2>. QED
    BY <2>1, <2>2
<1>14. ThreadsCount'
  <2>1. gen' = Capped(EdgesSeen("reset_gen"), 2)' /\ thr' = Capped(EdgesSeen("process"), 3)'
    BY <1>1, <1>4, <1>13 DEF Capped
  <2>2. /\ nxt.port.rst = (gen = 1)
        /\ nxt.port.vector = (IF bench = "cache" /\ thr >= 2 THEN Entry ELSE 0)
        /\ nxt.port.rst_cpu = (bench = "tcm" /\ thr = 2)
    BY <1>0 DEF ThreadsCount
  <2>3. nxt'.port.rst = nxt.port.rst /\ nxt'.port.vector = nxt.port.vector
          /\ nxt'.port.rst_cpu = nxt.port.rst_cpu
    BY <1>3, <1>6
  <2>. QED
    BY <1>1, <2>1, <2>2, <2>3 DEF ThreadsCount
<1>15. Shows(now.port, edge)
  <2>1. PortsAt = edge
    BY <1>7 DEF PortsAt, FirstDelta
  <2>. QED
    BY <1>0, <2>1 DEF ResetInv
<1>16. PortsAt' = edge
  <2>1. CASE rising
    <3>1. edge' = edge + 1 /\ PortsAt' = edge' - 1
      BY <1>1, <1>11, <2>1 DEF PortsAt
    <3>. QED
      BY <1>2, <3>1
  <2>2. CASE ~rising
    <3>1. ~FirstDelta'
      BY <1>11, <2>2
    <3>. QED
      BY <1>1, <2>2, <3>1 DEF PortsAt
  <2>. QED
    BY <2>1, <2>2
<1>17. Shows(now.port, PortsAt)'
  BY <1>1, <1>6, <1>15, <1>16 DEF Shows
<1>18. \E k \in Nat : PinsAt(k)'
  <2>1. PICK l \in Nat : PinsAt(l)
    BY <1>0 DEF ResetInv
  <2>2. PICK k \in Nat : k = edge
    BY <1>2
  <2>3. Shows(now.pin, k)
    <3>1. \A s \in Inputs : now.pin[s] = now.port[s]
      BY <1>3, <1>4
    <3>. QED
      BY <1>2, <1>15, <2>2, <3>1, ShowsCopied
  <2>4. Shows(now.pin, k)'
    BY <1>1, <1>6, <2>3 DEF Shows
  <2>5. (k = edge' \/ k + 1 = edge') /\ (now'.port.clk => k + 1 = edge')
    BY <1>1, <1>2, <1>6, <2>2
  <2>6. rtl'.reset_q => k >= (IF bench' = "cache" THEN 1 ELSE 2)
    <3>1. l <= k
      BY <1>2, <2>1, <2>2 DEF PinsAt
    <3>2. rtl.reset_q => l >= (IF bench = "cache" THEN 1 ELSE 2)
      BY <2>1 DEF PinsAt
    <3>. QED
      BY <1>1, <2>1, <2>2, <3>1, <3>2
  <2>7. PinsAt(k)'
    BY <2>4, <2>5, <2>6 DEF PinsAt
  <2>. QED
    BY <2>2, <2>7
<1>19. ResetInv'
  BY <1>17, <1>18 DEF ResetInv
<1>20. SamplesBeforeEdge'
  <2>1. CASE rising
    <3>1. rtl.at \in Nat /\ rtl.at <= edge /\ mem.at \in Nat /\ mem.at <= edge
      BY <1>0 DEF BenchTypes
    <3>2. rtl'.at # edge' /\ mem'.at # edge'
      BY <1>1, <1>2, <2>1, <3>1
    <3>. QED
      BY <3>2 DEF SamplesBeforeEdge
  <2>2. CASE ~rising
    BY <1>1, <2>2 DEF SamplesBeforeEdge
  <2>. QED
    BY <2>1, <2>2
<1>21. StartsAtEntry'
  BY <1>1 DEF StartsAtEntry
<1>. QED
  BY <1>9, <1>10, <1>12, <1>14, <1>19, <1>20, <1>21 DEF KernelInv

\* Whatever ends the simulation leaves the benches where they are.
Ends == ProgramEnds \/ vl_finish \/ sigint_handler \/ assert_handler

LEMMA EndKeeps ==
    ASSUME BenchInv, Ends
    PROVE  BenchInv'
<1>1. /\ UNCHANGED <<bench, now, nxt, run, edge, gen, thr, mem, rtl, waves, before>>
      /\ ended = "no" /\ ended' # "no"
  BY DEF Ends, ProgramEnds, vl_finish, sigint_handler, assert_handler, EndWith
<1>2. KernelInv' /\ SamplesBeforeEdge' /\ StartsAtEntry'
  <2>1. BenchTypes' /\ Wires' /\ EdgePhases'
    BY <1>1 DEF BenchInv, KernelInv, BenchTypes, Wires, Inputs, EdgePhases, FirstDelta
  <2>2. ThreadsCount'
    BY <1>1 DEF BenchInv, KernelInv, ThreadsCount, EdgesSeen, Capped
  <2>3. ResetInv'
    BY <1>1 DEF BenchInv, KernelInv, ResetInv, PortsAt, FirstDelta, PinsAt, Shows
  <2>4. SamplesBeforeEdge' /\ StartsAtEntry'
    BY <1>1 DEF BenchInv, SamplesBeforeEdge, StartsAtEntry
  <2>. QED
    BY <2>1, <2>2, <2>3, <2>4 DEF KernelInv
<1>3. flushes = 0 /\ (waves <=> vcd = "open")
  BY <1>1 DEF BenchInv, FileOpen
<1>4. flushes' = IF waves THEN 1 ELSE 0
  <2>. DEFINE once == tb_abort(Files)
              twice == tb_abort(once)
  <2>1. once.flushes = (IF waves THEN 1 ELSE 0) /\ once.vcd # "open"
    <3>1. CASE waves
      <4>1. once = [vcd |-> "null", flushes |-> 1]
        BY <1>3, <3>1 DEF tb_abort, Files
      <4>. QED
        BY <3>1, <4>1
    <3>2. CASE ~waves
      <4>1. once = Files
        BY <1>3, <3>2 DEF tb_abort, Files
      <4>. QED
        BY <1>3, <3>2, <4>1 DEF Files
    <3>. QED
      BY <3>1, <3>2
  <2>2. twice = once
    BY <2>1 DEF tb_abort
  <2>3. flushes' \in {once.flushes, twice.flushes}
    BY DEF Ends, ProgramEnds, vl_finish, sigint_handler, assert_handler, EndWith, exit_override
  <2>. HIDE DEF once, twice
  <2>. QED
    BY <2>1, <2>2, <2>3
<1>5. FileOpen' /\ ClosedOnce'
  BY <1>1, <1>4 DEF FileOpen, ClosedOnce
<1>. QED
  BY <1>2, <1>5 DEF BenchInv

LEMMA BenchInitInv == BenchInit => BenchInv
<1>. SUFFICES ASSUME BenchInit PROVE BenchInv
  OBVIOUS
<1>1. /\ bench \in {"cache", "tcm"} /\ edge = 0 /\ gen = 0 /\ thr = 0
      /\ run = {"wrapper", "rtl"} /\ now = Signals /\ nxt = Signals
      /\ mem = [drives |-> NoLines, saw |-> NoLines, at |-> 0]
      /\ rtl = [clk |-> FALSE, rst |-> FALSE, reset_q |-> FALSE, drives |-> NoLines,
                started |-> FALSE, start |-> 0, saw |-> NoLines, at |-> 0]
      /\ before = [slave |-> NoLines, master |-> NoLines]
  BY BenchAssumption DEF BenchInit
<1>2. NoLines \in Bundle
  BY DEF NoLines, Bundle
<1>3. Outside \in SignalType
  BY <1>2 DEF Outside, SignalType
<1>4. /\ now.port = Outside /\ now.pin = Outside /\ nxt.port = Outside /\ nxt.pin = Outside
      /\ Signals \in SignalPair
  BY <1>1, <1>3 DEF Signals, SignalPair
<1>5. /\ Outside.clk = FALSE /\ Outside.rst = FALSE /\ Outside.rst_cpu = FALSE
      /\ Outside.vector = 0 /\ Outside.slave = NoLines /\ Outside.master = NoLines
  BY DEF Outside
<1>6. BenchTypes
  <2>1. run \subseteq Threads \cup {"wrapper", "rtl"}
    BY <1>1
  <2>2. now \in [port : SignalType, pin : SignalType] /\ nxt \in [port : SignalType, pin : SignalType]
    BY <1>1, <1>4 DEF SignalPair
  <2>3. mem \in [drives : Bundle, saw : Bundle, at : Nat] /\ mem.at <= edge
    BY <1>1, <1>2
  <2>4. /\ rtl \in [clk : BOOLEAN, rst : BOOLEAN, reset_q : BOOLEAN, drives : Bundle,
                    started : BOOLEAN, start : {0, Entry, BootVector}, saw : Bundle, at : Nat]
        /\ rtl.at <= edge
    BY <1>1, <1>2
  <2>5. before \in [slave : Bundle, master : Bundle]
    BY <1>1, <1>2
  <2>. QED
    BY <1>1, <2>1, <2>2, <2>3, <2>4, <2>5 DEF BenchTypes
<1>7. Wires
  <2>1. "wrapper" \in run /\ "rtl" \in run
    BY <1>1
  <2>2. nxt.pin.master = rtl.drives /\ nxt.port.slave = mem.drives /\ nxt.port.clk = now.port.clk
    BY <1>1, <1>4, <1>5
  <2>. QED
    BY <2>1, <2>2 DEF Wires
<1>8. EdgePhases
  <2>1. run \cap Threads = {}
    BY <1>1 DEF Threads
  <2>2. ~now.port.clk /\ ~now.pin.clk
    BY <1>4, <1>5
  <2>. QED
    BY <2>1, <2>2 DEF EdgePhases, FirstDelta
<1>9. ThreadsCount
  <2>1. EdgesSeen("reset_gen") = 0 /\ EdgesSeen("process") = 0
    BY <1>1 DEF EdgesSeen
  <2>2. Capped(0, 2) = 0 /\ Capped(0, 3) = 0
    BY DEF Capped
  <2>4. gen = Capped(EdgesSeen("reset_gen"), 2) /\ thr = Capped(EdgesSeen("process"), 3)
    BY <1>1, <2>1, <2>2
  <2>5. ~(gen = 1) /\ ~(thr >= 2) /\ ~(thr = 2)
    BY <1>1
  <2>3. nxt.port.rst = FALSE /\ nxt.port.vector = 0 /\ nxt.port.rst_cpu = FALSE
    BY <1>4, <1>5
  <2>. QED
    BY <2>3, <2>4, <2>5 DEF ThreadsCount
<1>10. ResetInv
  <2>1. PortsAt = 0
    BY <1>1, <1>4, <1>5 DEF PortsAt, FirstDelta
  <2>2. Shows(Outside, 0)
    <3>1. ~(0 = 1) /\ ~(0 >= 2) /\ ~(0 = 2)
      OBVIOUS
    <3>. QED
      BY <1>5, <3>1 DEF Shows
  <2>3. PinsAt(0)
    BY <1>1, <1>4, <1>5, <2>2 DEF PinsAt
  <2>. QED
    BY <1>4, <2>1, <2>2, <2>3 DEF ResetInv
<1>11. SamplesBeforeEdge /\ StartsAtEntry
  BY <1>1 DEF SamplesBeforeEdge, StartsAtEntry
<1>12. FileOpen /\ ClosedOnce
  BY DEF BenchInit, FileOpen, ClosedOnce
<1>. QED
  BY <1>6, <1>7, <1>8, <1>9, <1>10, <1>11, <1>12 DEF BenchInv, KernelInv

LEMMA BenchStep == BenchInv /\ [BenchNext]_bench_vars => BenchInv'
<1>. SUFFICES ASSUME BenchInv, [BenchNext]_bench_vars PROVE BenchInv'
  OBVIOUS
<1>1. KernelInv /\ SamplesBeforeEdge /\ StartsAtEntry
  BY DEF BenchInv
<1>2. ASSUME KernelInv' /\ SamplesBeforeEdge' /\ StartsAtEntry',
             UNCHANGED <<waves, vcd, flushes, ended>>
      PROVE  BenchInv'
  BY <1>2 DEF BenchInv, FileOpen, ClosedOnce
<1>3. ASSUME NEW p \in {"wrapper", "rtl", "reset_gen", "process", "mem"}, Process(p)
      PROVE  BenchInv'
  <2>1. UNCHANGED <<waves, vcd, flushes, ended>>
    BY <1>3 DEF Process
  <2>2. CASE p = "wrapper"
    <3>1. KernelInv'
      BY <1>1, <1>3, <2>2, WrapperKeeps
    <3>2. UNCHANGED <<bench, edge, thr, mem, rtl, before>>
      BY <1>3, <2>2 DEF Process
    <3>3. SamplesBeforeEdge' /\ StartsAtEntry'
      BY <1>1, <3>2 DEF SamplesBeforeEdge, StartsAtEntry
    <3>. QED
      BY <1>2, <2>1, <3>1, <3>3
  <2>3. CASE p = "rtl"
    BY <1>1, <1>2, <1>3, <2>1, <2>3, RtlKeeps
  <2>4. CASE p = "reset_gen"
    BY <1>1, <1>2, <1>3, <2>1, <2>4, ResetThreadKeeps
  <2>5. CASE p = "process"
    BY <1>1, <1>2, <1>3, <2>1, <2>5, TestThreadKeeps
  <2>6. CASE p = "mem"
    BY <1>1, <1>2, <1>3, <2>1, <2>6, MemThreadKeeps
  <2>. QED
    BY <1>3, <2>2, <2>3, <2>4, <2>5, <2>6
<1>4. CASE Update
  <2>1. UNCHANGED <<waves, vcd, flushes, ended>>
    BY <1>4 DEF Update
  <2>. QED
    BY <1>1, <1>2, <1>4, <2>1, UpdateKeeps
<1>5. CASE Clock
  <2>1. UNCHANGED <<waves, vcd, flushes, ended>>
    BY <1>5 DEF Clock
  <2>. QED
    BY <1>1, <1>2, <1>5, <2>1, ClockKeeps
<1>6. CASE Ends
  BY <1>6, EndKeeps
<1>7. CASE UNCHANGED bench_vars
  <2>1. BenchTypes' /\ Wires' /\ EdgePhases'
    BY <1>1, <1>7 DEF bench_vars, KernelInv, BenchTypes, Wires, Inputs, EdgePhases, FirstDelta
  <2>2. ThreadsCount'
    BY <1>1, <1>7 DEF bench_vars, KernelInv, ThreadsCount, EdgesSeen, Capped
  <2>3. ResetInv'
    BY <1>1, <1>7 DEF bench_vars, KernelInv, ResetInv, PortsAt, FirstDelta, PinsAt, Shows
  <2>4. SamplesBeforeEdge' /\ StartsAtEntry' /\ UNCHANGED <<waves, vcd, flushes, ended>>
    BY <1>1, <1>7 DEF bench_vars, SamplesBeforeEdge, StartsAtEntry
  <2>. QED
    BY <1>2, <2>1, <2>2, <2>3, <2>4 DEF KernelInv
<1>. QED
  BY <1>3, <1>4, <1>5, <1>6, <1>7 DEF BenchNext, Ends

THEOREM BenchInvCorrect == BenchSpec => []BenchInv
<1>1. BenchInit => BenchInv
  BY BenchInitInv
<1>2. BenchInv /\ [BenchNext]_bench_vars => BenchInv'
  BY BenchStep
<1>. QED
  BY <1>1, <1>2, PTL DEF BenchSpec

\* The wrapper between test bench and RTL is a wire: when the delta cycles of an edge are
\* over the input pins have the values of the ports and the master port those of the RTL
\* (async_outputs), and at an edge each side has sampled what the other drove before it,
\* whatever the order the processes run in.
THEOREM WrapperTransparentCorrect == BenchSpec => []WrapperTransparent
<1>1. BenchInv => WrapperTransparent
  <2>. SUFFICES ASSUME BenchInv PROVE WrapperTransparent
    OBVIOUS
  <2>1. KernelInv /\ SamplesBeforeEdge
    BY DEF BenchInv
  <2>2. ASSUME run = {}, Settled
        PROVE  /\ \A s \in Inputs : now.pin[s] = now.port[s]
               /\ now.port.master = now.pin.master /\ now.pin.master = rtl.drives
    <3>1. /\ now.port \in SignalType /\ nxt.port \in SignalType
          /\ now.pin \in SignalType /\ nxt.pin \in SignalType
      BY <2>1 DEF KernelInv, BenchTypes
    <3>2. Changed(now.port, nxt.port) = {} /\ Changed(now.pin, nxt.pin) = {}
      BY <2>2 DEF Settled
    <3>3. now.port = nxt.port
      BY <3>1, <3>2, UpdateIs
    <3>4. now.pin = nxt.pin
      BY <3>1, <3>2, UpdateIs
    <3>5. Wires
      BY <2>1 DEF KernelInv
    <3>. QED
      BY <2>2, <3>3, <3>4, <3>5 DEF Wires
  <2>. QED
    BY <2>1, <2>2 DEF WrapperTransparent, WrapperMirrors
<1>. QED
  BY <1>1, BenchInvCorrect, PTL

\* The processor leaves its reset only after testbench::process has loaded the program,
\* and starts at the entry point handed over (cache bench) or at BOOT_VECTOR (TCM bench).
THEOREM StartsAtEntryCorrect == BenchSpec => []StartsAtEntry
<1>1. BenchInv => StartsAtEntry
  BY DEF BenchInv
<1>. QED
  BY <1>1, BenchInvCorrect, PTL

\* However the simulation ends (exit, $finish, SIGINT or a failed assertion), abort has
\* closed the waveform file exactly once if there is one, and never otherwise.
THEOREM ClosedOnceCorrect == BenchSpec => []ClosedOnce
<1>1. BenchInv => ClosedOnce
  BY DEF BenchInv
<1>. QED
  BY <1>1, BenchInvCorrect, PTL
=============================================================================
