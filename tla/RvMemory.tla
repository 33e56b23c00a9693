------------------------------ MODULE RvMemory ------------------------------
(***************************************************************************)
(* The memory of the instruction-set simulator: the regions a Riscv object *)
(* holds (create_memory, attach_memory), the little-endian SimpleMemory    *)
(* behind each of them, and the accesses by physical address.              *)
(*                                                                         *)
(* A region is a base, a size and the bytes of its words: the array has    *)
(* whole words, so up to three bytes more than the size.  A word is the    *)
(* function of its four byte lanes, lane 0 the least significant.          *)
(***************************************************************************)
EXTENDS Naturals, Sequences, FiniteSets, TLC

CONSTANTS Space,        \* size of the address space (2^32)
          MaxRegions,   \* MAX_MEM_REGIONS
          Bytes         \* the byte values that are stored

ASSUME MemoryAssumption == /\ Space \in Nat \ {0} /\ MaxRegions \in Nat
                           /\ Bytes \subseteq 0..255 /\ 0 \in Bytes

Lanes == 0..3
Word == [Lanes -> 0..255]
Zero == [l \in Lanes |-> 0]
Negative(b) == b >= 128

(* SimpleMemory: the array covers the size rounded up to words; reset clears Size
   bytes only, the rest of the last word is left as the allocation gave it.        *)
Extent(size) == 4 * ((size + 3) \div 4)
Cleared(size, tail) == [o \in 0 .. (Extent(size) - 1) |-> IF o < size THEN 0 ELSE tail]

Region(base, size, tail) == [base |-> base, size |-> size, mem |-> Cleared(size, tail)]

(* attach_memory: refused when the table is full. *)
attach_memory(regions, r) ==
    IF Len(regions) < MaxRegions THEN Append(regions, r) ELSE regions

(* The test every access makes, in the order of the table.  base + size is computed
   in 32 bits.                                                                      *)
Hits(regions, a) == {j \in DOMAIN regions :
                       /\ a >= regions[j].base
                       /\ a < (regions[j].base + regions[j].size) % Space}
valid_addr(regions, a) == Hits(regions, a) # {}
Hit(regions, a) == CHOOSE j \in Hits(regions, a) : \A k \in Hits(regions, a) : j <= k

Aligned(off, width) == off % width = 0

(* SimpleMemory::load and store of a naturally aligned offset. *)
\* Mutant: the sign is taken from the first byte.
SignOfFirst(mem, off, width, signedLoad) ==
    [l \in Lanes |-> IF l < width THEN mem[off + l]
                     ELSE IF signedLoad /\ Negative(mem[off]) THEN 255 ELSE 0]

LoadLanes(mem, off, width, signedLoad) ==
    LET top == mem[off + width - 1]
        fill == IF signedLoad /\ Negative(top) THEN 255 ELSE 0
    IN  [l \in Lanes |-> IF l < width THEN mem[off + l] ELSE fill]

StoreLanes(mem, off, width, data) ==
    [o \in DOMAIN mem |-> IF o \in off .. (off + width - 1) THEN data[o - off] ELSE mem[o]]

(* Riscv::load, store, read, read32, write, write32 once the address is physical:
   the first region that holds the address; an address in none ends the simulation
   (a read returns 0), an offset that is not aligned fails an assertion.            *)
MemLoad(regions, a, width, signedLoad) ==
    IF ~valid_addr(regions, a) THEN [kind |-> "exit", data |-> Zero]
    ELSE LET r == regions[Hit(regions, a)]
             off == a - r.base
         IN  IF Aligned(off, width)
             THEN [kind |-> "ok", data |-> LoadLanes(r.mem, off, width, signedLoad)]
             ELSE [kind |-> "abort", data |-> Zero]

MemStore(regions, a, width, data) ==
    IF ~valid_addr(regions, a) THEN [kind |-> "exit", regions |-> regions]
    ELSE LET j == Hit(regions, a)
             off == a - regions[j].base
         IN  IF Aligned(off, width)
             THEN [kind |-> "ok",
                   regions |-> [regions EXCEPT ![j].mem = StoreLanes(@, off, width, data)]]
             ELSE [kind |-> "abort", regions |-> regions]

write(regions, a, b) == MemStore(regions, a, 1, [Zero EXCEPT ![0] = b])
read(regions, a) ==
    IF valid_addr(regions, a) THEN MemLoad(regions, a, 1, FALSE).data[0] ELSE 0

-----------------------------------------------------------------------------
(* The reference: memory is one array of bytes, a byte per valid address. *)
Flat(regions) == [a \in {x \in 0 .. (Space - 1) : valid_addr(regions, x)} |->
                    LET r == regions[Hit(regions, a)] IN r.mem[a - r.base]]

(* An access whose bytes all lie in the region of its first byte, at an offset
   that is aligned.                                                              *)
Inside(regions, a, width) ==
    /\ a + width <= Space
    /\ \A k \in 0 .. (width - 1) :
         valid_addr(regions, a + k) /\ Hit(regions, a + k) = Hit(regions, a)
    /\ Aligned(a - regions[Hit(regions, a)].base, width)

SignExtended(bytes, width, signed) ==
    [l \in Lanes |-> IF l < width THEN bytes[l]
                     ELSE IF signed /\ bytes[width - 1] > 127 THEN 255 ELSE 0]

(* A store changes the bytes it names and no other, and a load of any width and
   sign then returns the bytes of the flat memory, extended.                     *)
AccessExact(regions, a, width, data, b, lwidth, signed) ==
    LET st == MemStore(regions, a, width, data)
        before == Flat(regions)
        after == Flat(st.regions)
    IN  /\ Inside(regions, a, width) =>
             /\ st.kind = "ok"
             /\ after = [x \in DOMAIN before |->
                           IF x \in a .. (a + width - 1) THEN data[x - a] ELSE before[x]]
        /\ Inside(regions, b, lwidth) =>
             MemLoad(st.regions, b, lwidth, signed) =
               [kind |-> "ok",
                data |-> SignExtended([l \in 0 .. (lwidth - 1) |-> after[b + l]], lwidth, signed)]
=============================================================================
