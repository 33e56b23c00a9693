------------------------------ MODULE TbMemory ------------------------------
(***************************************************************************)
(* The memory of the cache test bench: the regions of tb_memory and the    *)
(* way testbench::create_memory adds one.                                  *)
(*                                                                         *)
(* The instruction-side and the data-side memory get the same regions over *)
(* the same arrays, so one table stands for both.  A region is its base    *)
(* and its bytes.                                                          *)
(***************************************************************************)
EXTENDS Naturals, Sequences

CONSTANTS TbSpace,     \* size of the address space (2^32)
          TbMax,       \* TB_MEM_MAX_REGIONS
          Line         \* regions are rounded to this many bytes (32)

ASSUME TbMemoryAssumption == TbSpace \in Nat /\ TbMax \in Nat /\ Line \in Nat \ {0}

(* tb_mem_region::match; the sum is computed in 32 bits. *)
match(r, a) == a >= r.base /\ a < (r.base + r.size) % TbSpace

TbHits(regions, a) == {j \in DOMAIN regions : match(regions[j], a)}
TbValid(regions, a) == TbHits(regions, a) # {}
TbHit(regions, a) == CHOOSE j \in TbHits(regions, a) : \A k \in TbHits(regions, a) : j <= k

(* tb_memory::add_region: refused when the table is full, or when an end of the
   new region lies in an old one (an old one inside the new one goes unnoticed). *)
add_region(regions, base, size) ==
    LET overlaps == TbValid(regions, base) \/ TbValid(regions, (base + size - 1) % TbSpace)
    IN  IF Len(regions) < TbMax /\ ~overlaps
        THEN Append(regions, [base |-> base, size |-> size,
                              mem |-> [o \in 0 .. (size - 1) |-> 0]])
        ELSE regions

(* testbench::create_memory: the base is rounded down and the size up, each by
   itself; then the base moves up past old regions and the size shrinks.  The
   array of the region that holds the base is cleared: none when it was refused. *)
RoundedBase(base) == (base \div Line) * Line
RoundedSize(size) == ((size + Line - 1) \div Line) * Line

FirstFree(regions, base) ==
    CHOOSE b \in base .. (TbSpace - 1) :
      ~TbValid(regions, b) /\ \A c \in base .. (b - 1) : TbValid(regions, c)

Shrunk(regions, base, size) ==
    CHOOSE s \in 1 .. size :
      /\ ~TbValid(regions, (base + s - 1) % TbSpace)
      /\ \A t \in (s + 1) .. size : TbValid(regions, (base + t - 1) % TbSpace)

TbCreate(regions, addr, len) ==
    LET base == FirstFree(regions, RoundedBase(addr))
        size == Shrunk(regions, base, RoundedSize(len))
        added == add_region(regions, base, size)
    IN  IF TbValid(added, base) THEN [kind |-> "ok", regions |-> added]
        ELSE [kind |-> "abort", regions |-> regions]

(* tb_memory::write and read: an address in no region fails an assertion. *)
TbWrite(regions, a, b) ==
    IF TbValid(regions, a)
    THEN LET j == TbHit(regions, a)
         IN  [kind |-> "ok", regions |-> [regions EXCEPT ![j].mem[a - regions[j].base] = b]]
    ELSE [kind |-> "abort", regions |-> regions]

TbRead(regions, a) ==
    LET j == TbHit(regions, a) IN regions[j].mem[a - regions[j].base]
=============================================================================
