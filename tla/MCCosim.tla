------------------------------ MODULE MCCosim -------------------------------
(* Small ELF files, command lines and instruction effects for Cosim. *)
EXTENDS Cosim

Simulator == [units |-> <<"sim">>, direct |-> TRUE]
TestBench == [units |-> <<"rtl">>, direct |-> FALSE]
TwoSims == [units |-> <<"sim", "sim">>, direct |-> FALSE]
SimAndRtl == [units |-> <<"sim", "rtl">>, direct |-> FALSE]
MCSetups == {Simulator, TestBench, TwoSims, SimAndRtl}

Text(addr, bytes) == [addr |-> addr, size |-> Len(bytes), alloc |-> TRUE,
                      progbits |-> TRUE, bytes |-> bytes]
Bss(addr, size) == [addr |-> addr, size |-> size, alloc |-> TRUE,
                    progbits |-> FALSE, bytes |-> <<>>]
Debug == [addr |-> 0, size |-> 2, alloc |-> FALSE, progbits |-> TRUE, bytes |-> <<7, 7>>]

File(sections) == [entry |-> 1, sections |-> sections, symbols |-> "begin" :> 2 @@ "end" :> 9]

MCImages ==
    {File(<<Text(0, <<1, 2, 3, 4, 5>>), Debug, Bss(8, 4)>>),
     File(<<Text(2, <<1, 2, 3, 4, 5, 6>>), Text(6, <<7, 8, 9, 10>>)>>),
     File(<<Text(6, <<1, 2>>), Bss(4, 8), Text(5, <<3>>)>>),
     File(<<Text(0, <<1, 2, 3, 4>>), Text(5, <<5, 6, 7, 8>>), Bss(12, 1)>>),
     File(<<Text(0, <<1, 2>>), Text(12, <<3, 4, 5, 6>>)>>)}

Plain == [base |-> 0, size |-> None, stop |-> None, max |-> None,
          dump |-> "no", from |-> "begin", to |-> "end"]
MCOptions ==
    {[Plain EXCEPT !.max = 2], [Plain EXCEPT !.max = 0], [Plain EXCEPT !.stop = 0], [Plain EXCEPT !.stop = 1],
     [Plain EXCEPT !.stop = 2, !.dump = "text"],
     [Plain EXCEPT !.base = 4, !.size = 6, !.max = 2, !.dump = "binary"],
     [Plain EXCEPT !.base = 12, !.size = 4, !.max = 1],
     [Plain EXCEPT !.max = 2, !.dump = "text", !.from = "lost"],
     [Plain EXCEPT !.max = 1, !.dump = "binary", !.from = "lost", !.to = "begin"],
     [Plain EXCEPT !.max = 1, !.dump = "binary", !.from = "end", !.to = "begin"]}

Nop(pc) == [pc |-> pc, reg |-> 0, brk |-> FALSE, ev |-> <<>>, store |-> <<>>]
LoadOf(pc, v) == [Nop(pc) EXCEPT !.reg = v, !.ev = "LOAD" :> 4 @@ "LOAD_RESULT" :> v]
StoreTo(pc, a, v) == [Nop(pc) EXCEPT !.ev = "STORE" :> <<a, v>>, !.store = <<a, v>>]
MCEffects == {Nop(1), Nop(2), [Nop(2) EXCEPT !.brk = TRUE],
              LoadOf(1, 0), LoadOf(1, 1), StoreTo(2, 2, 9), StoreTo(2, 2, 8), StoreTo(2, 15, 8)}
=============================================================================
