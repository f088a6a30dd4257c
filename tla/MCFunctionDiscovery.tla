-------------------------- MODULE MCFunctionDiscovery --------------------------
(***************************************************************************)
(* Small binaries for FunctionDiscovery.  Plain binaries vary the code and *)
(* the symbols of a .text of four bytes, stripped ones the prologues of a  *)
(* .text of six; the overlapping ones have a call into the middle of an    *)
(* instruction, the clashing ones a symbol whose name looks suffixed.      *)
(***************************************************************************)
EXTENDS FunctionDiscovery, TLC

Op(size, kind, target, mark) ==
  [size |-> size, kind |-> kind, directTarget |-> target, mark |-> mark]

Plain(size)  == Op(size, "Normal", NoAddress, "plain")
Call(target) == Op(1, "Call", target, "plain")
Ret          == Op(1, "Return", NoAddress, "plain")
Nop          == Op(1, "Normal", NoAddress, "padding")
Endbr        == Op(1, "Normal", NoAddress, "entryMarker")
Push         == Op(1, "Normal", NoAddress, "pushFrame")
Move         == Op(1, "Normal", NoAddress, "moveFrame")

Symbol(address, name, size, dynamic) ==
  [address |-> address, name |-> name, size |-> size, dynamic |-> dynamic,
   isFunction |-> TRUE]

Binary(start, code, symbols, entry, stripped) ==
  [text |-> [start |-> start, size |-> Len(code)],
   code |-> [a \in start .. start + Len(code) - 1 |-> code[a - start + 1]],
   symbols |-> symbols, entry |-> entry, stripped |-> stripped]

MCSymbolTables ==
  {<<Symbol(4, <<"foo">>, 0, FALSE)>>,
   <<Symbol(4, <<"foo">>, 2, TRUE), Symbol(4, <<>>, 3, FALSE), Symbol(6, <<"foo">>, 9, TRUE)>>,
   <<Symbol(6, <<"bar">>, 1, FALSE), Symbol(6, <<"foo">>, 1, TRUE), Symbol(4, <<"bar">>, 0, TRUE)>>,
   <<[Symbol(5, <<"data">>, 1, FALSE) EXCEPT !.isFunction = FALSE],
     Symbol(3, <<"low">>, 1, FALSE), Symbol(0, <<"abs">>, 1, FALSE)>>,
   <<>>}

MCCodes == [1 .. 4 -> {Plain(1), Plain(2), Call(5), Call(7), Ret}]

MCPlain ==
  {Binary(4, code, symbols, 5, FALSE) : code \in MCCodes, symbols \in MCSymbolTables}
    \cup {Binary(4, code, <<Symbol(6, <<"foo">>, 0, FALSE)>>, 9, FALSE) : code \in MCCodes}

\* The last byte of these texts is the last byte of the address space.
MCLast ==
  {Binary(8, code, <<Symbol(8, <<"foo">>, 0, FALSE)>>, 9, FALSE) :
     code \in [1 .. 4 -> {Plain(1), Call(10), Call(11), Ret}]}

MCStripped ==
  {Binary(4, code, symbols, 4, TRUE) :
     code \in {c \o <<Ret>> : c \in [1 .. 5 -> {Nop, Push, Move, Ret, Call(6)}]},
     symbols \in {<<>>}}
    \cup {Binary(4, c \o <<Push>>, <<Symbol(7, <<"dyn">>, 1, TRUE)>>, 4, TRUE) :
            c \in [1 .. 5 -> {Nop, Endbr, Ret}]}

\* The call at 7 makes 6 a function, the instruction at 4 is cut, and the bytes
\* that follow its first one decode to a call.
MCOverlapping ==
  {Binary(4, <<Plain(3), Call(8), Ret, Call(6), Ret>>, <<>>, 4, FALSE)}

\* "foo" at 5, "foo" again at 6, and "foo_6" at 4.
MCClashing ==
  {Binary(4, <<Ret, Ret, Ret>>,
          <<Symbol(4, <<"foo", 6>>, 1, FALSE), Symbol(5, <<"foo">>, 1, FALSE),
            Symbol(6, <<"foo">>, 1, FALSE)>>, 4, FALSE)}

MCBinaries == MCPlain \cup MCLast \cup MCStripped \cup MCOverlapping \cup MCClashing

================================================================================
