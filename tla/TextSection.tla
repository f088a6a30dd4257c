------------------------------ MODULE TextSection ------------------------------
(***************************************************************************)
(* The .text section as the analyses see it, and Disassembler::disassemble *)
(* on a part of it.  What Capstone decodes at an address is a function of  *)
(* the bytes from there on and is given by "code"; the linear sweep of the *)
(* disassembler is the walk  a -> a + DecodeAt(code, a, end).size.         *)
(***************************************************************************)
EXTENDS BasicBlocks

\* What the mnemonic tells the prologue heuristic.
Mark == {"padding", "entryMarker", "pushFrame", "moveFrame", "plain"}

Decoded ==
  [size : Nat \ {0}, kind : InstructionKind,
   directTarget : Address \cup {NoAddress}, mark : Mark]

\* .text has at least one byte; ElfLoader keeps the end of an allocated section
\* below the end of the address space, that of one without SHF_ALLOC may be on it.
Text == {t \in [start : Address, size : Nat \ {0}] : t.start + t.size <= MaxAddress + 1}

TextAddresses(text) == text.start .. text.start + text.size - 1

InText(text, a) == a \in TextAddresses(text)

\* text->address + text->size in 64-bit arithmetic.
TextEnd(text) == (text.start + text.size) % (MaxAddress + 1)

(***************************************************************************)
(* The instruction at a when only the bytes before "end" are given to      *)
(* Capstone: a byte that starts no complete instruction becomes a one-byte *)
(* Invalid instruction.                                                    *)
(***************************************************************************)
DecodeAt(code, a, end) ==
  IF a + code[a].size <= end
    THEN code[a]
    ELSE [size |-> 1, kind |-> "Invalid", directTarget |-> NoAddress, mark |-> "plain"]

(***************************************************************************)
(* The addresses of the instructions of a sweep of the bytes from .. end-1.*)
(* As a set of addresses it is the least one that holds "from" and, with   *)
(* every address, the one after its instruction.                           *)
(***************************************************************************)
SweepAddresses(code, from, end) ==
  LET reached[a \in from .. end] ==
        \/ a = from
        \/ \E b \in from .. a - 1 : reached[b] /\ b + DecodeAt(code, b, end).size = a
  IN  {a \in from .. end - 1 : reached[a]}

================================================================================
