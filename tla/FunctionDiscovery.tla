--------------------------- MODULE FunctionDiscovery ---------------------------
(***************************************************************************)
(* FunctionDiscovery::discover: candidates from the symbols, the entry     *)
(* point and, in a stripped binary, the prologue heuristic; then a         *)
(* worklist that follows direct calls; then ranges and names.              *)
(*                                                                         *)
(* A name is a tuple: <<>> is the empty string, <<"foo">> the string "foo" *)
(* and <<"foo", 5>> the string "foo_5", so that a suffixed name can be the *)
(* name another symbol has of its own.                                     *)
(***************************************************************************)
EXTENDS TextSection, FiniteSets

CONSTANTS
  Binaries,              \* the binaries discover may be given
  MaximumFunctionCount,  \* maximumFunctionCount, 100000 in the code
  Alignment              \* the alignment of the heuristic, 16 in the code

\* A vector or a string is the list of its elements.
IsSequence(n) == Len(n) \in Nat /\ n = [k \in 1 .. Len(n) |-> n[k]]

ASSUME BinariesAssumption ==
  \A b \in Binaries :
    /\ b.text \in Text
    /\ b.code \in [TextAddresses(b.text) -> Decoded]
    /\ b.entry \in Address
    /\ IsSequence(b.symbols)
    /\ \A i \in 1 .. Len(b.symbols) :
         /\ b.symbols[i].address \in Address
         /\ b.symbols[i].size \in Nat
         /\ IsSequence(b.symbols[i].name)
    \* isStripped is "no SHT_SYMTAB section".
    /\ b.stripped => \A i \in 1 .. Len(b.symbols) : b.symbols[i].dynamic

ASSUME LimitAssumption == MaximumFunctionCount \in Nat /\ Alignment \in Nat \ {0}

VARIABLES
  phase,       \* the loop discover is in; "done" or "failed" at the end
  binary,      \* the ElfLoader argument
  index,       \* position in the symbol vector
  candidates,  \* address -> candidate
  pending,     \* pendingAddresses
  at,          \* address the sweep, or the loop over the candidates, is at
  scanEnd,     \* end of the bytes that are being swept
  boundary,    \* possibleFunctionBoundary
  functions    \* the result

vars == <<phase, binary, index, candidates, pending, at, scanEnd, boundary, functions>>

Source == {"SymbolTable", "DynamicSymbolTable", "EntryPoint", "DirectCallTarget", "Heuristic"}

Priority(source) ==
  CASE source = "SymbolTable"        -> 5
    [] source = "DynamicSymbolTable" -> 4
    [] source = "EntryPoint"         -> 3
    [] source = "DirectCallTarget"   -> 2
    [] source = "Heuristic"          -> 1

NoName == <<>>
FallbackName(a) == <<"sub", a>>

Init ==
  /\ binary \in Binaries
  /\ phase = "symbols"
  /\ index = 1
  /\ candidates = [a \in {} |-> NoName]
  /\ pending = <<>> /\ at = 0 /\ scanEnd = 0 /\ boundary = TRUE
  /\ functions = <<>>

--------------------------------------------------------------------------------
(***************************************************************************)
(* Candidates.                                                             *)
(***************************************************************************)

\* Mutation: the source that comes last wins.
MergeLast(old, new) ==
  [source |-> new.source,
   name   |-> IF new.name # NoName THEN new.name ELSE old.name,
   size   |-> IF new.size > 0 THEN new.size ELSE old.size]

\* The candidate a known one becomes when another source names its address.
Merge(old, new) ==
  LET better == Priority(new.source) > Priority(old.source)
      source == IF better THEN new.source ELSE old.source
  IN  [source |-> source,
       name   |-> IF new.name # NoName /\ (better \/ old.name = NoName)
                    THEN new.name ELSE old.name,
       size   |-> IF new.size > 0 /\ (old.size = 0 \/ Priority(new.source) >= Priority(source))
                    THEN new.size ELSE old.size]

\* addCandidate
Added(a, new) ==
  [c \in DOMAIN candidates \cup {a} |->
     IF c # a THEN candidates[c]
     ELSE IF a \in DOMAIN candidates THEN Merge(candidates[a], new) ELSE new]

Unnamed(source) == [name |-> NoName, size |-> 0, source |-> source]

Least(S) == CHOOSE a \in S : \A b \in S : a <= b

Later(a) == {c \in DOMAIN candidates : c > a}

\* Mutation: a declared size is cut at the end of .text only.
RangeSizeDeclared(a) ==
  LET next == IF Later(a) = {} THEN TextEnd(binary.text) ELSE Least(Later(a))
      available == TextEnd(binary.text) - a
  IN  IF next <= a THEN 0
      ELSE IF candidates[a].size = 0 THEN next - a
      ELSE IF candidates[a].size > available THEN available ELSE candidates[a].size

\* candidateRangeSize
RangeSize(a) ==
  LET next == IF Later(a) = {} THEN TextEnd(binary.text) ELSE Least(Later(a))
      available == next - a
  IN  IF next <= a THEN 0
      ELSE IF candidates[a].size = 0 \/ candidates[a].size > available
             THEN available ELSE candidates[a].size

\* A symbol that starts a function of .text.
FunctionSymbol(s) == s.isFunction /\ s.address # 0 /\ InText(binary.text, s.address)

SymbolSource(s) == IF s.dynamic THEN "DynamicSymbolTable" ELSE "SymbolTable"

AddSymbol ==
  /\ phase = "symbols"
  /\ index <= Len(binary.symbols)
  /\ LET s == binary.symbols[index]
     IN  candidates' = IF FunctionSymbol(s)
                         THEN Added(s.address, [name |-> s.name, size |-> s.size,
                                                source |-> SymbolSource(s)])
                         ELSE candidates
  /\ index' = index + 1
  /\ UNCHANGED <<phase, binary, pending, at, scanEnd, boundary, functions>>

\* Mutation: the entry point counts only when there is no symbol.
EntryCountsAlone == DOMAIN candidates = {} /\ InText(binary.text, binary.entry)

EntryCounts == InText(binary.text, binary.entry)

\* The entry point, and the check that there is anything to start from.
AddEntryPoint ==
  /\ phase = "symbols"
  /\ index > Len(binary.symbols)
  /\ candidates' = IF EntryCounts
                     THEN Added(binary.entry, Unnamed("EntryPoint"))
                     ELSE candidates
  /\ phase' = IF DOMAIN candidates' = {} THEN "failed"
              ELSE IF binary.stripped THEN "heuristic" ELSE "start"
  /\ at' = binary.text.start
  /\ scanEnd' = binary.text.start + binary.text.size
  /\ UNCHANGED <<binary, index, pending, boundary, functions>>

--------------------------------------------------------------------------------
(***************************************************************************)
(* addStrippedHeuristicCandidates, one instruction of the sweep of .text   *)
(* per step.                                                               *)
(***************************************************************************)

Current == DecodeAt(binary.code, at, scanEnd)

\* looksLikeFramePrologue: push rbp, then mov rbp, rsp.
FramePrologue ==
  /\ Current.mark = "pushFrame"
  /\ at + Current.size < scanEnd
  /\ DecodeAt(binary.code, at + Current.size, scanEnd).mark = "moveFrame"

LooksLikeFunction ==
  Current.mark = "entryMarker" \/ FramePrologue \/ at % Alignment = 0

EndsFunction(kind) == kind \in {"Return", "UnconditionalJump", "IndirectJump"}

\* Mutation: padding closes the boundary.
KeepsBoundaryNever == FALSE

\* Padding at a boundary is skipped and leaves it open.
KeepsBoundary == boundary /\ Current.mark = "padding"

ScanForPrologue ==
  /\ phase = "heuristic"
  /\ at < scanEnd
  /\ IF KeepsBoundary
       THEN UNCHANGED <<candidates, boundary>>
       ELSE /\ candidates' = IF boundary /\ LooksLikeFunction
                               THEN Added(at, Unnamed("Heuristic"))
                               ELSE candidates
            /\ boundary' = EndsFunction(Current.kind)
  /\ at' = at + Current.size
  /\ UNCHANGED <<phase, binary, index, pending, scanEnd, functions>>

FinishHeuristic ==
  /\ phase = "heuristic"
  /\ at >= scanEnd
  /\ phase' = "start"
  /\ UNCHANGED <<binary, index, candidates, pending, at, scanEnd, boundary, functions>>

--------------------------------------------------------------------------------
(***************************************************************************)
(* The worklist that follows direct calls.                                 *)
(***************************************************************************)

IsAscending(s) == \A i \in 1 .. Len(s) - 1 : s[i] < s[i + 1]

\* Every candidate, in address order.
StartWorklist ==
  /\ phase = "start"
  /\ pending' = CHOOSE s \in [1 .. Cardinality(DOMAIN candidates) -> DOMAIN candidates] :
                  IsAscending(s)
  /\ phase' = "calls"
  /\ at' = 0 /\ scanEnd' = 0
  /\ UNCHANGED <<binary, index, candidates, boundary, functions>>

\* The front of the queue: the bytes that are swept are those of the range the
\* candidate has now; they are not swept again when its range shrinks later.
PopCandidate ==
  /\ phase = "calls"
  /\ at >= scanEnd
  /\ pending # <<>>
  /\ pending' = Tail(pending)
  /\ at' = Head(pending)
  /\ scanEnd' = Head(pending) + RangeSize(Head(pending))
  /\ UNCHANGED <<phase, binary, index, candidates, boundary, functions>>

IsTextCall(i) ==
  i.kind = "Call" /\ i.directTarget # NoAddress /\ InText(binary.text, i.directTarget)

\* The next instruction of the sweep is not a call to a new function.
SkipInstruction ==
  /\ phase = "calls"
  /\ at < scanEnd
  /\ IsTextCall(Current) => Current.directTarget \in DOMAIN candidates
  /\ at' = at + Current.size
  /\ UNCHANGED <<phase, binary, index, candidates, pending, scanEnd, boundary, functions>>

\* Mutation: a new candidate is not put into the queue.
FollowCallOnce ==
  /\ phase = "calls"
  /\ at < scanEnd
  /\ IsTextCall(Current) /\ Current.directTarget \notin DOMAIN candidates
  /\ Cardinality(DOMAIN candidates) < MaximumFunctionCount
  /\ candidates' = Added(Current.directTarget, Unnamed("DirectCallTarget"))
  /\ at' = at + Current.size
  /\ UNCHANGED <<phase, binary, index, pending, scanEnd, boundary, functions>>

FollowCall ==
  /\ phase = "calls"
  /\ at < scanEnd
  /\ IsTextCall(Current) /\ Current.directTarget \notin DOMAIN candidates
  /\ Cardinality(DOMAIN candidates) < MaximumFunctionCount
  /\ candidates' = Added(Current.directTarget, Unnamed("DirectCallTarget"))
  /\ pending' = Append(pending, Current.directTarget)
  /\ at' = at + Current.size
  /\ UNCHANGED <<phase, binary, index, scanEnd, boundary, functions>>

ReachLimit ==
  /\ phase = "calls"
  /\ at < scanEnd
  /\ IsTextCall(Current) /\ Current.directTarget \notin DOMAIN candidates
  /\ Cardinality(DOMAIN candidates) >= MaximumFunctionCount
  /\ phase' = "failed"
  /\ UNCHANGED <<binary, index, candidates, pending, at, scanEnd, boundary, functions>>

FinishWorklist ==
  /\ phase = "calls"
  /\ at >= scanEnd
  /\ pending = <<>>
  /\ phase' = "emit"
  /\ at' = 0
  /\ UNCHANGED <<binary, index, candidates, pending, scanEnd, boundary, functions>>

--------------------------------------------------------------------------------
(***************************************************************************)
(* The result: one function per candidate, in address order.  "at" is the  *)
(* lowest address that was not handled yet.                                *)
(***************************************************************************)

Remaining == {a \in DOMAIN candidates : a >= at}

UsedNames == {functions[i].name : i \in 1 .. Len(functions)}

OwnName(a) == IF candidates[a].name = NoName THEN FallbackName(a) ELSE candidates[a].name

\* A name that is taken gets the address as a suffix; the result is not looked up.
UniqueName(a) ==
  IF OwnName(a) \in UsedNames THEN Append(OwnName(a), a) ELSE OwnName(a)

FunctionOf(a) ==
  [name |-> UniqueName(a), address |-> a, size |-> RangeSize(a),
   source |-> candidates[a].source,
   estimated |-> candidates[a].size = 0 \/ candidates[a].size > RangeSize(a)]

EmitFunction ==
  /\ phase = "emit"
  /\ Remaining # {}
  /\ LET a == Least(Remaining)
     IN  /\ functions' = IF RangeSize(a) = 0 THEN functions
                                             ELSE Append(functions, FunctionOf(a))
         /\ at' = a + 1
  /\ UNCHANGED <<phase, binary, index, candidates, pending, scanEnd, boundary>>

ReturnFunctions ==
  /\ phase = "emit"
  /\ Remaining = {}
  /\ phase' = "done"
  /\ UNCHANGED <<binary, index, candidates, pending, at, scanEnd, boundary, functions>>

Collect == AddSymbol \/ AddEntryPoint \/ ScanForPrologue \/ FinishHeuristic

FollowCalls == StartWorklist \/ PopCandidate \/ SkipInstruction \/ FollowCall
                 \/ ReachLimit \/ FinishWorklist

Emit == EmitFunction \/ ReturnFunctions

Next == Collect \/ FollowCalls \/ Emit

\* discover is one call on one thread.
Spec == Init /\ [][Next]_vars

--------------------------------------------------------------------------------
(***************************************************************************)
(* Properties.                                                             *)
(***************************************************************************)

FunctionStarts == {functions[i].address : i \in 1 .. Len(functions)}

End(f) == f.address + f.size

(***************************************************************************)
(* The functions returned are in address order, not empty, inside .text,   *)
(* and no byte belongs to two of them, whatever sizes the symbols declare: *)
(* AnalysisSession::functionAt searches them by bisection and the caches   *)
(* are keyed by their addresses.                                           *)
(***************************************************************************)
RangesDisjoint ==
  \A i \in 1 .. Len(functions) :
    /\ functions[i].size > 0
    /\ InText(binary.text, functions[i].address)
    /\ InText(binary.text, End(functions[i]) - 1)
    /\ \A j \in 1 .. i - 1 : End(functions[j]) <= functions[i].address

\* The end of .text did not wrap to a small number.
EndKnown == TextEnd(binary.text) > binary.text.start

(***************************************************************************)
(* Every function symbol of .text and the entry point start a function of  *)
(* the result, unless the end of .text is the end of the address space (a  *)
(* section without SHF_ALLOC), where the range of the last one is empty.   *)
(***************************************************************************)
KnownStartsKept ==
  phase = "done" /\ EndKnown =>
    /\ InText(binary.text, binary.entry) => binary.entry \in FunctionStarts
    /\ \A i \in 1 .. Len(binary.symbols) :
         FunctionSymbol(binary.symbols[i]) => binary.symbols[i].address \in FunctionStarts

SweepOf(f) == SweepAddresses(binary.code, f.address, End(f))

InstructionsOf(f) == {DecodeAt(binary.code, a, End(f)) : a \in SweepOf(f)}

\* The calls of f that lead to another part of .text.
CallTargets(f) == {i.directTarget : i \in {j \in InstructionsOf(f) : IsTextCall(j)}}

\* The end of f cuts no instruction.
Intact(f) == \A a \in SweepOf(f) : a + binary.code[a].size <= End(f)

(***************************************************************************)
(* A function that ends between two instructions calls functions only: the *)
(* worklist reaches the target of each of its direct calls in .text, also  *)
(* when the range it was swept with shrank afterwards.                     *)
(***************************************************************************)
CallsOfIntactFunctionsFollowed ==
  phase = "done" /\ EndKnown =>
    \A i \in 1 .. Len(functions) :
      Intact(functions[i]) => CallTargets(functions[i]) \subseteq FunctionStarts

\* The sources that name address a.
SymbolSources(a) ==
  {SymbolSource(binary.symbols[i]) :
     i \in {j \in 1 .. Len(binary.symbols) :
              FunctionSymbol(binary.symbols[j]) /\ binary.symbols[j].address = a}}

NamedSources(a) ==
  SymbolSources(a) \cup (IF a = binary.entry THEN {"EntryPoint"} ELSE {})

(***************************************************************************)
(* A function that a symbol or the entry point names is attributed to the  *)
(* best of them, in whatever order the tables list them, and to nothing    *)
(* that was found later.                                                   *)
(***************************************************************************)
BestSymbolSourceWins ==
  phase = "done" =>
    \A i \in 1 .. Len(functions) :
      LET sources == NamedSources(functions[i].address)
      IN  sources # {} =>
            /\ functions[i].source \in sources
            /\ \A s \in sources : Priority(s) <= Priority(functions[i].source)

\* The names the symbols give to address a.
SymbolNames(a) ==
  {binary.symbols[i].name :
     i \in {j \in 1 .. Len(binary.symbols) :
              FunctionSymbol(binary.symbols[j]) /\ binary.symbols[j].address = a}} \ {NoName}

(***************************************************************************)
(* A function with a named symbol at its address carries such a name, the  *)
(* others the fallback name, with or without the suffix; two functions     *)
(* share a name only if some symbol has a name that looks suffixed.        *)
(***************************************************************************)
NamesFollowSymbols ==
  phase = "done" =>
    /\ \A i \in 1 .. Len(functions) :
         LET a    == functions[i].address
             base == IF SymbolNames(a) = {} THEN {FallbackName(a)} ELSE SymbolNames(a)
         IN  functions[i].name \in base \cup {Append(n, a) : n \in base}
    /\ \/ \A i, j \in 1 .. Len(functions) : functions[i].name = functions[j].name => i = j
       \/ \E k \in 1 .. Len(binary.symbols) : Len(binary.symbols[k].name) > 1

(***************************************************************************)
(* The best symbol of an address decides where its function comes from,    *)
(* and its symbols how it is named.                                        *)
(***************************************************************************)
SymbolsDecide == BestSymbolSourceWins /\ NamesFollowSymbols

(***************************************************************************)
(* A size that is not marked as estimated was declared by a function       *)
(* symbol at that address, and no other function starts within it.         *)
(***************************************************************************)
ExactSizesDeclared ==
  \A i \in 1 .. Len(functions) :
    ~ functions[i].estimated =>
      /\ \E k \in 1 .. Len(binary.symbols) :
           /\ FunctionSymbol(binary.symbols[k])
           /\ binary.symbols[k].address = functions[i].address
           /\ binary.symbols[k].size = functions[i].size
      /\ \A a \in DOMAIN candidates : ~ (functions[i].address < a /\ a < End(functions[i]))

(***************************************************************************)
(* The functions share no byte, and their sizes are declared or estimated  *)
(* as they say.                                                            *)
(***************************************************************************)
RangesExact == RangesDisjoint /\ ExactSizesDeclared

TextSweep ==
  SweepAddresses(binary.code, binary.text.start, binary.text.start + binary.text.size)

TextInstruction(a) ==
  DecodeAt(binary.code, a, binary.text.start + binary.text.size)

\* Only padding lies between a and the terminator before it, or the start of .text.
AtBoundary(a) ==
  \E t \in (TextSweep \cap 0 .. a - 1) \cup {binary.text.start - 1} :
    /\ t < binary.text.start \/ EndsFunction(TextInstruction(t).kind)
    /\ \A b \in TextSweep : t < b /\ b < a => TextInstruction(b).mark = "padding"

IsPrologue(a) ==
  /\ TextInstruction(a).mark # "padding"
  /\ \/ TextInstruction(a).mark = "entryMarker"
     \/ a % Alignment = 0
     \/ /\ TextInstruction(a).mark = "pushFrame"
        /\ \E b \in TextSweep :
             b = a + TextInstruction(a).size /\ TextInstruction(b).mark = "moveFrame"

(***************************************************************************)
(* The heuristic of stripped binaries finds exactly the instructions that  *)
(* look like a function and follow a terminator, with nothing but padding  *)
(* in between: padding in the middle of a function opens no boundary and a *)
(* terminator before padding keeps it open.                                *)
(***************************************************************************)
HeuristicStartsExact ==
  phase \in {"start", "calls", "emit", "done"} =>
    {a \in DOMAIN candidates : candidates[a].source = "Heuristic"} =
      {a \in TextSweep : /\ binary.stripped /\ NamedSources(a) = {}
                         /\ AtBoundary(a) /\ IsPrologue(a)}

================================================================================
