------------------------ MODULE FunctionDiscoveryProofs ------------------------
(***************************************************************************)
(* What FunctionDiscovery::discover returns, for every binary: functions   *)
(* that share no byte and whose sizes are declared or estimated as they    *)
(* say, every known start among them, each attributed to the best of its   *)
(* sources and named after its symbols; in a stripped binary whatever      *)
(* looks like the start of a function, and the targets of all calls of the *)
(* functions that end between two instructions.                            *)
(***************************************************************************)
EXTENDS FunctionDiscovery, SequenceTheorems, FunctionTheorems, FiniteSetTheorems,
        WellFoundedInduction, TLAPS

\* Every non-empty set of natural numbers has a least element.
LEMMA LeastElement ==
  ASSUME NEW S \in SUBSET Nat, S # {}
  PROVE  \E m \in S : \A n \in S : m <= n
<1> DEFINE Less == {ss \in Nat \X Nat : ss[1] < ss[2]}
<1>1. IsWellFoundedOn(Less, Nat)
  BY NatLessThanWellFounded, Zenon DEF OpToRel
<1>2. \E m \in S : \A n \in S : ~ (<<n, m>> \in Less)
  <2> HIDE DEF Less
  <2> QED BY <1>1, WFMin
<1>3. \A n, m \in Nat : ~ (<<n, m>> \in Less) => m <= n
  OBVIOUS
<1> QED BY <1>2, <1>3

Found == DOMAIN candidates

\* The symbols that were looked at.
SeenSymbols == {i \in 1 .. Len(binary.symbols) : i < index}

\* A declared size comes from a symbol at that address.
DeclaredAt(a, size) ==
  \E k \in 1 .. Len(binary.symbols) :
    /\ FunctionSymbol(binary.symbols[k])
    /\ binary.symbols[k].address = a
    /\ binary.symbols[k].size = size

CandidatesInv ==
  /\ binary \in Binaries
  /\ \A a \in Found : InText(binary.text, a)
  /\ \A a \in Found : candidates[a].size \in Nat
  /\ \A a \in Found : candidates[a].size # 0 => DeclaredAt(a, candidates[a].size)

\* The sweep of the heuristic stays in .text.
SweepInv ==
  phase = "heuristic" =>
    /\ at \in Nat /\ binary.text.start <= at
    /\ scanEnd = binary.text.start + binary.text.size

KnownInv ==
  /\ index \in Nat \ {0}
  /\ \A i \in SeenSymbols :
       FunctionSymbol(binary.symbols[i]) => binary.symbols[i].address \in Found
  /\ phase # "symbols" =>
       index > Len(binary.symbols) /\ (EntryCounts => binary.entry \in Found)

\* What is returned so far is what lies below "at".
EmitInv ==
  /\ IsSequence(functions)
  /\ phase \notin {"emit", "done"} => functions = <<>>
  /\ phase \in {"emit", "done"} => at \in Nat
  /\ \A i \in 1 .. Len(functions) :
       /\ functions[i].address \in Found /\ functions[i].address < at
       /\ functions[i].size = RangeSize(functions[i].address) /\ functions[i].size > 0
       /\ ~ functions[i].estimated => functions[i].size = candidates[functions[i].address].size
       /\ \A j \in 1 .. i - 1 : functions[j].address < functions[i].address
  /\ phase \in {"emit", "done"} =>
       \A a \in Found : a < at /\ RangeSize(a) # 0 => a \in FunctionStarts
  /\ phase = "done" => \A a \in Found : a < at

RangeInv == CandidatesInv /\ SweepInv /\ KnownInv /\ EmitInv

--------------------------------------------------------------------------------
(***************************************************************************)
(* Facts about a binary and its ranges.                                    *)
(***************************************************************************)

LEMMA BinaryFacts ==
  ASSUME NEW b \in Binaries
  PROVE  /\ b.text.start \in Nat /\ b.text.size \in Nat \ {0}
         /\ b.text.start + b.text.size <= MaxAddress + 1 /\ MaxAddress \in Nat
         /\ \A a \in Nat : InText(b.text, a) <=>
              b.text.start <= a /\ a < b.text.start + b.text.size
         /\ \A a : InText(b.text, a) => a \in Nat
         /\ \A a : InText(b.text, a) => b.code[a] \in Decoded
         /\ Len(b.symbols) \in Nat
<1>1. b.text \in Text /\ MaxAddress \in Nat
  BY BinariesAssumption, MaxAddressAssumption
<1>2. /\ b.text.start \in Nat /\ b.text.size \in Nat \ {0}
      /\ b.text.start + b.text.size <= MaxAddress + 1
  BY <1>1 DEF Text, Address
<1>3. /\ \A a \in Nat : InText(b.text, a) <=>
           b.text.start <= a /\ a < b.text.start + b.text.size
      /\ \A a : InText(b.text, a) => a \in Nat
  BY <1>2 DEF InText, TextAddresses
<1>4. \A a : InText(b.text, a) => b.code[a] \in Decoded
  BY BinariesAssumption DEF InText
<1>5. Len(b.symbols) \in Nat
  BY BinariesAssumption DEF IsSequence
<1> QED BY <1>1, <1>2, <1>3, <1>4, <1>5

\* The end of .text is where it should be, or 0.
LEMMA TextEndFacts ==
  ASSUME NEW b \in Binaries
  PROVE  \/ TextEnd(b.text) = b.text.start + b.text.size
         \/ TextEnd(b.text) = 0 /\ ~ TextEnd(b.text) > b.text.start
<1> DEFINE n == b.text.start + b.text.size
           m == MaxAddress + 1
<1>1. n \in Nat /\ m \in Nat \ {0} /\ n <= m /\ b.text.start \in Nat
  BY BinaryFacts
<1>2. TextEnd(b.text) = n % m
  BY DEF TextEnd
<1> HIDE DEF n, m
<1>3. CASE n = m
  <2>1. m % m = 0
    BY <1>1
  <2> QED BY <1>1, <1>2, <1>3, <2>1
<1>4. CASE n < m
  <2>1. n % m = n
    BY <1>1, <1>4
  <2> QED BY <1>2, <2>1 DEF n
<1> QED BY <1>1, <1>3, <1>4

LEMMA LeastFacts ==
  ASSUME NEW S, \A a \in S : a \in Nat, S # {}
  PROVE  Least(S) \in S /\ \A b \in S : Least(S) <= b
<1>1. S \in SUBSET Nat
  OBVIOUS
<1>2. \E m \in S : \A n \in S : m <= n
  BY <1>1, LeastElement
<1> QED BY <1>2 DEF Least

\* The range of a candidate ends before the next one and inside .text.
LEMMA RangeFacts ==
  ASSUME CandidatesInv, NEW a \in Found
  PROVE  /\ a \in Nat /\ RangeSize(a) \in Nat
         /\ \A c \in Found : c > a => a + RangeSize(a) <= c
         /\ a + RangeSize(a) <= binary.text.start + binary.text.size
         /\ EndKnown => RangeSize(a) > 0
<1> DEFINE next == IF Later(a) = {} THEN TextEnd(binary.text) ELSE Least(Later(a))
           end == binary.text.start + binary.text.size
           size == candidates[a].size
<1>0. binary \in Binaries /\ InText(binary.text, a) /\ size \in Nat
  BY DEF CandidatesInv
<1>1. /\ binary \in Binaries /\ InText(binary.text, a) /\ a \in Nat /\ end \in Nat
      /\ binary.text.start <= a /\ a < end /\ binary.text.start \in Nat
      /\ size \in Nat
  <2>1. binary.text.start \in Nat /\ binary.text.size \in Nat \ {0} /\ a \in Nat
    BY <1>0, BinaryFacts
  <2>2. binary.text.start <= a /\ a < end
    BY <1>0, <2>1, BinaryFacts
  <2>3. end \in Nat
    BY <2>1
  <2> HIDE DEF size, end
  <2> QED BY <1>0, <2>1, <2>2, <2>3
<1>2. \A c \in Later(a) : c \in Nat /\ c > a /\ c < end
  BY BinaryFacts DEF CandidatesInv, Later, Found
<1>3. /\ next \in Nat /\ next <= end
      /\ \A c \in Later(a) : next <= c
      /\ EndKnown => next > a
  <2>1. CASE Later(a) = {}
    <3>1. next = TextEnd(binary.text)
      BY <2>1
    <3>2. TextEnd(binary.text) = end \/ (TextEnd(binary.text) = 0 /\ ~ EndKnown)
      BY <1>1, TextEndFacts DEF EndKnown
    <3> QED BY <1>1, <2>1, <3>1, <3>2
  <2>2. CASE Later(a) # {}
    <3>1. next \in Later(a) /\ \A c \in Later(a) : next <= c
      BY <1>2, <2>2, LeastFacts
    <3> QED BY <1>1, <1>2, <3>1
  <2> QED BY <2>1, <2>2
<1>4. RangeSize(a) = IF next <= a THEN 0
                     ELSE IF size = 0 \/ size > next - a THEN next - a ELSE size
  BY DEF RangeSize
<1> HIDE DEF next, size, end
<1>5. /\ RangeSize(a) \in Nat /\ (next > a => RangeSize(a) > 0 /\ a + RangeSize(a) <= next)
      /\ (~ next > a => RangeSize(a) = 0)
  BY <1>1, <1>3, <1>4
<1>6. \A c \in Found : c > a => a + RangeSize(a) <= c
  <2> TAKE c \in Found
  <2> HAVE c > a
  <2>1. c \in Later(a)
    BY DEF Later, Found
  <2>2. c \in Nat /\ next <= c
    BY <1>2, <1>3, <2>1
  <2> QED BY <1>1, <1>3, <1>5, <2>2
<1>7. a + RangeSize(a) <= end
  BY <1>1, <1>3, <1>5
<1> QED BY <1>1, <1>3, <1>5, <1>6, <1>7 DEF end


--------------------------------------------------------------------------------
(***************************************************************************)
(* Adding a candidate.                                                     *)
(***************************************************************************)

LEMMA AddedFacts ==
  ASSUME NEW a, NEW new
  PROVE  /\ DOMAIN Added(a, new) = Found \cup {a}
         /\ \A c \in Found : c # a => Added(a, new)[c] = candidates[c]
         /\ a \in Found => Added(a, new)[a] = Merge(candidates[a], new)
         /\ a \notin Found => Added(a, new)[a] = new
BY DEF Added, Found

LEMMA MergeSize ==
  ASSUME NEW old, NEW new
  PROVE  /\ Merge(old, new).size \in {old.size, new.size}
         /\ new.size = 0 => Merge(old, new).size = old.size
<1>1. \E c \in BOOLEAN : Merge(old, new).size = IF new.size > 0 /\ c THEN new.size ELSE old.size
  <2> DEFINE source == IF Priority(new.source) > Priority(old.source)
                         THEN new.source ELSE old.source
             c == old.size = 0 \/ Priority(new.source) >= Priority(source)
  <2>1. Merge(old, new).size = IF new.size > 0 /\ c THEN new.size ELSE old.size
    BY DEF Merge
  <2>2. c \in BOOLEAN
    OBVIOUS
  <2> HIDE DEF c
  <2> QED BY <2>1, <2>2
<1> QED BY <1>1

LEMMA CandidatesAdd ==
  ASSUME CandidatesInv, UNCHANGED binary, NEW a, NEW new, candidates' = Added(a, new),
         InText(binary.text, a), new.size \in Nat,
         new.size # 0 => DeclaredAt(a, new.size)
  PROVE  CandidatesInv'
<1>1. /\ Found' = Found \cup {a}
      /\ \A c \in Found : c # a => candidates'[c] = candidates[c]
      /\ a \in Found => candidates'[a] = Merge(candidates[a], new)
      /\ a \notin Found => candidates'[a] = new
  <2>1. Found' = DOMAIN Added(a, new)
    BY DEF Found
  <2> QED BY <2>1, AddedFacts
<1>2. \A c, n : DeclaredAt(c, n)' <=> DeclaredAt(c, n)
  BY DEF DeclaredAt, FunctionSymbol
<1>3. \A c \in Found' : \/ c \in Found /\ candidates'[c].size = candidates[c].size
                        \/ c = a /\ candidates'[c].size = new.size
  BY <1>1, MergeSize
<1>4. /\ \A c \in Found : candidates[c].size \in Nat
      /\ \A c \in Found : candidates[c].size # 0 => DeclaredAt(c, candidates[c].size)
      /\ \A c \in Found : InText(binary.text, c)
      /\ binary \in Binaries
  BY DEF CandidatesInv
<1>5. \A c \in Found' : candidates'[c].size \in Nat
  BY <1>3, <1>4
<1>6. \A c \in Found' : candidates'[c].size # 0 => DeclaredAt(c, candidates'[c].size)
  BY <1>3, <1>4
<1>7. \A c \in Found' : InText(binary.text, c)
  BY <1>1, <1>4
<1> QED BY <1>2, <1>4, <1>5, <1>6, <1>7 DEF CandidatesInv

LEMMA CandidatesKept ==
  ASSUME UNCHANGED <<binary, candidates>>
  PROVE  /\ Found' = Found /\ (CandidatesInv => CandidatesInv')
         /\ \A a : RangeSize(a)' = RangeSize(a)
         /\ \A s : FunctionSymbol(s)' <=> FunctionSymbol(s)
         /\ EntryCounts' = EntryCounts
BY DEF Found, CandidatesInv, DeclaredAt, FunctionSymbol, RangeSize, Later, EntryCounts

LEMMA SymbolFacts ==
  ASSUME binary \in Binaries, NEW i \in 1 .. Len(binary.symbols)
  PROVE  /\ binary.symbols[i].address \in Address
         /\ binary.symbols[i].size \in Nat
         /\ IsSequence(binary.symbols[i].name)
BY BinariesAssumption

--------------------------------------------------------------------------------
(***************************************************************************)
(* The steps, first for the part of the invariant that is about ranges.    *)
(***************************************************************************)

\* Known starts stay known when candidates are only added.
LEMMA KnownKept ==
  ASSUME KnownInv, UNCHANGED <<binary, index>>, Found \subseteq Found',
         phase # "symbols", phase' # "symbols"
  PROVE  KnownInv'
<1>1. SeenSymbols' = SeenSymbols /\ EntryCounts' = EntryCounts
  BY DEF SeenSymbols, EntryCounts
<1>2. \A s : FunctionSymbol(s)' <=> FunctionSymbol(s)
  BY DEF FunctionSymbol
<1> QED BY <1>1, <1>2 DEF KnownInv

LEMMA EmptyIsSequence == IsSequence(<<>>)
BY DEF IsSequence

\* Before the candidates are emitted.
LEMMA EmitNotYet ==
  ASSUME EmitInv, phase \notin {"emit", "done"}, phase' \notin {"emit", "done"},
         UNCHANGED functions
  PROVE  EmitInv'
BY EmptyIsSequence DEF EmitInv

LEMMA RangeInit == Init => RangeInv
<1> SUFFICES ASSUME Init PROVE RangeInv
  OBVIOUS
<1>1. /\ binary \in Binaries /\ phase = "symbols" /\ index = 1 /\ functions = <<>>
      /\ Found = {}
  BY DEF Init, Found
<1>2. SeenSymbols = {}
  BY <1>1, BinaryFacts DEF SeenSymbols
<1>3. CandidatesInv /\ SweepInv /\ KnownInv
  BY <1>1, <1>2 DEF CandidatesInv, SweepInv, KnownInv
<1>4. EmitInv
  BY <1>1, EmptyIsSequence DEF EmitInv
<1> QED BY <1>3, <1>4 DEF RangeInv

LEMMA RangeAddSymbol ==
  ASSUME RangeInv, AddSymbol
  PROVE  RangeInv'
<1> DEFINE s == binary.symbols[index]
           new == [name |-> s.name, size |-> s.size, source |-> SymbolSource(s)]
<1>1. /\ phase = "symbols" /\ phase' = "symbols" /\ UNCHANGED <<binary, functions>>
      /\ index <= Len(binary.symbols) /\ index' = index + 1
      /\ candidates' = IF FunctionSymbol(s) THEN Added(s.address, new) ELSE candidates
  BY DEF AddSymbol
<1>2. binary \in Binaries /\ index \in Nat \ {0} /\ CandidatesInv /\ Len(binary.symbols) \in Nat
  BY BinaryFacts DEF RangeInv, CandidatesInv, KnownInv
<1>3. index \in 1 .. Len(binary.symbols)
  BY <1>1, <1>2
<1>4. s.size \in Nat /\ new.size = s.size
  BY <1>2, <1>3, SymbolFacts
<1>5. CandidatesInv' /\ Found \subseteq Found' /\ (FunctionSymbol(s) => s.address \in Found')
  <2>1. CASE FunctionSymbol(s)
    <3>1. candidates' = Added(s.address, new)
      BY <1>1, <2>1
    <3>2. InText(binary.text, s.address)
      BY <2>1 DEF FunctionSymbol
    <3>3. DeclaredAt(s.address, s.size)
      BY <1>3, <2>1 DEF DeclaredAt
    <3>4. Found' = Found \cup {s.address}
      BY <3>1, AddedFacts DEF Found
    <3>5. CandidatesInv'
      <4> HIDE DEF new, s
      <4> QED BY <1>1, <1>2, <1>4, <3>1, <3>2, <3>3, CandidatesAdd
    <3> QED BY <3>4, <3>5
  <2>2. CASE ~ FunctionSymbol(s)
    <3>1. UNCHANGED <<binary, candidates>>
      BY <1>1, <2>2
    <3> QED BY <1>2, <2>2, <3>1, CandidatesKept
  <2> QED BY <2>1, <2>2
<1>6. KnownInv'
  <2>1. \A i \in SeenSymbols' : i \in SeenSymbols \/ i = index
    BY <1>1, <1>2 DEF SeenSymbols
  <2>2. \A x : FunctionSymbol(x)' <=> FunctionSymbol(x)
    BY <1>1 DEF FunctionSymbol
  <2> HIDE DEF s
  <2>3. \A i \in SeenSymbols : FunctionSymbol(binary.symbols[i]) => binary.symbols[i].address \in Found
    BY DEF RangeInv, KnownInv
  <2>4. \A i \in SeenSymbols' : FunctionSymbol(binary.symbols[i]) => binary.symbols[i].address \in Found'
    BY <1>5, <2>1, <2>3 DEF s
  <2> QED BY <1>1, <1>2, <2>2, <2>4 DEF KnownInv
<1> HIDE DEF s, new
<1> QED BY <1>1, <1>5, <1>6, EmitNotYet DEF RangeInv, SweepInv

LEMMA RangeAddEntryPoint ==
  ASSUME RangeInv, AddEntryPoint
  PROVE  RangeInv'
<1> DEFINE new == Unnamed("EntryPoint")
<1>1. /\ phase = "symbols" /\ phase' \in {"failed", "heuristic", "start"}
      /\ UNCHANGED <<binary, index, functions>> /\ index > Len(binary.symbols)
      /\ candidates' = IF EntryCounts THEN Added(binary.entry, new) ELSE candidates
      /\ at' = binary.text.start /\ scanEnd' = binary.text.start + binary.text.size
  BY DEF AddEntryPoint
<1>2. CandidatesInv /\ binary \in Binaries /\ new.size = 0
  BY DEF RangeInv, CandidatesInv, Unnamed
<1>3. CandidatesInv' /\ Found \subseteq Found' /\ (EntryCounts => binary.entry \in Found')
  <2>1. CASE EntryCounts
    <3>1. candidates' = Added(binary.entry, new) /\ InText(binary.text, binary.entry)
      BY <1>1, <2>1 DEF EntryCounts
    <3>2. Found' = Found \cup {binary.entry}
      BY <3>1, AddedFacts DEF Found
    <3> HIDE DEF new
    <3> QED BY <1>1, <1>2, <3>1, <3>2, CandidatesAdd
  <2>2. CASE ~ EntryCounts
    <3>1. UNCHANGED <<binary, candidates>>
      BY <1>1, <2>2
    <3> QED BY <1>2, <2>2, <3>1, CandidatesKept
  <2> QED BY <2>1, <2>2
<1>4. KnownInv'
  <2>1. SeenSymbols' = SeenSymbols /\ EntryCounts' = EntryCounts
    BY <1>1 DEF SeenSymbols, EntryCounts
  <2>2. \A s : FunctionSymbol(s)' <=> FunctionSymbol(s)
    BY <1>1 DEF FunctionSymbol
  <2> QED BY <1>1, <1>3, <2>1, <2>2 DEF RangeInv, KnownInv
<1>5. SweepInv'
  <2>1. binary.text.start \in Nat
    BY <1>2, BinaryFacts
  <2> QED BY <1>1, <2>1 DEF SweepInv
<1> QED BY <1>1, <1>3, <1>4, <1>5, EmitNotYet DEF RangeInv

\* An instruction has at least one byte.
LEMMA CurrentSize ==
  ASSUME binary \in Binaries, InText(binary.text, at)
  PROVE  Current.size \in Nat \ {0}
<1>1. binary.code[at] \in Decoded
  BY BinaryFacts
<1>2. binary.code[at].size \in Nat \ {0}
  BY <1>1 DEF Decoded
<1> QED BY <1>2 DEF Current, DecodeAt

LEMMA RangeScanForPrologue ==
  ASSUME RangeInv, ScanForPrologue
  PROVE  RangeInv'
<1> DEFINE new == Unnamed("Heuristic")
<1>1. /\ phase = "heuristic" /\ phase' = "heuristic" /\ at < scanEnd
      /\ UNCHANGED <<binary, index, scanEnd, functions>> /\ at' = at + Current.size
      /\ candidates' \in {candidates, Added(at, new)}
  BY DEF ScanForPrologue
<1>2. /\ CandidatesInv /\ binary \in Binaries /\ new.size = 0
      /\ at \in Nat /\ binary.text.start <= at
      /\ scanEnd = binary.text.start + binary.text.size
  BY <1>1 DEF RangeInv, CandidatesInv, SweepInv, Unnamed
<1>3. InText(binary.text, at) /\ binary.text.start \in Nat
  BY <1>1, <1>2, BinaryFacts
<1>4. CandidatesInv' /\ Found \subseteq Found'
  <2>1. CASE candidates' = Added(at, new)
    <3>1. Found' = Found \cup {at}
      BY <2>1, AddedFacts DEF Found
    <3> HIDE DEF new
    <3> QED BY <1>1, <1>2, <1>3, <2>1, <3>1, CandidatesAdd
  <2>2. CASE candidates' = candidates
    BY <1>1, <1>2, <2>2, CandidatesKept
  <2> QED BY <1>1, <2>1, <2>2
<1>5. SweepInv'
  <2>1. Current.size \in Nat \ {0}
    BY <1>2, <1>3, CurrentSize
  <2> QED BY <1>1, <1>2, <1>3, <2>1 DEF SweepInv
<1> QED BY <1>1, <1>4, <1>5, KnownKept, EmitNotYet DEF RangeInv

\* A step of the worklist that follows no call.
LEMMA RangeWorklist ==
  ASSUME RangeInv, UNCHANGED <<binary, index, candidates, functions>>,
         phase \notin {"symbols", "emit", "done"},
         phase' \notin {"symbols", "heuristic", "emit", "done"}
  PROVE  RangeInv'
BY KnownKept, EmitNotYet, CandidatesKept DEF RangeInv, SweepInv

LEMMA RangeFollowCall ==
  ASSUME RangeInv, FollowCall
  PROVE  RangeInv'
<1> DEFINE new == Unnamed("DirectCallTarget")
           target == Current.directTarget
<1>1. /\ phase = "calls" /\ phase' = "calls"
      /\ UNCHANGED <<binary, index, functions>>
      /\ candidates' = Added(target, new) /\ IsTextCall(Current)
  BY DEF FollowCall
<1>2. CandidatesInv /\ new.size = 0 /\ InText(binary.text, target)
  BY <1>1 DEF RangeInv, IsTextCall, Unnamed
<1>3. CandidatesInv' /\ Found \subseteq Found'
  <2>1. Found' = Found \cup {target}
    BY <1>1, AddedFacts DEF Found
  <2> HIDE DEF new, target
  <2> QED BY <1>1, <1>2, <2>1, CandidatesAdd
<1> QED BY <1>1, <1>3, KnownKept, EmitNotYet DEF RangeInv, SweepInv

LEMMA RangeFinishWorklist ==
  ASSUME RangeInv, FinishWorklist
  PROVE  RangeInv'
<1>1. /\ phase = "calls" /\ phase' = "emit" /\ at' = 0
      /\ UNCHANGED <<binary, index, candidates, functions>>
  BY DEF FinishWorklist
<1>2. CandidatesInv /\ CandidatesInv' /\ Found' = Found /\ KnownInv'
  BY <1>1, KnownKept, CandidatesKept DEF RangeInv
<1>3. functions = <<>> /\ Len(functions) = 0 /\ IsSequence(functions)
  BY <1>1 DEF RangeInv, EmitInv
<1>4. \A a \in Found : a \in Nat
  BY <1>2, RangeFacts
<1>5. EmitInv'
  BY <1>1, <1>2, <1>3, <1>4 DEF EmitInv, IsSequence
<1> QED BY <1>1, <1>2, <1>5 DEF RangeInv, SweepInv

LEMMA SequenceGrows ==
  ASSUME NEW s, IsSequence(s), NEW x
  PROVE  /\ IsSequence(Append(s, x)) /\ Len(s) \in Nat
         /\ Len(Append(s, x)) = Len(s) + 1
         /\ \A i \in 1 .. Len(s) + 1 :
              Append(s, x)[i] = IF i = Len(s) + 1 THEN x ELSE s[i]
<1> DEFINE S == {s[k] : k \in 1 .. Len(s)} \cup {x}
<1>1. s \in [1 .. Len(s) -> S] /\ Len(s) \in Nat
  BY DEF IsSequence
<1>2. s \in Seq(S)
  BY <1>1, SeqDef
<1>3. x \in S
  OBVIOUS
<1> HIDE DEF S
<1>4. Append(s, x) \in Seq(S) /\ Len(Append(s, x)) = Len(s) + 1
  BY <1>2, <1>3
<1>5. Append(s, x) = [k \in 1 .. Len(s) + 1 |-> Append(s, x)[k]]
  <2> DEFINE t == Append(s, x)
  <2>1. t \in Seq(S) /\ Len(t) = Len(s) + 1
    BY <1>4
  <2> HIDE DEF t
  <2>2. t \in [1 .. Len(t) -> S]
    BY <2>1
  <2>3. t = [k \in 1 .. Len(s) + 1 |-> t[k]]
    BY <2>1, <2>2
  <2> QED BY <2>3 DEF t
<1>6. \A i \in 1 .. Len(s) + 1 : Append(s, x)[i] = IF i = Len(s) + 1 THEN x ELSE s[i]
  BY <1>2, <1>3
<1> QED BY <1>1, <1>4, <1>5, <1>6 DEF IsSequence

LEMMA RangeEmitFunction ==
  ASSUME RangeInv, EmitFunction
  PROVE  RangeInv'
<1> DEFINE a == Least(Remaining)
           f == FunctionOf(a)
           n == Len(functions)
<1>1. /\ phase = "emit" /\ phase' = "emit" /\ Remaining # {} /\ at' = a + 1
      /\ UNCHANGED <<binary, index, candidates>>
      /\ functions' = IF RangeSize(a) = 0 THEN functions ELSE Append(functions, f)
  BY DEF EmitFunction
<1>2. /\ CandidatesInv /\ CandidatesInv' /\ KnownInv' /\ Found' = Found
      /\ \A c : RangeSize(c)' = RangeSize(c)
  BY <1>1, KnownKept, CandidatesKept DEF RangeInv
<1>3. EmitInv /\ IsSequence(functions) /\ at \in Nat
  BY <1>1 DEF RangeInv, EmitInv
<1>4. \A c \in Found : c \in Nat /\ RangeSize(c) \in Nat
  BY <1>2, RangeFacts
<1>5. a \in Found /\ a \in Nat /\ at <= a /\ \A c \in Found : at <= c => a <= c
  <2>1. \A c \in Remaining : c \in Nat
    BY <1>4 DEF Remaining, Found
  <2>2. a \in Remaining /\ \A c \in Remaining : a <= c
    BY <1>1, <2>1, LeastFacts
  <2> HIDE DEF a
  <2> QED BY <1>3, <1>4, <2>2 DEF Remaining, Found
<1>6. /\ f.address = a /\ f.size = RangeSize(a)
      /\ ~ f.estimated => candidates[a].size # 0 /\ ~ candidates[a].size > RangeSize(a)
  BY DEF FunctionOf
<1>7. f.size > 0 /\ ~ f.estimated => f.size = candidates[a].size
  <2>1. candidates[a].size \in Nat
    BY <1>2, <1>5 DEF CandidatesInv
  <2>2. RangeSize(a) \in {0, candidates[a].size} \/ candidates[a].size = 0
           \/ candidates[a].size > RangeSize(a)
    <3> DEFINE next == IF Later(a) = {} THEN TextEnd(binary.text) ELSE Least(Later(a))
               size == candidates[a].size
    <3>1. RangeSize(a) = IF next <= a THEN 0
                         ELSE IF size = 0 \/ size > next - a THEN next - a ELSE size
      BY DEF RangeSize
    <3> HIDE DEF next, size, a
    <3>2. size = 0 \/ RangeSize(a) \in {0, size} \/ size > RangeSize(a)
      BY <3>1
    <3> QED BY <3>2 DEF size
  <2> HIDE DEF a, f
  <2> QED BY <1>6, <2>1, <2>2
<1> HIDE DEF a, f
<1>8. /\ IsSequence(functions')
      /\ \/ functions' = functions /\ RangeSize(a) = 0
         \/ /\ RangeSize(a) > 0 /\ Len(functions') = n + 1
            /\ \A i \in 1 .. n + 1 : functions'[i] = IF i = n + 1 THEN f ELSE functions[i]
  <2>1. CASE RangeSize(a) = 0
    BY <1>1, <1>3, <2>1
  <2>2. CASE RangeSize(a) # 0
    <3>1. functions' = Append(functions, f)
      BY <1>1, <2>2
    <3>2. RangeSize(a) > 0
      BY <1>4, <1>5, <2>2
    <3> QED BY <1>3, <3>1, <3>2, SequenceGrows
  <2> QED BY <2>1, <2>2
<1>9. n \in Nat
  BY <1>3 DEF IsSequence
<1>10. \A i \in 1 .. n :
         /\ functions[i].address \in Found /\ functions[i].address < at
         /\ functions[i].size = RangeSize(functions[i].address) /\ functions[i].size > 0
         /\ ~ functions[i].estimated =>
              functions[i].size = candidates[functions[i].address].size
         /\ \A j \in 1 .. i - 1 : functions[j].address < functions[i].address
  BY <1>3 DEF EmitInv
<1>11. /\ \A c \in Found : c < at /\ RangeSize(c) # 0 => c \in FunctionStarts
       /\ \A i \in 1 .. n : functions[i].address < a /\ functions[i].address < a + 1
  <2>1. \A c \in Found : c < at => c < a /\ c < a + 1
    BY <1>3, <1>4, <1>5
  <2>2. \A i \in 1 .. n : functions[i].address \in Found /\ functions[i].address < at
    BY <1>10
  <2> QED BY <1>1, <1>3, <2>1, <2>2 DEF EmitInv
<1>12. \A c \in Found : c < a + 1 => c < at \/ c = a
  BY <1>3, <1>4, <1>5
<1>13. CASE functions' = functions /\ RangeSize(a) = 0
  <2>1. \A c \in Found : c < a + 1 /\ RangeSize(c) # 0 => c \in FunctionStarts
    BY <1>11, <1>12, <1>13
  <2>2. FunctionStarts' = FunctionStarts /\ UNCHANGED functions /\ at' \in Nat
    BY <1>1, <1>5, <1>13 DEF FunctionStarts
  <2>3. EmitInv'
    BY <1>1, <1>2, <1>8, <1>10, <1>11, <2>1, <2>2 DEF EmitInv
  <2> QED BY <1>1, <1>2, <2>3 DEF RangeInv, SweepInv
<1>14. CASE /\ RangeSize(a) > 0 /\ Len(functions') = n + 1
            /\ \A i \in 1 .. n + 1 : functions'[i] = IF i = n + 1 THEN f ELSE functions[i]
  <2>1. \A i \in 1 .. n : i \in 1 .. n + 1 /\ i # n + 1 /\ functions'[i] = functions[i]
    BY <1>9, <1>14
  <2>2. functions'[n + 1] = f /\ n + 1 \in 1 .. n + 1
    BY <1>9, <1>14
  <2>3. \A i \in 1 .. n + 1 : i = n + 1 \/ i \in 1 .. n
    BY <1>9
  <2>4. ASSUME NEW i \in 1 .. n + 1
        PROVE  /\ functions'[i].address \in Found /\ functions'[i].address < a + 1
               /\ functions'[i].size = RangeSize(functions'[i].address)
               /\ functions'[i].size > 0
               /\ ~ functions'[i].estimated =>
                    functions'[i].size = candidates[functions'[i].address].size
               /\ \A j \in 1 .. i - 1 : functions'[j].address < functions'[i].address
    <3>1. CASE i = n + 1
      <4>1. \A j \in 1 .. n : functions'[j].address < a
        BY <1>11, <2>1
      <4>2. i - 1 = n /\ a < a + 1
        BY <1>5, <1>9, <3>1
      <4> QED BY <1>5, <1>6, <1>7, <1>14, <2>2, <3>1, <4>1, <4>2
    <3>2. CASE i \in 1 .. n
      <4>1. \A j \in 1 .. i - 1 : j \in 1 .. n
        BY <1>9, <3>2
      <4> QED BY <1>10, <1>11, <2>1, <3>2, <4>1
    <3> QED BY <2>3, <3>1, <3>2
  <2>5. FunctionStarts' = FunctionStarts \cup {a}
    <3>1. FunctionStarts' = {functions'[i].address : i \in 1 .. n + 1}
      BY <1>14 DEF FunctionStarts
    <3>2. FunctionStarts = {functions[i].address : i \in 1 .. n}
      BY DEF FunctionStarts
    <3> QED BY <1>6, <2>1, <2>2, <2>3, <3>1, <3>2
  <2>6. \A c \in Found : c < a + 1 /\ RangeSize(c) # 0 => c \in FunctionStarts'
    BY <1>11, <1>12, <2>5
  <2>7. EmitInv'
    <3>1. at' = a + 1 /\ at' \in Nat /\ phase' = "emit" /\ UNCHANGED candidates
      BY <1>1, <1>5
    <3>2. Len(functions') = n + 1 /\ IsSequence(functions')
      BY <1>8, <1>14
    <3> HIDE DEF n
    <3> QED BY ONLY <1>2, <2>4, <2>6, <3>1, <3>2 DEF EmitInv, IsSequence
  <2> QED BY <1>1, <1>2, <2>7 DEF RangeInv, SweepInv
<1> QED BY <1>8, <1>13, <1>14

LEMMA RangeReturnFunctions ==
  ASSUME RangeInv, ReturnFunctions
  PROVE  RangeInv'
<1>1. /\ phase = "emit" /\ phase' = "done" /\ Remaining = {}
      /\ UNCHANGED <<binary, index, candidates, at, functions>>
  BY DEF ReturnFunctions
<1>2. /\ CandidatesInv /\ CandidatesInv' /\ KnownInv' /\ Found' = Found
      /\ \A c : RangeSize(c)' = RangeSize(c)
  BY <1>1, KnownKept, CandidatesKept DEF RangeInv
<1>3. \A a \in Found : a \in Nat
  BY <1>2, RangeFacts
<1>4. \A a \in Found : a < at
  BY <1>1, <1>3 DEF Remaining, Found, RangeInv, EmitInv
<1>5. EmitInv'
  BY <1>1, <1>2, <1>4 DEF RangeInv, EmitInv, FunctionStarts
<1> QED BY <1>1, <1>2, <1>5 DEF RangeInv, SweepInv

LEMMA RangeStutter ==
  ASSUME RangeInv, UNCHANGED vars
  PROVE  RangeInv'
<1>1. /\ UNCHANGED <<phase, binary, index, candidates, at, scanEnd, functions>>
  BY DEF vars
<1>2. CandidatesInv' /\ Found' = Found /\ \A c : RangeSize(c)' = RangeSize(c)
  BY <1>1, CandidatesKept DEF RangeInv
<1>3. KnownInv'
  BY <1>1 DEF RangeInv, KnownInv, SeenSymbols, FunctionSymbol, EntryCounts, Found
<1>4. EmitInv'
  BY <1>1, <1>2 DEF RangeInv, EmitInv, FunctionStarts
<1> QED BY <1>1, <1>2, <1>3, <1>4 DEF RangeInv, SweepInv

LEMMA RangeInductive == RangeInv /\ [Next]_vars => RangeInv'
<1> SUFFICES ASSUME RangeInv, [Next]_vars PROVE RangeInv'
  OBVIOUS
<1>1. CASE AddSymbol
  BY <1>1, RangeAddSymbol
<1>2. CASE AddEntryPoint
  BY <1>2, RangeAddEntryPoint
<1>3. CASE ScanForPrologue
  BY <1>3, RangeScanForPrologue
<1>4. CASE FinishHeuristic \/ StartWorklist \/ PopCandidate \/ SkipInstruction \/ ReachLimit
  <2>1. /\ UNCHANGED <<binary, index, candidates, functions>>
        /\ phase \in {"heuristic", "start", "calls"}
        /\ phase' \in {"start", "calls", "failed"}
    BY <1>4 DEF FinishHeuristic, StartWorklist, PopCandidate, SkipInstruction, ReachLimit
  <2> QED BY <2>1, RangeWorklist
<1>5. CASE FollowCall
  BY <1>5, RangeFollowCall
<1>6. CASE FinishWorklist
  BY <1>6, RangeFinishWorklist
<1>7. CASE EmitFunction
  BY <1>7, RangeEmitFunction
<1>8. CASE ReturnFunctions
  BY <1>8, RangeReturnFunctions
<1>9. CASE UNCHANGED vars
  BY <1>9, RangeStutter
<1> QED BY <1>1, <1>2, <1>3, <1>4, <1>5, <1>6, <1>7, <1>8, <1>9
        DEF Next, Collect, FollowCalls, Emit

LEMMA RangeInvariance == Spec => []RangeInv
BY RangeInit, RangeInductive, PTL DEF Spec

\* Whatever the symbols declare and the calls reach, the functions are in address
\* order, lie inside .text and share no byte, and a size that is not marked as
\* estimated was declared by a symbol there and covers no other candidate.
THEOREM FunctionRangesCorrect == Spec => []RangesExact
<1>1. RangeInv => RangesExact
  <2> SUFFICES ASSUME RangeInv PROVE RangesDisjoint /\ ExactSizesDeclared
    BY DEF RangesExact
  <2>1. CandidatesInv /\ EmitInv /\ binary \in Binaries
    BY DEF RangeInv, CandidatesInv
  <2>2. ASSUME NEW i \in 1 .. Len(functions)
        PROVE  LET a == functions[i].address
               IN  /\ a \in Found /\ functions[i].size = RangeSize(a) /\ functions[i].size > 0
                   /\ a \in Nat /\ functions[i].size \in Nat
                   /\ a + functions[i].size <= binary.text.start + binary.text.size
                   /\ \A c \in Found : c > a => a + functions[i].size <= c
                   /\ ~ functions[i].estimated => functions[i].size = candidates[a].size
                   /\ \A j \in 1 .. i - 1 : functions[j].address < a
    <3> DEFINE a == functions[i].address
    <3>1. /\ a \in Found /\ functions[i].size = RangeSize(a) /\ functions[i].size > 0
          /\ ~ functions[i].estimated => functions[i].size = candidates[a].size
          /\ \A j \in 1 .. i - 1 : functions[j].address < a
      BY <2>1 DEF EmitInv
    <3> HIDE DEF a
    <3>2. /\ a \in Nat /\ RangeSize(a) \in Nat
          /\ a + RangeSize(a) <= binary.text.start + binary.text.size
          /\ \A c \in Found : c > a => a + RangeSize(a) <= c
      BY <2>1, <3>1, RangeFacts
    <3> QED BY <3>1, <3>2 DEF a
  <2>3. Len(functions) \in Nat
    BY <2>1 DEF EmitInv, IsSequence
  <2>4. RangesDisjoint
    <3> SUFFICES ASSUME NEW i \in 1 .. Len(functions)
                 PROVE  /\ functions[i].size > 0
                        /\ InText(binary.text, functions[i].address)
                        /\ InText(binary.text, End(functions[i]) - 1)
                        /\ \A j \in 1 .. i - 1 : End(functions[j]) <= functions[i].address
      BY DEF RangesDisjoint
    <3>1. InText(binary.text, functions[i].address)
      BY <2>1, <2>2 DEF CandidatesInv
    <3>2. binary.text.start \in Nat /\ binary.text.start <= functions[i].address
      BY <2>1, <2>2, <3>1, BinaryFacts
    <3>3. /\ End(functions[i]) - 1 \in Nat /\ binary.text.start <= End(functions[i]) - 1
          /\ End(functions[i]) - 1 < binary.text.start + binary.text.size
      <4>1. binary.text.size \in Nat
        BY <2>1, BinaryFacts
      <4> QED BY <2>2, <3>2, <4>1 DEF End
    <3>4. InText(binary.text, End(functions[i]) - 1)
      BY <2>1, <3>3, BinaryFacts
    <3>5. \A j \in 1 .. i - 1 : End(functions[j]) <= functions[i].address
      <4> TAKE j \in 1 .. i - 1
      <4>1. j \in 1 .. Len(functions)
        BY <2>3
      <4>2. functions[j].address < functions[i].address /\ functions[i].address \in Found
        BY <2>2
      <4>3. functions[i].address > functions[j].address
        BY <2>2, <4>1, <4>2
      <4> QED BY <2>2, <4>1, <4>2, <4>3 DEF End
    <3> QED BY <2>2, <3>1, <3>4, <3>5
  <2>5. ExactSizesDeclared
    <3> SUFFICES ASSUME NEW i \in 1 .. Len(functions), ~ functions[i].estimated
                 PROVE  /\ DeclaredAt(functions[i].address, functions[i].size)
                        /\ \A c \in Found : ~ (functions[i].address < c /\ c < End(functions[i]))
      BY DEF ExactSizesDeclared, DeclaredAt, Found
    <3>1. DeclaredAt(functions[i].address, functions[i].size)
      <4> DEFINE a == functions[i].address
                 size == functions[i].size
      <4>1. a \in Found /\ size = candidates[a].size /\ size # 0
        BY <2>2
      <4> HIDE DEF a, size
      <4>2. DeclaredAt(a, size)
        BY <2>1, <4>1 DEF CandidatesInv
      <4> QED BY <4>2 DEF a, size
    <3>2. \A c \in Found : c \in Nat
      BY <2>1, RangeFacts
    <3>3. \A c \in Found : ~ (functions[i].address < c /\ c < End(functions[i]))
      BY <2>2, <3>2 DEF End
    <3> QED BY <3>1, <3>3
  <2> QED BY <2>4, <2>5
<1> QED BY <1>1, RangeInvariance, PTL

\* Every function symbol of .text and the entry point start a function of the result,
\* for every binary whose .text ends below the end of the address space.
THEOREM StartsCorrect == Spec => []KnownStartsKept
<1>1. RangeInv => KnownStartsKept
  <2> SUFFICES ASSUME RangeInv, phase = "done", EndKnown
               PROVE  /\ EntryCounts => binary.entry \in FunctionStarts
                      /\ \A i \in 1 .. Len(binary.symbols) :
                           FunctionSymbol(binary.symbols[i]) =>
                             binary.symbols[i].address \in FunctionStarts
    BY DEF KnownStartsKept, EntryCounts
  <2>1. \A a \in Found : a \in FunctionStarts
    <3> TAKE a \in Found
    <3>1. RangeSize(a) > 0 /\ RangeSize(a) \in Nat
      BY RangeFacts DEF RangeInv
    <3> QED BY <3>1 DEF RangeInv, EmitInv
  <2>2. /\ EntryCounts => binary.entry \in Found
        /\ \A i \in SeenSymbols :
             FunctionSymbol(binary.symbols[i]) => binary.symbols[i].address \in Found
        /\ index > Len(binary.symbols) /\ index \in Nat /\ Len(binary.symbols) \in Nat
    BY BinaryFacts DEF RangeInv, KnownInv, CandidatesInv
  <2>3. \A i \in 1 .. Len(binary.symbols) : i \in SeenSymbols
    BY <2>2 DEF SeenSymbols
  <2> QED BY <2>1, <2>2, <2>3
<1> QED BY <1>1, RangeInvariance, PTL

--------------------------------------------------------------------------------
(***************************************************************************)
(* Sources and names.                                                      *)
(***************************************************************************)

\* The symbols at a that were looked at.
SeenAt(a) ==
  {i \in SeenSymbols : FunctionSymbol(binary.symbols[i]) /\ binary.symbols[i].address = a}

SourcesSeen(a) == {SymbolSource(binary.symbols[i]) : i \in SeenAt(a)}
NamesSeen(a)   == {binary.symbols[i].name : i \in SeenAt(a)} \ {NoName}

IsBest(source, S) == source \in S /\ \A s \in S : Priority(s) <= Priority(source)

SourceInv ==
  /\ \A a \in Found : candidates[a].source \in Source
  /\ phase = "symbols" => \A a \in Found : IsBest(candidates[a].source, SourcesSeen(a))
  /\ phase # "symbols" => \A a \in Found : NamedSources(a) # {} =>
                            IsBest(candidates[a].source, NamedSources(a))

NameInv ==
  \A a \in Found : IF NamesSeen(a) = {} THEN candidates[a].name = NoName
                                        ELSE candidates[a].name \in NamesSeen(a)

\* No symbol has a name that looks suffixed.
PlainNames == \A k \in 1 .. Len(binary.symbols) : Len(binary.symbols[k].name) <= 1

\* A name of more than one part carries the address of its function.
OutputInv ==
  /\ \A a \in Found : \A i \in 1 .. Len(functions) : functions[i].address = a =>
       /\ functions[i].source = candidates[a].source
       /\ functions[i].name \in {OwnName(a), Append(OwnName(a), a)}
  /\ PlainNames => \A i, j \in 1 .. Len(functions) : functions[i].name = functions[j].name => i = j

SymbolsInv == SourceInv /\ NameInv /\ OutputInv

LEMMA PriorityFacts ==
  /\ Priority("SymbolTable") = 5 /\ Priority("DynamicSymbolTable") = 4
  /\ Priority("EntryPoint") = 3 /\ Priority("DirectCallTarget") = 2
  /\ Priority("Heuristic") = 1
  /\ \A s \in Source : Priority(s) \in 1 .. 5
<1>1. Priority("SymbolTable") = 5
  BY DEF Priority
<1>2. Priority("DynamicSymbolTable") = 4
  BY DEF Priority
<1>3. Priority("EntryPoint") = 3
  BY DEF Priority
<1>4. Priority("DirectCallTarget") = 2
  BY DEF Priority
<1>5. Priority("Heuristic") = 1
  BY DEF Priority
<1> QED BY <1>1, <1>2, <1>3, <1>4, <1>5 DEF Source

\* The better of the best source and a new one is the best of all.
LEMMA BestOfMore ==
  ASSUME NEW old \in Source, NEW new \in Source, NEW S \in SUBSET Source, IsBest(old, S)
  PROVE  IsBest(IF Priority(new) > Priority(old) THEN new ELSE old, S \cup {new})
<1>1. \A s \in Source : Priority(s) \in Nat
  BY PriorityFacts
<1> QED BY <1>1 DEF IsBest

LEMMA SourcesAreSources ==
  \A a : /\ SourcesSeen(a) \subseteq {"SymbolTable", "DynamicSymbolTable"}
         /\ NamedSources(a) \subseteq {"SymbolTable", "DynamicSymbolTable", "EntryPoint"}
BY DEF SourcesSeen, NamedSources, SymbolSources, SymbolSource

\* When all symbols were looked at.
LEMMA AllSeen ==
  ASSUME index \in Nat, Len(binary.symbols) \in Nat, index > Len(binary.symbols)
  PROVE  /\ \A a : SourcesSeen(a) = SymbolSources(a)
         /\ \A a : NamesSeen(a) = SymbolNames(a)
<1>1. SeenSymbols = 1 .. Len(binary.symbols)
  BY DEF SeenSymbols
<1> QED BY <1>1 DEF SourcesSeen, NamesSeen, SeenAt, SymbolSources, SymbolNames

\* Nothing was seen at an address that is no candidate.
LEMMA UnknownUnseen ==
  ASSUME KnownInv, NEW a, a \notin Found
  PROVE  SeenAt(a) = {} /\ SourcesSeen(a) = {} /\ NamesSeen(a) = {}
<1>1. SeenAt(a) = {}
  BY DEF KnownInv, SeenAt
<1> QED BY <1>1 DEF SourcesSeen, NamesSeen

LEMMA UnknownUnnamed ==
  ASSUME RangeInv, phase # "symbols", NEW a, a \notin Found, InText(binary.text, a)
  PROVE  NamedSources(a) = {}
<1>1. index \in Nat /\ Len(binary.symbols) \in Nat /\ index > Len(binary.symbols)
  BY BinaryFacts DEF RangeInv, KnownInv, CandidatesInv
<1>2. SymbolSources(a) = {}
  BY <1>1, AllSeen, UnknownUnseen DEF RangeInv
<1>3. a # binary.entry
  BY DEF RangeInv, KnownInv, EntryCounts
<1> QED BY <1>2, <1>3 DEF NamedSources

LEMMA MergeFacts ==
  ASSUME NEW old, NEW new
  PROVE  /\ Merge(old, new).source = IF Priority(new.source) > Priority(old.source)
                                       THEN new.source ELSE old.source
         /\ new.name = NoName => Merge(old, new).name = old.name
         /\ old.name = NoName => Merge(old, new).name = new.name
         /\ Merge(old, new).name \in {old.name, new.name}
BY DEF Merge

\* While functions are not emitted there is no output to speak of.
LEMMA OutputNotYet ==
  ASSUME functions' = <<>>
  PROVE  OutputInv'
<1>1. Len(functions') = 0
  OBVIOUS
<1> QED BY <1>1 DEF OutputInv

LEMMA SeenKept ==
  ASSUME UNCHANGED <<binary, index>>
  PROVE  /\ \A a : SeenAt(a)' = SeenAt(a)
         /\ \A a : SourcesSeen(a)' = SourcesSeen(a) /\ NamesSeen(a)' = NamesSeen(a)
         /\ \A a : NamedSources(a)' = NamedSources(a)
         /\ PlainNames' = PlainNames
BY DEF SeenAt, SeenSymbols, SourcesSeen, NamesSeen, NamedSources, SymbolSources,
       FunctionSymbol, SymbolSource, PlainNames

\* A candidate that the sweeps find later than the symbols changes no source and no
\* name of a candidate that a symbol or the entry point names.
LEMMA LaterAdd ==
  ASSUME RangeInv, SourceInv, NameInv, phase # "symbols", phase' # "symbols",
         UNCHANGED <<binary, index>>, NEW a, InText(binary.text, a),
         NEW source \in {"DirectCallTarget", "Heuristic"},
         candidates' = Added(a, Unnamed(source))
  PROVE  SourceInv' /\ NameInv'
<1> DEFINE new == Unnamed(source)
<1>1. /\ Found' = Found \cup {a}
      /\ \A c \in Found : c # a => candidates'[c] = candidates[c]
      /\ a \in Found => candidates'[a] = Merge(candidates[a], new)
      /\ a \notin Found => candidates'[a] = new
  <2>1. Found' = DOMAIN Added(a, new) /\ candidates' = Added(a, new)
    BY DEF Found
  <2> HIDE DEF new
  <2> QED BY ONLY <2>1, AddedFacts
<1>2. new.source = source /\ new.name = NoName /\ source \in Source
  BY DEF Unnamed, Source
<1>3. \A c \in Found : candidates[c].source \in Source
  BY DEF SourceInv
<1>4. a \notin Found => NamedSources(a) = {} /\ NamesSeen(a) = {}
  BY UnknownUnnamed, UnknownUnseen DEF RangeInv
<1>5. ASSUME a \in Found
      PROVE  /\ candidates'[a].name = candidates[a].name
             /\ candidates'[a].source \in Source
             /\ NamedSources(a) # {} => candidates'[a].source = candidates[a].source
  <2>1. /\ candidates'[a].name = candidates[a].name
        /\ candidates'[a].source = IF Priority(source) > Priority(candidates[a].source)
                                     THEN source ELSE candidates[a].source
    BY <1>1, <1>2, <1>5, MergeFacts
  <2>2. ASSUME NamedSources(a) # {}
        PROVE  ~ Priority(source) > Priority(candidates[a].source)
    <3>1. candidates[a].source \in {"SymbolTable", "DynamicSymbolTable", "EntryPoint"}
      BY <1>5, <2>2, SourcesAreSources DEF SourceInv, IsBest
    <3>2. Priority(source) <= 2 /\ Priority(candidates[a].source) >= 3
      BY <3>1, PriorityFacts
    <3>3. Priority(source) \in 1 .. 5 /\ Priority(candidates[a].source) \in 1 .. 5
      <4>1. source \in Source /\ candidates[a].source \in Source
        BY <1>2, <1>3, <1>5
      <4> QED BY <4>1, PriorityFacts
    <3> QED BY <3>2, <3>3
  <2> QED BY <1>2, <1>3, <1>5, <2>1, <2>2
<1> HIDE DEF new
<1>6. SourceInv'
  <2>1. \A c \in Found' : candidates'[c].source \in Source
    BY <1>1, <1>2, <1>3, <1>5
  <2>2. \A c \in Found' : NamedSources(c) # {} => c \in Found
                                        /\ candidates'[c].source = candidates[c].source
    BY <1>1, <1>4, <1>5
  <2>3. \A c \in Found : NamedSources(c) # {} => IsBest(candidates[c].source, NamedSources(c))
    BY DEF SourceInv
  <2>4. \A c \in Found' : NamedSources(c) # {} => IsBest(candidates'[c].source, NamedSources(c))
    BY <2>2, <2>3
  <2>5. \A c : NamedSources(c)' = NamedSources(c)
    BY SeenKept
  <2> QED BY <2>1, <2>4, <2>5 DEF SourceInv, IsBest
<1>7. NameInv'
  <2>1. \A c \in Found' :
          \/ c \in Found /\ candidates'[c].name = candidates[c].name
          \/ c = a /\ NamesSeen(a) = {} /\ candidates'[a].name = NoName
    BY <1>1, <1>2, <1>4, <1>5
  <2>2. \A c : NamesSeen(c)' = NamesSeen(c)
    BY SeenKept
  <2> QED BY <2>1, <2>2 DEF NameInv
<1> QED BY <1>6, <1>7

LEMMA SymbolsKept ==
  ASSUME SourceInv, NameInv, UNCHANGED <<binary, index, candidates>>,
         phase = "symbols" <=> phase' = "symbols"
  PROVE  SourceInv' /\ NameInv'
<1>1. Found' = Found
  BY DEF Found
<1> QED BY <1>1, SeenKept DEF SourceInv, NameInv, IsBest

LEMMA SymbolsAddSymbol ==
  ASSUME RangeInv, SymbolsInv, AddSymbol
  PROVE  SymbolsInv'
<1>a. PICK s : s = binary.symbols[index]
  OBVIOUS
<1>b. PICK a : a = s.address
  OBVIOUS
<1> DEFINE new == [name |-> s.name, size |-> s.size, source |-> SymbolSource(s)]
<1>1. /\ phase = "symbols" /\ phase' = "symbols" /\ UNCHANGED <<binary, functions>>
      /\ index <= Len(binary.symbols) /\ index' = index + 1
      /\ candidates' = IF FunctionSymbol(s) THEN Added(a, new) ELSE candidates
  BY <1>a, <1>b DEF AddSymbol
<1>2. /\ index \in 1 .. Len(binary.symbols) /\ index \in Nat
      /\ SeenSymbols' = SeenSymbols \cup {index} /\ index \notin SeenSymbols
  <2>1. index \in Nat \ {0} /\ Len(binary.symbols) \in Nat
    BY BinaryFacts DEF RangeInv, CandidatesInv, KnownInv
  <2> QED BY <1>1, <2>1 DEF SeenSymbols
<1>3. \A c : SeenAt(c)' = SeenAt(c) \cup (IF FunctionSymbol(s) /\ c = a THEN {index} ELSE {})
  BY <1>a, <1>b, <1>1, <1>2 DEF SeenAt, FunctionSymbol
<1>4. \A c : SourcesSeen(c)' = SourcesSeen(c)
                \cup (IF FunctionSymbol(s) /\ c = a THEN {SymbolSource(s)} ELSE {})
  BY <1>a, <1>1, <1>3 DEF SourcesSeen, SymbolSource
<1>5. \A c : NamesSeen(c)' = NamesSeen(c)
                \cup ((IF FunctionSymbol(s) /\ c = a THEN {s.name} ELSE {}) \ {NoName})
  BY <1>a, <1>1, <1>3 DEF NamesSeen
<1>6. OutputInv'
  BY <1>1, OutputNotYet DEF RangeInv, EmitInv
<1>7. SymbolSource(s) \in Source
  BY DEF SymbolSource, Source
<1>8. CASE ~ FunctionSymbol(s)
  <2>1. Found' = Found /\ UNCHANGED candidates
    BY <1>1, <1>8 DEF Found
  <2>2. \A c : SourcesSeen(c)' = SourcesSeen(c) /\ NamesSeen(c)' = NamesSeen(c)
    BY <1>4, <1>5, <1>8
  <2> QED BY <1>1, <1>6, <2>1, <2>2 DEF SymbolsInv, SourceInv, NameInv, IsBest
<1>9. CASE FunctionSymbol(s)
  <2>1. /\ Found' = Found \cup {a}
        /\ \A c \in Found : c # a => candidates'[c] = candidates[c]
        /\ a \in Found => candidates'[a] = Merge(candidates[a], new)
        /\ a \notin Found => candidates'[a] = new
    <3>1. Found' = DOMAIN Added(a, new) /\ candidates' = Added(a, new)
      BY <1>1, <1>9 DEF Found
    <3> HIDE DEF new
    <3> QED BY <3>1, AddedFacts
  <2>2. new.source = SymbolSource(s) /\ new.name = s.name
    OBVIOUS
  <2>3. a \notin Found => SourcesSeen(a) = {} /\ NamesSeen(a) = {}
    BY UnknownUnseen DEF RangeInv
  <2> HIDE DEF new
  <2>4. /\ SourcesSeen(a)' = SourcesSeen(a) \cup {SymbolSource(s)}
        /\ \A c : c # a => SourcesSeen(c)' = SourcesSeen(c)
        /\ NamesSeen(a)' = NamesSeen(a) \cup ({s.name} \ {NoName})
        /\ \A c : c # a => NamesSeen(c)' = NamesSeen(c)
    <3>1. SourcesSeen(a)' = SourcesSeen(a) \cup {SymbolSource(s)}
      BY <1>4, <1>9
    <3>2. \A c : c # a => SourcesSeen(c)' = SourcesSeen(c)
      BY <1>4
    <3>3. NamesSeen(a)' = NamesSeen(a) \cup ({s.name} \ {NoName})
      BY <1>5, <1>9
    <3>4. \A c : c # a => NamesSeen(c)' = NamesSeen(c)
      BY <1>5
    <3> QED BY <3>1, <3>2, <3>3, <3>4
  <2>5. /\ \A c \in Found : candidates[c].source \in Source
        /\ \A c \in Found : IsBest(candidates[c].source, SourcesSeen(c))
        /\ NameInv
    BY <1>1 DEF SymbolsInv, SourceInv
  <2>6. /\ candidates'[a].source \in Source
        /\ IsBest(candidates'[a].source, SourcesSeen(a) \cup {SymbolSource(s)})
    <3>1. CASE a \in Found
      <4>1. candidates'[a].source = IF Priority(SymbolSource(s)) > Priority(candidates[a].source)
                                      THEN SymbolSource(s) ELSE candidates[a].source
        BY <2>1, <2>2, <3>1, MergeFacts
      <4>2. SourcesSeen(a) \in SUBSET Source
        BY SourcesAreSources DEF Source
      <4> QED BY <1>7, <2>5, <3>1, <4>1, <4>2, BestOfMore
    <3>2. CASE a \notin Found
      <4>1. Priority(SymbolSource(s)) \in 1 .. 5
        BY <1>7, PriorityFacts
      <4> QED BY <1>7, <2>1, <2>2, <2>3, <3>2, <4>1 DEF IsBest
    <3> QED BY <3>1, <3>2
  <2>7. SourceInv'
    <3>1. \A c \in Found' : c = a \/ (c \in Found /\ c # a)
      BY <2>1
    <3>2. \A c \in Found' : IsBest(candidates'[c].source, SourcesSeen(c)')
      BY <2>1, <2>4, <2>5, <2>6, <3>1
    <3>3. \A c \in Found' : candidates'[c].source \in Source
      BY <2>1, <2>5, <2>6, <3>1
    <3> QED BY <1>1, <3>2, <3>3 DEF SourceInv, IsBest
  <2>8. IF NamesSeen(a)' = {} THEN candidates'[a].name = NoName
                              ELSE candidates'[a].name \in NamesSeen(a)'
    <3>1. CASE a \in Found
      <4>1. /\ candidates[a].name = NoName => candidates'[a].name = s.name
            /\ candidates'[a].name \in {candidates[a].name, s.name}
            /\ s.name = NoName => candidates'[a].name = candidates[a].name
        BY <2>1, <2>2, <3>1, MergeFacts
      <4>2. NoName \notin NamesSeen(a)
        BY DEF NamesSeen
      <4> QED BY <2>4, <2>5, <3>1, <4>1, <4>2 DEF NameInv
    <3>2. CASE a \notin Found
      BY <2>1, <2>2, <2>3, <2>4, <3>2
    <3> QED BY <3>1, <3>2
  <2>9. NameInv'
    <3>1. \A c \in Found' : c = a \/ (c \in Found /\ c # a)
      BY <2>1
    <3>2. \A c \in Found : c # a =>
            IF NamesSeen(c)' = {} THEN candidates'[c].name = NoName
                                  ELSE candidates'[c].name \in NamesSeen(c)'
      BY <2>1, <2>4, <2>5 DEF NameInv
    <3> QED BY <2>8, <3>1, <3>2 DEF NameInv
  <2> QED BY <1>6, <2>7, <2>9 DEF SymbolsInv
<1> QED BY <1>8, <1>9

LEMMA SymbolsAddEntryPoint ==
  ASSUME RangeInv, SymbolsInv, AddEntryPoint
  PROVE  SymbolsInv'
<1>a. PICK a : a = binary.entry
  OBVIOUS
<1> DEFINE new == Unnamed("EntryPoint")
<1>1. /\ phase = "symbols" /\ phase' # "symbols" /\ UNCHANGED <<binary, index, functions>>
      /\ index > Len(binary.symbols)
      /\ candidates' = IF EntryCounts THEN Added(a, new) ELSE candidates
  BY <1>a DEF AddEntryPoint
<1>2. index \in Nat /\ Len(binary.symbols) \in Nat
  BY BinaryFacts DEF RangeInv, KnownInv, CandidatesInv
<1>3. OutputInv'
  BY <1>1, OutputNotYet DEF RangeInv, EmitInv
<1>4. /\ \A c \in Found : candidates[c].source \in Source
      /\ \A c \in Found : IsBest(candidates[c].source, SourcesSeen(c))
      /\ NameInv
  BY <1>1 DEF SymbolsInv, SourceInv
<1>5. /\ NamedSources(a) = SourcesSeen(a) \cup {"EntryPoint"}
      /\ \A c : c # a => NamedSources(c) = SourcesSeen(c)
  BY <1>a, <1>1, <1>2, AllSeen DEF NamedSources
<1>6. /\ \A c : NamedSources(c)' = NamedSources(c) /\ NamesSeen(c)' = NamesSeen(c)
  BY <1>1, SeenKept
<1>7. CASE ~ EntryCounts
  <2>1. Found' = Found /\ UNCHANGED candidates
    BY <1>1, <1>7 DEF Found
  <2>2. a \notin Found
    BY <1>a, <1>7 DEF RangeInv, CandidatesInv, EntryCounts
  <2>3. \A c \in Found : NamedSources(c) = SourcesSeen(c)
    BY <1>5, <2>2
  <2> QED BY <1>1, <1>3, <1>4, <1>6, <2>1, <2>3 DEF SymbolsInv, SourceInv, NameInv, IsBest
<1>8. CASE EntryCounts
  <2>1. /\ Found' = Found \cup {a}
        /\ \A c \in Found : c # a => candidates'[c] = candidates[c]
        /\ a \in Found => candidates'[a] = Merge(candidates[a], new)
        /\ a \notin Found => candidates'[a] = new
    <3>1. Found' = DOMAIN Added(a, new) /\ candidates' = Added(a, new)
      BY <1>1, <1>8 DEF Found
    <3> HIDE DEF new
    <3> QED BY ONLY <3>1, AddedFacts
  <2>2. new.source = "EntryPoint" /\ new.name = NoName /\ "EntryPoint" \in Source
    BY DEF Unnamed, Source
  <2>3. a \notin Found => SourcesSeen(a) = {} /\ NamesSeen(a) = {}
    BY UnknownUnseen DEF RangeInv
  <2> HIDE DEF new
  <2>4. candidates'[a].source \in Source /\ IsBest(candidates'[a].source, NamedSources(a))
    <3>1. CASE a \in Found
      <4>1. candidates'[a].source = IF Priority("EntryPoint") > Priority(candidates[a].source)
                                      THEN "EntryPoint" ELSE candidates[a].source
        BY <2>1, <2>2, <3>1, MergeFacts
      <4>2. SourcesSeen(a) \in SUBSET Source
        BY SourcesAreSources DEF Source
      <4> QED BY <1>4, <1>5, <2>2, <3>1, <4>1, <4>2, BestOfMore
    <3>2. CASE a \notin Found
      <4>1. Priority("EntryPoint") \in 1 .. 5
        BY <2>2, PriorityFacts
      <4> QED BY <1>5, <2>1, <2>2, <2>3, <3>2, <4>1 DEF IsBest
    <3> QED BY <3>1, <3>2
  <2>5. \A c \in Found' : c = a \/ (c \in Found /\ c # a)
    BY <2>1
  <2>6. SourceInv'
    <3>1. \A c \in Found' : IsBest(candidates'[c].source, NamedSources(c))
      BY <1>4, <1>5, <2>1, <2>4, <2>5
    <3>2. \A c \in Found' : candidates'[c].source \in Source
      BY <1>4, <2>1, <2>4, <2>5
    <3> QED BY <1>1, <1>6, <3>1, <3>2 DEF SourceInv, IsBest
  <2>7. IF NamesSeen(a) = {} THEN candidates'[a].name = NoName
                             ELSE candidates'[a].name \in NamesSeen(a)
    <3>1. CASE a \in Found
      <4>1. candidates'[a].name = candidates[a].name
        BY <2>1, <2>2, <3>1, MergeFacts
      <4> QED BY <1>4, <3>1, <4>1 DEF NameInv
    <3>2. CASE a \notin Found
      BY <2>1, <2>2, <2>3, <3>2
    <3> QED BY <3>1, <3>2
  <2>8. NameInv'
    <3>1. \A c \in Found : c # a =>
            IF NamesSeen(c) = {} THEN candidates'[c].name = NoName
                                 ELSE candidates'[c].name \in NamesSeen(c)
      BY <1>4, <2>1 DEF NameInv
    <3> QED BY <1>6, <2>5, <2>7, <3>1 DEF NameInv
  <2> QED BY <1>3, <2>6, <2>8 DEF SymbolsInv
<1> QED BY <1>7, <1>8

LEMMA SymbolsScanForPrologue ==
  ASSUME RangeInv, SymbolsInv, ScanForPrologue
  PROVE  SymbolsInv'
<1>1. /\ phase = "heuristic" /\ phase' = "heuristic" /\ at < scanEnd
      /\ UNCHANGED <<binary, index, functions>>
      /\ candidates' \in {candidates, Added(at, Unnamed("Heuristic"))}
  BY DEF ScanForPrologue
<1>2. OutputInv'
  BY <1>1, OutputNotYet DEF RangeInv, EmitInv
<1>3. InText(binary.text, at)
  <2>1. /\ binary \in Binaries /\ at \in Nat /\ binary.text.start <= at
        /\ scanEnd = binary.text.start + binary.text.size
    BY <1>1 DEF RangeInv, CandidatesInv, SweepInv
  <2> QED BY <1>1, <2>1, BinaryFacts
<1>4. CASE candidates' = candidates
  BY <1>1, <1>2, <1>4, SymbolsKept DEF SymbolsInv
<1>5. CASE candidates' = Added(at, Unnamed("Heuristic"))
  <2>1. PICK a : a = at
    OBVIOUS
  <2>2. PICK source \in {"DirectCallTarget", "Heuristic"} : source = "Heuristic"
    OBVIOUS
  <2>3. candidates' = Added(a, Unnamed(source)) /\ InText(binary.text, a)
    BY <1>3, <1>5, <2>1, <2>2
  <2> QED BY <1>1, <1>2, <2>3, LaterAdd DEF SymbolsInv
<1> QED BY <1>1, <1>4, <1>5

LEMMA SymbolsFollowCall ==
  ASSUME RangeInv, SymbolsInv, FollowCall
  PROVE  SymbolsInv'
<1>1. PICK a : a = Current.directTarget
  OBVIOUS
<1>2. PICK source \in {"DirectCallTarget", "Heuristic"} : source = "DirectCallTarget"
  OBVIOUS
<1>3. /\ phase = "calls" /\ phase' = "calls" /\ UNCHANGED <<binary, index, functions>>
      /\ candidates' = Added(a, Unnamed(source)) /\ InText(binary.text, a)
  BY <1>1, <1>2 DEF FollowCall, IsTextCall
<1>4. OutputInv'
  BY <1>3, OutputNotYet DEF RangeInv, EmitInv
<1> QED BY <1>3, <1>4, LaterAdd DEF SymbolsInv

\* The name of a function has one part, or its second part is the address.
LEMMA NameShape ==
  ASSUME CandidatesInv, NameInv, PlainNames, NEW c \in Found
  PROVE  /\ Len(OwnName(c)) = 1 \/ (Len(OwnName(c)) > 1 /\ OwnName(c)[2] = c)
         /\ Len(Append(OwnName(c), c)) > 1 /\ Append(OwnName(c), c)[2] = c
<1>1. /\ IsSequence(OwnName(c)) /\ Len(OwnName(c)) \in Nat
      /\ Len(OwnName(c)) = 1 \/ (Len(OwnName(c)) = 2 /\ OwnName(c)[2] = c)
  <2>1. CASE candidates[c].name = NoName
    <3>1. OwnName(c) = <<"sub", c>>
      BY <2>1 DEF OwnName, FallbackName
    <3>2. Len(<<"sub", c>>) = 2 /\ <<"sub", c>>[2] = c
      OBVIOUS
    <3>3. <<"sub", c>> = [k \in 1 .. 2 |-> <<"sub", c>>[k]]
      OBVIOUS
    <3> QED BY <3>1, <3>2, <3>3 DEF IsSequence
  <2>2. CASE candidates[c].name # NoName
    <3>1. OwnName(c) = candidates[c].name /\ candidates[c].name \in NamesSeen(c)
      BY <2>2 DEF OwnName, NameInv
    <3>2. PICK i \in 1 .. Len(binary.symbols) : OwnName(c) = binary.symbols[i].name
      BY <3>1 DEF NamesSeen, SeenAt, SeenSymbols
    <3>3. IsSequence(OwnName(c)) /\ Len(OwnName(c)) <= 1
      BY <3>2, SymbolFacts DEF PlainNames, CandidatesInv
    <3>4. Len(OwnName(c)) # 0
      <4> DEFINE n == OwnName(c)
      <4>1. IsSequence(n) /\ n # <<>>
        BY <2>2, <3>1, <3>3 DEF NoName
      <4> HIDE DEF n
      <4>2. n \in Seq({n[k] : k \in 1 .. Len(n)})
        BY <4>1, SeqDef DEF IsSequence
      <4> QED BY <4>1, <4>2 DEF n
    <3> QED BY <3>3, <3>4 DEF IsSequence
  <2> QED BY <2>1, <2>2
<1>2. /\ Len(Append(OwnName(c), c)) = Len(OwnName(c)) + 1
      /\ \A i \in 1 .. Len(OwnName(c)) + 1 :
           Append(OwnName(c), c)[i] = IF i = Len(OwnName(c)) + 1 THEN c ELSE OwnName(c)[i]
  BY <1>1, SequenceGrows
<1>3. 2 \in 1 .. Len(OwnName(c)) + 1
  BY <1>1
<1> QED BY <1>1, <1>2, <1>3

LEMMA SymbolsEmitFunction ==
  ASSUME RangeInv, SymbolsInv, EmitFunction
  PROVE  SymbolsInv'
<1>1. PICK a : a = Least(Remaining)
  OBVIOUS
<1>2. PICK f : f = FunctionOf(a)
  OBVIOUS
<1>3. PICK n : n = Len(functions)
  OBVIOUS
<1>4. /\ phase = "emit" /\ phase' = "emit" /\ Remaining # {} /\ UNCHANGED <<binary, index, candidates>>
      /\ functions' \in {functions, Append(functions, f)}
  BY <1>1, <1>2 DEF EmitFunction
<1>5. /\ SourceInv' /\ NameInv' /\ Found' = Found
      /\ \A c : OwnName(c)' = OwnName(c)
      /\ PlainNames' = PlainNames
  BY <1>4, SymbolsKept, SeenKept DEF SymbolsInv, Found, OwnName
<1>6. /\ CandidatesInv /\ NameInv /\ OutputInv /\ IsSequence(functions) /\ at \in Nat /\ n \in Nat
      /\ \A i \in 1 .. n : functions[i].address \in Found /\ functions[i].address < at
  BY <1>3, <1>4 DEF RangeInv, SymbolsInv, EmitInv, IsSequence
<1>7. a \in Found /\ a \in Nat /\ at <= a
  <2>1. \A c \in Remaining : c \in Nat /\ c \in Found /\ at <= c
    BY <1>6, RangeFacts DEF Remaining, Found
  <2> QED BY <1>1, <1>4, <2>1, LeastFacts
<1>8. \A i \in 1 .. n : functions[i].address \in Found /\ functions[i].address # a
  <2>1. \A c \in Found : c \in Nat
    BY <1>6, RangeFacts
  <2>2. \A c \in Found : c < at => c # a
    BY <1>6, <1>7, <2>1
  <2> QED BY <1>6, <2>2
<1>9. /\ f.address = a /\ f.source = candidates[a].source
      /\ f.name \in {OwnName(a), Append(OwnName(a), a)}
      /\ f.name = Append(OwnName(a), a) \/ f.name \notin UsedNames
  BY <1>2 DEF FunctionOf, UniqueName
<1>10. /\ \A c \in Found : \A i \in 1 .. n : functions[i].address = c =>
            /\ functions[i].source = candidates[c].source
            /\ functions[i].name \in {OwnName(c), Append(OwnName(c), c)}
       /\ PlainNames => \A i, j \in 1 .. n : functions[i].name = functions[j].name => i = j
  BY <1>3, <1>6 DEF OutputInv
<1>11. CASE functions' = functions
  BY <1>4, <1>5, <1>6, <1>11 DEF SymbolsInv, OutputInv
<1>12. CASE functions' = Append(functions, f)
  <2>1. /\ Len(functions') = n + 1
        /\ \A i \in 1 .. n : functions'[i] = functions[i]
        /\ functions'[n + 1] = f
    <3>1. \A i \in 1 .. n + 1 : functions'[i] = IF i = n + 1 THEN f ELSE functions[i]
      BY <1>3, <1>6, <1>12, SequenceGrows
    <3>2. Len(functions') = n + 1
      BY <1>3, <1>6, <1>12, SequenceGrows
    <3> QED BY <1>6, <3>1, <3>2
  <2>2. \A i \in 1 .. n + 1 : i = n + 1 \/ i \in 1 .. n
    BY <1>6
  <2>3. \A c \in Found : \A i \in 1 .. n + 1 : functions'[i].address = c =>
          /\ functions'[i].source = candidates[c].source
          /\ functions'[i].name \in {OwnName(c), Append(OwnName(c), c)}
    BY <1>9, <1>10, <2>1, <2>2
  <2>4. ASSUME PlainNames, NEW i \in 1 .. n
        PROVE  functions[i].name # f.name
    <3>1. PICK b : b = functions[i].address
      OBVIOUS
    <3>2. /\ b \in Found /\ b # a
          /\ functions[i].name \in {OwnName(b), Append(OwnName(b), b)}
      BY <1>8, <1>10, <3>1
    <3>3. \/ Len(functions[i].name) = 1
          \/ Len(functions[i].name) > 1 /\ functions[i].name[2] = b
      BY <1>6, <2>4, <3>2, NameShape
    <3>4. functions[i].name \in UsedNames
      BY <1>3 DEF UsedNames
    <3>5. CASE f.name = Append(OwnName(a), a)
      <4>1. Len(f.name) > 1 /\ f.name[2] = a
        BY <1>6, <1>7, <2>4, <3>5, NameShape
      <4> QED BY <3>2, <3>3, <4>1
    <3> QED BY <1>9, <3>4, <3>5
  <2>5. PlainNames => \A i, j \in 1 .. n + 1 : functions'[i].name = functions'[j].name => i = j
    BY <1>10, <2>1, <2>2, <2>4
  <2>6. OutputInv'
    <3>1. \A c \in Found' : \A i \in 1 .. n + 1 : functions'[i].address = c =>
            /\ functions'[i].source = candidates'[c].source
            /\ functions'[i].name \in {OwnName(c)', Append(OwnName(c)', c)}
      BY <1>4, <1>5, <2>3
    <3>2. PlainNames' => \A i, j \in 1 .. n + 1 :
                           functions'[i].name = functions'[j].name => i = j
      BY <1>5, <2>5
    <3> QED BY ONLY <2>1, <3>1, <3>2 DEF OutputInv
  <2> QED BY <1>5, <2>6 DEF SymbolsInv
<1> QED BY <1>4, <1>11, <1>12

\* The steps that change neither a candidate nor, before the result is built, anything
\* the sources and names speak of.
LEMMA SymbolsWorklist ==
  ASSUME SymbolsInv, UNCHANGED <<binary, index, candidates, functions>>,
         phase = "symbols" <=> phase' = "symbols"
  PROVE  SymbolsInv'
<1>1. SourceInv' /\ NameInv'
  BY SymbolsKept DEF SymbolsInv
<1>2. /\ Found' = Found /\ PlainNames' = PlainNames
      /\ \A c : OwnName(c)' = OwnName(c)
  BY SeenKept DEF Found, OwnName
<1>3. OutputInv'
  BY <1>2 DEF SymbolsInv, OutputInv
<1> QED BY <1>1, <1>3 DEF SymbolsInv

LEMMA SymbolsInit == Init => SymbolsInv
<1> SUFFICES ASSUME Init PROVE SymbolsInv
  OBVIOUS
<1>1. Found = {} /\ phase = "symbols" /\ functions = <<>>
  BY DEF Init, Found
<1>2. SourceInv /\ NameInv
  BY <1>1 DEF SourceInv, NameInv
<1>3. Len(functions) = 0
  BY <1>1
<1>4. OutputInv
  BY <1>1, <1>3 DEF OutputInv
<1> QED BY <1>2, <1>4 DEF SymbolsInv

LEMMA SymbolsInductive == RangeInv /\ SymbolsInv /\ [Next]_vars => SymbolsInv'
<1> SUFFICES ASSUME RangeInv, SymbolsInv, [Next]_vars PROVE SymbolsInv'
  OBVIOUS
<1>1. CASE AddSymbol
  BY <1>1, SymbolsAddSymbol
<1>2. CASE AddEntryPoint
  BY <1>2, SymbolsAddEntryPoint
<1>3. CASE ScanForPrologue
  BY <1>3, SymbolsScanForPrologue
<1>4. CASE \/ FinishHeuristic \/ StartWorklist \/ PopCandidate \/ SkipInstruction
           \/ ReachLimit \/ FinishWorklist \/ ReturnFunctions
  <2>1. /\ UNCHANGED <<binary, index, candidates, functions>>
        /\ phase # "symbols" /\ phase' # "symbols"
    BY <1>4 DEF FinishHeuristic, StartWorklist, PopCandidate, SkipInstruction, ReachLimit,
                FinishWorklist, ReturnFunctions
  <2> QED BY <2>1, SymbolsWorklist
<1>5. CASE FollowCall
  BY <1>5, SymbolsFollowCall
<1>6. CASE EmitFunction
  BY <1>6, SymbolsEmitFunction
<1>7. CASE UNCHANGED vars
  BY <1>7, SymbolsWorklist DEF vars
<1> QED BY <1>1, <1>2, <1>3, <1>4, <1>5, <1>6, <1>7 DEF Next, Collect, FollowCalls, Emit

LEMMA SymbolsInvariance == Spec => [](RangeInv /\ SymbolsInv)
BY RangeInit, RangeInductive, SymbolsInit, SymbolsInductive, PTL DEF Spec

\* Whatever symbols there are and in whatever order, a function that a symbol or the
\* entry point names is attributed to the best of them and named after its symbols,
\* and two functions share a name only if some symbol has a name that looks suffixed.
THEOREM SymbolsCorrect == Spec => []SymbolsDecide
<1>1. RangeInv /\ SymbolsInv => SymbolsDecide
  <2> SUFFICES ASSUME RangeInv, SymbolsInv, phase = "done"
               PROVE  BestSymbolSourceWins /\ NamesFollowSymbols
    BY DEF SymbolsDecide, BestSymbolSourceWins, NamesFollowSymbols
  <2>1. /\ \A i \in 1 .. Len(functions) : functions[i].address \in Found
        /\ index \in Nat /\ Len(binary.symbols) \in Nat /\ index > Len(binary.symbols)
    BY BinaryFacts DEF RangeInv, EmitInv, KnownInv, CandidatesInv
  <2>2. \A c \in Found : NamedSources(c) # {} => IsBest(candidates[c].source, NamedSources(c))
    BY DEF SymbolsInv, SourceInv
  <2>3. \A c \in Found : \A i \in 1 .. Len(functions) : functions[i].address = c =>
          /\ functions[i].source = candidates[c].source
          /\ functions[i].name \in {OwnName(c), Append(OwnName(c), c)}
    BY DEF SymbolsInv, OutputInv
  <2>4. BestSymbolSourceWins
    <3> SUFFICES ASSUME NEW i \in 1 .. Len(functions), NamedSources(functions[i].address) # {}
                 PROVE  IsBest(functions[i].source, NamedSources(functions[i].address))
      BY DEF BestSymbolSourceWins, IsBest
    <3>1. PICK c : c = functions[i].address
      OBVIOUS
    <3> QED BY <2>1, <2>2, <2>3, <3>1
  <2>5. \A c \in Found :
          OwnName(c) \in IF SymbolNames(c) = {} THEN {FallbackName(c)} ELSE SymbolNames(c)
    <3> TAKE c \in Found
    <3>1. IF SymbolNames(c) = {} THEN candidates[c].name = NoName
                                 ELSE candidates[c].name \in SymbolNames(c)
      BY <2>1, AllSeen DEF SymbolsInv, NameInv
    <3>2. NoName \notin SymbolNames(c)
      BY DEF SymbolNames
    <3> QED BY <3>1, <3>2 DEF OwnName
  <2>6. ASSUME NEW i \in 1 .. Len(functions)
        PROVE  LET a    == functions[i].address
                   base == IF SymbolNames(a) = {} THEN {FallbackName(a)} ELSE SymbolNames(a)
               IN  functions[i].name \in base \cup {Append(m, a) : m \in base}
    <3>1. PICK c : c = functions[i].address
      OBVIOUS
    <3> DEFINE base == IF SymbolNames(c) = {} THEN {FallbackName(c)} ELSE SymbolNames(c)
    <3>2. OwnName(c) \in base /\ functions[i].name \in {OwnName(c), Append(OwnName(c), c)}
      BY <2>1, <2>3, <2>5, <3>1
    <3> HIDE DEF base
    <3>3. functions[i].name \in base \cup {Append(m, c) : m \in base}
      BY <3>2
    <3> QED BY <3>1, <3>3 DEF base
  <2>7. \/ PlainNames
        \/ \E k \in 1 .. Len(binary.symbols) : Len(binary.symbols[k].name) > 1
    <3>1. \A k \in 1 .. Len(binary.symbols) : Len(binary.symbols[k].name) \in Nat
      BY SymbolFacts DEF RangeInv, CandidatesInv, IsSequence
    <3> QED BY <3>1 DEF PlainNames
  <2>8. PlainNames => \A i, j \in 1 .. Len(functions) :
                        functions[i].name = functions[j].name => i = j
    BY DEF SymbolsInv, OutputInv
  <2>9. NamesFollowSymbols
    BY <2>6, <2>7, <2>8 DEF NamesFollowSymbols
  <2> QED BY <2>4, <2>9
<1> QED BY <1>1, SymbolsInvariance, PTL

--------------------------------------------------------------------------------
(***************************************************************************)
(* The addresses of a sweep.                                               *)
(***************************************************************************)

\* Every byte that is swept decodes to an instruction.
Decodes(code, from, end) ==
  /\ from \in Nat /\ end \in Nat
  /\ \A a \in from .. end - 1 : code[a].size \in Nat \ {0}

\* The address after the instruction at b.
After(code, b, end) == b + DecodeAt(code, b, end).size

LEMMA AfterFacts ==
  ASSUME NEW code, NEW from, NEW end, Decodes(code, from, end), NEW b \in from .. end - 1
  PROVE  /\ After(code, b, end) \in from .. end /\ b < After(code, b, end)
         /\ DecodeAt(code, b, end).size \in Nat \ {0}
<1>1. code[b].size \in Nat \ {0} /\ from \in Nat /\ end \in Nat
  BY DEF Decodes
<1>2. CASE b + code[b].size <= end
  BY <1>1, <1>2 DEF After, DecodeAt
<1>3. CASE ~ (b + code[b].size <= end)
  BY <1>1, <1>3 DEF After, DecodeAt
<1> QED BY <1>2, <1>3

\* One application of the recursive definition of a sweep.
Swept(f, code, from, end) ==
  [a \in from .. end |->
     \/ a = from
     \/ \E b \in from .. a - 1 : f[b] /\ b + DecodeAt(code, b, end).size = a]

\* A sweep reaches the least set that holds its first address and those after it.
LEMMA SweepExists ==
  ASSUME NEW code, NEW from, NEW end, Decodes(code, from, end)
  PROVE  \E f : f = Swept(f, code, from, end)
<1> DEFINE Closed(S) == /\ from \in S
                        /\ \A b \in from .. end - 1 : b \in S => After(code, b, end) \in S
           R == {a \in from .. end : \A S \in SUBSET (from .. end) : Closed(S) => a \in S}
           f == [a \in from .. end |-> a \in R]
<1>1. from \in Nat /\ end \in Nat
  BY DEF Decodes
<1>2. \A b \in from .. end - 1 : After(code, b, end) \in from .. end /\ b < After(code, b, end)
  BY AfterFacts
<1>3. ASSUME NEW a \in from .. end
      PROVE  a \in R <=> \/ a = from
                         \/ \E b \in from .. a - 1 : b \in R /\ After(code, b, end) = a
  <2>1. CASE a = from
    BY <2>1
  <2>2. ASSUME NEW b \in from .. a - 1, b \in R, After(code, b, end) = a
        PROVE  a \in R
    <3>1. b \in from .. end - 1
      BY <1>1
    <3> QED BY <2>2, <3>1
  <2>3. ASSUME a \in R, a # from
        PROVE  \E b \in from .. a - 1 : b \in R /\ After(code, b, end) = a
    <3> SUFFICES ASSUME \A b \in from .. a - 1 : ~ (b \in R /\ After(code, b, end) = a)
                 PROVE  FALSE
      OBVIOUS
    <3> DEFINE S == R \ {a}
    <3>1. from \in S
      BY <1>1, <2>3
    <3>2. \A b \in from .. end - 1 : b \in S => After(code, b, end) \in S
      <4> SUFFICES ASSUME NEW b \in from .. end - 1, b \in S
                   PROVE  After(code, b, end) \in S
        OBVIOUS
      <4>1. After(code, b, end) \in R
        BY <1>2
      <4>2. After(code, b, end) # a
        <5>1. ASSUME After(code, b, end) = a PROVE b \in from .. a - 1
          BY <1>1, <1>2, <5>1
        <5> QED BY <5>1
      <4> QED BY <4>1, <4>2
    <3>3. S \in SUBSET (from .. end) /\ Closed(S)
      BY <3>1, <3>2
    <3>4. a \in S
      <4> HIDE DEF S, Closed
      <4> QED BY <2>3, <3>3
    <3> QED BY <3>4
  <2> QED BY <2>1, <2>2, <2>3
<1>4. ASSUME NEW a \in from .. end
      PROVE  f[a] = (\/ a = from
                     \/ \E b \in from .. a - 1 : f[b] /\ b + DecodeAt(code, b, end).size = a)
  <2>1. \A b \in from .. a - 1 : b \in from .. end
    BY <1>1
  <2> DEFINE r == \/ a = from
                  \/ \E b \in from .. a - 1 : f[b] /\ b + DecodeAt(code, b, end).size = a
  <2>2. f[a] = (a \in R) /\ \A b \in from .. a - 1 : f[b] = (b \in R)
    BY <2>1
  <2>3. r \in BOOLEAN /\ f[a] \in BOOLEAN
    OBVIOUS
  <2>4. f[a] <=> r
    <3> HIDE DEF R, f
    <3> QED BY <1>3, <2>2, Zenon DEF After
  <2> HIDE DEF r, f
  <2>5. f[a] = r
    BY <2>3, <2>4
  <2> QED BY <2>5 DEF r
<1>5. f = Swept(f, code, from, end)
  <2> HIDE DEF R
  <2> QED BY <1>4, Zenon DEF Swept
<1> QED BY <1>5, Zenon

\* What a sweep is: its first address, and every address after one of its instructions.
LEMMA SweepEquation ==
  ASSUME NEW code, NEW from, NEW end, Decodes(code, from, end)
  PROVE  /\ SweepAddresses(code, from, end) \subseteq from .. end - 1
         /\ \A a \in from .. end - 1 :
              a \in SweepAddresses(code, from, end) <=>
                \/ a = from
                \/ \E b \in SweepAddresses(code, from, end) : After(code, b, end) = a
<1> DEFINE f == CHOOSE g : g = Swept(g, code, from, end)
           S == SweepAddresses(code, from, end)
<1>1. f = Swept(f, code, from, end)
  BY SweepExists, Zenon
<1>2. S = {a \in from .. end - 1 : f[a]}
  BY Zenon DEF SweepAddresses, Swept
<1>3. from \in Nat /\ end \in Nat
  BY DEF Decodes
<1> HIDE DEF f, S
<1>4. ASSUME NEW a \in from .. end - 1
      PROVE  a \in S <=> a = from \/ \E b \in S : After(code, b, end) = a
  <2>1. a \in from .. end
    BY <1>3
  <2>2. f[a] = (\/ a = from
                \/ \E b \in from .. a - 1 : f[b] /\ b + DecodeAt(code, b, end).size = a)
    BY <1>1, <2>1, Zenon DEF Swept
  <2>3. ASSUME NEW b \in S, After(code, b, end) = a PROVE b \in from .. a - 1
    <3>1. b \in from .. end - 1
      BY <1>2
    <3>2. b < After(code, b, end)
      BY <3>1, AfterFacts
    <3> QED BY <1>3, <2>3, <3>1, <3>2
  <2>4. \A b \in from .. a - 1 : b \in from .. end - 1
    BY <1>3
  <2>5. ASSUME NEW b \in from .. a - 1, f[b], b + DecodeAt(code, b, end).size = a
        PROVE  b \in S /\ After(code, b, end) = a
    BY <1>2, <2>4, <2>5 DEF After
  <2>6. ASSUME NEW b \in S, After(code, b, end) = a
        PROVE  \E c \in from .. a - 1 : f[c] /\ c + DecodeAt(code, c, end).size = a
    BY <1>2, <2>3, <2>6 DEF After
  <2> QED BY <1>2, <2>2, <2>5, <2>6
<1> QED BY <1>2, <1>4 DEF S

LEMMA SweepStart ==
  ASSUME NEW code, NEW from, NEW end, Decodes(code, from, end), from < end
  PROVE  from \in SweepAddresses(code, from, end)
<1>1. from \in from .. end - 1
  BY DEF Decodes
<1> QED BY <1>1, SweepEquation

\* A sweep goes on behind each of its instructions, or ends there.
LEMMA SweepNext ==
  ASSUME NEW code, NEW from, NEW end, Decodes(code, from, end),
         NEW b \in SweepAddresses(code, from, end)
  PROVE  /\ b \in from .. end - 1 /\ b < After(code, b, end)
         /\ After(code, b, end) \in SweepAddresses(code, from, end) \cup {end}
<1>1. b \in from .. end - 1
  BY SweepEquation
<1>2. After(code, b, end) \in from .. end /\ b < After(code, b, end)
  BY <1>1, AfterFacts
<1>3. CASE After(code, b, end) = end
  BY <1>1, <1>2, <1>3
<1>4. CASE After(code, b, end) # end
  <2>1. After(code, b, end) \in from .. end - 1
    BY <1>2, <1>4 DEF Decodes
  <2> QED BY <1>1, <1>2, <2>1, SweepEquation
<1> QED BY <1>3, <1>4

\* No instruction of a sweep starts inside another one.
LEMMA SweepGap ==
  ASSUME NEW code, NEW from, NEW end, Decodes(code, from, end),
         NEW b \in SweepAddresses(code, from, end), NEW a \in SweepAddresses(code, from, end),
         b < a
  PROVE  After(code, b, end) <= a
<1> DEFINE S == SweepAddresses(code, from, end)
           Inside(c) == \E d \in S : d < c /\ c < After(code, d, end)
           Bad == {c \in S : Inside(c)}
<1>1. \A c \in S : c \in Nat /\ c \in from .. end - 1 /\ After(code, c, end) \in Nat
  <2>1. from \in Nat /\ end \in Nat
    BY DEF Decodes
  <2>2. \A c \in S : c \in from .. end - 1
    BY SweepEquation
  <2>3. \A c \in from .. end - 1 : After(code, c, end) \in from .. end
    BY AfterFacts
  <2> QED BY <2>1, <2>2, <2>3
<1>2. ASSUME Bad # {} PROVE FALSE
  <2>1. Bad \in SUBSET Nat
    BY <1>1
  <2>2. PICK m \in Bad : \A n \in Bad : m <= n
    <3> HIDE DEF Bad
    <3> QED BY <1>2, <2>1, LeastElement
  <2>3. PICK d \in S : d < m /\ m < After(code, d, end)
    OBVIOUS
  <2>4. m # from
    BY <1>1, <2>3 DEF Decodes
  <2>5. PICK c \in S : After(code, c, end) = m
    BY <1>1, <2>4, SweepEquation
  <2>6. c < m
    BY <2>5, SweepNext
  <2>7. c # d
    BY <1>1, <2>3, <2>5
  <2>8. CASE c < d
    <3>1. d \in Bad
      BY <2>3, <2>5, <2>8
    <3> QED BY <1>1, <2>2, <2>3, <3>1
  <2>9. CASE d < c
    <3>1. c < After(code, d, end)
      BY <1>1, <2>3, <2>6
    <3>2. c \in Bad
      BY <2>9, <3>1
    <3> QED BY <1>1, <2>2, <2>6, <3>2
  <2> QED BY <1>1, <2>7, <2>8, <2>9
<1>3. ~ Inside(a)
  BY <1>2
<1> QED BY <1>1, <1>3

--------------------------------------------------------------------------------
(***************************************************************************)
(* The prologue heuristic.                                                 *)
(***************************************************************************)

TextLimit == binary.text.start + binary.text.size

\* Every part of .text decodes.
LEMMA TextDecodes ==
  ASSUME binary \in Binaries, NEW from, InText(binary.text, from), NEW end \in Nat,
         end <= TextLimit
  PROVE  Decodes(binary.code, from, end) /\ TextLimit \in Nat
<1>1. /\ binary.text.start \in Nat /\ binary.text.size \in Nat /\ from \in Nat
      /\ \A a \in Nat : InText(binary.text, a) <=> binary.text.start <= a /\ a < TextLimit
  BY BinaryFacts DEF TextLimit
<1>2. ASSUME NEW a \in from .. end - 1
      PROVE  binary.code[a].size \in Nat \ {0}
  <2>1. TextLimit \in Nat
    BY <1>1 DEF TextLimit
  <2>2. InText(binary.text, a)
    BY <1>1, <2>1
  <2>3. binary.code[a] \in Decoded
    BY <2>2, BinaryFacts
  <2> QED BY <2>3 DEF Decoded
<1>3. TextLimit \in Nat
  BY <1>1 DEF TextLimit
<1> QED BY <1>1, <1>2, <1>3 DEF Decodes

\* The sweep of .text.
LEMMA TextSweepFacts ==
  ASSUME binary \in Binaries
  PROVE  /\ Decodes(binary.code, binary.text.start, TextLimit)
         /\ binary.text.start \in Nat /\ TextLimit \in Nat /\ binary.text.start < TextLimit
         /\ TextSweep = SweepAddresses(binary.code, binary.text.start, TextLimit)
         /\ binary.text.start \in TextSweep
         /\ \A a \in TextSweep : a \in Nat /\ binary.text.start <= a /\ a < TextLimit
         /\ \A a : TextInstruction(a) = DecodeAt(binary.code, a, TextLimit)
<1>1. /\ binary.text.start \in Nat /\ binary.text.size \in Nat \ {0}
      /\ \A a \in Nat : InText(binary.text, a) <=> binary.text.start <= a /\ a < TextLimit
  BY BinaryFacts DEF TextLimit
<1>2. TextLimit \in Nat /\ binary.text.start < TextLimit /\ InText(binary.text, binary.text.start)
  BY <1>1 DEF TextLimit
<1>3. Decodes(binary.code, binary.text.start, TextLimit)
  BY <1>2, TextDecodes
<1>4. TextSweep = SweepAddresses(binary.code, binary.text.start, TextLimit)
  BY DEF TextSweep, TextLimit
<1>5. TextSweep \subseteq binary.text.start .. TextLimit - 1
  BY <1>3, <1>4, SweepEquation
<1>6. binary.text.start \in TextSweep
  BY <1>2, <1>3, <1>4, SweepStart
<1>7. \A a : TextInstruction(a) = DecodeAt(binary.code, a, TextLimit)
  BY DEF TextInstruction, TextLimit
<1> QED BY <1>1, <1>2, <1>3, <1>4, <1>5, <1>6, <1>7

\* The address after an instruction of .text.
TextAfter(a) == After(binary.code, a, TextLimit)

LEMMA TextAfterFacts ==
  ASSUME binary \in Binaries, NEW a \in TextSweep
  PROVE  /\ TextAfter(a) = a + TextInstruction(a).size /\ TextAfter(a) \in Nat /\ a < TextAfter(a)
         /\ TextAfter(a) \in TextSweep \cup {TextLimit}
         /\ \A b \in TextSweep : b < TextAfter(a) <=> b <= a
<1>1. TextAfter(a) \in TextSweep \cup {TextLimit} /\ a < TextAfter(a)
  BY TextSweepFacts, SweepNext DEF TextAfter
<1>2. TextAfter(a) = a + TextInstruction(a).size
  BY TextSweepFacts DEF TextAfter, After
<1>3. \A b \in TextSweep : b \in Nat /\ (a < b => TextAfter(a) <= b)
  BY TextSweepFacts, SweepGap DEF TextAfter
<1>4. TextAfter(a) \in Nat /\ a \in Nat
  BY <1>1, TextSweepFacts
<1> QED BY <1>1, <1>2, <1>3, <1>4

\* From t on there is nothing but padding before a.
Open(t, a) ==
  /\ t < binary.text.start \/ EndsFunction(TextInstruction(t).kind)
  /\ \A b \in TextSweep : t < b /\ b < a => TextInstruction(b).mark = "padding"

LEMMA BoundaryIsOpen ==
  ASSUME binary \in Binaries, NEW a \in Nat
  PROVE  AtBoundary(a) <=>
           \E t \in {b \in TextSweep : b < a} \cup {binary.text.start - 1} : Open(t, a)
<1>1. \A b \in TextSweep : b \in Nat
  BY TextSweepFacts
<1>2. TextSweep \cap 0 .. a - 1 = {b \in TextSweep : b < a}
  BY <1>1
<1> QED BY <1>2 DEF AtBoundary, Open

\* The start of .text is a boundary.
LEMMA FirstBoundary ==
  ASSUME binary \in Binaries
  PROVE  AtBoundary(binary.text.start)
<1>1. /\ binary.text.start \in Nat
      /\ \A b \in TextSweep : b \in Nat /\ binary.text.start <= b
  BY TextSweepFacts
<1>2. Open(binary.text.start - 1, binary.text.start)
  BY <1>1 DEF Open
<1> QED BY <1>1, <1>2, BoundaryIsOpen

\* A boundary is behind a terminator, or behind padding at a boundary.
LEMMA NextBoundary ==
  ASSUME binary \in Binaries, NEW a \in TextSweep
  PROVE  AtBoundary(TextAfter(a)) <=>
           \/ EndsFunction(TextInstruction(a).kind)
           \/ AtBoundary(a) /\ TextInstruction(a).mark = "padding"
<1>1. PICK n : n = TextAfter(a)
  OBVIOUS
<1>2. /\ n \in Nat /\ a \in Nat /\ a < n /\ \A b \in TextSweep : b < n <=> b <= a
      /\ binary.text.start \in Nat /\ \A b \in TextSweep : b \in Nat /\ binary.text.start <= b
  BY <1>1, TextAfterFacts, TextSweepFacts
<1>3. ASSUME EndsFunction(TextInstruction(a).kind) PROVE AtBoundary(n)
  <2>1. Open(a, n)
    BY <1>2, <1>3 DEF Open
  <2> QED BY <1>2, <2>1, BoundaryIsOpen
<1>4. ASSUME AtBoundary(a), TextInstruction(a).mark = "padding" PROVE AtBoundary(n)
  <2>1. PICK t \in {b \in TextSweep : b < a} \cup {binary.text.start - 1} : Open(t, a)
    BY <1>2, <1>4, BoundaryIsOpen
  <2>2. \A b \in TextSweep : b < n => b < a \/ b = a
    BY <1>2
  <2>3. Open(t, n)
    BY <1>4, <2>1, <2>2 DEF Open
  <2>4. t \in {b \in TextSweep : b < n} \cup {binary.text.start - 1}
    BY <1>2, <2>1
  <2> QED BY <1>2, <2>3, <2>4, BoundaryIsOpen
<1>5. ASSUME AtBoundary(n), ~ EndsFunction(TextInstruction(a).kind)
      PROVE  AtBoundary(a) /\ TextInstruction(a).mark = "padding"
  <2>1. PICK t \in {b \in TextSweep : b < n} \cup {binary.text.start - 1} : Open(t, n)
    BY <1>2, <1>5, BoundaryIsOpen
  <2>2. t # a
    BY <1>2, <1>5, <2>1 DEF Open
  <2>3. t \in Int /\ t < a /\ t \in {b \in TextSweep : b < a} \cup {binary.text.start - 1}
    <3>1. CASE t \in TextSweep /\ t < n
      <4>1. t <= a /\ t \in Nat
        BY <1>2, <3>1
      <4> QED BY <1>2, <2>2, <3>1, <4>1
    <3>2. CASE t = binary.text.start - 1
      <4>1. binary.text.start <= a
        BY <1>2
      <4> QED BY <1>2, <3>2, <4>1
    <3> QED BY <2>1, <3>1, <3>2
  <2>4. TextInstruction(a).mark = "padding"
    BY <1>2, <2>1, <2>3 DEF Open
  <2>5. \A b \in TextSweep : b < a => b < n
    BY <1>2
  <2>6. Open(t, a)
    BY <2>1, <2>5 DEF Open
  <2> QED BY <1>2, <2>3, <2>4, <2>6, BoundaryIsOpen
<1> QED BY <1>1, <1>3, <1>4, <1>5

\* What the heuristic looks for.
Likely == {a \in TextSweep : NamedSources(a) = {} /\ AtBoundary(a) /\ IsPrologue(a)}

Guesses == {a \in Found : candidates[a].source = "Heuristic"}

HeuristicInv ==
  /\ phase = "symbols" => boundary
  /\ phase = "heuristic" =>
       /\ binary.stripped
       /\ at \in TextSweep \cup {TextLimit}
       /\ \A a : a = at => (boundary <=> AtBoundary(a))
       /\ Guesses = {a \in Likely : a < at}
       /\ \A a \in Found \ Guesses : NamedSources(a) # {}
  /\ phase \in {"start", "calls", "emit", "done"} => Guesses = {a \in Likely : binary.stripped}

LEMMA LikelyKept ==
  ASSUME UNCHANGED binary
  PROVE  /\ TextSweep' = TextSweep /\ TextLimit' = TextLimit /\ Likely' = Likely
         /\ \A a : AtBoundary(a)' <=> AtBoundary(a)
         /\ \A a : NamedSources(a)' = NamedSources(a)
<1>1. /\ TextSweep' = TextSweep /\ TextLimit' = TextLimit
      /\ \A a : TextInstruction(a)' = TextInstruction(a)
  BY DEF TextSweep, TextLimit, TextInstruction
<1>2. \A a : AtBoundary(a)' <=> AtBoundary(a)
  BY <1>1 DEF AtBoundary
<1>3. \A a : IsPrologue(a)' <=> IsPrologue(a)
  BY <1>1 DEF IsPrologue
<1>4. \A a : NamedSources(a)' = NamedSources(a)
  BY DEF NamedSources, SymbolSources, FunctionSymbol, SymbolSource
<1> QED BY <1>1, <1>2, <1>3, <1>4 DEF Likely

\* The test of the code is the one of the property.
LEMMA PrologueFacts ==
  ASSUME binary \in Binaries, NEW a \in TextSweep, a = at, scanEnd = TextLimit
  PROVE  /\ Current = TextInstruction(a) /\ at + Current.size = TextAfter(a)
         /\ TextInstruction(a).mark # "padding" => (LooksLikeFunction <=> IsPrologue(a))
<1>1. Current = TextInstruction(a)
  BY TextSweepFacts DEF Current
<1>2. at + Current.size = TextAfter(a)
  BY <1>1, TextAfterFacts
<1>3. FramePrologue <=> /\ TextInstruction(a).mark = "pushFrame"
                        /\ \E b \in TextSweep : /\ b = TextAfter(a)
                                                /\ TextInstruction(b).mark = "moveFrame"
  <2>1. TextAfter(a) \in TextSweep <=> TextAfter(a) < TextLimit
    BY TextAfterFacts, TextSweepFacts
  <2>2. DecodeAt(binary.code, at + Current.size, scanEnd) = TextInstruction(TextAfter(a))
    BY <1>2, TextSweepFacts
  <2> QED BY <1>1, <1>2, <2>1, <2>2 DEF FramePrologue
<1>4. TextAfter(a) = a + TextInstruction(a).size
  BY TextAfterFacts
<1> QED BY <1>1, <1>2, <1>3, <1>4 DEF LooksLikeFunction, IsPrologue

LEMMA HeuristicAddEntryPoint ==
  ASSUME RangeInv, SymbolsInv, HeuristicInv, AddEntryPoint
  PROVE  HeuristicInv'
<1>1. /\ phase = "symbols" /\ UNCHANGED <<binary, index, boundary>>
      /\ index > Len(binary.symbols) /\ at' = binary.text.start
      /\ phase' = IF DOMAIN candidates' = {} THEN "failed"
                  ELSE IF binary.stripped THEN "heuristic" ELSE "start"
      /\ candidates' = IF EntryCounts THEN Added(binary.entry, Unnamed("EntryPoint"))
                                      ELSE candidates
  BY DEF AddEntryPoint
<1>2. boundary /\ binary \in Binaries /\ Found' \subseteq Found \cup {binary.entry}
  <2>1. Found' = Found \/ Found' = Found \cup {binary.entry}
    BY <1>1, AddedFacts DEF Found
  <2> QED BY <1>1, <2>1 DEF HeuristicInv, RangeInv, CandidatesInv
<1>3. \A a \in Found' : NamedSources(a) # {}
  <2>1. index \in Nat /\ Len(binary.symbols) \in Nat
    BY <1>2, BinaryFacts DEF RangeInv, KnownInv
  <2>2. \A a \in Found : SymbolSources(a) # {}
    BY <1>1, <2>1, AllSeen DEF SymbolsInv, SourceInv, IsBest
  <2> QED BY <1>2, <2>2 DEF NamedSources
<1>4. Guesses' = {}
  <2>1. phase' # "symbols" /\ SourceInv'
    BY <1>1, SymbolsAddEntryPoint DEF SymbolsInv
  <2>2. \A a \in Found' : candidates'[a].source \in NamedSources(a)
    <3>1. \A a : NamedSources(a)' = NamedSources(a)
      BY <1>1, LikelyKept
    <3> QED BY <1>3, <2>1, <3>1 DEF SourceInv, IsBest
  <2>3. \A a \in Found' : candidates'[a].source # "Heuristic"
    BY <2>2, SourcesAreSources
  <2> QED BY <2>3 DEF Guesses
<1>5. \A a \in Likely : a \in TextSweep
  BY DEF Likely
<1>6. CASE phase' = "heuristic"
  <2>1. PICK n : n = binary.text.start
    OBVIOUS
  <2>2. binary.stripped /\ at' = n /\ n \in TextSweep /\ AtBoundary(n) /\ boundary'
    BY <1>1, <1>2, <1>6, <2>1, TextSweepFacts, FirstBoundary
  <2>3. {a \in Likely : a < n} = {}
    BY <1>2, <1>5, <2>1, TextSweepFacts
  <2>4. /\ TextSweep' = TextSweep /\ TextLimit' = TextLimit /\ Likely' = Likely
        /\ \A a : AtBoundary(a)' <=> AtBoundary(a)
        /\ \A a : NamedSources(a)' = NamedSources(a)
    BY <1>1, LikelyKept
  <2> QED BY <1>1, <1>3, <1>4, <1>6, <2>2, <2>3, <2>4 DEF HeuristicInv
<1>7. CASE phase' = "start"
  <2>1. ~ binary.stripped /\ UNCHANGED binary
    BY <1>1, <1>7
  <2> QED BY <1>4, <1>7, <2>1 DEF HeuristicInv
<1>8. CASE phase' = "failed"
  BY <1>8 DEF HeuristicInv
<1> QED BY <1>1, <1>6, <1>7, <1>8

LEMMA HeuristicScanForPrologue ==
  ASSUME RangeInv, SymbolsInv, HeuristicInv, ScanForPrologue
  PROVE  HeuristicInv'
<1>1. PICK m : m = at
  OBVIOUS
<1>2. PICK new : new = Unnamed("Heuristic")
  OBVIOUS
<1>3. /\ phase = "heuristic" /\ phase' = "heuristic" /\ m < scanEnd
      /\ UNCHANGED <<binary, scanEnd>> /\ at' = m + Current.size
      /\ \/ /\ boundary /\ Current.mark = "padding"
            /\ UNCHANGED <<candidates, boundary>>
         \/ /\ ~ (boundary /\ Current.mark = "padding")
            /\ candidates' = IF boundary /\ LooksLikeFunction THEN Added(m, new) ELSE candidates
            /\ boundary' = EndsFunction(Current.kind)
  BY <1>1, <1>2 DEF ScanForPrologue, KeepsBoundary
<1>4. /\ binary \in Binaries /\ scanEnd = TextLimit /\ binary.stripped
      /\ m \in TextSweep \cup {TextLimit} /\ (boundary <=> AtBoundary(m))
      /\ Guesses = {a \in Likely : a < m}
      /\ \A a \in Found \ Guesses : NamedSources(a) # {}
  BY <1>1, <1>3 DEF HeuristicInv, RangeInv, CandidatesInv, SweepInv, TextLimit
<1>5. m \in TextSweep /\ m \in Nat
  BY <1>3, <1>4, TextSweepFacts
<1>6. PICK n : n = TextAfter(m)
  OBVIOUS
<1>7. /\ at' = n /\ n \in TextSweep \cup {TextLimit} /\ n \in Nat /\ m < n
      /\ \A b \in TextSweep : b < n <=> b <= m
      /\ Current = TextInstruction(m)
      /\ TextInstruction(m).mark # "padding" => (LooksLikeFunction <=> IsPrologue(m))
  BY <1>1, <1>3, <1>4, <1>5, <1>6, TextAfterFacts, PrologueFacts
<1>8. boundary' <=> AtBoundary(n)
  BY <1>3, <1>4, <1>5, <1>6, <1>7, NextBoundary
<1>9. {a \in Likely : a < n} = {a \in Likely : a < m} \cup {a \in Likely : a = m}
  <2>1. \A a \in Likely : a \in TextSweep /\ a \in Nat
    BY <1>4, TextSweepFacts DEF Likely
  <2> QED BY <1>5, <1>7, <2>1
<1>10. m \in Likely <=> /\ boundary /\ ~ (boundary /\ Current.mark = "padding")
                        /\ LooksLikeFunction /\ NamedSources(m) = {}
  <2>1. IsPrologue(m) => TextInstruction(m).mark # "padding"
    BY DEF IsPrologue
  <2>2. m \in Likely <=> NamedSources(m) = {} /\ boundary /\ IsPrologue(m)
    BY <1>4, <1>5 DEF Likely
  <2> QED BY <1>7, <2>1, <2>2
<1>11. m \notin Guesses
  BY <1>4, <1>5
<1>12. m \in Found <=> NamedSources(m) # {}
  <2>1. InText(binary.text, m)
    BY <1>4, <1>5, TextSweepFacts, BinaryFacts DEF TextLimit
  <2> QED BY <1>3, <1>4, <1>11, <2>1, UnknownUnnamed
<1>13. /\ Guesses' = {a \in Likely : a < n}
       /\ \A a \in Found' \ Guesses' : NamedSources(a) # {}
  <2>1. CASE candidates' = candidates /\ m \notin Likely
    <3>1. Guesses' = Guesses /\ Found' = Found
      BY <2>1 DEF Guesses, Found
    <3> QED BY <1>4, <1>9, <2>1, <3>1
  <2>2. CASE candidates' = Added(m, new)
             /\ boundary /\ ~ (boundary /\ Current.mark = "padding") /\ LooksLikeFunction
    <3>1. /\ Found' = Found \cup {m}
          /\ \A c \in Found : c # m => candidates'[c] = candidates[c]
          /\ m \in Found => candidates'[m] = Merge(candidates[m], new)
          /\ m \notin Found => candidates'[m] = new
      <4>1. Found' = DOMAIN Added(m, new) /\ candidates' = Added(m, new)
        BY <2>2 DEF Found
      <4>2. /\ DOMAIN Added(m, new) = Found \cup {m}
            /\ \A c \in Found : c # m => Added(m, new)[c] = candidates[c]
            /\ m \in Found => Added(m, new)[m] = Merge(candidates[m], new)
            /\ m \notin Found => Added(m, new)[m] = new
        BY ONLY AddedFacts
      <4> QED BY ONLY <4>1, <4>2
    <3>2. new.source = "Heuristic"
      BY <1>2 DEF Unnamed
    <3>3. m \in Likely <=> m \notin Found
      BY <1>10, <1>12, <2>2
    <3>4. ASSUME m \in Found PROVE candidates'[m].source # "Heuristic"
      <4>1. SourceInv' /\ phase' # "symbols"
        BY <1>3, SymbolsScanForPrologue DEF SymbolsInv
      <4>2. NamedSources(m)' = NamedSources(m)
        <5>1. \A a : NamedSources(a)' = NamedSources(a)
          BY <1>3, LikelyKept
        <5> QED BY <5>1
      <4>3. candidates'[m].source \in NamedSources(m)
        BY <1>12, <3>1, <3>4, <4>1, <4>2 DEF SourceInv, IsBest
      <4> QED BY <4>3, SourcesAreSources
    <3>5. \A a : a \in Guesses' <=> a \in Guesses \/ (a = m /\ m \notin Found)
      <4>1. \A a : a # m => (a \in Guesses' <=> a \in Guesses)
        BY <3>1 DEF Guesses
      <4>2. m \in Guesses' <=> m \notin Found
        BY <3>1, <3>2, <3>4 DEF Guesses
      <4> QED BY <1>11, <4>1, <4>2
    <3>6. Guesses' = {a \in Likely : a < n}
      BY <1>4, <1>9, <3>3, <3>5
    <3>7. \A a \in Found' \ Guesses' : NamedSources(a) # {}
      BY <1>4, <1>12, <3>1, <3>5
    <3> QED BY <3>6, <3>7
  <2>3. CASE candidates' = candidates /\ m \in Likely
    BY <1>3, <1>10, <2>3, <1>12, <2>2
  <2> QED BY <1>3, <1>10, <2>1, <2>2, <2>3
<1>14. /\ TextSweep' = TextSweep /\ TextLimit' = TextLimit /\ Likely' = Likely
       /\ \A a : AtBoundary(a)' <=> AtBoundary(a)
       /\ \A a : NamedSources(a)' = NamedSources(a)
  BY <1>3, LikelyKept
<1> QED BY <1>3, <1>4, <1>7, <1>8, <1>13, <1>14 DEF HeuristicInv

\* The steps that change no candidate and stay on one side of the heuristic.
LEMMA HeuristicKept ==
  ASSUME HeuristicInv, UNCHANGED <<binary, candidates>>,
         phase \in {"start", "calls", "emit", "done"},
         phase' \in {"start", "calls", "emit", "done", "failed"}
  PROVE  HeuristicInv'
<1>1. Likely' = Likely /\ Guesses' = Guesses
  BY LikelyKept DEF Guesses, Found
<1> QED BY <1>1 DEF HeuristicInv

LEMMA HeuristicFinish ==
  ASSUME RangeInv, HeuristicInv, FinishHeuristic
  PROVE  HeuristicInv'
<1>1. /\ phase = "heuristic" /\ phase' = "start" /\ at >= scanEnd
      /\ UNCHANGED <<binary, candidates>>
  BY DEF FinishHeuristic
<1>2. /\ binary \in Binaries /\ binary.stripped /\ at \in Nat /\ TextLimit <= at
      /\ Guesses = {a \in Likely : a < at}
  BY <1>1 DEF HeuristicInv, RangeInv, CandidatesInv, SweepInv, TextLimit
<1>3. \A a \in Likely : a \in Nat /\ a < TextLimit /\ TextLimit \in Nat
  BY <1>2, TextSweepFacts DEF Likely
<1>4. \A a \in Likely : a < at
  BY <1>2, <1>3
<1>5. Likely' = Likely /\ Guesses' = Guesses
  BY <1>1, LikelyKept DEF Guesses, Found
<1> QED BY <1>1, <1>2, <1>4, <1>5 DEF HeuristicInv

LEMMA HeuristicFollowCall ==
  ASSUME HeuristicInv, FollowCall
  PROVE  HeuristicInv'
<1>1. PICK a : a = Current.directTarget
  OBVIOUS
<1>2. PICK new : new = Unnamed("DirectCallTarget")
  OBVIOUS
<1>3. /\ phase = "calls" /\ phase' = "calls" /\ UNCHANGED binary
      /\ candidates' = Added(a, new) /\ a \notin Found
  BY <1>1, <1>2 DEF FollowCall, Found
<1>4. /\ Found' = Found \cup {a} /\ candidates'[a] = new
      /\ \A c \in Found : c # a => candidates'[c] = candidates[c]
  <2>1. Found' = DOMAIN Added(a, new) /\ candidates' = Added(a, new)
    BY <1>3 DEF Found
  <2>2. /\ Found' = Found \cup {a} /\ (a \notin Found => candidates'[a] = new)
        /\ \A c \in Found : c # a => candidates'[c] = candidates[c]
    <3>1. /\ DOMAIN Added(a, new) = Found \cup {a}
          /\ \A c \in Found : c # a => Added(a, new)[c] = candidates[c]
          /\ a \in Found => Added(a, new)[a] = Merge(candidates[a], new)
          /\ a \notin Found => Added(a, new)[a] = new
      BY ONLY AddedFacts
    <3> QED BY ONLY <2>1, <3>1
  <2> QED BY <1>3, <2>2
<1>5. new.source # "Heuristic"
  BY <1>2 DEF Unnamed
<1>6. Guesses' = Guesses
  BY <1>3, <1>4, <1>5 DEF Guesses
<1> QED BY <1>3, <1>6, LikelyKept DEF HeuristicInv

LEMMA HeuristicInductive == RangeInv /\ SymbolsInv /\ HeuristicInv /\ [Next]_vars => HeuristicInv'
<1> SUFFICES ASSUME RangeInv, SymbolsInv, HeuristicInv, [Next]_vars PROVE HeuristicInv'
  OBVIOUS
<1>1. CASE AddSymbol
  <2>1. phase = "symbols" /\ phase' = "symbols" /\ UNCHANGED boundary
    BY <1>1 DEF AddSymbol
  <2> QED BY <2>1 DEF HeuristicInv
<1>2. CASE AddEntryPoint
  BY <1>2, HeuristicAddEntryPoint
<1>3. CASE ScanForPrologue
  BY <1>3, HeuristicScanForPrologue
<1>4. CASE FinishHeuristic
  BY <1>4, HeuristicFinish
<1>5. CASE \/ StartWorklist \/ PopCandidate \/ SkipInstruction \/ ReachLimit
           \/ FinishWorklist \/ EmitFunction \/ ReturnFunctions
  <2>1. /\ UNCHANGED <<binary, candidates>>
        /\ phase \in {"start", "calls", "emit", "done"}
        /\ phase' \in {"start", "calls", "emit", "done", "failed"}
    BY <1>5 DEF StartWorklist, PopCandidate, SkipInstruction, ReachLimit, FinishWorklist,
                EmitFunction, ReturnFunctions
  <2> QED BY <2>1, HeuristicKept
<1>6. CASE FollowCall
  BY <1>6, HeuristicFollowCall
<1>7. CASE UNCHANGED vars
  <2>1. UNCHANGED <<phase, binary, candidates, at, boundary>>
    BY <1>7 DEF vars
  <2>2. Guesses' = Guesses /\ Found' = Found
    BY <2>1 DEF Guesses, Found
  <2>3. /\ TextSweep' = TextSweep /\ TextLimit' = TextLimit /\ Likely' = Likely
        /\ \A a : AtBoundary(a)' <=> AtBoundary(a)
        /\ \A a : NamedSources(a)' = NamedSources(a)
    BY <2>1, LikelyKept
  <2> QED BY <2>1, <2>2, <2>3 DEF HeuristicInv
<1> QED BY <1>1, <1>2, <1>3, <1>4, <1>5, <1>6, <1>7 DEF Next, Collect, FollowCalls, Emit

\* In a stripped binary whatever follows a terminator or padding and looks like the
\* start of a function becomes one, unless a source names it already, and nothing else.
THEOREM HeuristicCorrect == Spec => []HeuristicStartsExact
<1>1. Init => HeuristicInv
  BY DEF Init, HeuristicInv
<1>2. HeuristicInv => HeuristicStartsExact
  BY DEF HeuristicInv, HeuristicStartsExact, Guesses, Likely, Found
<1>3. Spec => []HeuristicInv
  BY <1>1, SymbolsInvariance, HeuristicInductive, PTL DEF Spec
<1> QED BY <1>2, <1>3, PTL

--------------------------------------------------------------------------------
(***************************************************************************)
(* The candidates in address order.                                        *)
(***************************************************************************)

\* A bounded set of natural numbers has a largest element.
LEMMA LargestElement ==
  ASSUME NEW S \in SUBSET Nat, S # {}, NEW limit \in Nat, \A x \in S : x <= limit
  PROVE  \E m \in S : \A x \in S : x <= m
<1> DEFINE U == {u \in Nat : \A x \in S : x <= u}
<1>1. PICK m \in U : \A u \in U : m <= u
  <2>1. U \in SUBSET Nat /\ limit \in U
    OBVIOUS
  <2> HIDE DEF U
  <2> QED BY <2>1, LeastElement
<1>2. ASSUME m \notin S PROVE FALSE
  <2>1. PICK y \in S : TRUE
    OBVIOUS
  <2>2. m \in Nat /\ m # 0 /\ m - 1 \in Nat
    BY <1>1, <1>2, <2>1
  <2>3. m - 1 \in U
    BY <1>1, <1>2, <2>2
  <2> QED BY <1>1, <2>2, <2>3
<1> QED BY <1>1, <1>2

\* S is listed by s in ascending order.
Lists(s, n, S) ==
  s \in [1 .. n -> S] /\ \A i \in 1 .. n : \A j \in 1 .. n : i < j => s[i] < s[j]

LEMMA ListExists ==
  ASSUME NEW S \in SUBSET Nat, NEW limit \in Nat, \A x \in S : x <= limit
  PROVE  IsFiniteSet(S) /\ Cardinality(S) \in Nat /\ \E s : Lists(s, Cardinality(S), S)
<1> DEFINE Bounded == {T \in SUBSET S : TRUE}
           Bad == {n \in Nat : \E T \in Bounded : Cardinality(T) = n /\ ~ \E s : Lists(s, n, T)}
<1>1. \A T \in Bounded : IsFiniteSet(T) /\ Cardinality(T) \in Nat
  <2> TAKE T \in Bounded
  <2>1. T \in SUBSET Nat /\ \A x \in T : x <= limit
    OBVIOUS
  <2>2. IsFiniteSet(T)
    BY ONLY <2>1, limit \in Nat, FS_BoundedSetOfNaturals
  <2> QED BY <2>2, FS_CardinalityType
<1>2. ASSUME Bad # {} PROVE FALSE
  <2>1. PICK n \in Bad : \A k \in Bad : n <= k
    <3>1. Bad \in SUBSET Nat
      OBVIOUS
    <3> HIDE DEF Bad
    <3> QED BY <1>2, <3>1, LeastElement
  <2>2. PICK T \in Bounded : Cardinality(T) = n /\ ~ \E s : Lists(s, n, T)
    OBVIOUS
  <2>3. CASE n = 0
    <3>1. Lists([i \in 1 .. 0 |-> 0], 0, T)
      BY DEF Lists
    <3> QED BY <2>2, <2>3, <3>1
  <2>4. CASE n # 0
    <3>1. T # {} /\ IsFiniteSet(T)
      BY <1>1, <2>2, <2>4, FS_EmptySet
    <3>2. PICK m \in T : \A x \in T : x <= m
      BY <3>1, LargestElement
    <3>3. T \ {m} \in Bounded /\ Cardinality(T \ {m}) = n - 1
      BY <2>2, <3>1, <3>2, FS_RemoveElement
    <3>4. n - 1 \in Nat /\ n - 1 \notin Bad
      BY <2>1, <2>4
    <3>5. PICK t : Lists(t, n - 1, T \ {m})
      BY <3>3, <3>4
    <3>6. \A i \in 1 .. n - 1 : t[i] \in T /\ t[i] < m
      <4>1. \A x \in T \ {m} : x < m
        BY <3>2
      <4> QED BY <3>5, <4>1 DEF Lists
    <3> DEFINE s == [i \in 1 .. n |-> IF i = n THEN m ELSE t[i]]
    <3>7. \A i \in 1 .. n : i = n \/ i \in 1 .. n - 1
      BY <2>1
    <3>8. s \in [1 .. n -> T]
      BY <3>2, <3>6, <3>7
    <3>9. ASSUME NEW i \in 1 .. n, NEW j \in 1 .. n, i < j PROVE s[i] < s[j]
      <4>1. i \in 1 .. n - 1 /\ i # n
        BY <2>1, <3>9
      <4>2. CASE j = n
        BY <3>6, <4>1, <4>2
      <4>3. CASE j # n
        BY <3>5, <3>7, <3>9, <4>1, <4>3 DEF Lists
      <4> QED BY <4>2, <4>3
    <3>10. Lists(s, n, T)
      BY <3>8, <3>9 DEF Lists
    <3> QED BY <2>2, <3>10
  <2> QED BY <2>3, <2>4
<1>3. S \in Bounded
  OBVIOUS
<1> QED BY <1>1, <1>2, <1>3

Elements(s) == {s[i] : i \in 1 .. Len(s)}

LEMMA ElementsFacts ==
  /\ \A s \in Seq(Nat) : \A x \in Nat :
       Append(s, x) \in Seq(Nat) /\ Elements(Append(s, x)) = Elements(s) \cup {x}
  /\ \A s \in Seq(Nat) : s # <<>> =>
       /\ Tail(s) \in Seq(Nat) /\ Head(s) \in Elements(s)
       /\ Elements(s) = Elements(Tail(s)) \cup {Head(s)}
<1>1. ASSUME NEW s \in Seq(Nat), NEW x \in Nat
      PROVE  Append(s, x) \in Seq(Nat) /\ Elements(Append(s, x)) = Elements(s) \cup {x}
  <2>1. /\ Append(s, x) \in Seq(Nat) /\ Len(Append(s, x)) = Len(s) + 1 /\ Len(s) \in Nat
        /\ \A i \in 1 .. Len(s) : Append(s, x)[i] = s[i]
        /\ Append(s, x)[Len(s) + 1] = x
    OBVIOUS
  <2>2. \A i : i \in 1 .. Len(s) + 1 <=> i \in 1 .. Len(s) \/ i = Len(s) + 1
    BY <2>1
  <2> QED BY <2>1, <2>2 DEF Elements
<1>2. ASSUME NEW s \in Seq(Nat), s # <<>>
      PROVE  /\ Tail(s) \in Seq(Nat) /\ Head(s) \in Elements(s)
             /\ Elements(s) = Elements(Tail(s)) \cup {Head(s)}
  <2>1. /\ Tail(s) \in Seq(Nat) /\ Len(s) \in Nat /\ Len(s) # 0 /\ Len(Tail(s)) = Len(s) - 1
        /\ \A i \in 1 .. Len(s) - 1 : Tail(s)[i] = s[i + 1]
        /\ Head(s) = s[1]
    BY <1>2
  <2>2. \A i \in 1 .. Len(s) : i = 1 \/ (i - 1 \in 1 .. Len(s) - 1 /\ s[i] = Tail(s)[i - 1])
    BY <2>1
  <2>3. \A i \in 1 .. Len(s) - 1 : i + 1 \in 1 .. Len(s)
    BY <2>1
  <2>4. 1 \in 1 .. Len(s)
    BY <2>1
  <2>5. /\ Elements(s) = {s[i] : i \in 1 .. Len(s)}
        /\ Elements(Tail(s)) = {Tail(s)[i] : i \in 1 .. Len(s) - 1}
    BY <2>1 DEF Elements
  <2>6. \A x \in Elements(s) : x \in Elements(Tail(s)) \/ x = Head(s)
    BY <2>1, <2>2, <2>5
  <2>7. Elements(Tail(s)) \subseteq Elements(s)
    BY <2>1, <2>3, <2>5
  <2> QED BY <2>1, <2>4, <2>5, <2>6, <2>7
<1> QED BY <1>1, <1>2

\* The queue StartWorklist makes holds every candidate.
LEMMA WorklistComplete ==
  ASSUME NEW S \in SUBSET Nat, NEW limit \in Nat, \A x \in S : x <= limit, NEW q,
         q = CHOOSE s \in [1 .. Cardinality(S) -> S] : IsAscending(s)
  PROVE  q \in Seq(Nat) /\ Elements(q) = S
<1>1. PICK n : n = Cardinality(S)
  OBVIOUS
<1>2. IsFiniteSet(S) /\ n \in Nat
  BY <1>1, ListExists
<1>3. \A s \in [1 .. n -> S] : s \in Seq(Nat) /\ Len(s) = n
  <2> TAKE s \in [1 .. n -> S]
  <2>1. s \in Seq(S)
    BY <1>2, SeqDef
  <2>2. \A i \in 1 .. n : s[i] \in Nat
    OBVIOUS
  <2>3. s \in [1 .. n -> Nat]
    BY <2>2
  <2> QED BY <1>2, <2>1, <2>3, SeqDef
<1>4. \E s \in [1 .. n -> S] : IsAscending(s)
  <2>1. PICK s : Lists(s, n, S)
    BY <1>1, ListExists
  <2>2. s \in [1 .. n -> S] /\ Len(s) = n
    BY <1>3, <2>1 DEF Lists
  <2>3. \A i \in 1 .. n - 1 : i \in 1 .. n /\ i + 1 \in 1 .. n /\ i < i + 1
    BY <1>2
  <2>4. IsAscending(s)
    BY <2>1, <2>2, <2>3 DEF IsAscending, Lists
  <2> QED BY <2>2, <2>4
<1>5. q \in [1 .. n -> S] /\ IsAscending(q)
  BY <1>1, <1>4, Zenon
<1>6. q \in Seq(Nat) /\ Len(q) = n
  BY <1>3, <1>5
<1>7. ASSUME NEW i \in 1 .. n, NEW j \in 1 .. n, i < j PROVE q[i] < q[j]
  <2> DEFINE Bad == {k \in i + 1 .. n : ~ (q[i] < q[k])}
  <2>1. ASSUME Bad # {} PROVE FALSE
    <3>1. PICK k \in Bad : \A l \in Bad : k <= l
      <4>1. Bad \in SUBSET Nat
        BY <1>2
      <4> HIDE DEF Bad
      <4> QED BY <2>1, <4>1, LeastElement
    <3>2. k \in 1 .. n /\ k - 1 \in 1 .. n - 1 /\ k - 1 \in 1 .. n /\ i <= k - 1
      BY <1>2, <3>1
    <3>3. q[k - 1] < q[k]
      <4>1. (k - 1) + 1 = k
        BY <3>2
      <4>2. q[k - 1] < q[(k - 1) + 1]
        BY <1>5, <1>6, <3>2 DEF IsAscending
      <4> QED BY <4>1, <4>2
    <3>4. q[i] \in Nat /\ q[k - 1] \in Nat /\ q[k] \in Nat
      BY <1>5, <3>2
    <3>5. CASE k - 1 = i
      BY <3>1, <3>3, <3>5
    <3>6. CASE k - 1 # i
      <4>1. k - 1 \in i + 1 .. n /\ ~ (k <= k - 1)
        BY <1>2, <3>2, <3>6
      <4>2. q[i] < q[k - 1]
        BY <3>1, <4>1
      <4> QED BY <3>1, <3>3, <3>4, <4>2
    <3> QED BY <3>5, <3>6
  <2>2. j \in i + 1 .. n
    BY <1>2, <1>7
  <2> QED BY <2>1, <2>2
<1>8. q \in Injection(1 .. n, S)
  <2>1. \A i \in 1 .. n : q[i] \in Nat
    BY <1>5
  <2>2. \A i, j \in 1 .. n : q[i] = q[j] => i = j
    <3> TAKE i, j \in 1 .. n
    <3>1. ASSUME i # j PROVE q[i] # q[j]
      <4>1. i < j \/ j < i
        BY <1>2, <3>1
      <4>2. q[i] < q[j] \/ q[j] < q[i]
        BY <1>7, <4>1
      <4> QED BY <2>1, <4>2
    <3> QED BY <3>1
  <2>3. q \in [1 .. n -> S]
    BY <1>5
  <2> QED BY ONLY <2>2, <2>3, Fun_IsInj
<1>9. q \in Surjection(1 .. n, S)
  <2>1. Cardinality(1 .. n) = n
    BY <1>2, FS_Interval
  <2> QED BY <1>1, <1>2, <1>8, <2>1, FS_Injection
<1>10. Elements(q) = S
  <2>1. \A x \in S : \E i \in 1 .. n : q[i] = x
    BY <1>9 DEF Surjection
  <2>2. \A i \in 1 .. n : q[i] \in S
    BY <1>5
  <2>3. Elements(q) = {q[i] : i \in 1 .. n}
    BY <1>6 DEF Elements
  <2> QED BY <2>1, <2>2, <2>3
<1> QED BY <1>6, <1>10

--------------------------------------------------------------------------------
(***************************************************************************)
(* Ranges only shrink while candidates are added.                          *)
(***************************************************************************)

\* Where a range ends at the latest: the next of the starts F, or "end".
NextIn(F, end, a) ==
  LET later == {c \in F : c > a} IN IF later = {} THEN end ELSE Least(later)

Cut(next, size, a) ==
  IF next <= a THEN 0 ELSE IF size = 0 \/ size > next - a THEN next - a ELSE size

LEMMA NextShrinks ==
  ASSUME NEW G \in SUBSET Nat, NEW F \in SUBSET G, NEW end \in Nat, NEW a \in Nat, a < end,
         \A c \in G : c < end
  PROVE  /\ NextIn(G, end, a) \in Nat /\ NextIn(F, end, a) \in Nat
         /\ a < NextIn(G, end, a) /\ NextIn(G, end, a) <= NextIn(F, end, a)
<1> DEFINE LG == {c \in G : c > a}
           LF == {c \in F : c > a}
<1>1. LF \subseteq LG /\ (\A c \in LG : c \in Nat /\ a < c /\ c < end)
  OBVIOUS
<1>2. NextIn(G, end, a) = IF LG = {} THEN end ELSE Least(LG)
  BY DEF NextIn
<1>3. NextIn(F, end, a) = IF LF = {} THEN end ELSE Least(LF)
  BY DEF NextIn
<1> HIDE DEF LG, LF
<1>4. LG # {} => Least(LG) \in LG /\ \A c \in LG : Least(LG) <= c
  BY <1>1, LeastFacts
<1>5. LF # {} => Least(LF) \in LF
  <2>1. \A c \in LF : c \in Nat
    BY <1>1
  <2> QED BY <2>1, LeastFacts
<1>6. NextIn(G, end, a) \in Nat /\ a < NextIn(G, end, a) /\ NextIn(G, end, a) <= end
  BY <1>1, <1>2, <1>4
<1>7. CASE LF = {}
  BY <1>3, <1>6, <1>7
<1>8. CASE LF # {}
  <2>1. LG # {} /\ Least(LF) \in LG
    BY <1>1, <1>5, <1>8
  <2>2. NextIn(F, end, a) = Least(LF) /\ NextIn(G, end, a) = Least(LG)
    BY <1>2, <1>3, <1>8, <2>1
  <2>3. Least(LG) <= Least(LF) /\ Least(LF) \in Nat
    BY <1>1, <1>4, <2>1
  <2> QED BY <1>6, <2>2, <2>3
<1> QED BY <1>7, <1>8

LEMMA CutShrinks ==
  ASSUME NEW a \in Nat, NEW size \in Nat, NEW n \in Nat, NEW m \in Nat, a < n, n <= m
  PROVE  Cut(n, size, a) <= Cut(m, size, a)
BY DEF Cut

\* A new start makes no range longer.
LEMMA RangeShrinks ==
  ASSUME CandidatesInv, CandidatesInv', EndKnown, UNCHANGED binary, Found \subseteq Found',
         NEW a \in Found, candidates'[a] = candidates[a]
  PROVE  RangeSize(a)' <= RangeSize(a)
<1>1. PICK G : G = Found'
  OBVIOUS
<1>2. PICK F : F = Found
  OBVIOUS
<1>3. PICK end : end = TextEnd(binary.text)
  OBVIOUS
<1>4. PICK size : size = candidates[a].size
  OBVIOUS
<1>5. /\ binary \in Binaries /\ InText(binary.text, a) /\ size \in Nat
      /\ \A c \in G : InText(binary.text, c)
  <2>1. binary \in Binaries /\ InText(binary.text, a) /\ size \in Nat
    BY <1>4 DEF CandidatesInv
  <2>2. \A c \in Found' : InText(binary.text, c)
    BY DEF CandidatesInv
  <2> QED BY <1>1, <2>1, <2>2
<1>6. end = TextLimit /\ end \in Nat
  <2>1. end = TextLimit
    BY <1>3, <1>5, TextEndFacts DEF EndKnown, TextLimit
  <2> QED BY <1>5, <2>1, TextSweepFacts
<1>7. G \in SUBSET Nat /\ F \in SUBSET G /\ a \in Nat /\ a < end /\ \A c \in G : c < end
  <2>1. \A c : InText(binary.text, c) => c \in Nat /\ c < end
    BY <1>5, <1>6, BinaryFacts DEF TextLimit
  <2> QED BY <1>1, <1>2, <1>5, <2>1
<1>8. /\ NextIn(G, end, a) \in Nat /\ NextIn(F, end, a) \in Nat
      /\ a < NextIn(G, end, a) /\ NextIn(G, end, a) <= NextIn(F, end, a)
  BY <1>6, <1>7, NextShrinks
<1>9. Cut(NextIn(G, end, a), size, a) <= Cut(NextIn(F, end, a), size, a)
  BY <1>5, <1>7, <1>8, CutShrinks
<1>10. RangeSize(a) = Cut(NextIn(F, end, a), size, a)
  BY <1>2, <1>3, <1>4 DEF RangeSize, Later, Cut, NextIn, Found
<1>11. RangeSize(a)' = Cut(NextIn(G, end, a), size, a)
  BY <1>1, <1>3, <1>4 DEF RangeSize, Later, Cut, NextIn, Found
<1> QED BY <1>9, <1>10, <1>11

--------------------------------------------------------------------------------
(***************************************************************************)
(* The worklist.                                                           *)
(***************************************************************************)

\* Instruction i of binary b is a call that leads into .text.
CallsText(b, i) ==
  i.kind = "Call" /\ i.directTarget # NoAddress /\ InText(b.text, i.directTarget)

\* The bytes from a to e were swept up to m, and the targets of the calls met are in F.
Follows(b, F, a, m, e) ==
  /\ m \in SweepAddresses(b.code, a, e) \cup {e}
  /\ e <= b.text.start + b.text.size
  /\ \A c \in SweepAddresses(b.code, a, e) :
       c < m /\ CallsText(b, DecodeAt(b.code, c, e)) => DecodeAt(b.code, c, e).directTarget \in F

\* a waits in the queue, or its range is being swept, or was swept when it was no
\* shorter than it is now.
Met(a) ==
  \/ a \in Elements(pending)
  \/ \E m, e \in Nat : /\ m = e \/ (phase = "calls" /\ m = at /\ e = scanEnd)
                       /\ a + RangeSize(a) <= e
                       /\ Follows(binary, Found, a, m, e)

WorklistInv ==
  phase \in {"calls", "emit", "done"} /\ EndKnown =>
    /\ pending \in Seq(Nat) /\ Elements(pending) \subseteq Found
    /\ phase # "calls" => pending = <<>>
    /\ \A a \in Found : Met(a)

LEMMA PartDecodes ==
  ASSUME NEW b \in Binaries, NEW a, InText(b.text, a), NEW e \in Nat,
         e <= b.text.start + b.text.size
  PROVE  Decodes(b.code, a, e) /\ a \in Nat
<1>1. /\ b.text.start \in Nat /\ b.text.size \in Nat /\ a \in Nat
      /\ \A c \in Nat : InText(b.text, c) <=> b.text.start <= c /\ c < b.text.start + b.text.size
  BY BinaryFacts
<1>2. ASSUME NEW c \in a .. e - 1
      PROVE  b.code[c].size \in Nat \ {0}
  <2>1. b.text.start + b.text.size \in Nat /\ c \in Nat
    BY <1>1
  <2>2. b.text.start <= a
    BY <1>1
  <2>3. InText(b.text, c)
    BY <1>1, <2>1, <2>2
  <2>4. b.code[c] \in Decoded
    BY <2>3, BinaryFacts
  <2> QED BY <2>4 DEF Decoded
<1> QED BY <1>1, <1>2 DEF Decodes

LEMMA FollowsFirst ==
  ASSUME NEW b \in Binaries, NEW F, NEW a, InText(b.text, a), NEW e \in Nat,
         a < e, e <= b.text.start + b.text.size
  PROVE  Follows(b, F, a, a, e)
<1>1. Decodes(b.code, a, e) /\ a \in Nat
  BY PartDecodes
<1>2. a \in SweepAddresses(b.code, a, e)
  BY <1>1, SweepStart
<1>3. \A c \in SweepAddresses(b.code, a, e) : ~ (c < a)
  BY <1>1, SweepEquation
<1> QED BY <1>2, <1>3 DEF Follows

LEMMA FollowsMore ==
  ASSUME NEW b, NEW F, NEW G, F \subseteq G, NEW a, NEW m, NEW e, Follows(b, F, a, m, e)
  PROVE  Follows(b, G, a, m, e)
BY DEF Follows

\* One instruction further.
LEMMA FollowsNext ==
  ASSUME NEW b \in Binaries, NEW F, NEW a, InText(b.text, a), NEW m \in Nat, NEW e \in Nat,
         Follows(b, F, a, m, e), m < e, NEW i, i = DecodeAt(b.code, m, e),
         CallsText(b, i) => i.directTarget \in F
  PROVE  m + i.size \in Nat /\ Follows(b, F, a, m + i.size, e)
<1> DEFINE S == SweepAddresses(b.code, a, e)
<1>1. Decodes(b.code, a, e) /\ e <= b.text.start + b.text.size
  BY PartDecodes DEF Follows
<1>2. m \in S /\ m + i.size = After(b.code, m, e)
  BY DEF Follows, After
<1>3. m + i.size \in S \cup {e} /\ m < m + i.size
  BY <1>1, <1>2, SweepNext
<1>4. \A c \in S : c \in Nat /\ (m < c => m + i.size <= c)
  <2>1. \A c \in S : c \in a .. e - 1 /\ a \in Nat
    BY <1>1, SweepEquation DEF Decodes
  <2>2. \A c \in S : m < c => m + i.size <= c
    BY <1>1, <1>2, SweepGap
  <2> QED BY <2>1, <2>2
<1>5. m + i.size \in Nat
  BY <1>3, <1>4
<1>6. \A c \in S : c < m + i.size => c < m \/ c = m
  BY <1>4, <1>5
<1>7. ASSUME NEW c \in S, c < m + i.size, CallsText(b, DecodeAt(b.code, c, e))
      PROVE  DecodeAt(b.code, c, e).directTarget \in F
  BY <1>6, <1>7 DEF Follows
<1> QED BY <1>1, <1>3, <1>5, <1>7 DEF Follows

\* The range of a was swept to its end.
Done(a) ==
  \E e \in Nat : a + RangeSize(a) <= e /\ Follows(binary, Found, a, e, e)

LEMMA DoneMet ==
  ASSUME NEW a, Done(a)
  PROVE  Met(a)
BY DEF Done, Met

\* A candidate that has left the queue is done, or is being swept.
LEMMA MetDone ==
  ASSUME CandidatesInv, NEW a \in Found, Met(a), a \notin Elements(pending),
         phase = "calls" => at >= scanEnd
  PROVE  Done(a)
<1>1. PICK m, e \in Nat : /\ m = e \/ (phase = "calls" /\ m = at /\ e = scanEnd)
                          /\ a + RangeSize(a) <= e
                          /\ Follows(binary, Found, a, m, e)
  BY DEF Met
<1>2. binary \in Binaries /\ InText(binary.text, a)
  BY DEF CandidatesInv
<1>3. Decodes(binary.code, a, e)
  BY <1>1, <1>2, PartDecodes DEF Follows
<1>4. SweepAddresses(binary.code, a, e) \subseteq a .. e - 1 /\ a \in Nat
  BY <1>3, SweepEquation DEF Decodes
<1>5. m = e
  <2>1. m \in SweepAddresses(binary.code, a, e) \cup {e}
    BY <1>1 DEF Follows
  <2>2. m = e \/ m >= e
    BY <1>1
  <2> QED BY <1>1, <1>4, <2>1, <2>2
<1> QED BY <1>1, <1>5 DEF Done

LEMMA DoneKept ==
  ASSUME UNCHANGED <<binary, candidates>>
  PROVE  /\ Found' = Found /\ (EndKnown' <=> EndKnown)
         /\ \A a : RangeSize(a)' = RangeSize(a)
         /\ \A a : Done(a)' <=> Done(a)
<1>1. /\ Found' = Found /\ (EndKnown' <=> EndKnown)
      /\ \A a : RangeSize(a)' = RangeSize(a)
  BY DEF Found, EndKnown, RangeSize, Later
<1> QED BY <1>1 DEF Done

LEMMA WorklistStart ==
  ASSUME RangeInv, StartWorklist
  PROVE  WorklistInv'
<1>1. PICK S : S = Found
  OBVIOUS
<1>2. PICK q : q = pending'
  OBVIOUS
<1>3. /\ phase' = "calls" /\ UNCHANGED <<binary, candidates>>
      /\ q = CHOOSE s \in [1 .. Cardinality(S) -> S] : IsAscending(s)
  BY <1>1, <1>2 DEF StartWorklist, Found
<1>4. S \in SUBSET Nat /\ TextLimit \in Nat /\ \A x \in S : x <= TextLimit
  <2>1. binary \in Binaries /\ \A x \in S : InText(binary.text, x)
    BY <1>1 DEF RangeInv, CandidatesInv
  <2>2. /\ TextLimit \in Nat
        /\ \A x : InText(binary.text, x) => x \in Nat /\ x < TextLimit
    BY <2>1, BinaryFacts, TextSweepFacts DEF TextLimit
  <2> QED BY <2>1, <2>2
<1>5. q \in Seq(Nat) /\ Elements(q) = S
  BY <1>3, <1>4, WorklistComplete
<1>6. Found' = Found /\ Elements(pending)' = Elements(q)
  BY <1>2, <1>3 DEF Found, Elements
<1> QED BY <1>1, <1>2, <1>3, <1>5, <1>6 DEF WorklistInv, Met

LEMMA WorklistPop ==
  ASSUME RangeInv, WorklistInv, PopCandidate
  PROVE  WorklistInv'
<1> SUFFICES ASSUME EndKnown
             PROVE  /\ pending' \in Seq(Nat) /\ Elements(pending)' \subseteq Found'
                    /\ \A a \in Found' : Met(a)'
  <2>1. EndKnown' <=> EndKnown
    BY DEF PopCandidate, EndKnown
  <2>2. phase' = "calls"
    BY DEF PopCandidate
  <2> QED BY <2>1, <2>2 DEF WorklistInv
<1>1. PICK h : h = Head(pending)
  OBVIOUS
<1>2. PICK e : e = h + RangeSize(h)
  OBVIOUS
<1>3. /\ phase = "calls" /\ phase' = "calls" /\ at >= scanEnd /\ pending # <<>>
      /\ pending' = Tail(pending) /\ at' = h /\ scanEnd' = e /\ UNCHANGED <<binary, candidates>>
  BY <1>1, <1>2 DEF PopCandidate
<1>4. /\ pending \in Seq(Nat) /\ Elements(pending) \subseteq Found
      /\ \A a \in Found : Met(a)
  BY <1>3 DEF WorklistInv
<1>5. /\ pending' \in Seq(Nat) /\ h \in Found
      /\ Elements(pending)' = Elements(Tail(pending))
      /\ Elements(pending) = Elements(Tail(pending)) \cup {h}
  <2>1. Elements(pending)' = Elements(Tail(pending))
    BY <1>3 DEF Elements
  <2> QED BY <1>1, <1>3, <1>4, <2>1, ElementsFacts
<1>6. CandidatesInv /\ binary \in Binaries /\ InText(binary.text, h)
  BY <1>5 DEF RangeInv, CandidatesInv
<1>7. /\ Found' = Found /\ \A a : RangeSize(a)' = RangeSize(a)
      /\ \A a : Done(a)' <=> Done(a)
  BY <1>3, DoneKept
<1>8. h \in Nat /\ e \in Nat /\ h < e /\ e <= binary.text.start + binary.text.size
  BY <1>2, <1>5, <1>6, RangeFacts
<1>9. Met(h)'
  <2>1. Follows(binary, Found, h, h, e)
    BY <1>6, <1>8, FollowsFirst
  <2>2. Follows(binary', Found', h, h, e)
    BY <1>3, <1>7, <2>1
  <2>3. h + RangeSize(h)' <= e
    BY <1>2, <1>7, <1>8
  <2> QED BY <1>3, <1>8, <2>2, <2>3 DEF Met
<1>10. ASSUME NEW a \in Found, a # h PROVE Met(a)'
  <2>1. CASE a \in Elements(pending)
    BY <1>5, <1>10, <2>1 DEF Met
  <2>2. CASE a \notin Elements(pending)
    <3>1. Done(a)
      BY <1>3, <1>4, <1>6, <2>2, MetDone
    <3>2. Done(a)'
      BY <1>7, <3>1
    <3> QED BY <3>2 DEF Done, Met
  <2> QED BY <2>1, <2>2
<1> QED BY <1>4, <1>5, <1>7, <1>9, <1>10

\* The sweep goes on behind an instruction whose target, if it calls one, is known then.
LEMMA WorklistAdvance ==
  ASSUME CandidatesInv, CandidatesInv', WorklistInv, EndKnown,
         phase = "calls", phase' = "calls", UNCHANGED <<binary, scanEnd>>,
         at < scanEnd, at' = at + Current.size,
         Found \subseteq Found', \A c \in Found : candidates'[c] = candidates[c],
         pending' \in Seq(Nat), Elements(pending) \subseteq Elements(pending'),
         Elements(pending') \subseteq Found', Found' \ Found \subseteq Elements(pending'),
         IsTextCall(Current) => Current.directTarget \in Found'
  PROVE  WorklistInv'
<1>1. Elements(pending)' = Elements(pending')
  BY DEF Elements
<1>2. ASSUME NEW a \in Found PROVE Met(a)'
  <2>1. CASE a \in Elements(pending)
    BY <1>1, <2>1 DEF Met
  <2>2. CASE a \notin Elements(pending)
    <3>1. Met(a)
      BY DEF WorklistInv
    <3>2. PICK m, e \in Nat : /\ m = e \/ (phase = "calls" /\ m = at /\ e = scanEnd)
                              /\ a + RangeSize(a) <= e
                              /\ Follows(binary, Found, a, m, e)
      BY <2>2, <3>1 DEF Met
    <3>3. binary \in Binaries /\ InText(binary.text, a)
      BY DEF CandidatesInv
    <3>4. RangeSize(a)' \in Nat /\ RangeSize(a) \in Nat /\ a \in Nat
      <4>1. RangeSize(a) \in Nat /\ a \in Nat
        BY RangeFacts
      <4>2. PICK next : next = NextIn(Found', TextEnd(binary.text), a)
        OBVIOUS
      <4>3. RangeSize(a)' = Cut(next, candidates[a].size, a)
        BY <4>2 DEF RangeSize, Later, Cut, NextIn, Found
      <4>4. next \in Nat
        <5>1. /\ Found' \in SUBSET Nat /\ TextLimit \in Nat /\ a < TextLimit
              /\ \A c \in Found' : c < TextLimit
          <6>1. /\ TextLimit \in Nat
                /\ \A c : InText(binary.text, c) => c \in Nat /\ c < TextLimit
            BY <3>3, BinaryFacts, TextSweepFacts DEF TextLimit
          <6>2. \A c \in Found' : InText(binary.text, c)
            BY DEF CandidatesInv
          <6> QED BY <3>3, <6>1, <6>2
        <5>2. TextEnd(binary.text) = TextLimit
          BY <3>3, TextEndFacts DEF EndKnown, TextLimit
        <5>3. Found' \in SUBSET Found'
          OBVIOUS
        <5> QED BY ONLY <4>1, <4>2, <5>1, <5>2, <5>3, NextShrinks
      <4>5. candidates[a].size \in Nat
        BY DEF CandidatesInv
      <4> QED BY <4>1, <4>3, <4>4, <4>5 DEF Cut
    <3>5. a + RangeSize(a)' <= e
      <4>1. RangeSize(a)' <= RangeSize(a)
        BY RangeShrinks
      <4> QED BY <3>2, <3>4, <4>1
    <3>6. Follows(binary, Found', a, m, e)
      BY <3>2, FollowsMore
    <3>7. CASE m = e
      <4>1. Follows(binary', Found', a, e, e)
        BY <3>6, <3>7
      <4> QED BY <3>5, <4>1 DEF Met
    <3>8. CASE m # e
      <4>1. m = at /\ e = scanEnd /\ m < e
        BY <3>2, <3>8
      <4>2. PICK i : i = Current
        OBVIOUS
      <4>3. PICK n : n = m + i.size
        OBVIOUS
      <4>4. i = DecodeAt(binary.code, m, e)
        BY <4>1, <4>2 DEF Current
      <4>5. CallsText(binary, i) => i.directTarget \in Found'
        BY <4>2 DEF CallsText, IsTextCall
      <4>6. n \in Nat /\ Follows(binary, Found', a, n, e)
        BY <3>2, <3>3, <3>6, <4>1, <4>3, <4>4, <4>5, FollowsNext
      <4>7. at' = n /\ scanEnd' = e
        BY <4>1, <4>2, <4>3
      <4>8. Follows(binary', Found', a, n, e)
        BY <4>6
      <4> QED BY <3>5, <4>6, <4>7, <4>8 DEF Met
    <3> QED BY <3>7, <3>8
  <2> QED BY <2>1, <2>2
<1>3. ASSUME NEW a \in Found', a \notin Found PROVE Met(a)'
  BY <1>1, <1>3 DEF Met
<1> QED BY <1>1, <1>2, <1>3 DEF WorklistInv

LEMMA WorklistSkip ==
  ASSUME RangeInv, WorklistInv, SkipInstruction
  PROVE  WorklistInv'
<1>1. /\ phase = "calls" /\ phase' = "calls" /\ UNCHANGED <<binary, candidates, pending, scanEnd>>
      /\ at < scanEnd /\ at' = at + Current.size
      /\ IsTextCall(Current) => Current.directTarget \in Found
  BY DEF SkipInstruction, Found
<1>2. Found' = Found /\ (EndKnown' <=> EndKnown)
  BY <1>1, DoneKept
<1>3. CandidatesInv /\ CandidatesInv'
  BY <1>1, CandidatesKept DEF RangeInv
<1>4. CASE EndKnown
  <2>1. pending \in Seq(Nat) /\ Elements(pending) \subseteq Found
    BY <1>1, <1>4 DEF WorklistInv
  <2>2. pending' \in Seq(Nat) /\ Elements(pending') = Elements(pending)
    BY <1>1, <2>1
  <2> QED BY <1>1, <1>2, <1>3, <1>4, <2>1, <2>2, WorklistAdvance
<1>5. CASE ~ EndKnown
  BY <1>2, <1>5 DEF WorklistInv
<1> QED BY <1>4, <1>5

LEMMA WorklistFollow ==
  ASSUME RangeInv, WorklistInv, FollowCall
  PROVE  WorklistInv'
<1>1. PICK a : a = Current.directTarget
  OBVIOUS
<1>2. PICK new : new = Unnamed("DirectCallTarget")
  OBVIOUS
<1>3. /\ phase = "calls" /\ phase' = "calls" /\ UNCHANGED <<binary, scanEnd>>
      /\ at < scanEnd /\ at' = at + Current.size
      /\ candidates' = Added(a, new) /\ a \notin Found /\ InText(binary.text, a)
      /\ pending' = Append(pending, a)
  BY <1>1, <1>2 DEF FollowCall, Found, IsTextCall
<1>4. Found' = Found \cup {a} /\ \A c \in Found : candidates'[c] = candidates[c]
  <2>1. Found' = DOMAIN Added(a, new) /\ candidates' = Added(a, new)
    BY <1>3 DEF Found
  <2>2. /\ DOMAIN Added(a, new) = Found \cup {a}
        /\ \A c \in Found : c # a => Added(a, new)[c] = candidates[c]
        /\ a \in Found => Added(a, new)[a] = Merge(candidates[a], new)
        /\ a \notin Found => Added(a, new)[a] = new
    BY ONLY AddedFacts
  <2> QED BY <1>3, <2>1, <2>2
<1>5. CandidatesInv /\ CandidatesInv'
  BY RangeFollowCall DEF RangeInv
<1>6. EndKnown' <=> EndKnown
  BY <1>3 DEF EndKnown
<1>7. CASE EndKnown
  <2>1. pending \in Seq(Nat) /\ Elements(pending) \subseteq Found
    BY <1>3, <1>7 DEF WorklistInv
  <2>2. a \in Nat
    BY <1>3, <1>5, BinaryFacts DEF CandidatesInv
  <2>3. pending' \in Seq(Nat) /\ Elements(pending') = Elements(pending) \cup {a}
    BY <1>3, <2>1, <2>2, ElementsFacts
  <2> QED BY <1>1, <1>3, <1>4, <1>5, <1>7, <2>1, <2>3, WorklistAdvance
<1>8. CASE ~ EndKnown
  BY <1>6, <1>8 DEF WorklistInv
<1> QED BY <1>7, <1>8

\* The end of the worklist, and the steps of the result.
LEMMA WorklistDone ==
  ASSUME RangeInv, WorklistInv, FinishWorklist \/ EmitFunction \/ ReturnFunctions
  PROVE  WorklistInv'
<1>1. /\ phase \in {"calls", "emit", "done"} /\ phase' \in {"emit", "done"}
      /\ UNCHANGED <<binary, candidates, pending>>
      /\ phase = "calls" => at >= scanEnd /\ pending = <<>>
  BY DEF FinishWorklist, EmitFunction, ReturnFunctions
<1>2. /\ Found' = Found /\ (EndKnown' <=> EndKnown) /\ Elements(pending)' = Elements(pending)
      /\ \A a : Done(a)' <=> Done(a)
  BY <1>1, DoneKept DEF Elements
<1>3. CASE EndKnown
  <2>1. /\ pending \in Seq(Nat) /\ Elements(pending) \subseteq Found /\ pending = <<>>
        /\ \A a \in Found : Met(a)
    BY <1>1, <1>3 DEF WorklistInv
  <2>2. Elements(pending) = {}
    BY <2>1 DEF Elements
  <2>3. ASSUME NEW a \in Found PROVE Met(a)'
    <3>1. CandidatesInv /\ a \notin Elements(pending) /\ (phase = "calls" => at >= scanEnd)
      BY <1>1, <2>2 DEF RangeInv
    <3>2. Done(a)
      BY <2>1, <3>1, MetDone
    <3>3. Done(a)'
      BY <1>2, <3>2
    <3> QED BY <3>3 DEF Done, Met
  <2> QED BY <1>1, <1>2, <2>1, <2>3 DEF WorklistInv
<1>4. CASE ~ EndKnown
  BY <1>2, <1>4 DEF WorklistInv
<1> QED BY <1>3, <1>4

LEMMA WorklistStutter ==
  ASSUME WorklistInv, UNCHANGED vars
  PROVE  WorklistInv'
<1>1. UNCHANGED <<phase, binary, candidates, pending, at, scanEnd>>
  BY DEF vars
<1>2. /\ Found' = Found /\ (EndKnown' <=> EndKnown) /\ Elements(pending)' = Elements(pending)
      /\ \A a : RangeSize(a)' = RangeSize(a)
  BY <1>1, DoneKept DEF Elements
<1>3. \A a : Met(a)' <=> Met(a)
  BY <1>1, <1>2 DEF Met
<1> QED BY <1>1, <1>2, <1>3 DEF WorklistInv

LEMMA WorklistInductive == RangeInv /\ WorklistInv /\ [Next]_vars => WorklistInv'
<1> SUFFICES ASSUME RangeInv, WorklistInv, [Next]_vars PROVE WorklistInv'
  OBVIOUS
<1>1. CASE AddSymbol \/ AddEntryPoint \/ ScanForPrologue \/ FinishHeuristic \/ ReachLimit
  <2>1. phase' \notin {"calls", "emit", "done"}
    BY <1>1 DEF AddSymbol, AddEntryPoint, ScanForPrologue, FinishHeuristic, ReachLimit
  <2> QED BY <2>1 DEF WorklistInv
<1>2. CASE StartWorklist
  BY <1>2, WorklistStart
<1>3. CASE PopCandidate
  BY <1>3, WorklistPop
<1>4. CASE SkipInstruction
  BY <1>4, WorklistSkip
<1>5. CASE FollowCall
  BY <1>5, WorklistFollow
<1>6. CASE FinishWorklist \/ EmitFunction \/ ReturnFunctions
  BY <1>6, WorklistDone
<1>7. CASE UNCHANGED vars
  BY <1>7, WorklistStutter
<1> QED BY <1>1, <1>2, <1>3, <1>4, <1>5, <1>6, <1>7 DEF Next, Collect, FollowCalls, Emit

\* A sweep that cuts no instruction at its end is part of every longer one.
LEMMA IntactSweep ==
  ASSUME NEW code, NEW a, NEW s, NEW e, Decodes(code, a, e), s \in Nat, a < s, s <= e,
         \A c \in SweepAddresses(code, a, s) : c + code[c].size <= s
  PROVE  \A c \in SweepAddresses(code, a, s) :
           /\ c \in SweepAddresses(code, a, e) /\ c \in Nat /\ c < s
           /\ DecodeAt(code, c, s) = DecodeAt(code, c, e)
<1> DEFINE Short == SweepAddresses(code, a, s)
           Long == SweepAddresses(code, a, e)
<1>1. a \in Nat /\ e \in Nat /\ Decodes(code, a, s)
  BY DEF Decodes
<1>2. \A c \in Short : c \in a .. s - 1 /\ code[c].size \in Nat /\ c + code[c].size <= s
  <2>1. \A c \in Short : c \in a .. s - 1
    BY <1>1, SweepEquation
  <2>2. \A c \in a .. s - 1 : code[c].size \in Nat
    BY <1>1 DEF Decodes
  <2> QED BY <2>1, <2>2
<1>3. \A c \in Short : /\ DecodeAt(code, c, s) = DecodeAt(code, c, e)
                       /\ After(code, c, s) = After(code, c, e)
  <2> TAKE c \in Short
  <2>1. c + code[c].size <= s /\ c + code[c].size <= e
    BY <1>1, <1>2
  <2> QED BY <2>1 DEF DecodeAt, After
<1>4. ASSUME NEW x \in Short, x \notin Long PROVE FALSE
  <2> DEFINE Bad == Short \ Long
  <2>1. PICK c \in Bad : \A d \in Bad : c <= d
    <3>1. Bad \in SUBSET Nat /\ Bad # {}
      BY <1>1, <1>2, <1>4
    <3> HIDE DEF Bad
    <3> QED BY <3>1, LeastElement
  <2>2. c # a
    <3>1. a \in Long
      BY <1>1, SweepStart
    <3> QED BY <2>1, <3>1
  <2>3. c \in a .. s - 1
    BY <1>2, <2>1
  <2>4. PICK d \in Short : After(code, d, s) = c
    BY <1>1, <2>1, <2>2, <2>3, SweepEquation
  <2>5. d < c /\ d \in Nat
    <3>1. d < After(code, d, s)
      BY <1>1, <2>4, SweepNext
    <3> QED BY <1>1, <1>2, <2>4, <3>1
  <2>6. d \in Long
    BY <1>1, <2>1, <2>3, <2>4, <2>5
  <2>7. After(code, d, e) = c
    BY <1>3, <2>4
  <2>8. c \in a .. e - 1
    BY <1>1, <2>3
  <2>9. c \in Long
    BY <2>6, <2>7, <2>8, SweepEquation
  <2> QED BY <2>1, <2>9
<1> QED BY <1>1, <1>2, <1>3, <1>4

\* Whatever symbols and calls there are, a function of the result that ends between two
\* instructions calls only functions of the result: its range may have shrunk after it
\* was swept, but what is left of it was met by that sweep.
THEOREM CallsCorrect == Spec => []CallsOfIntactFunctionsFollowed
<1>1. RangeInv /\ WorklistInv => CallsOfIntactFunctionsFollowed
  <2> SUFFICES ASSUME RangeInv, WorklistInv, phase = "done", EndKnown,
                      NEW i \in 1 .. Len(functions), Intact(functions[i]),
                      NEW j \in InstructionsOf(functions[i]), IsTextCall(j)
               PROVE  j.directTarget \in FunctionStarts
    BY DEF CallsOfIntactFunctionsFollowed, CallTargets
  <2>1. PICK a : a = functions[i].address
    OBVIOUS
  <2>2. PICK s : s = End(functions[i])
    OBVIOUS
  <2>3. /\ CandidatesInv /\ binary \in Binaries /\ a \in Found /\ InText(binary.text, a)
        /\ functions[i].size = RangeSize(a) /\ functions[i].size > 0
        /\ \A c \in Found : RangeSize(c) # 0 => c \in FunctionStarts
    <3>1. \A k \in 1 .. Len(functions) :
            /\ functions[k].address \in Found
            /\ functions[k].size = RangeSize(functions[k].address) /\ functions[k].size > 0
      BY DEF RangeInv, EmitInv
    <3>2. \A c \in Found : RangeSize(c) # 0 => c \in FunctionStarts
      BY DEF RangeInv, EmitInv
    <3> QED BY <2>1, <3>1, <3>2 DEF RangeInv, CandidatesInv
  <2>4. /\ a \in Nat /\ RangeSize(a) \in Nat /\ s = a + RangeSize(a) /\ s \in Nat /\ a < s
        /\ \A c \in Found : RangeSize(c) # 0
    <3>1. a \in Nat /\ RangeSize(a) \in Nat /\ s = a + RangeSize(a)
      BY <2>1, <2>2, <2>3, RangeFacts DEF End
    <3>2. \A c \in Found : RangeSize(c) \in Nat /\ RangeSize(c) > 0
      BY <2>3, RangeFacts
    <3> QED BY <2>3, <3>1, <3>2
  <2>5. Done(a)
    <3>1. Met(a) /\ pending = <<>>
      BY <2>3 DEF WorklistInv
    <3>2. a \notin Elements(pending)
      BY <3>1 DEF Elements
    <3> QED BY <2>3, <3>1, <3>2, MetDone
  <2>6. PICK e \in Nat : s <= e /\ Follows(binary, Found, a, e, e)
    BY <2>4, <2>5 DEF Done
  <2>7. PICK c \in SweepAddresses(binary.code, a, s) : j = DecodeAt(binary.code, c, s)
    BY <2>1, <2>2 DEF InstructionsOf, SweepOf
  <2>8. \A d \in SweepAddresses(binary.code, a, s) : d + binary.code[d].size <= s
    BY <2>1, <2>2 DEF Intact, SweepOf
  <2>9. Decodes(binary.code, a, e)
    BY <2>3, <2>6, PartDecodes DEF Follows
  <2>10. /\ c \in SweepAddresses(binary.code, a, e) /\ c \in Nat /\ c < s
         /\ j = DecodeAt(binary.code, c, e)
    BY <2>4, <2>6, <2>7, <2>8, <2>9, IntactSweep
  <2>11. c < e
    BY <2>4, <2>6, <2>10
  <2>12. CallsText(binary, j)
    BY DEF CallsText, IsTextCall
  <2>13. j.directTarget \in Found
    BY <2>6, <2>10, <2>11, <2>12 DEF Follows
  <2> QED BY <2>3, <2>4, <2>13
<1>2. Init => WorklistInv
  BY DEF Init, WorklistInv
<1>3. Spec => []WorklistInv
  BY <1>2, RangeInvariance, WorklistInductive, PTL DEF Spec
<1> QED BY <1>1, <1>3, RangeInvariance, PTL

================================================================================
