----------------------------- MODULE AnalysisProofs -----------------------------
(***************************************************************************)
(* For every set of binaries: the caches of a session hold entries of one  *)
(* binary only, a valid session is complete, a failed one empty, and       *)
(* pseudocode is written with all prototypes, and functionAt finds what    *)
(* there is to be found.  For every function of one block: no recovered    *)
(* call is given a register that an earlier call destroyed.  For every     *)
(* function, of any blocks: the recovered code computes what the machine   *)
(* computes, as long as no text has been used that the lapses name.        *)
(*                                                                         *)
(* The argument of the first: an entry is determined by the binary, its    *)
(* cache and its function, so emplace, which keeps what is there, never    *)
(* keeps anything else than what it was given.  Of the second: a call      *)
(* leaves only rax on offer, and an instruction adds no register to what   *)
(* is offered that it does not write.  Of the third: under a meaning of    *)
(* the names that is alike to the values of the recovered code, the state  *)
(* of the recovery describes the machine, and recovering an instruction    *)
(* and executing it keep this (RecoverSteps); the states that the recovery *)
(* of a block went through are kept until the block is executed.           *)
(***************************************************************************)
EXTENDS AnalysisSession, DataFlowExecution, TLAPS, NaturalsInduction, WellFoundedInduction,
        FiniteSetTheorems, SequenceTheorems

\* The elements by index.
LEMMA ToSetIndexed ==
  ASSUME NEW S, NEW s \in Seq(S)
  PROVE  ToSet(s) = {s[i] : i \in 1 .. Len(s)}
BY DEF ToSet

\* The entry that analysing b leaves for f in the cache c.
Full(b, c, f) ==
  Entry(c, f, b, IF c = "pseudocode" THEN ToSet(b.functions) \X {b} ELSE {})

\* The first n functions of b.
Before(b, n) == {b.functions[i] : i \in 1 .. n}

EntriesOf(b, C, F) == {Full(b, c, f) : c \in C, f \in F}

CachesInv ==
  IF binary = NoBinary
    THEN caches = {}
    ELSE caches \subseteq EntriesOf(binary, CacheNames, ToSet(binary.functions))

Phases == {"idle", "loading", "discovering", "functions", "prototypes", "flow"}

Running == phase # "idle"

PhaseInv ==
  /\ phase \in Phases
  /\ binary \in Binaries \cup {NoBinary}
  /\ Running => binary \in Binaries /\ ~ valid /\ error = "none"
  /\ phase \in {"loading", "discovering"} => functions = <<>> /\ caches = {} /\ graph = <<>>
  /\ phase \in {"discovering", "functions", "prototypes", "flow"} => loader = binary
  /\ phase \in {"functions", "prototypes", "flow"} => functions = binary.functions
  /\ phase \in {"functions", "flow"} => current \in 1 .. Len(functions) + 1
  /\ phase = "discovering" => current = 1
  /\ phase = "loading" => current = 1
  /\ phase = "functions" =>
       /\ graph = <<>>
       /\ EntriesOf(binary, ToSet(FunctionCaches), Before(binary, current - 1)) \subseteq caches
  /\ phase \in {"prototypes", "flow"} =>
       /\ graph = functions
       /\ EntriesOf(binary, ToSet(FunctionCaches), ToSet(functions)) \subseteq caches
  /\ phase = "flow" =>
       /\ prototypes = ToSet(functions) \X {binary}
       /\ EntriesOf(binary, ToSet(FlowCaches), Before(binary, current - 1)) \subseteq caches

ResultInv ==
  /\ valid =>
       /\ binary \in Binaries
       /\ loader = binary /\ functions = binary.functions /\ graph = functions
       /\ error = "none"
       /\ EntriesOf(binary, CacheNames, ToSet(functions)) \subseteq caches
  /\ error # "none" => ~ valid /\ functions = <<>> /\ caches = {} /\ graph = <<>>
  /\ error # "callGraph"

IInv == CachesInv /\ PhaseInv /\ ResultInv

--------------------------------------------------------------------------------

LEMMA Names ==
  /\ ToSet(FunctionCaches) = {"controlFlowGraph", "abi", "ir", "instructions"}
  /\ ToSet(FlowCaches) = {"dataFlow", "pseudocode"}
  /\ CacheNames = {"controlFlowGraph", "abi", "ir", "instructions", "dataFlow", "pseudocode"}
<1>1. ToSet(FunctionCaches) = {FunctionCaches[i] : i \in 1 .. 4}
  <2>1. FunctionCaches \in Seq({"controlFlowGraph", "abi", "ir", "instructions"})
        /\ Len(FunctionCaches) = 4
    BY DEF FunctionCaches
  <2> QED BY <2>1, ToSetIndexed
<1>2. ToSet(FlowCaches) = {FlowCaches[i] : i \in 1 .. 2}
  <2>1. FlowCaches \in Seq({"dataFlow", "pseudocode"}) /\ Len(FlowCaches) = 2
    BY DEF FlowCaches
  <2> QED BY <2>1, ToSetIndexed
<1>3. ToSet(FunctionCaches) = {"controlFlowGraph", "abi", "ir", "instructions"}
  BY <1>1 DEF FunctionCaches
<1>4. ToSet(FlowCaches) = {"dataFlow", "pseudocode"}
  BY <1>2 DEF FlowCaches
<1> QED BY <1>3, <1>4 DEF CacheNames

\* The functions of a binary.
LEMMA BinaryFunctions ==
  ASSUME NEW b \in Binaries
  PROVE  /\ b.functions \in Seq(Nat) /\ Len(b.functions) \in Nat
         /\ Before(b, Len(b.functions)) = ToSet(b.functions)
         /\ Before(b, 0) = {}
         /\ \A n \in 1 .. Len(b.functions) :
              /\ b.functions[n] \in ToSet(b.functions)
              /\ Before(b, n) = Before(b, n - 1) \cup {b.functions[n]}
<1>1. b.functions \in Seq(Nat) /\ Len(b.functions) \in Nat
  BY BinariesAssumption
<1>2. ToSet(b.functions) = {b.functions[i] : i \in 1 .. Len(b.functions)}
  BY <1>1, ToSetIndexed
<1>3. \A n \in 1 .. Len(b.functions) :
        Before(b, n) = Before(b, n - 1) \cup {b.functions[n]}
  BY <1>1 DEF Before
<1> QED BY <1>1, <1>2, <1>3 DEF Before

LEMMA FullFields ==
  ASSUME NEW b, NEW c, NEW f
  PROVE  /\ Full(b, c, f).cache = c /\ Full(b, c, f).address = f /\ Full(b, c, f).of = b
         /\ c = "pseudocode" => Full(b, c, f).seen = ToSet(b.functions) \X {b}
BY DEF Full, Entry

\* Entries are determined by their cache and function.
LEMMA EmplacedAll ==
  ASSUME NEW b, NEW C, NEW F, caches \subseteq EntriesOf(b, C, F),
         NEW S, S \subseteq EntriesOf(b, C, F)
  PROVE  Emplaced(S) = caches \cup S
<1>1. ASSUME NEW e \in S, Holds(e.cache, e.address) PROVE e \in caches
  <2>1. PICK d \in caches : d.cache = e.cache /\ d.address = e.address
    BY <1>1 DEF Holds
  <2>2. PICK c \in C, f \in F : e = Full(b, c, f)
    BY DEF EntriesOf
  <2>3. PICK k \in C, g \in F : d = Full(b, k, g)
    BY DEF EntriesOf
  <2>4. k = c /\ g = f
    BY <2>1, <2>2, <2>3, FullFields
  <2> QED BY <2>2, <2>3, <2>4
<1> QED BY <1>1 DEF Emplaced

\* An entry that a cache holds comes from the binary.
LEMMA AtOf ==
  ASSUME CachesInv, binary \in Binaries, NEW c, NEW f, Full(binary, c, f) \in caches
  PROVE  Holds(c, f) /\ At(c, f).of = binary
<1>1. Holds(c, f)
  BY FullFields DEF Holds
<1>2. At(c, f) \in caches
  BY <1>1 DEF Holds, At
<1>3. caches \subseteq EntriesOf(binary, CacheNames, ToSet(binary.functions))
  BY NoBinaryAssumption DEF CachesInv
<1>4. PICK k \in CacheNames, g \in ToSet(binary.functions) : At(c, f) = Full(binary, k, g)
  BY <1>2, <1>3 DEF EntriesOf
<1> QED BY <1>1, <1>4, FullFields

LEMMA InitHolds == Init => IInv
BY DEF Init, IInv, CachesInv, PhaseInv, ResultInv, Running, Phases

LEMMA ResetHolds == ASSUME IInv, Reset PROVE IInv'
BY DEF Reset, Cleared, IInv, CachesInv, PhaseInv, ResultInv, Running, Phases, EntriesOf

LEMMA AnalyzeHolds == ASSUME IInv, NEW b \in Binaries, Analyze(b) PROVE IInv'
<1>1. b # NoBinary
  BY NoBinaryAssumption
<1> QED BY <1>1 DEF Analyze, Cleared, IInv, CachesInv, PhaseInv, ResultInv, Running, Phases

LEMMA LoadHolds == ASSUME IInv, Load PROVE IInv'
BY DEF Load, IInv, CachesInv, PhaseInv, ResultInv, Running, Phases

LEMMA DiscoverHolds == ASSUME IInv, Discover PROVE IInv'
<1>1. binary \in Binaries /\ Before(binary, 0) = {} /\ Len(binary.functions) \in Nat
  BY BinaryFunctions DEF Discover, IInv, PhaseInv, Running
<1>2. EntriesOf(binary, ToSet(FunctionCaches), Before(binary, 0)) = {}
  BY <1>1 DEF EntriesOf
<1> QED BY <1>1, <1>2
        DEF Discover, IInv, CachesInv, PhaseInv, ResultInv, Running, Phases

\* What the first loop emplaces for the current function.
LEMMA FunctionEntriesFull ==
  ASSUME IInv, phase = "functions", Remaining, NEW n \in 0 .. 4
  PROVE  /\ binary \in Binaries /\ functions = binary.functions
         /\ current \in 1 .. Len(functions)
         /\ FunctionEntries(n) \subseteq EntriesOf(binary, CacheNames, ToSet(binary.functions))
         /\ Emplaced(FunctionEntries(n)) = caches \cup FunctionEntries(n)
         /\ FunctionEntries(4) = EntriesOf(binary, ToSet(FunctionCaches), {Function})
<1>1. /\ binary \in Binaries /\ functions = binary.functions
      /\ current \in 1 .. Len(functions) /\ Function \in ToSet(binary.functions)
      /\ caches \subseteq EntriesOf(binary, CacheNames, ToSet(binary.functions))
  <2>1. /\ binary \in Binaries /\ functions = binary.functions
        /\ current \in 1 .. Len(functions) + 1
    BY DEF IInv, PhaseInv, Running
  <2>2. Len(functions) \in Nat
    BY <2>1, BinaryFunctions
  <2>3. current \in 1 .. Len(functions)
    BY <2>1, <2>2 DEF Remaining
  <2>4. Function \in ToSet(binary.functions)
    BY <2>1, <2>3, BinaryFunctions DEF Function
  <2> QED BY <2>1, <2>3, <2>4, NoBinaryAssumption DEF IInv, CachesInv
<1>2. \A i \in 1 .. 4 : FunctionCaches[i] \in ToSet(FunctionCaches)
                        /\ FunctionCaches[i] # "pseudocode"
  BY Names DEF FunctionCaches
<1>3. \A c \in ToSet(FunctionCaches) : \E i \in 1 .. 4 : c = FunctionCaches[i]
  BY Names DEF FunctionCaches
<1>4. \A i \in 1 .. 4 :
        Entry(FunctionCaches[i], Function, binary, {}) = Full(binary, FunctionCaches[i], Function)
  BY <1>2 DEF Full
<1>5. FunctionEntries(n) \subseteq EntriesOf(binary, CacheNames, ToSet(binary.functions))
  BY <1>1, <1>2, <1>4, Names DEF FunctionEntries, EntriesOf
<1>6. Emplaced(FunctionEntries(n)) = caches \cup FunctionEntries(n)
  BY <1>1, <1>5, EmplacedAll
<1>7. FunctionEntries(4) = EntriesOf(binary, ToSet(FunctionCaches), {Function})
  BY <1>2, <1>3, <1>4 DEF FunctionEntries, EntriesOf
<1> QED BY <1>1, <1>5, <1>6, <1>7

LEMMA AnalyseFunctionHolds == ASSUME IInv, AnalyseFunction PROVE IInv'
<1>1. /\ binary \in Binaries /\ functions = binary.functions
      /\ current \in 1 .. Len(functions)
      /\ FunctionEntries(4) \subseteq EntriesOf(binary, CacheNames, ToSet(binary.functions))
      /\ caches' = caches \cup FunctionEntries(4)
      /\ FunctionEntries(4) = EntriesOf(binary, ToSet(FunctionCaches), {Function})
  BY FunctionEntriesFull DEF AnalyseFunction
<1>2. CachesInv'
  BY <1>1, NoBinaryAssumption DEF IInv, CachesInv, AnalyseFunction
<1>3. Before(binary, current) = Before(binary, current - 1) \cup {Function}
  BY <1>1, BinaryFunctions DEF Function
<1>4. current + 1 - 1 = current /\ current + 1 \in 1 .. Len(functions) + 1
  BY <1>1, BinaryFunctions
<1>5. EntriesOf(binary, ToSet(FunctionCaches), Before(binary, current)) \subseteq caches'
  BY <1>1, <1>3 DEF IInv, PhaseInv, EntriesOf, AnalyseFunction
<1>6. PhaseInv'
  BY <1>4, <1>5 DEF IInv, PhaseInv, Running, AnalyseFunction
<1>7. ResultInv'
  BY DEF IInv, PhaseInv, Running, ResultInv, AnalyseFunction
<1> QED BY <1>2, <1>6, <1>7 DEF IInv

LEMMA FunctionFailsHolds == ASSUME IInv, FunctionFails PROVE IInv'
BY DEF FunctionFails, IInv, CachesInv, PhaseInv, ResultInv, Running, Phases

\* The graph is built from what the first loop has cached.
LEMMA GraphCanBeBuilt ==
  ASSUME IInv, phase = "functions", ~ Remaining
  PROVE  /\ CanBuildGraph
         /\ EntriesOf(binary, ToSet(FunctionCaches), ToSet(functions)) \subseteq caches
<1>1. /\ binary \in Binaries /\ functions = binary.functions
      /\ current \in 1 .. Len(functions) + 1
      /\ EntriesOf(binary, ToSet(FunctionCaches), Before(binary, current - 1)) \subseteq caches
  BY DEF IInv, PhaseInv, Running
<1>2. Len(functions) \in Nat
  BY <1>1, BinaryFunctions
<1>3. current - 1 = Len(functions)
  BY <1>1, <1>2 DEF Remaining
<1>4. EntriesOf(binary, ToSet(FunctionCaches), ToSet(functions)) \subseteq caches
  BY <1>1, <1>3, BinaryFunctions
<1>5. \A i, j \in 1 .. Len(functions) : functions[i] = functions[j] => i = j
  <2>1. functions \in Seq(Nat)
        /\ \A i, j \in 1 .. Len(functions) : i < j => functions[i] < functions[j]
    BY <1>1, BinariesAssumption
  <2> QED BY <2>1
<1>6. \A i \in 1 .. Len(functions) : Holds("instructions", functions[i])
  <2> TAKE i \in 1 .. Len(functions)
  <2>1. functions[i] \in ToSet(functions)
    BY <1>1, BinaryFunctions
  <2>2. Full(binary, "instructions", functions[i]) \in caches
    BY <1>4, <2>1, Names DEF EntriesOf
  <2> QED BY <2>2, FullFields DEF Holds
<1> QED BY <1>4, <1>5, <1>6 DEF CanBuildGraph

LEMMA BuildCallGraphHolds == ASSUME IInv, BuildCallGraph PROVE IInv'
<1>1. CanBuildGraph
      /\ EntriesOf(binary, ToSet(FunctionCaches), ToSet(functions)) \subseteq caches
  BY GraphCanBeBuilt DEF BuildCallGraph
<1> QED BY <1>1
        DEF BuildCallGraph, IInv, CachesInv, PhaseInv, ResultInv, Running, Phases

LEMMA CollectPrototypesHolds == ASSUME IInv, CollectPrototypes PROVE IInv'
<1>1. /\ binary \in Binaries /\ functions = binary.functions
      /\ EntriesOf(binary, ToSet(FunctionCaches), ToSet(functions)) \subseteq caches
  BY DEF CollectPrototypes, IInv, PhaseInv, Running
<1>2. \A f \in ToSet(functions) : At("abi", f).of = binary
  <2> TAKE f \in ToSet(functions)
  <2>1. Full(binary, "abi", f) \in caches
    BY <1>1, Names DEF EntriesOf
  <2> QED BY <1>1, <2>1, AtOf DEF IInv
<1>3. prototypes' = ToSet(functions) \X {binary}
  BY <1>2 DEF CollectPrototypes
<1>4. Len(functions) \in Nat /\ Before(binary, 0) = {}
  BY <1>1, BinaryFunctions
<1>5. EntriesOf(binary, ToSet(FlowCaches), Before(binary, 0)) = {}
  BY <1>4 DEF EntriesOf
<1> QED BY <1>1, <1>3, <1>4, <1>5
        DEF CollectPrototypes, IInv, CachesInv, PhaseInv, ResultInv, Running, Phases

\* What the second loop emplaces for the current function.
LEMMA FlowEntriesFull ==
  ASSUME IInv, phase = "flow", Remaining, NEW n \in 0 .. 2
  PROVE  /\ binary \in Binaries /\ functions = binary.functions
         /\ current \in 1 .. Len(functions)
         /\ FlowEntries(n) \subseteq EntriesOf(binary, CacheNames, ToSet(binary.functions))
         /\ Emplaced(FlowEntries(n)) = caches \cup FlowEntries(n)
         /\ FlowEntries(2) = EntriesOf(binary, ToSet(FlowCaches), {Function})
<1>1. /\ binary \in Binaries /\ functions = binary.functions
      /\ current \in 1 .. Len(functions) /\ Function \in ToSet(binary.functions)
      /\ caches \subseteq EntriesOf(binary, CacheNames, ToSet(binary.functions))
      /\ prototypes = ToSet(binary.functions) \X {binary}
      /\ At("ir", Function).of = binary
  <2>1. /\ binary \in Binaries /\ functions = binary.functions
        /\ current \in 1 .. Len(functions) + 1
        /\ EntriesOf(binary, ToSet(FunctionCaches), ToSet(functions)) \subseteq caches
    BY DEF IInv, PhaseInv, Running
  <2>2. Len(functions) \in Nat
    BY <2>1, BinaryFunctions
  <2>3. current \in 1 .. Len(functions)
    BY <2>1, <2>2 DEF Remaining
  <2>4. Function \in ToSet(binary.functions)
    BY <2>1, <2>3, BinaryFunctions DEF Function
  <2>5. Full(binary, "ir", Function) \in caches
    BY <2>1, <2>4, Names DEF EntriesOf
  <2>6. At("ir", Function).of = binary
    BY <2>1, <2>5, AtOf DEF IInv
  <2> QED BY <2>1, <2>3, <2>4, <2>6, NoBinaryAssumption DEF IInv, CachesInv, PhaseInv
<1>2. \A i \in 1 .. 2 : FlowCaches[i] \in ToSet(FlowCaches)
  BY Names DEF FlowCaches
<1>3. \A c \in ToSet(FlowCaches) : \E i \in 1 .. 2 : c = FlowCaches[i]
  BY Names DEF FlowCaches
<1>4. \A i \in 1 .. 2 :
        Entry(FlowCaches[i], Function, At("ir", Function).of,
              IF FlowCaches[i] = "pseudocode" THEN prototypes ELSE {})
          = Full(binary, FlowCaches[i], Function)
  BY <1>1 DEF Full
<1>5. FlowEntries(n) \subseteq EntriesOf(binary, CacheNames, ToSet(binary.functions))
  BY <1>1, <1>2, <1>4, Names DEF FlowEntries, EntriesOf
<1>6. Emplaced(FlowEntries(n)) = caches \cup FlowEntries(n)
  BY <1>1, <1>5, EmplacedAll
<1>7. FlowEntries(2) = EntriesOf(binary, ToSet(FlowCaches), {Function})
  BY <1>2, <1>3, <1>4 DEF FlowEntries, EntriesOf
<1> QED BY <1>1, <1>5, <1>6, <1>7

LEMMA RecoverFunctionHolds == ASSUME IInv, RecoverFunction PROVE IInv'
<1>1. /\ binary \in Binaries /\ functions = binary.functions
      /\ current \in 1 .. Len(functions)
      /\ FlowEntries(2) \subseteq EntriesOf(binary, CacheNames, ToSet(binary.functions))
      /\ caches' = caches \cup FlowEntries(2)
      /\ FlowEntries(2) = EntriesOf(binary, ToSet(FlowCaches), {Function})
  BY FlowEntriesFull DEF RecoverFunction
<1>2. CachesInv'
  BY <1>1, NoBinaryAssumption DEF IInv, CachesInv, RecoverFunction
<1>3. Before(binary, current) = Before(binary, current - 1) \cup {Function}
  BY <1>1, BinaryFunctions DEF Function
<1>4. current + 1 - 1 = current /\ current + 1 \in 1 .. Len(functions) + 1
  BY <1>1, BinaryFunctions
<1>5. EntriesOf(binary, ToSet(FlowCaches), Before(binary, current)) \subseteq caches'
  BY <1>1, <1>3 DEF IInv, PhaseInv, EntriesOf, RecoverFunction
<1>6. PhaseInv'
  BY <1>1, <1>4, <1>5 DEF IInv, PhaseInv, Running, RecoverFunction
<1>7. ResultInv'
  BY DEF IInv, PhaseInv, Running, ResultInv, RecoverFunction
<1> QED BY <1>2, <1>6, <1>7 DEF IInv

LEMMA SucceedHolds == ASSUME IInv, Succeed PROVE IInv'
<1>1. /\ binary \in Binaries /\ functions = binary.functions /\ loader = binary
      /\ graph = functions /\ error = "none"
      /\ current \in 1 .. Len(functions) + 1
      /\ EntriesOf(binary, ToSet(FunctionCaches), ToSet(functions)) \subseteq caches
      /\ EntriesOf(binary, ToSet(FlowCaches), Before(binary, current - 1)) \subseteq caches
  BY DEF Succeed, IInv, PhaseInv, Running
<1>2. current - 1 = Len(functions)
  <2>1. Len(functions) \in Nat
    BY <1>1, BinaryFunctions
  <2> QED BY <1>1, <2>1 DEF Succeed, Remaining
<1>3. EntriesOf(binary, CacheNames, ToSet(functions)) \subseteq caches
  <2>1. Before(binary, current - 1) = ToSet(functions)
    BY <1>1, <1>2, BinaryFunctions
  <2> QED BY <1>1, <2>1 DEF EntriesOf, CacheNames
<1> QED BY <1>1, <1>3
        DEF Succeed, IInv, CachesInv, PhaseInv, ResultInv, Running, Phases

LEMMA ThrowHolds == ASSUME IInv, Throw PROVE IInv'
<1>1. /\ phase' = "idle" /\ valid' = FALSE /\ error' = "none"
      /\ UNCHANGED <<binary, functions>> /\ binary \in Binaries
  BY DEF Throw, IInv, PhaseInv, Running
<1>2. CachesInv'
  <2>1. CASE phase = "functions" /\ Remaining
             /\ \E n \in 0 .. 3 : caches' = Emplaced(FunctionEntries(n))
    BY <1>1, <2>1, FunctionEntriesFull, NoBinaryAssumption DEF IInv, CachesInv
  <2>2. CASE phase = "flow" /\ Remaining
             /\ \E n \in 0 .. 1 : caches' = Emplaced(FlowEntries(n))
    BY <1>1, <2>2, FlowEntriesFull, NoBinaryAssumption DEF IInv, CachesInv
  <2>3. CASE UNCHANGED caches
    BY <1>1, <2>3 DEF IInv, CachesInv
  <2> QED BY <2>1, <2>2, <2>3 DEF Throw
<1>3. PhaseInv'
  BY <1>1 DEF PhaseInv, Running, Phases
<1>4. ResultInv'
  BY <1>1 DEF ResultInv
<1> QED BY <1>2, <1>3, <1>4 DEF IInv

LEMMA StepHolds == IInv /\ [Next]_vars => IInv'
<1> SUFFICES ASSUME IInv, [Next]_vars PROVE IInv'
  OBVIOUS
<1>1. CASE UNCHANGED vars
  BY <1>1 DEF vars, IInv, CachesInv, PhaseInv, ResultInv, Running
<1>2. CASE Next
  BY <1>2, AnalyzeHolds, ResetHolds, LoadHolds, DiscoverHolds, AnalyseFunctionHolds,
     FunctionFailsHolds, BuildCallGraphHolds, CollectPrototypesHolds, RecoverFunctionHolds,
     SucceedHolds, ThrowHolds DEF Next, Step
<1> QED BY <1>1, <1>2

LEMMA InvariantHolds == Spec => []IInv
BY InitHolds, StepHolds, PTL DEF Spec

--------------------------------------------------------------------------------
(***************************************************************************)
(* functionAt.  The functions of a session ascend, whatever analyze was    *)
(* stopped by; over ascending functions every range is split by an address *)
(* in one place, and the half that the search goes on with is split in the *)
(* same place as the whole.                                                *)
(***************************************************************************)

\* The least of a set of numbers, which induction is made of here.
LEMMA LeastElement ==
  ASSUME NEW S \in SUBSET Nat, S # {}
  PROVE  \E m \in S : \A n \in S : m <= n
<1> DEFINE Less == {ss \in Nat \X Nat : ss[1] < ss[2]}
<1>1. IsWellFoundedOn(Less, Nat)
  BY NatLessThanWellFounded, Zenon DEF OpToRel
<1>2. \E m \in S : \A n \in S : ~ (<<n, m>> \in Less)
  <2> HIDE DEF Less
  <2> QED BY <1>1, WFMin
<1>3. \A n, m \in Nat : ~ (<<n, m>> \in Less) => m <= n
  OBVIOUS
<1> QED BY <1>2, <1>3

\* One unfolding of the search, for any function g in its place.
Halved(g, a) ==
  [r \in Places \X Places |->
     IF r[1] >= r[2] THEN r[1]
     ELSE IF functions[Middle(r)] < a
            THEN g[<<Middle(r) + 1, r[2]>>]
            ELSE g[<<r[1], Middle(r)>>]]

\* i splits lo .. hi at a.
Splits(a, lo, hi, i) ==
  /\ i \in lo .. hi
  /\ \A j \in lo .. i - 1 : functions[j] < a
  /\ \A j \in i .. hi - 1 : functions[j] >= a

Ascending ==
  /\ functions \in Seq(Nat)
  /\ \A i, j \in 1 .. Len(functions) : i < j => functions[i] < functions[j]

\* The middle of a range is in it.
LEMMA MiddleWithin ==
  ASSUME Len(functions) \in Nat, NEW lo \in Places, NEW hi \in Places, lo < hi
  PROVE  /\ Middle(<<lo, hi>>) \in lo .. hi - 1
         /\ Middle(<<lo, hi>>) \in Places /\ Middle(<<lo, hi>>) + 1 \in Places
BY DEF Middle, Places

\* There is one split of each range.
LEMMA SplitExists ==
  ASSUME Ascending, NEW a \in Nat, NEW lo \in Places,
         NEW hi \in Places, lo <= hi
  PROVE  \E i : Splits(a, lo, hi, i)
<1> DEFINE S == {i \in lo .. hi : i = hi \/ functions[i] >= a}
<1>1. Len(functions) \in Nat /\ lo \in Nat /\ hi \in Nat /\ 1 <= lo /\ hi <= Len(functions) + 1
  BY DEF Ascending, Places
<1>2. S \in SUBSET Nat /\ hi \in S
  BY <1>1
<1>3. PICK m \in S : \A n \in S : m <= n
  BY <1>2, LeastElement
<1>4. \A j \in lo .. hi - 1 : functions[j] \in Nat
  BY <1>1 DEF Ascending
<1>5. \A j \in lo .. m - 1 : functions[j] < a
  <2> TAKE j \in lo .. m - 1
  <2>1. j \in lo .. hi - 1 /\ ~ (m <= j)
    BY <1>1, <1>3
  <2>2. j \notin S
    BY <2>1, <1>3
  <2> QED BY <2>1, <2>2, <1>4, <1>1
<1>6. \A j \in m .. hi - 1 : functions[j] >= a
  <2> TAKE j \in m .. hi - 1
  <2>1. m # hi /\ functions[m] >= a /\ m \in lo .. hi - 1 /\ j \in lo .. hi - 1
    BY <1>1, <1>3
  <2>2. m < j => functions[m] < functions[j]
    <3>1. m \in 1 .. Len(functions) /\ j \in 1 .. Len(functions)
      BY <1>1, <2>1
    <3> QED BY <3>1 DEF Ascending
  <2>3. m = j \/ m < j
    BY <1>1, <2>1
  <2>4. functions[m] \in Nat /\ functions[j] \in Nat
    BY <1>4, <2>1
  <2> QED BY <2>1, <2>2, <2>3, <2>4
<1> QED BY <1>3, <1>5, <1>6, <1>1 DEF Splits

LEMMA SplitUnique ==
  ASSUME Ascending, NEW a \in Nat, NEW lo \in Places,
         NEW hi \in Places,
         NEW i, NEW k, Splits(a, lo, hi, i), Splits(a, lo, hi, k)
  PROVE  i = k
<1>1. Len(functions) \in Nat /\ i \in lo .. hi /\ k \in lo .. hi
      /\ lo \in Nat /\ hi \in Nat /\ 1 <= lo /\ hi <= Len(functions) + 1
  BY DEF Ascending, Splits, Places
<1>2. \A j \in lo .. hi - 1 : functions[j] \in Nat
  BY <1>1 DEF Ascending
<1>3. ASSUME NEW p \in lo .. hi, NEW q \in lo .. hi, p < q, Splits(a, lo, hi, p),
             Splits(a, lo, hi, q)
      PROVE FALSE
  <2>1. p \in lo .. q - 1 /\ p \in p .. hi - 1 /\ p \in lo .. hi - 1
    BY <1>1, <1>3
  <2>2. functions[p] < a /\ functions[p] >= a /\ functions[p] \in Nat
    BY <2>1, <1>2, <1>3 DEF Splits
  <2> QED BY <2>2
<1> QED BY <1>1, <1>3

\* The half that is searched next splits where the range does.
LEMMA SplitOfHalf ==
  ASSUME Ascending, NEW a \in Nat, NEW lo \in Places,
         NEW hi \in Places, lo < hi, NEW m \in lo .. hi - 1, NEW i
  PROVE  /\ functions[m] < a /\ Splits(a, m + 1, hi, i) => Splits(a, lo, hi, i)
         /\ ~ (functions[m] < a) /\ Splits(a, lo, m, i) => Splits(a, lo, hi, i)
<1>1. Len(functions) \in Nat /\ lo \in Nat /\ hi \in Nat /\ 1 <= lo /\ hi <= Len(functions) + 1
  BY DEF Ascending, Places
<1>2. \A j \in lo .. hi - 1 : functions[j] \in Nat
  BY <1>1 DEF Ascending
<1>3. ASSUME functions[m] < a, Splits(a, m + 1, hi, i) PROVE Splits(a, lo, hi, i)
  <2>1. i \in m + 1 .. hi /\ i \in lo .. hi
    BY <1>3, <1>1 DEF Splits
  <2>2. \A j \in lo .. i - 1 : functions[j] < a
    <3> TAKE j \in lo .. i - 1
    <3>1. CASE j \in m + 1 .. i - 1
      BY <3>1, <1>3 DEF Splits
    <3>2. CASE j = m
      BY <3>2, <1>3
    <3>3. CASE j < m
      <4>1. functions[j] < functions[m]
        BY <3>3, <2>1, <1>1 DEF Ascending
      <4>2. functions[j] \in Nat /\ functions[m] \in Nat
        BY <1>1, <1>2, <2>1
      <4> QED BY <4>1, <4>2, <1>3
    <3> QED BY <3>1, <3>2, <3>3, <2>1, <1>1
  <2> QED BY <1>3, <2>1, <2>2 DEF Splits
<1>4. ASSUME ~ (functions[m] < a), Splits(a, lo, m, i) PROVE Splits(a, lo, hi, i)
  <2>1. i \in lo .. m /\ i \in lo .. hi
    BY <1>4, <1>1 DEF Splits
  <2>2. \A j \in i .. hi - 1 : functions[j] >= a
    <3> TAKE j \in i .. hi - 1
    <3>0. functions[m] \in Nat /\ functions[j] \in Nat
      BY <1>1, <1>2, <2>1
    <3>1. CASE j \in i .. m - 1
      BY <3>1, <1>4 DEF Splits
    <3>2. CASE j = m
      BY <3>2, <3>0, <1>4
    <3>3. CASE m < j
      <4>1. functions[m] < functions[j]
        BY <3>3, <2>1, <1>1 DEF Ascending
      <4> QED BY <4>1, <3>0, <1>4
    <3> QED BY <3>1, <3>2, <3>3, <2>1, <1>1
  <2> QED BY <1>4, <2>1, <2>2 DEF Splits
<1> QED BY <1>3, <1>4

LEMMA SearchExists ==
  ASSUME Ascending, NEW a \in Nat
  PROVE  \E g : g = Halved(g, a)
<1> DEFINE R == Places \X Places
           g == [r \in R |->
                   IF r[1] >= r[2] THEN r[1] ELSE CHOOSE i : Splits(a, r[1], r[2], i)]
<1>1. Len(functions) \in Nat /\ Places \in SUBSET Nat
  BY DEF Ascending, Places
<1>2. \A lo, hi \in Places : lo <= hi => Splits(a, lo, hi, g[<<lo, hi>>])
  <2> SUFFICES ASSUME NEW lo \in Places, NEW hi \in Places, lo <= hi
               PROVE  Splits(a, lo, hi, g[<<lo, hi>>])
    OBVIOUS
  <2>0. <<lo, hi>> \in R /\ <<lo, hi>>[1] = lo /\ <<lo, hi>>[2] = hi
    OBVIOUS
  <2>1. CASE lo = hi
    <3>1. g[<<lo, hi>>] = lo
      BY <2>1, <1>1
    <3> HIDE DEF g
    <3> QED BY <3>1, <2>1, <1>1 DEF Splits
  <2>2. CASE lo < hi
    <3>1. ~ (lo >= hi)
      BY <2>2, <1>1
    <3>2. g[<<lo, hi>>] = CHOOSE i : Splits(a, lo, hi, i)
      BY <2>0, <3>1, Zenon
    <3>3. \E i : Splits(a, lo, hi, i)
      BY SplitExists
    <3> HIDE DEF g
    <3> QED BY <3>2, <3>3, Zenon
  <2> QED BY <2>1, <2>2, <1>1
<1>3. ASSUME NEW r \in R PROVE g[r] = Halved(g, a)[r]
  <2>0. PICK lo \in Places, hi \in Places : r = <<lo, hi>>
    OBVIOUS
  <2>1. CASE lo >= hi
    BY <2>0, <2>1 DEF Halved
  <2>2. CASE lo < hi
    <3>1. PICK m : m = Middle(r)
      OBVIOUS
    <3>2. m \in lo .. hi - 1 /\ m \in Places /\ m + 1 \in Places
      BY <3>1, <2>0, <2>2, <1>1, MiddleWithin
    <3>3. m + 1 <= hi /\ lo <= m /\ ~ (lo >= hi) /\ lo <= hi
      BY <3>2, <2>2, <1>1
    <3> HIDE DEF g
    <3>4. Halved(g, a)[r] = IF functions[m] < a THEN g[<<m + 1, hi>>] ELSE g[<<lo, m>>]
      <4>1. r[1] = lo /\ r[2] = hi
        BY <2>0
      <4> QED BY <4>1, <3>1, <3>3 DEF Halved
    <3>5. Splits(a, lo, hi, Halved(g, a)[r])
      <4>1. CASE functions[m] < a
        <5>1. Splits(a, m + 1, hi, g[<<m + 1, hi>>])
          BY <3>2, <3>3, <1>2
        <5> QED BY <4>1, <5>1, <3>2, <3>4, <2>2, SplitOfHalf
      <4>2. CASE ~ (functions[m] < a)
        <5>1. Splits(a, lo, m, g[<<lo, m>>])
          BY <3>2, <3>3, <1>2
        <5> QED BY <4>2, <5>1, <3>2, <3>4, <2>2, SplitOfHalf
      <4> QED BY <4>1, <4>2
    <3>6. Splits(a, lo, hi, g[r])
      BY <1>2, <3>3, <2>0
    <3> QED BY <3>5, <3>6, SplitUnique
  <2> QED BY <2>1, <2>2, <1>1
<1>4. g = Halved(g, a)
  <2>1. g = [p \in R |-> g[p]] /\ Halved(g, a) = [p \in R |-> Halved(g, a)[p]]
    BY DEF Halved
  <2> HIDE DEF g
  <2> QED BY <1>3, <2>1
<1> QED BY <1>4

\* What the search computes, for any function that satisfies its equation.
LEMMA SearchSplits ==
  ASSUME Ascending, NEW a \in Nat, NEW g, g = Halved(g, a),
         NEW lo \in Places, NEW hi \in Places, lo <= hi
  PROVE  Splits(a, lo, hi, g[<<lo, hi>>])
<1>1. Len(functions) \in Nat /\ Places \in SUBSET Nat
  BY DEF Ascending, Places
<1> DEFINE Wrong(d) == \E p, q \in Places : q = p + d /\ ~ Splits(a, p, q, g[<<p, q>>])
           D == {d \in Nat : Wrong(d)}
<1>2. SUFFICES D = {}
  <2>1. hi - lo \in Nat /\ hi = lo + (hi - lo)
    BY <1>1
  <2>2. hi - lo \notin D
    BY <1>2
  <2>3. ~ Wrong(hi - lo)
    BY <2>1, <2>2
  <2> QED BY <2>1, <2>3
<1>3. SUFFICES ASSUME D # {} PROVE FALSE
  OBVIOUS
<1>4. PICK d \in D : \A e \in D : d <= e
  BY <1>3, LeastElement
<1>5. PICK p \in Places, q \in Places : q = p + d /\ ~ Splits(a, p, q, g[<<p, q>>])
  BY <1>4
<1>6. ASSUME NEW u \in Places, NEW v \in Places, u <= v, v - u < d
      PROVE  Splits(a, u, v, g[<<u, v>>])
  <2>1. v - u \in Nat /\ v = u + (v - u) /\ ~ (d <= v - u)
    BY <1>1, <1>6, <1>4
  <2>2. ~ Wrong(v - u)
    BY <2>1, <1>4
  <2> QED BY <2>1, <2>2
<1>7. <<p, q>> \in Places \X Places /\ <<p, q>>[1] = p /\ <<p, q>>[2] = q
  OBVIOUS
<1>8. CASE d = 0
  <2>1. p = q /\ p >= q
    BY <1>8, <1>5, <1>1
  <2>2. Halved(g, a)[<<p, q>>] = p
    BY <1>7, <2>1 DEF Halved
  <2>3. g[<<p, q>>] = p
    BY <2>2
  <2> QED BY <2>1, <2>3, <1>5, <1>1 DEF Splits
<1>9. CASE d # 0
  <2>1. p < q /\ ~ (p >= q)
    BY <1>9, <1>5, <1>1
  <2>2. PICK m : m = Middle(<<p, q>>)
    OBVIOUS
  <2>3. m \in p .. q - 1 /\ m \in Places /\ m + 1 \in Places
    BY <2>1, <2>2, <1>1, MiddleWithin
  <2>4. Halved(g, a)[<<p, q>>] = IF functions[m] < a THEN g[<<m + 1, q>>] ELSE g[<<p, m>>]
    BY <1>7, <2>1, <2>2 DEF Halved
  <2>5. m + 1 <= q /\ p <= m /\ q - (m + 1) < d /\ m - p < d
    BY <2>3, <1>1, <1>5
  <2>6. g[<<p, q>>] = IF functions[m] < a THEN g[<<m + 1, q>>] ELSE g[<<p, m>>]
    BY <2>4
  <2>7. CASE functions[m] < a
    <3>1. Splits(a, m + 1, q, g[<<m + 1, q>>])
      BY <1>6, <2>3, <2>5
    <3> QED BY <3>1, <2>7, <2>6, <2>3, <2>1, <1>5, SplitOfHalf
  <2>8. CASE ~ (functions[m] < a)
    <3>1. Splits(a, p, m, g[<<p, m>>])
      BY <1>6, <2>3, <2>5
    <3> QED BY <3>1, <2>8, <2>6, <2>3, <2>1, <1>5, SplitOfHalf
  <2> QED BY <2>7, <2>8
<1> QED BY <1>8, <1>9

\* lower_bound: the functions before it are below a, the others are not.
LEMMA LowerBoundSplits ==
  ASSUME Ascending, NEW a \in Nat
  PROVE  Splits(a, 1, Len(functions) + 1, LowerBound(a))
<1> DEFINE g == CHOOSE f : f = Halved(f, a)
<1>1. g = Halved(g, a)
  BY SearchExists, Zenon
<1>2. LowerBound(a) = g[<<1, Len(functions) + 1>>]
  BY Zenon DEF LowerBound, Halved
<1>3. 1 \in Places /\ Len(functions) + 1 \in Places /\ 1 <= Len(functions) + 1
  BY DEF Ascending, Places
<1> HIDE DEF g
<1> QED BY <1>1, <1>2, <1>3, SearchSplits

\* functionAt, wherever the functions ascend.
LEMMA FunctionAtCorrect ==
  ASSUME Ascending PROVE FunctionAtFinds
<1>1. Len(functions) \in Nat /\ ToSet(functions) = {functions[i] : i \in 1 .. Len(functions)}
  BY DEF Ascending, ToSet
<1>2. \A i \in 1 .. Len(functions) : functions[i] \in Nat
  BY <1>1 DEF Ascending
<1>3. ASSUME NEW a \in Nat
      PROVE  IF a \in ToSet(functions)
               THEN FunctionAt(a) # 0 /\ functions[FunctionAt(a)] = a
               ELSE FunctionAt(a) = 0
  <2>1. PICK i : i = LowerBound(a)
    OBVIOUS
  <2>2. /\ i \in 1 .. Len(functions) + 1
        /\ \A j \in 1 .. i - 1 : functions[j] < a
        /\ \A j \in i .. Len(functions) + 1 - 1 : functions[j] >= a
    BY <2>1, LowerBoundSplits DEF Splits
  <2>3. FunctionAt(a) = IF i > Len(functions) \/ functions[i] # a THEN 0 ELSE i
    BY <2>1 DEF FunctionAt
  <2>4. CASE i > Len(functions) \/ functions[i] # a
    <3>1. FunctionAt(a) = 0
      BY <2>3, <2>4
    <3>2. a \notin ToSet(functions)
      <4> SUFFICES ASSUME NEW k \in 1 .. Len(functions), functions[k] = a PROVE FALSE
        BY <1>1
      <4>1. ~ (k < i)
        <5>1. k < i => k \in 1 .. i - 1
          BY <2>2, <1>1
        <5> QED BY <5>1, <2>2, <1>2
      <4>2. i <= Len(functions) /\ i < k
        BY <4>1, <2>2, <2>4, <1>1
      <4>3. functions[i] < functions[k] /\ functions[i] >= a
        BY <4>2, <2>2, <1>1 DEF Ascending
      <4> QED BY <4>2, <4>3, <1>2, <2>2
    <3> QED BY <3>1, <3>2
  <2>5. CASE ~ (i > Len(functions) \/ functions[i] # a)
    <3>1. i \in 1 .. Len(functions) /\ functions[i] = a /\ i # 0
      BY <2>5, <2>2, <1>1
    <3>2. FunctionAt(a) = i /\ a \in ToSet(functions)
      BY <2>3, <2>5, <3>1, <1>1
    <3> QED BY <3>1, <3>2
  <2> QED BY <2>4, <2>5
<1>4. {0} \cup UNION {{f, f + 1} : f \in ToSet(functions)} \subseteq Nat
  BY <1>1, <1>2
<1> QED BY <1>3, <1>4 DEF FunctionAtFinds

\* Also after an exception the functions are those of the binary, or none.
FunctionsInv ==
  \/ functions = <<>>
  \/ binary \in Binaries /\ functions = binary.functions

LEMMA FunctionsStep == IInv /\ FunctionsInv /\ [Next]_vars => FunctionsInv'
<1> SUFFICES ASSUME IInv, FunctionsInv, [Next]_vars PROVE FunctionsInv'
  OBVIOUS
<1>1. CASE \E b \in Binaries : Analyze(b)
  BY <1>1 DEF Analyze, Cleared, FunctionsInv
<1>2. CASE Reset
  BY <1>2 DEF Reset, Cleared, FunctionsInv
<1>3. CASE Discover
  BY <1>3 DEF Discover, IInv, PhaseInv, Running, FunctionsInv
<1>4. CASE FunctionFails
  BY <1>4 DEF FunctionFails, FunctionsInv
<1>5. CASE BuildCallGraph
  BY <1>5 DEF BuildCallGraph, Cleared, FunctionsInv
<1>6. CASE UNCHANGED <<functions, binary>>
  BY <1>6 DEF FunctionsInv
<1> QED
  <2>1. (Load \/ AnalyseFunction \/ CollectPrototypes \/ RecoverFunction \/ Succeed \/ Throw
           \/ UNCHANGED vars) => UNCHANGED <<functions, binary>>
    BY DEF Load, AnalyseFunction, CollectPrototypes, RecoverFunction, Succeed, Throw, vars
  <2> QED BY <1>1, <1>2, <1>3, <1>4, <1>5, <1>6, <2>1 DEF Next, Step

LEMMA FunctionsAscend == FunctionsInv => Ascending
<1>1. CASE functions = <<>>
  BY <1>1 DEF Ascending
<1>2. CASE binary \in Binaries /\ functions = binary.functions
  BY <1>2, BinariesAssumption DEF Ascending
<1> QED BY <1>1, <1>2 DEF FunctionsInv

--------------------------------------------------------------------------------
(***************************************************************************)
(* The theorems.                                                           *)
(***************************************************************************)

\* Every entry, as the invariant describes it.
LEMMA EntryIsFull ==
  ASSUME IInv, NEW e \in caches
  PROVE  /\ binary \in Binaries
         /\ \E c \in CacheNames, f \in ToSet(binary.functions) : e = Full(binary, c, f)
BY DEF IInv, CachesInv, PhaseInv, EntriesOf

(***************************************************************************)
(* No cache entry outlives the analysis it was made in: reset clears the   *)
(* caches before emplace, which overwrites nothing, fills them.            *)
(***************************************************************************)
THEOREM EntriesFresh == Spec => []NoStaleEntries
<1>1. IInv => NoStaleEntries
  BY EntryIsFull, FullFields DEF NoStaleEntries
<1> QED BY <1>1, InvariantHolds, PTL

(***************************************************************************)
(* A session that says it is valid answers completely for its binary, with *)
(* one entry for each function in each of the six caches.                  *)
(***************************************************************************)
THEOREM ValidComplete == Spec => []ValidMeansComplete
<1>1. ASSUME IInv, valid PROVE ValidMeansComplete
  <2>1. \A c \in CacheNames, f \in ToSet(functions) : Holds(c, f)
    <3>1. EntriesOf(binary, CacheNames, ToSet(functions)) \subseteq caches
      BY <1>1 DEF IInv, ResultInv
    <3>2. ASSUME NEW c \in CacheNames, NEW f \in ToSet(functions)
          PROVE  Full(binary, c, f) \in caches
      BY <3>1 DEF EntriesOf
    <3> QED BY <3>2, FullFields DEF Holds
  <2>2. \A e \in caches : e.address \in ToSet(functions)
    BY <1>1, EntryIsFull, FullFields DEF IInv, ResultInv
  <2>3. \A d, e \in caches : d.cache = e.cache /\ d.address = e.address => d = e
    BY <1>1, EntryIsFull, FullFields
  <2> QED BY <1>1, <2>1, <2>2, <2>3 DEF IInv, ResultInv, ValidMeansComplete
<1>2. IInv => ValidMeansComplete
  BY <1>1 DEF ValidMeansComplete
<1> QED BY <1>2, InvariantHolds, PTL

(***************************************************************************)
(* An analysis that returns an error leaves no function, no entry and no   *)
(* call graph.                                                             *)
(***************************************************************************)
THEOREM FailureEmpty == Spec => []FailureLeavesNothing
<1>1. IInv => FailureLeavesNothing
  BY DEF IInv, ResultInv, FailureLeavesNothing
<1> QED BY <1>1, InvariantHolds, PTL

(***************************************************************************)
(* Pseudocode is generated with the prototypes of all functions of its own *)
(* binary, whatever the order of the functions.                            *)
(***************************************************************************)
THEOREM PrototypesSeen == Spec => []PrototypesComplete
<1>1. IInv => PrototypesComplete
  BY EntryIsFull, FullFields DEF PrototypesComplete
<1> QED BY <1>1, InvariantHolds, PTL

(***************************************************************************)
(* The first loop caches what CallGraph::build and the second loop take.   *)
(***************************************************************************)
THEOREM LoopsFit == Spec => []LoopsFitTogether
<1>1. ASSUME IInv, phase \in {"prototypes", "flow"},
             NEW c \in ToSet(FunctionCaches), NEW f \in ToSet(functions)
      PROVE  Holds(c, f)
  <2>1. Full(binary, c, f) \in caches
    BY <1>1 DEF IInv, PhaseInv, EntriesOf
  <2> QED BY <2>1, FullFields DEF Holds
<1>2. IInv => LoopsFitTogether
  BY <1>1 DEF IInv, ResultInv, LoopsFitTogether
<1> QED BY <1>2, InvariantHolds, PTL

(***************************************************************************)
(* An analysis leaves all of its binary or says that it has not, and never *)
(* because one of its loops has not cached what the next one takes.        *)
(***************************************************************************)
THEOREM AnalysisComplete == Spec => []AllOrNothing
<1>1. ValidMeansComplete /\ FailureLeavesNothing /\ LoopsFitTogether => AllOrNothing
  BY DEF AllOrNothing
<1> QED BY <1>1, ValidComplete, FailureEmpty, LoopsFit, PTL

(***************************************************************************)
(* functionAt answers with the function at an address and with none        *)
(* between two functions, in every state of the session: the binary search *)
(* of std::lower_bound is right because the functions always ascend.       *)
(***************************************************************************)
THEOREM FunctionFound == Spec => []FunctionAtFinds
<1>1. Init => FunctionsInv
  BY DEF Init, FunctionsInv
<1>2. FunctionsInv => FunctionAtFinds
  BY FunctionsAscend, FunctionAtCorrect
<1> QED BY <1>1, <1>2, FunctionsStep, InvariantHolds, PTL DEF Spec

--------------------------------------------------------------------------------
(***************************************************************************)
(* The registers that the recovery offers to a call.                       *)
(***************************************************************************)

StateFields ==
  {"registerValues", "stackValues", "registerVariables", "availableRegisters", "nextTemporary",
   "nextCallResult", "comparison", "stale", "storedIn"}

\* What a step of the recovery may make of the registers that are offered to calls.
Offers(t, registers) == DOMAIN t = StateFields /\ t.availableRegisters \subseteq registers

\* The registers that a call among the first n instructions of b has destroyed and
\* nothing has written since.
Destroyed(b, n) ==
  {r \in CallClobbered \ {"rax"} :
     \E m \in 1 .. n : b[m].code = "call" /\ \A k \in m .. n : r \notin RegistersWritten(b[k])}

LEMMA AssignedOffers ==
  ASSUME NEW s, DOMAIN s = StateFields, NEW name
  PROVE  Offers(Assigned(s, name), s.availableRegisters)
BY DEF Offers, Assigned, StateFields

LEMMA ComparedOffers ==
  ASSUME NEW s, DOMAIN s = StateFields, NEW left, NEW right, NEW isBitTest
  PROVE  Offers(Compared(s, left, right, isBitTest), s.availableRegisters)
BY DEF Offers, Compared, StateFields

LEMMA FlagsOffers ==
  ASSUME NEW s, NEW R, Offers(s, R), NEW i
  PROVE  Offers(FlagsWritten(s, i), R)
BY DEF Offers, FlagsWritten, StateFields

LEMMA AssignmentOffers ==
  ASSUME NEW s, DOMAIN s = StateFields, NEW declared, NEW name, NEW text, NEW l
  PROVE  Offers(Assignment(s, declared, name, text, l).state, s.availableRegisters)
BY AssignedOffers DEF Assignment, Outcome, Offers

LEMMA WriteOffers ==
  ASSUME NEW s, DOMAIN s = StateFields, NEW declared, NEW b, NEW destination, NEW text, NEW l,
         ~ Materialize
  PROVE  Offers(Write(s, declared, b, destination, text, l).state,
                s.availableRegisters \cup ({destination.register} \ {NoRegister}))
<1> DEFINE r == destination.register
           d == destination.offset
           stored == [s EXCEPT !.stackValues = Put(@, d, text), !.storedIn = Put(@, d, b),
                               !.stale = @ \ {<<"slot", d>>}]
           added == [s EXCEPT !.availableRegisters = @ \cup {r}]
           known == [added EXCEPT !.registerValues = Put(@, r, text), !.stale = @ \ {<<"register", r>>}]
<1>1. Offers(stored, s.availableRegisters) /\ Offers(s, s.availableRegisters)
  BY DEF Offers, StateFields
<1>2. Offers(known, s.availableRegisters \cup {r})
  BY DEF Offers, StateFields
<1>3. CASE r \in FrameRegisters
  <2>1. Write(s, declared, b, destination, text, l).state = s
    BY <1>3, RegistersAssumption DEF Write, Outcome
  <2> QED BY <2>1, <1>1 DEF Offers
<1>4. CASE r # NoRegister /\ r \notin FrameRegisters
  <2>1. Write(s, declared, b, destination, text, l).state = known
    BY <1>4 DEF Write, Outcome
  <2> QED BY <2>1, <1>2, <1>4 DEF Offers
<1>5. CASE r = NoRegister
  <2>1. r \notin FrameRegisters
    BY <1>5, RegistersAssumption
  <2>2. Write(s, declared, b, destination, text, l)
          = Assignment(IF d = NoOffset THEN s ELSE stored, declared, destination.name, text, l)
    BY <1>5, <2>1 DEF Write
  <2>3. CASE d = NoOffset
    BY <2>2, <2>3, AssignmentOffers DEF Offers
  <2>4. CASE d # NoOffset
    <3>1. Offers(Assignment(stored, declared, destination.name, text, l).state, stored.availableRegisters)
      BY <1>1, AssignmentOffers DEF Offers
    <3> QED BY <2>2, <2>4, <3>1, <1>1 DEF Offers
  <2> QED BY <2>3, <2>4
<1> QED BY <1>3, <1>4, <1>5

LEMMA ConditionalOffers ==
  ASSUME NEW s, DOMAIN s = StateFields, NEW declared, NEW b, NEW destination, NEW condition,
         NEW choices, NEW l
  PROVE  Offers(WriteConditional(s, declared, b, destination, condition, choices, l).state,
                s.availableRegisters \cup ({destination.register} \ {NoRegister}))
<1> DEFINE r == destination.register
           d == destination.offset
           new == NewName(s, declared, r = "rax")
           known == r \in DOMAIN s.registerVariables
           name  == IF known THEN s.registerVariables[r] ELSE new.name
           t == Assigned(s, name)
           u == Assigned(s, destination.name)
           selected == [t EXCEPT !.registerVariables = Put(@, r, name),
                                  !.nextTemporary = IF known THEN @ ELSE new.next,
                                  !.availableRegisters = @ \cup {r},
                                  !.registerValues = Without(@, {r}),
                                  !.stale = @ \ {<<"register", r>>}]
           stored == [u EXCEPT !.stackValues = Put(@, d, Text(destination.name)),
                                       !.storedIn = Put(@, d, b),
                                       !.stale = @ \ {<<"slot", d>>}]
<1>1. Offers(t, s.availableRegisters) /\ Offers(u, s.availableRegisters)
      /\ Offers(s, s.availableRegisters)
  BY AssignedOffers DEF Offers
<1>2. Offers(selected, s.availableRegisters \cup {r})
  <2> HIDE DEF t, name, known, new
  <2> QED BY <1>1 DEF Offers, StateFields
<1>3. Offers(stored, s.availableRegisters)
  <2> HIDE DEF u
  <2> QED BY <1>1 DEF Offers, StateFields
<1>4. CASE r \in FrameRegisters
  <2>1. WriteConditional(s, declared, b, destination, condition, choices, l).state = s
    BY <1>4, RegistersAssumption DEF WriteConditional, Outcome
  <2> QED BY <2>1, <1>1 DEF Offers
<1>5. CASE r # NoRegister /\ r \notin FrameRegisters
  <2>1. WriteConditional(s, declared, b, destination, condition, choices, l).state = selected
    BY <1>5 DEF WriteConditional, Outcome
  <2> QED BY <2>1, <1>2, <1>5 DEF Offers
<1>6. CASE r = NoRegister
  <2>1. r \notin FrameRegisters
    BY <1>6, RegistersAssumption
  <2>2. WriteConditional(s, declared, b, destination, condition, choices, l).state
          = IF d = NoOffset THEN u ELSE stored
    BY <1>6, <2>1 DEF WriteConditional, Outcome
  <2> QED BY <2>2, <1>1, <1>3 DEF Offers
<1> QED BY <1>4, <1>5, <1>6

LEMMA CallOffers ==
  ASSUME NEW s, DOMAIN s = StateFields, NEW declared, NEW b, NEW given, ~ Materialize
  PROVE  /\ Offers(Call(s, declared, b, given).state, (s.availableRegisters \ CallClobbered) \cup {"rax"})
         /\ Call(s, declared, b, given).statement.arguments = given
<1> DEFINE new == NewName(s, declared, s.nextCallResult = 0)
           t == Assigned(s, new.name)
           dropped == DropClobbered(t)
           u == [dropped EXCEPT !.availableRegisters = @ \cup {"rax"},
                                !.nextTemporary = new.next,
                                !.nextCallResult = @ + 1]
           v == [u EXCEPT !.registerValues = Put(@, "rax", Text(new.name))]
<1>1. Offers(t, s.availableRegisters)
  BY AssignedOffers
<1>2. Offers(dropped, s.availableRegisters \ CallClobbered)
  <2> HIDE DEF t
  <2> QED BY <1>1 DEF Offers, DropClobbered, StateFields
<1>3. Offers(v, (s.availableRegisters \ CallClobbered) \cup {"rax"})
  <2> HIDE DEF dropped, new
  <2> QED BY <1>2 DEF Offers, StateFields
<1>4. /\ Call(s, declared, b, given).state = v
      /\ Call(s, declared, b, given).statement.arguments = given
  BY DEF Call, Outcome, Statement
<1> QED BY <1>3, <1>4

\* A register that the IR names as the destination is one that the instruction writes.
LEMMA DestinationWritten ==
  ASSUME NEW i \in DecodedInstructions, NEW a,
         Lift(i, a).destination.register # NoRegister, i.code # "call"
  PROVE  Lift(i, a).destination.register \in RegistersWritten(i)
<1> DEFINE target == OperandValue(i.operands[1], a, TRUE)
           explicit == Arithmetic \cup {"mov", "movzx", "lea", "neg", "set", "cmov", "imul3", "pop"}
<1>1. ASSUME i.code \in explicit
      PROVE  /\ Lift(i, a).destination = target
             /\ OperandsWritten(i) = {i.operands[1]}
             /\ i.operands[1] \in Operands
  <2>1. OperandsWritten(i) = {i.operands[1]}
    BY <1>1 DEF OperandsWritten
  <2>2. i.operands[1] \in Operands
    BY <1>1 DEF DecodedInstructions, OperandCount, Arithmetic
  <2>3. CASE i.code = "mov"
    BY <2>1, <2>2, <2>3 DEF Lift, LiftMove, Lifted, Arithmetic, Transfers
  <2>4. CASE i.code = "lea"
    BY <2>1, <2>2, <2>4 DEF Lift, LiftLea, Lifted, Arithmetic, Transfers
  <2>5. CASE i.code \in {"imul", "imul3"}
    BY <2>1, <2>2, <2>5 DEF Lift, LiftMultiply, Lifted, Arithmetic, Transfers
  <2>6. CASE i.code \in Arithmetic \ {"imul"}
    BY <2>1, <2>2, <2>6 DEF Lift, Lifted, Arithmetic, Transfers
  <2>7. CASE i.code \in {"pop", "movzx", "neg"}
    BY <2>1, <2>2, <2>7 DEF Lift, Lifted, Arithmetic, Transfers
  <2>8. CASE i.code \in {"set", "cmov"}
    BY <2>1, <2>2, <2>8 DEF Lift, LiftConditionalSelect, Lifted, Arithmetic, Transfers
  <2> QED BY <1>1, <2>1, <2>2, <2>3, <2>4, <2>5, <2>6, <2>7, <2>8 DEF Arithmetic
<1>2. ASSUME i.code \notin explicit
      PROVE  \/ i.code \in {"mul", "idiv"} /\ Lift(i, a).destination.register = "rax"
             \/ Lift(i, a).destination.register = NoRegister
  <2>1. CASE i.code \in {"mul", "idiv"}
    BY <2>1 DEF Lift, LiftMultiply, Lifted, ReturnRegisterValue, IRValue, Arithmetic, Transfers
  <2>2. CASE i.code = "push"
    BY <2>2 DEF Lift, Lifted, TopValue, IRValue, Arithmetic, Transfers
  <2>3. CASE i.code \in Transfers
    BY <2>1, <2>2, <2>3 DEF Lift, LiftTransfer, Transfers, Lifted, NoValue, IRValue, Arithmetic
  <2>4. CASE i.code \notin {"mul", "idiv", "push"} \cup Transfers
    BY <1>2, <2>4 DEF Lift, Transfers, Lifted, NoValue, IRValue, Arithmetic
  <2> QED BY <2>1, <2>2, <2>3, <2>4
<1>3. CASE i.code \in explicit
  <2>1. target.register # NoRegister => IsRegister(i.operands[1]) /\ target.register = i.operands[1][2]
    <3>1. CASE i.operands[1][1] = "register"
      BY <3>1 DEF OperandValue, RegisterValue, IRValue, IsRegister
    <3>2. CASE i.operands[1][1] = "immediate"
      BY <3>2 DEF OperandValue, ImmediateValue, IRValue
    <3>3. CASE i.operands[1][1] = "memory"
      BY <3>3 DEF OperandValue, MemoryValue, IRValue
    <3> QED BY <1>3, <1>1, <3>1, <3>2, <3>3 DEF Operands
  <2> QED BY <1>1, <1>3, <2>1 DEF RegistersWritten, RegistersAmong
<1>4. CASE i.code \notin explicit
  BY <1>2, <1>4 DEF RegistersWritten, ImplicitlyWritten
<1> QED BY <1>3, <1>4

\* The step of the recovery that an instruction makes goes by the operation of the IR.
LEMMA Operations ==
  ASSUME NEW i, NEW a
  PROVE  /\ i.code = "frame" => Lift(i, a).opcode = "Unknown"
         /\ i.code = "lea" => Lift(i, a).opcode = "+"
         /\ i.code = "call" <=> Lift(i, a).opcode = "Call"
<1>1. CASE i.code \in {"frame", "lea", "call"}
  BY <1>1 DEF Lift, LiftLea, LiftTransfer, Lifted, Arithmetic, Transfers
<1>2. CASE i.code \notin {"frame", "lea", "call"}
  <2>1. CASE i.code = "mov"
    BY <2>1 DEF Lift, LiftMove, MoveOpcode, Lifted, Arithmetic, Transfers
  <2>2. CASE i.code \in {"mul", "imul", "imul3"}
    BY <2>2 DEF Lift, LiftMultiply, Lifted, Arithmetic, Transfers
  <2>3. CASE i.code \in Arithmetic \ {"imul"}
    <3>1. BinaryOpcode[i.code] # "Call"
      BY <2>3 DEF BinaryOpcode, Arithmetic
    <3> QED BY <2>3, <3>1 DEF Lift, Lifted, Arithmetic, Transfers
  <2>4. CASE i.code \in {"set", "cmov"}
    BY <2>4 DEF Lift, LiftConditionalSelect, Lifted, Arithmetic, Transfers
  <2>5. CASE i.code \in Transfers
    BY <1>2, <2>5 DEF Lift, LiftTransfer, Lifted, Arithmetic, Transfers
  <2>6. CASE i.code \in {"idiv", "push", "pop", "movzx", "neg", "cmp", "test", "nop"}
    BY <2>6 DEF Lift, Lifted, Arithmetic, Transfers
  <2>7. CASE i.code \notin {"mov", "mul", "imul", "imul3", "set", "cmov", "idiv", "push", "pop", "movzx",
                            "neg", "cmp", "test", "nop"} \cup Arithmetic \cup Transfers
    BY <1>2, <2>7 DEF Lift, Lifted, Arithmetic, Transfers
  <2> QED BY <2>1, <2>2, <2>3, <2>4, <2>5, <2>6, <2>7
<1> QED BY <1>1, <1>2

\* An instruction offers what it writes, and a call only its result.
LEMMA RecoverOffers ==
  ASSUME NEW s, DOMAIN s = StateFields, NEW declared, NEW b, NEW i \in DecodedInstructions,
         ~ Materialize
  PROVE  /\ i.code # "call" =>
              Offers(Recover(s, declared, b, i).state, s.availableRegisters \cup RegistersWritten(i))
         /\ i.code = "call" =>
              /\ Offers(Recover(s, declared, b, i).state,
                        (s.availableRegisters \ CallClobbered) \cup {"rax"})
              /\ Recover(s, declared, b, i).statement.arguments = Arguments(s)
<1> DEFINE ir == Lift(i, abi)
           R == Recover(s, declared, b, i)
           written == s.availableRegisters \cup ({ir.destination.register} \ {NoRegister})
<1>0. /\ i.code = "frame" => ir.opcode = "Unknown"
      /\ i.code = "lea" => ir.opcode = "+"
      /\ i.code = "call" <=> ir.opcode = "Call"
  BY Operations
<1>1. CASE i.code = "call"
  <2>1. R = Call(s, declared, b, Arguments(s))
    BY <1>0, <1>1 DEF Recover, BinaryOperators
  <2> QED BY <1>1, <2>1, CallOffers
<1>2. CASE i.code # "call"
  <2>1. Offers(s, written)
    BY DEF Offers
  <2>2. \A text, l : Offers(Write(s, declared, b, ir.destination, text, l).state, written)
    BY WriteOffers
  <2>3. Offers(R.state, written)
    <3>1. CASE i.code = "frame"
      BY <2>1, <3>1, <1>0 DEF Recover, Outcome, BinaryOperators
    <3>2. CASE i.code = "lea"
      <4>1. PICK text, l : R = Write(s, declared, b, ir.destination, text, l)
        BY <3>2, <1>0 DEF Recover, BinaryOperators
      <4> QED BY <4>1, <2>2
    <3>3. CASE i.code \notin {"frame", "lea"} /\ ir.opcode \in BinaryOperators
      <4>1. PICK text, l : R = Write(s, declared, b, ir.destination, text, l)
        BY <3>3, <1>0 DEF Recover, BinaryOperators
      <4> QED BY <4>1, <2>2
    <3>4. CASE i.code \notin {"frame", "lea"} /\ ir.opcode \in {"Assign", "Store", "Load", "Cast"}
      <4>1. PICK text, l : R = Write(s, declared, b, ir.destination, text, l)
        BY <3>4, <1>0 DEF Recover, BinaryOperators
      <4> QED BY <4>1, <2>2
    <3>5. CASE i.code \notin {"frame", "lea"} /\ ir.opcode = "Negate"
      <4>1. PICK text, l : R = RecoverNegation(s, declared, b, ir, l)
        BY <3>5, <1>0 DEF Recover, BinaryOperators
      <4> DEFINE negation == Negation(ValueText(s, ir.operands[1]))
                 t == Compared(s, negation, Constant(0), FALSE)
      <4>2. Offers(t, s.availableRegisters)
        BY ComparedOffers
      <4>3. R = Write(t, declared, b, ir.destination, negation, l)
        BY <4>1 DEF RecoverNegation
      <4>4. Offers(R.state, t.availableRegisters \cup ({ir.destination.register} \ {NoRegister}))
        <5> HIDE DEF t, negation
        <5> QED BY <4>2, <4>3, WriteOffers DEF Offers
      <4> QED BY <4>2, <4>4 DEF Offers
    <3>6. CASE i.code \notin {"frame", "lea"} /\ ir.opcode = "Compare"
      <4>1. R = RecoverCompare(s, declared, b, i, ir.operands)
        BY <3>6, <1>0 DEF Recover, BinaryOperators
      <4> QED BY <4>1, ComparedOffers DEF RecoverCompare, Outcome, Offers
    <3>7. CASE i.code \notin {"frame", "lea"} /\ ir.opcode = "ConditionalSelect"
      <4>1. PICK condition, choices, l :
              R = WriteConditional(s, declared, b, ir.destination, condition, choices, l)
        BY <3>7, <1>0 DEF Recover, BinaryOperators
      <4> QED BY <4>1, ConditionalOffers
    <3>8. CASE /\ i.code \notin {"frame", "lea"}
               /\ ir.opcode \notin BinaryOperators
                    \cup {"Assign", "Store", "Load", "Cast", "Negate", "Compare", "ConditionalSelect"}
      <4>1. R.state = s
        BY <1>2, <3>8, <1>0 DEF Recover, Outcome, BinaryOperators
      <4> QED BY <4>1, <2>1
    <3> QED BY <3>1, <3>2, <3>3, <3>4, <3>5, <3>6, <3>7, <3>8
  <2>4. written \subseteq s.availableRegisters \cup RegistersWritten(i)
    BY <1>2, DestinationWritten
  <2> QED BY <1>2, <2>3, <2>4 DEF Offers
<1> QED BY <1>1, <1>2

\* The one block of a function, and how much of it has been recovered.
Block == program[1]

Done == IF blocks = <<>> THEN 0 ELSE Len(blocks[1])

\* No recovered call is given a register that an earlier one destroyed.
ArgumentsInv ==
  \A j \in 1 .. Done : Block[j].code = "call" =>
    \A k \in DOMAIN ParameterRegisters :
      ParameterRegisters[k] \in Destroyed(Block, j - 1) => StatementAt(1, j).arguments[k] = NoText

RecoveryInv ==
  /\ stage \in {"abi", "prepare"} => blocks = <<>>
  /\ blocks # <<>> => blocks = <<blocks[1]>> /\ (\E S : blocks[1] \in Seq(S)) /\ Done \in 1 .. Len(Block)
  /\ stage = "recover" =>
       DOMAIN state = StateFields /\ state.availableRegisters \cap Destroyed(Block, Done) = {}
  /\ ArgumentsInv

ExecutionInv ==
  /\ stage \in {"abi", "prepare", "recover"} => at = <<1, 1>> /\ steps = 0 /\ clobbered = {}
  /\ stage = "execute" =>
       /\ Done = Len(Block)
       /\ at = <<1, at[2]>> /\ at[2] \in 1 .. Len(Block) /\ steps \in Nat /\ at[2] <= steps + 1
       /\ at[2] = steps + 1 => clobbered = Destroyed(Block, steps)

FlowInv ==
  /\ program \in Programs
  /\ stage \in {"abi", "prepare", "recover", "execute", "stopped"}
  /\ ~ Materialize => RecoveryInv /\ ExecutionInv

LEMMA DestroyedNone == ASSUME NEW b PROVE Destroyed(b, 0) = {}
BY DEF Destroyed

LEMMA DestroyedStep ==
  ASSUME NEW b, NEW n \in Nat
  PROVE  Destroyed(b, n + 1)
           = (IF b[n + 1].code = "call" THEN CallClobbered \ {"rax"} ELSE Destroyed(b, n))
               \ RegistersWritten(b[n + 1])
<1> DEFINE i == b[n + 1]
           L == Destroyed(b, n + 1)
           D == (IF i.code = "call" THEN CallClobbered \ {"rax"} ELSE Destroyed(b, n)) \ RegistersWritten(i)
<1>1. ASSUME NEW r \in L
      PROVE  r \in D
  <2>1. PICK m \in 1 .. n + 1 : b[m].code = "call" /\ \A k \in m .. n + 1 : r \notin RegistersWritten(b[k])
    BY <1>1 DEF Destroyed
  <2>2. r \in CallClobbered \ {"rax"} /\ r \notin RegistersWritten(i)
    BY <1>1, <2>1 DEF Destroyed
  <2>3. ASSUME i.code # "call"
        PROVE  r \in Destroyed(b, n)
    <3>1. m \in 1 .. n /\ \A k \in m .. n : k \in m .. n + 1
      BY <2>1, <2>3
    <3> QED BY <2>1, <2>2, <3>1 DEF Destroyed
  <2> QED BY <2>2, <2>3
<1>2. ASSUME NEW r \in D
      PROVE  r \in L
  <2>1. CASE i.code = "call"
    <3>1. n + 1 \in 1 .. n + 1 /\ \A k \in n + 1 .. n + 1 : k = n + 1
      OBVIOUS
    <3> QED BY <1>2, <2>1, <3>1 DEF Destroyed
  <2>2. CASE i.code # "call"
    <3>1. PICK m \in 1 .. n : b[m].code = "call" /\ \A k \in m .. n : r \notin RegistersWritten(b[k])
      BY <1>2, <2>2 DEF Destroyed
    <3>2. m \in 1 .. n + 1 /\ \A k \in m .. n + 1 : k \in m .. n \/ k = n + 1
      OBVIOUS
    <3> QED BY <1>2, <2>2, <3>1, <3>2 DEF Destroyed
  <2> QED BY <2>1, <2>2
<1> QED BY <1>1, <1>2

\* A function of one block.
LEMMA OneBlock ==
  ASSUME program \in Programs, ~ Materialize
  PROVE  /\ program \in Seq(Seq(DecodedInstructions)) /\ Len(program) = 1 /\ DOMAIN program = {1}
         /\ Block \in Seq(DecodedInstructions) /\ Len(Block) \in Nat \ {0}
<1>1. program \in Seq(Seq(DecodedInstructions)) /\ program # <<>>
      /\ \A b \in DOMAIN program : program[b] # <<>>
  BY ProgramsAssumption
<1>2. Len(program) = 1
  <2>1. Len(program) \in Nat /\ Len(program) # 0
    BY <1>1
  <2>2. ~ (Len(program) > 1)
    BY DEF Materialize
  <2>3. \A n \in Nat : n # 0 /\ ~ (n > 1) => n = 1
    OBVIOUS
  <2> QED BY <2>1, <2>2, <2>3
<1>3. DOMAIN program = {1}
  <2>1. DOMAIN program = 1 .. 1
    BY <1>1, <1>2
  <2>2. 1 .. 1 = {1}
    OBVIOUS
  <2> QED BY <2>1, <2>2
<1>4. Block \in Seq(DecodedInstructions) /\ Block # <<>>
  BY <1>1, <1>3 DEF Block
<1>5. Len(Block) \in Nat \ {0}
  BY <1>4
<1> QED BY <1>1, <1>2, <1>3, <1>4, <1>5

LEMMA InitFlow == ExecutionInit => FlowInv
<1> SUFFICES ASSUME ExecutionInit
             PROVE  FlowInv
  OBVIOUS
<1>1. program \in Programs /\ stage = "abi" /\ blocks = <<>>
      /\ at = <<1, 1>> /\ steps = 0 /\ clobbered = {}
  BY DEF ExecutionInit, DataFlowInit
<1>2. Done = 0
  BY <1>1 DEF Done
<1>3. ArgumentsInv
  BY <1>2 DEF ArgumentsInv
<1> QED BY <1>1, <1>3 DEF FlowInv, RecoveryInv, ExecutionInv

\* What has been recovered of the block when the next instruction is.
LEMMA NextInstruction ==
  ASSUME FlowInv, ~ Materialize, stage = "recover", AtBlock \in DOMAIN program
  PROVE  /\ AtBlock = 1 /\ Done \in Nat /\ Done + 1 \in 1 .. Len(Block)
         /\ Done = 0 <=> blocks = <<>>
         /\ (IF AtBlock \in DOMAIN blocks THEN blocks[AtBlock] ELSE <<>>)
              = (IF blocks = <<>> THEN <<>> ELSE blocks[1])
<1>1. /\ Len(program) = 1 /\ DOMAIN program = {1}
      /\ Block \in Seq(DecodedInstructions) /\ Len(Block) \in Nat \ {0}
  BY OneBlock DEF FlowInv
<1>2. AtBlock = 1
  BY <1>1
<1>3. CASE blocks = <<>>
  <2>1. Done = 0 /\ 1 \notin DOMAIN blocks
    BY <1>3 DEF Done
  <2> QED BY <1>1, <1>2, <1>3, <2>1
<1>4. CASE blocks # <<>>
  <2>1. blocks = <<blocks[1]>> /\ Done \in 1 .. Len(Block) /\ Done = Len(blocks[1])
    BY <1>4 DEF FlowInv, RecoveryInv, Done
  <2>2. Len(blocks) = 1 /\ DOMAIN blocks = {1}
    BY <2>1
  <2>3. Len(blocks[1]) < Len(Block)
    BY <1>2, <1>4, <2>2 DEF AtBlock, Block
  <2> QED BY <1>1, <1>2, <1>4, <2>1, <2>2, <2>3
<1> QED BY <1>3, <1>4

LEMMA RecoverInstructionKeeps ==
  ASSUME FlowInv, ~ Materialize, RecoverInstruction
  PROVE  RecoveryInv'
<1> DEFINE before == IF blocks = <<>> THEN <<>> ELSE blocks[1]
           i == Block[Done + 1]
           s == IF before = <<>> THEN [state EXCEPT !.comparison = NoComparison,
                                                        !.stale = @ \ {<<"comparison", 0>>}]
                                     ELSE state
           outcome == Recover(s, variables, 1, i)
           entry == [statement |-> outcome.statement, lapses |-> outcome.lapses]
           recovered == Append(before, entry)
<1>1. /\ Len(program) = 1 /\ DOMAIN program = {1}
      /\ Block \in Seq(DecodedInstructions) /\ Len(Block) \in Nat \ {0}
  BY OneBlock DEF FlowInv
<1>2. stage = "recover" /\ AtBlock \in DOMAIN program /\ UNCHANGED <<program, stage, abi>>
  BY DEF RecoverInstruction
<1>3. /\ AtBlock = 1 /\ Done \in Nat /\ Done + 1 \in 1 .. Len(Block)
      /\ Done = 0 <=> blocks = <<>>
      /\ (IF AtBlock \in DOMAIN blocks THEN blocks[AtBlock] ELSE <<>>) = before
  BY <1>2, NextInstruction
<1>4. /\ Len(before) = Done
      /\ \E S : before \in Seq(S)
      /\ before = <<>> <=> blocks = <<>>
  <2>1. CASE blocks = <<>>
    BY <2>1 DEF Done
  <2>2. CASE blocks # <<>>
    <3>1. (\E S : blocks[1] \in Seq(S)) /\ Done = Len(blocks[1]) /\ Done # 0
      BY <1>3, <2>2 DEF FlowInv, RecoveryInv, Done
    <3>2. blocks[1] # <<>>
      BY <3>1
    <3> QED BY <2>2, <3>1, <3>2
  <2> QED BY <2>1, <2>2
<1>5. /\ state' = FlagsWritten(outcome.state, i)
      /\ blocks' = IF before = <<>> THEN Append(blocks, recovered) ELSE [blocks EXCEPT ![1] = recovered]
  BY <1>2, <1>3, <1>4 DEF RecoverInstruction, Block
<1>6. i \in DecodedInstructions
  BY <1>1, <1>3
<1>7. /\ DOMAIN s = StateFields
      /\ s.availableRegisters = state.availableRegisters
      /\ state.availableRegisters \cap Destroyed(Block, Done) = {}
  <2>1. DOMAIN state = StateFields /\ state.availableRegisters \cap Destroyed(Block, Done) = {}
    BY <1>2 DEF FlowInv, RecoveryInv
  <2> QED BY <2>1 DEF StateFields
<1>8. /\ i.code # "call" => Offers(outcome.state, s.availableRegisters \cup RegistersWritten(i))
      /\ i.code = "call" =>
           /\ Offers(outcome.state, (s.availableRegisters \ CallClobbered) \cup {"rax"})
           /\ outcome.statement.arguments = Arguments(s)
  <2> HIDE DEF s, i
  <2> QED BY <1>6, <1>7, RecoverOffers
<1> DEFINE offered == IF i.code = "call" THEN (s.availableRegisters \ CallClobbered) \cup {"rax"}
                      ELSE s.availableRegisters \cup RegistersWritten(i)
<1>9. Offers(state', offered)
  <2>1. Offers(outcome.state, offered)
    BY <1>8
  <2> HIDE DEF offered, outcome, i
  <2> QED BY <1>5, <2>1, FlagsOffers
<1>10. offered \cap Destroyed(Block, Done + 1) = {}
  <2>1. Destroyed(Block, Done + 1)
          = (IF i.code = "call" THEN CallClobbered \ {"rax"} ELSE Destroyed(Block, Done)) \ RegistersWritten(i)
    BY <1>3, DestroyedStep
  <2> HIDE DEF i, s
  <2> QED BY <2>1, <1>7
<1>11. /\ blocks' = <<recovered>> /\ (\E S : recovered \in Seq(S)) /\ Len(recovered) = Done + 1
       /\ recovered[Done + 1] = entry
       /\ \A j \in 1 .. Done : recovered[j] = before[j]
  <2> HIDE DEF entry
  <2>1. PICK S : before \in Seq(S)
    BY <1>4
  <2>2. \A T : T = S \cup {entry} => before \in Seq(T) /\ recovered \in Seq(T)
    BY <2>1
  <2>3. recovered \in Seq(S \cup {entry})
    BY <2>2
  <2>4. /\ Len(recovered) = Done + 1 /\ recovered[Done + 1] = entry
        /\ \A j \in 1 .. Done : recovered[j] = before[j]
    BY <2>1, <1>4, <1>3
  <2>5. blocks' = <<recovered>>
    <3> HIDE DEF recovered
    <3>1. CASE blocks = <<>>
      BY <1>5, <1>4, <3>1
    <3>2. CASE blocks # <<>>
      <4>1. blocks = <<blocks[1]>>
        BY <3>2 DEF FlowInv, RecoveryInv
      <4>2. \A x, y : [<<x>> EXCEPT ![1] = y] = <<y>>
        OBVIOUS
      <4> QED BY <1>5, <1>4, <3>2, <4>1, <4>2
    <3> QED BY <3>1, <3>2
  <2> QED BY <2>3, <2>4, <2>5
<1>12. blocks' # <<>> /\ blocks'[1] = recovered /\ Done' = Done + 1 /\ Block' = Block
  BY <1>2, <1>11 DEF Done, Block
<1>13. ASSUME NEW j \in 1 .. Done + 1, Block[j].code = "call",
              NEW k \in DOMAIN ParameterRegisters, ParameterRegisters[k] \in Destroyed(Block, j - 1)
       PROVE  recovered[j].statement.arguments[k] = NoText
  <2>1. CASE j \in 1 .. Done
    <3>1. StatementAt(1, j).arguments[k] = NoText
      BY <1>13, <2>1 DEF FlowInv, RecoveryInv, ArgumentsInv
    <3>2. recovered[j] = blocks[1][j]
      BY <1>11, <1>3, <2>1
    <3> QED BY <3>1, <3>2 DEF StatementAt
  <2>2. CASE j = Done + 1
    <3>1. j - 1 = Done
      BY <2>2, <1>3
    <3>2. ParameterRegisters[k] \notin s.availableRegisters
      BY <1>13, <3>1, <1>7
    <3>3. recovered[j].statement = outcome.statement
      BY <2>2, <1>11
    <3>4. outcome.statement.arguments = Arguments(s)
      BY <1>8, <1>13, <2>2
    <3>5. Arguments(s)[k] = NoText
      <4> HIDE DEF s
      <4> QED BY <3>2, <1>13 DEF Arguments, Argument
    <3> QED BY <3>3, <3>4, <3>5
  <2>3. \A n \in Nat : \A m \in 1 .. n + 1 : m \in 1 .. n \/ m = n + 1
    OBVIOUS
  <2>4. j \in 1 .. Done \/ j = Done + 1
    BY <1>3, <1>13, <2>3
  <2> HIDE DEF recovered
  <2> QED BY <2>1, <2>2, <2>4
<1>14. ArgumentsInv'
  <2> HIDE DEF recovered
  <2> QED BY <1>12, <1>13 DEF ArgumentsInv, StatementAt
<1>15. Done' \in 1 .. Len(Block')
  BY <1>12, <1>3
<1> QED
  <2> HIDE DEF recovered, offered
  <2>1. stage' = "recover"
    BY <1>2
  <2>2. DOMAIN state' = StateFields /\ state'.availableRegisters \cap Destroyed(Block', Done') = {}
    BY <1>9, <1>10, <1>12 DEF Offers
  <2>3. blocks' = <<blocks'[1]>> /\ \E S : blocks'[1] \in Seq(S)
    BY <1>11, <1>12
  <2> QED BY <2>1, <2>2, <2>3, <1>14, <1>15 DEF RecoveryInv

LEMMA ExecuteKeeps ==
  ASSUME FlowInv, ~ Materialize, Execute
  PROVE  ExecutionInv'
<1> DEFINE i == Block[at[2]]
<1>1. /\ Len(program) = 1 /\ DOMAIN program = {1}
      /\ Block \in Seq(DecodedInstructions) /\ Len(Block) \in Nat \ {0}
  BY OneBlock DEF FlowInv
<1>2. /\ stage = "execute" /\ UNCHANGED <<program, blocks>>
      /\ steps' = steps + 1
      /\ clobbered' = ClobberedAfter(program[at[1]][at[2]])
      /\ at' \in Following(program[at[1]][at[2]])
      /\ stage' = IF program[at[1]][at[2]].code = "ret" \/ at'[1] \notin DOMAIN program THEN "stopped" ELSE stage
  BY DEF Execute
<1>3. /\ at[1] = 1 /\ at[2] \in 1 .. Len(Block) /\ steps \in Nat /\ at[2] <= steps + 1
      /\ Done = Len(Block)
      /\ at[2] = steps + 1 => clobbered = Destroyed(Block, steps)
  BY <1>2 DEF FlowInv, ExecutionInv
<1>4. Block' = Block /\ Done' = Done
  BY <1>2 DEF Block, Done
<1>5. program[at[1]][at[2]] = i /\ program[at[1]] = Block
  BY <1>3 DEF Block
<1>6. CASE stage' = "stopped"
  BY <1>6 DEF ExecutionInv
<1>7. CASE stage' # "stopped"
  <2>1. stage' = "execute" /\ at'[1] = 1
    BY <1>1, <1>2, <1>7
  <2>2. \/ at' = <<1, 1>>
        \/ at' = <<1, at[2] + 1>> /\ at[2] < Len(Block)
    <3>1. at' \in Following(i)
      BY <1>2, <1>5
    <3>2. CASE i.code = "jmp"
      <4>1. at' = <<i.target, 1>>
        BY <3>1, <3>2 DEF Following
      <4> QED BY <2>1, <4>1
    <3>3. CASE i.code = "jcc"
      <4>1. at' = <<i.target, 1>> \/ at' = <<at[1] + 1, 1>>
        BY <3>1, <3>3 DEF Following
      <4> QED BY <2>1, <4>1, <1>3
    <3>4. CASE i.code \notin {"jmp", "jcc"}
      <4>1. \/ at' = <<at[1], at[2] + 1>> /\ at[2] < Len(program[at[1]])
            \/ at' = <<at[1] + 1, 1>>
        BY <3>1, <3>4 DEF Following
      <4> QED BY <2>1, <4>1, <1>3, <1>5
    <3> QED BY <3>2, <3>3, <3>4
  <2>3. at' = <<1, at'[2]>> /\ at'[2] \in 1 .. Len(Block) /\ steps' \in Nat /\ at'[2] <= steps' + 1
    BY <2>2, <1>1, <1>2, <1>3
  <2>4. ASSUME at'[2] = steps' + 1
        PROVE  clobbered' = Destroyed(Block, steps')
    <3>1. at[2] = steps + 1
      BY <2>2, <2>4, <1>2, <1>3
    <3>2. clobbered = Destroyed(Block, steps) /\ i = Block[steps + 1]
      BY <3>1, <1>3
    <3>3. Destroyed(Block, steps + 1)
            = (IF i.code = "call" THEN CallClobbered \ {"rax"} ELSE Destroyed(Block, steps)) \ RegistersWritten(i)
      BY <3>2, <1>3, DestroyedStep
    <3> HIDE DEF i
    <3> QED BY <3>2, <3>3, <1>2, <1>5 DEF ClobberedAfter
  <2> QED BY <2>1, <2>3, <2>4, <1>3, <1>4 DEF ExecutionInv
<1> QED BY <1>6, <1>7

LEMMA FlowStep == FlowInv /\ [ExecutionNext]_executionVars => FlowInv'
<1> SUFFICES ASSUME FlowInv, [ExecutionNext]_executionVars
             PROVE  FlowInv'
  OBVIOUS
<1>1. UNCHANGED program
  BY DEF ExecutionNext, RecoverStep, DataFlowNext, AnalyzeAbi, Prepare, RecoverInstruction, Start, Execute,
         executionVars, dataFlowVars
<1>2. program' \in Programs /\ (Materialize' <=> Materialize)
  BY <1>1 DEF FlowInv, Materialize
<1>3. stage' \in {"abi", "prepare", "recover", "execute", "stopped"}
  <2>1. stage \in {"abi", "prepare", "recover", "execute", "stopped"}
    BY DEF FlowInv
  <2> QED BY <2>1 DEF ExecutionNext, RecoverStep, DataFlowNext, AnalyzeAbi, Prepare, RecoverInstruction, Start,
                      Execute, executionVars, dataFlowVars
<1>4. ASSUME ~ Materialize
      PROVE  RecoveryInv' /\ ExecutionInv'
  <2>1. RecoveryInv /\ ExecutionInv
    BY <1>4 DEF FlowInv
  <2>2. /\ Len(program) = 1 /\ DOMAIN program = {1}
        /\ Block \in Seq(DecodedInstructions) /\ Len(Block) \in Nat \ {0}
    BY <1>4, OneBlock DEF FlowInv
  <2>3. CASE AnalyzeAbi /\ UNCHANGED machineVars
    <3>1. /\ stage = "abi" /\ stage' = "prepare" /\ UNCHANGED <<program, blocks, at, steps, clobbered>>
      BY <2>3 DEF AnalyzeAbi, machineVars
    <3>2. Done' = Done /\ Block' = Block /\ ArgumentsInv'
      BY <3>1, <2>1 DEF Done, Block, RecoveryInv, ArgumentsInv, StatementAt
    <3> QED BY <3>1, <3>2, <2>1 DEF RecoveryInv, ExecutionInv
  <2>4. CASE Prepare /\ UNCHANGED machineVars
    <3>1. /\ stage = "prepare" /\ stage' = "recover" /\ UNCHANGED <<program, blocks, at, steps, clobbered>>
          /\ state' = [EmptyState EXCEPT
                         !.registerValues = [r \in abi.registers |-> Text(<<"arg", ParameterIndex(r)>>)],
                         !.availableRegisters = abi.registers]
      BY <2>4, <1>4 DEF Prepare, machineVars, Outcome
    <3>2. DOMAIN state' = StateFields
      BY <3>1 DEF EmptyState, StateFields
    <3>3. blocks = <<>> /\ Done' = 0 /\ Block' = Block
      BY <3>1, <2>1 DEF Done, Block, RecoveryInv
    <3>4. Destroyed(Block', Done') = {} /\ ArgumentsInv'
      BY <3>3, DestroyedNone DEF ArgumentsInv
    <3> QED BY <3>1, <3>2, <3>3, <3>4, <2>1 DEF RecoveryInv, ExecutionInv
  <2>5. CASE RecoverInstruction /\ UNCHANGED machineVars
    <3>1. /\ stage = "recover" /\ stage' = "recover" /\ UNCHANGED <<at, steps, clobbered>>
      BY <2>5 DEF RecoverInstruction, machineVars
    <3>2. ExecutionInv'
      BY <3>1, <2>1 DEF ExecutionInv
    <3> QED BY <2>5, <1>4, <3>2, RecoverInstructionKeeps
  <2>6. CASE Start
    <3>1. /\ stage = "recover" /\ AtBlock \notin DOMAIN program /\ stage' = "execute"
          /\ UNCHANGED <<program, blocks, at, steps, clobbered>>
      BY <2>6 DEF Start
    <3>2. Done' = Done /\ Block' = Block /\ ArgumentsInv'
      BY <3>1, <2>1 DEF Done, Block, RecoveryInv, ArgumentsInv, StatementAt
    <3>3. Done = Len(Block)
      <4>1. blocks # <<>>
        <5>1. ASSUME blocks = <<>>
              PROVE  AtBlock = 1
          BY <5>1 DEF AtBlock
        <5> QED BY <5>1, <3>1, <2>2
      <4>2. blocks = <<blocks[1]>> /\ Done \in 1 .. Len(Block) /\ Done = Len(blocks[1])
        BY <4>1, <2>1 DEF RecoveryInv, Done
      <4>3. Len(blocks) = 1
        BY <4>2
      <4>4. ~ (Len(blocks[1]) < Len(Block))
        <5>1. ASSUME Len(blocks[1]) < Len(Block)
              PROVE  AtBlock = 1
          BY <5>1, <4>1, <4>3 DEF AtBlock, Block
        <5> QED BY <5>1, <3>1, <2>2
      <4> QED BY <4>2, <4>4, <2>2
    <3>4. RecoveryInv'
      BY <3>1, <3>2, <2>1 DEF RecoveryInv
    <3>5. ExecutionInv'
      <4>1. at = <<1, 1>> /\ steps = 0 /\ clobbered = {}
        BY <3>1, <2>1 DEF ExecutionInv
      <4>2. Destroyed(Block, 0) = {}
        BY DestroyedNone
      <4> QED BY <3>1, <3>2, <3>3, <4>1, <4>2, <2>2 DEF ExecutionInv
    <3> QED BY <3>4, <3>5
  <2>7. CASE Execute
    <3>1. /\ stage = "execute" /\ stage' \in {"execute", "stopped"} /\ UNCHANGED <<program, blocks>>
      BY <2>7 DEF Execute
    <3>2. Done' = Done /\ Block' = Block /\ ArgumentsInv'
      BY <3>1, <2>1 DEF Done, Block, RecoveryInv, ArgumentsInv, StatementAt
    <3>3. RecoveryInv'
      BY <3>1, <3>2, <2>1 DEF RecoveryInv
    <3> QED BY <2>7, <1>4, <3>3, ExecuteKeeps
  <2>8. CASE UNCHANGED executionVars
    <3>1. UNCHANGED <<program, stage, state, blocks, at, steps, clobbered>>
      BY <2>8 DEF executionVars, dataFlowVars, machineVars
    <3>2. Done' = Done /\ Block' = Block /\ ArgumentsInv'
      BY <3>1, <2>1 DEF Done, Block, RecoveryInv, ArgumentsInv, StatementAt
    <3> QED BY <3>1, <3>2, <2>1 DEF RecoveryInv, ExecutionInv
  <2> QED BY <2>3, <2>4, <2>5, <2>6, <2>7, <2>8 DEF ExecutionNext, RecoverStep, DataFlowNext
<1> QED BY <1>2, <1>3, <1>4 DEF FlowInv

LEMMA FlowArguments == FlowInv => ArgumentsAreLive
<1> SUFFICES ASSUME FlowInv, stage = "execute", program[at[1]][at[2]].code = "call", ~ Materialize,
                    at[2] = steps + 1, NEW k \in DOMAIN ParameterRegisters,
                    ParameterRegisters[k] \in clobbered
             PROVE  StatementAt(at[1], at[2]).arguments[k] = NoText
  BY DEF ArgumentsAreLive
<1>1. /\ at[1] = 1 /\ at[2] \in 1 .. Len(Block) /\ steps \in Nat /\ Done = Len(Block)
      /\ clobbered = Destroyed(Block, steps)
  BY DEF FlowInv, ExecutionInv
<1>2. at[2] \in 1 .. Done /\ at[2] - 1 = steps /\ Block[at[2]].code = "call"
  BY <1>1 DEF Block
<1>3. ArgumentsInv
  BY DEF FlowInv, RecoveryInv
<1> QED BY <1>1, <1>2, <1>3 DEF ArgumentsInv

\* For every function of one block: while it runs for the first time, no recovered call
\* is given a register that an earlier call destroyed and nothing has written since
\* (DataFlowAnalyzer::analyze).
THEOREM ArgumentsLive == ExecutionSpec => []ArgumentsAreLive
<1>1. ExecutionSpec => []FlowInv
  BY InitFlow, FlowStep, PTL DEF ExecutionSpec
<1> QED BY <1>1, FlowArguments, PTL

--------------------------------------------------------------------------------
(***************************************************************************)
(* What the texts of the recovery mean.                                    *)
(***************************************************************************)

\* Both operands of an operation end before it.
Refers(t, k) == t[k].operation # "name" => t[k].back \in Nat /\ k - t[k].back \in 1 .. k - 1

IsText(t) ==
  /\ \E S : t \in Seq(S)
  /\ Len(t) # 0
  /\ \A k \in 1 .. Len(t) : Refers(t, k)

\* One step of Evaluate, for any function w in its place.
SymbolValue(w, t, env, k) ==
  IF t[k].operation = "name" THEN ValueOf(t[k].name, env)
  ELSE Term(t[k].operation, w[k - t[k].back], w[k - 1])

Valued(w, t, env, n) == [k \in 1 .. n |-> SymbolValue(w, t, env, k)]

LEMMA ValuedExists ==
  ASSUME NEW t, NEW env, NEW N \in Nat, \A k \in 1 .. N : Refers(t, k)
  PROVE  \E w : w = Valued(w, t, env, N)
<1> DEFINE Good(n) == \E w : w = Valued(w, t, env, n)
           Bad == {n \in 0 .. N : ~ Good(n)}
<1>1. SUFFICES ASSUME Bad # {} PROVE FALSE
  OBVIOUS
<1>2. PICK m \in Bad : \A n \in Bad : m <= n
  <2>1. Bad \in SUBSET Nat
    OBVIOUS
  <2> QED BY <1>1, <2>1, LeastElement
<1>3. CASE m = 0
  <2> DEFINE w == [k \in 1 .. 0 |-> 0]
  <2>1. \A k : k \notin 1 .. 0
    OBVIOUS
  <2>2. w = Valued(w, t, env, 0)
    BY <2>1 DEF Valued
  <2>3. Good(0)
    BY <2>2
  <2> QED BY <2>3, <1>2, <1>3
<1>4. CASE m # 0
  <2>1. m \in 1 .. N /\ m - 1 \in 0 .. N /\ ~ (m <= m - 1)
    BY <1>2, <1>4
  <2>2. Good(m - 1)
    BY <2>1, <1>2
  <2>3. PICK u : u = Valued(u, t, env, m - 1)
    BY <2>2
  <2> DEFINE w == [k \in 1 .. m |-> IF k = m THEN SymbolValue(u, t, env, m) ELSE u[k]]
  <2>4. \A k \in 1 .. m - 1 : u[k] = SymbolValue(u, t, env, k)
    BY <2>3 DEF Valued
  <2>5. \A k \in 1 .. m - 1 : w[k] = u[k]
    BY <2>1
  <2>6. \A k \in 1 .. m : w[k] = SymbolValue(w, t, env, k)
    <3> TAKE k \in 1 .. m
    <3>1. t[k].operation # "name" =>
            w[k - t[k].back] = u[k - t[k].back] /\ w[k - 1] = u[k - 1]
      <4> HAVE t[k].operation # "name"
      <4>1. t[k].back \in Nat /\ k - t[k].back \in 1 .. k - 1
        BY <2>1 DEF Refers
      <4>2. k - t[k].back \in 1 .. m - 1 /\ k - 1 \in 1 .. m - 1
        <5>1. \A i \in 1 .. k - 1 : i \in 1 .. m - 1 /\ k - 1 \in 1 .. m - 1
          BY <2>1
        <5> QED BY <4>1, <5>1
      <4> HIDE DEF w
      <4> QED BY <4>2, <2>5
    <3>2. SymbolValue(w, t, env, k) = SymbolValue(u, t, env, k)
      <4> HIDE DEF w
      <4> QED BY <3>1 DEF SymbolValue
    <3>3. CASE k = m
      <4>1. w[k] = SymbolValue(u, t, env, m)
        BY <3>3
      <4> HIDE DEF w
      <4> QED BY <3>2, <3>3, <4>1
    <3>4. CASE k # m
      <4>1. k \in 1 .. m - 1
        BY <3>4, <2>1
      <4> HIDE DEF w
      <4> QED BY <3>2, <4>1, <2>4, <2>5
    <3> QED BY <3>3, <3>4
  <2>7. w = [k \in 1 .. m |-> w[k]]
    OBVIOUS
  <2> HIDE DEF w
  <2>8. w = Valued(w, t, env, m)
    BY <2>6, <2>7 DEF Valued
  <2>9. Good(m)
    BY <2>8
  <2> QED BY <2>9, <1>2
<1> QED BY <1>3, <1>4

\* w values each symbol of t.
IsValuation(w, t, env) == \A k \in 1 .. Len(t) : w[k] = SymbolValue(w, t, env, k)

LEMMA EvaluateValues ==
  ASSUME NEW t, NEW env, IsText(t)
  PROVE  \E w : IsValuation(w, t, env) /\ Evaluate(t, env) = w[Len(t)]
<1>1. Len(t) \in Nat /\ DOMAIN t = 1 .. Len(t) /\ \A k \in 1 .. Len(t) : Refers(t, k)
  BY DEF IsText
<1> DEFINE w == CHOOSE f : f = Valued(f, t, env, Len(t))
<1>2. w = Valued(w, t, env, Len(t))
  BY <1>1, ValuedExists, Zenon
<1>3. Evaluate(t, env) = w[Len(t)]
  BY <1>1, Zenon DEF Evaluate, Valued, SymbolValue
<1> HIDE DEF w
<1>4. IsValuation(w, t, env)
  BY <1>2 DEF Valued, IsValuation
<1> QED BY <1>3, <1>4

\* A valuation is determined by the names.
LEMMA ValuationsEqual ==
  ASSUME NEW t, IsText(t), NEW v, NEW w, NEW e, NEW f, IsValuation(v, t, e), IsValuation(w, t, f),
         \A n \in NamesIn(t) : ValueOf(n, e) = ValueOf(n, f)
  PROVE  \A k \in 1 .. Len(t) : v[k] = w[k]
<1> DEFINE Bad == {k \in 1 .. Len(t) : v[k] # w[k]}
<1>1. SUFFICES ASSUME Bad # {} PROVE FALSE
  OBVIOUS
<1>2. Len(t) \in Nat /\ DOMAIN t = 1 .. Len(t) /\ \A k \in 1 .. Len(t) : Refers(t, k)
  BY DEF IsText
<1>3. PICK m \in Bad : \A n \in Bad : m <= n
  <2>1. Bad \in SUBSET Nat
    BY <1>2
  <2> QED BY <1>1, <2>1, LeastElement
<1>4. m \in 1 .. Len(t) /\ v[m] # w[m] /\ \A k \in 1 .. Len(t) : k < m => v[k] = w[k]
  BY <1>2, <1>3
<1>5. v[m] = SymbolValue(v, t, e, m) /\ w[m] = SymbolValue(w, t, f, m)
  BY <1>4 DEF IsValuation
<1>6. CASE t[m].operation = "name"
  <2>1. t[m].name \in NamesIn(t)
    BY <1>2, <1>4, <1>6 DEF NamesIn
  <2> QED BY <1>4, <1>5, <1>6, <2>1 DEF SymbolValue
<1>7. CASE t[m].operation # "name"
  <2>1. t[m].back \in Nat /\ m - t[m].back \in 1 .. m - 1
    BY <1>2, <1>4, <1>7 DEF Refers
  <2>2. \A i \in 1 .. m - 1 : i \in 1 .. Len(t) /\ i < m /\ m - 1 \in 1 .. m - 1
    BY <1>2, <1>4
  <2>3. v[m - t[m].back] = w[m - t[m].back] /\ v[m - 1] = w[m - 1]
    BY <1>4, <2>1, <2>2
  <2> QED BY <1>4, <1>5, <1>7, <2>3 DEF SymbolValue
<1> QED BY <1>6, <1>7

\* A text means the same where its names do.
LEMMA EvaluateSame ==
  ASSUME NEW t, IsText(t), NEW e, NEW f, \A n \in NamesIn(t) : ValueOf(n, e) = ValueOf(n, f)
  PROVE  Evaluate(t, e) = Evaluate(t, f)
<1>1. PICK v : IsValuation(v, t, e) /\ Evaluate(t, e) = v[Len(t)]
  BY EvaluateValues
<1>2. PICK w : IsValuation(w, t, f) /\ Evaluate(t, f) = w[Len(t)]
  BY EvaluateValues
<1>3. Len(t) \in 1 .. Len(t)
  BY DEF IsText
<1> QED BY <1>1, <1>2, <1>3, ValuationsEqual

LEMMA EvaluateIs ==
  ASSUME NEW t, IsText(t), NEW e, NEW w, IsValuation(w, t, e)
  PROVE  Evaluate(t, e) = w[Len(t)]
<1>1. PICK v : IsValuation(v, t, e) /\ Evaluate(t, e) = v[Len(t)]
  BY EvaluateValues
<1>2. Len(t) \in 1 .. Len(t)
  BY DEF IsText
<1> QED BY <1>1, <1>2, ValuationsEqual

\* Unknown on either side agrees with everything.
Alike(v, w) == Unknown \in {v, w} \/ v = w

LEMMA TermAlike ==
  ASSUME NEW operation, NEW a, NEW b, NEW c, NEW d, Alike(a, c), Alike(b, d)
  PROVE  Alike(Term(operation, a, b), Term(operation, c, d))
<1>1. CASE Unknown \in {a, b, c, d}
  <2>1. Unknown \in {a, b} => Term(operation, a, b) = Unknown
    BY DEF Term
  <2>2. Unknown \in {c, d} => Term(operation, c, d) = Unknown
    BY DEF Term
  <2> QED BY <1>1, <2>1, <2>2 DEF Alike
<1>2. CASE Unknown \notin {a, b, c, d}
  <2>1. a = c /\ b = d
    BY <1>2 DEF Alike
  <2> QED BY <2>1 DEF Alike
<1> QED BY <1>1, <1>2

LEMMA EvaluateAlike ==
  ASSUME NEW t, IsText(t), NEW e, NEW f, \A n : Alike(ValueOf(n, e), ValueOf(n, f))
  PROVE  Alike(Evaluate(t, e), Evaluate(t, f))
<1>1. PICK v : IsValuation(v, t, e) /\ Evaluate(t, e) = v[Len(t)]
  BY EvaluateValues
<1>2. PICK w : IsValuation(w, t, f) /\ Evaluate(t, f) = w[Len(t)]
  BY EvaluateValues
<1> DEFINE Bad == {k \in 1 .. Len(t) : ~ Alike(v[k], w[k])}
<1>3. Len(t) \in Nat /\ DOMAIN t = 1 .. Len(t) /\ \A k \in 1 .. Len(t) : Refers(t, k)
  BY DEF IsText
<1>4. Bad = {}
  <2>1. SUFFICES ASSUME Bad # {} PROVE FALSE
    OBVIOUS
  <2>2. PICK m \in Bad : \A n \in Bad : m <= n
    <3>1. Bad \in SUBSET Nat
      BY <1>3
    <3> QED BY <2>1, <3>1, LeastElement
  <2>3. /\ m \in 1 .. Len(t) /\ ~ Alike(v[m], w[m])
        /\ \A k \in 1 .. Len(t) : k < m => Alike(v[k], w[k])
    BY <1>3, <2>2
  <2>4. v[m] = SymbolValue(v, t, e, m) /\ w[m] = SymbolValue(w, t, f, m)
    BY <1>1, <1>2, <2>3 DEF IsValuation
  <2>5. CASE t[m].operation = "name"
    BY <2>3, <2>4, <2>5 DEF SymbolValue
  <2>6. CASE t[m].operation # "name"
    <3>1. t[m].back \in Nat /\ m - t[m].back \in 1 .. m - 1
      BY <1>3, <2>3, <2>6 DEF Refers
    <3>2. \A i \in 1 .. m - 1 : i \in 1 .. Len(t) /\ i < m /\ m - 1 \in 1 .. m - 1
      BY <1>3, <2>3
    <3>3. Alike(v[m - t[m].back], w[m - t[m].back]) /\ Alike(v[m - 1], w[m - 1])
      BY <2>3, <3>1, <3>2
    <3> QED BY <2>3, <2>4, <2>6, <3>3, TermAlike DEF SymbolValue
  <2> QED BY <2>5, <2>6
<1>5. Len(t) \in 1 .. Len(t)
  BY <1>3 DEF IsText
<1> QED BY <1>1, <1>2, <1>4, <1>5

LEMMA NameText ==
  ASSUME NEW name, NEW env
  PROVE  IsText(Text(name)) /\ NamesIn(Text(name)) = {name} /\ Evaluate(Text(name), env) = ValueOf(name, env)
<1> DEFINE t == Text(name)
<1>1. Len(t) = 1 /\ DOMAIN t = {1} /\ t[1] = Symbol("name", name, 0) /\ t \in Seq({Symbol("name", name, 0)})
  BY DEF Text
<1>2. t[1].operation = "name" /\ t[1].name = name
  BY <1>1 DEF Symbol
<1> HIDE DEF t
<1>3. 1 .. 1 = {1}
  OBVIOUS
<1>4. IsText(t)
  BY <1>1, <1>2, <1>3 DEF IsText, Refers
<1>5. NamesIn(t) = {name}
  BY <1>1, <1>2 DEF NamesIn
<1> DEFINE w == [k \in {1} |-> ValueOf(name, env)]
<1>6. w[1] = ValueOf(name, env)
  OBVIOUS
<1> HIDE DEF w
<1>7. IsValuation(w, t, env)
  BY <1>1, <1>2, <1>3, <1>6 DEF IsValuation, SymbolValue
<1>8. Evaluate(t, env) = w[Len(t)]
  BY <1>4, <1>7, EvaluateIs
<1> QED BY <1>1, <1>4, <1>5, <1>6, <1>8 DEF t

LEMMA ApplyText ==
  ASSUME NEW operation, operation # "name", NEW l, NEW r, IsText(l), IsText(r)
  PROVE  /\ IsText(Apply(operation, l, r))
         /\ NamesIn(Apply(operation, l, r)) = NamesIn(l) \cup NamesIn(r)
         /\ \A env : Evaluate(Apply(operation, l, r), env)
                       = Term(operation, Evaluate(l, env), Evaluate(r, env))
<1> DEFINE last == Symbol(operation, <<"constant", 0>>, Len(r) + 1)
           m == Len(l)
           n == Len(r)
<1>1. PICK t : t = Apply(operation, l, r)
  OBVIOUS
<1>2. /\ m \in Nat \ {0} /\ n \in Nat \ {0} /\ DOMAIN l = 1 .. m /\ DOMAIN r = 1 .. n
      /\ (\A k \in 1 .. m : Refers(l, k)) /\ \A k \in 1 .. n : Refers(r, k)
  BY DEF IsText
<1>3. /\ \E S : t \in Seq(S)
      /\ Len(t) = m + n + 1 /\ DOMAIN t = 1 .. m + n + 1
      /\ \A k \in 1 .. m : t[k] = l[k]
      /\ \A k \in 1 .. n : t[m + k] = r[k]
      /\ t[m + n + 1] = last
  <2>1. PICK S : l \in Seq(S)
    BY DEF IsText
  <2>2. PICK T : r \in Seq(T)
    BY DEF IsText
  <2>3. \A U : U = S \cup T \cup {last} => l \in Seq(U) /\ r \in Seq(U) /\ <<last>> \in Seq(U)
    <3> HIDE DEF last
    <3> QED BY <2>1, <2>2
  <2>4. PICK U : l \in Seq(U) /\ r \in Seq(U) /\ <<last>> \in Seq(U)
    BY <2>3
  <2>5. t = (l \o r) \o <<last>>
    BY <1>1 DEF Apply
  <2> HIDE DEF last
  <2>6. l \o r \in Seq(U) /\ Len(l \o r) = m + n
        /\ (\A k \in 1 .. m : (l \o r)[k] = l[k]) /\ \A k \in 1 .. n : (l \o r)[m + k] = r[k]
    BY <2>4, <1>2
  <2>7. \A s \in Seq(U) : /\ s \o <<last>> \in Seq(U) /\ Len(s \o <<last>>) = Len(s) + 1
                          /\ \A k \in 1 .. Len(s) : (s \o <<last>>)[k] = s[k]
                          /\ (s \o <<last>>)[Len(s) + 1] = last
    BY <2>4
  <2>8. t \in Seq(U) /\ Len(t) = m + n + 1 /\ (\A k \in 1 .. m + n : t[k] = (l \o r)[k]) /\ t[m + n + 1] = last
    BY <2>5, <2>6, <2>7, <1>2
  <2>9. (\A k \in 1 .. m : k \in 1 .. m + n) /\ \A k \in 1 .. n : m + k \in 1 .. m + n
    BY <1>2
  <2>10. DOMAIN t = 1 .. m + n + 1
    BY <2>8
  <2> QED BY <2>6, <2>8, <2>9, <2>10
<1>4. \A k \in 1 .. m + n + 1 :
        \/ k \in 1 .. m
        \/ k = m + n + 1
        \/ k - m \in 1 .. n /\ k = m + (k - m)
  BY <1>2
<1>5. last.operation = operation /\ last.back = n + 1
  BY DEF Symbol
<1> HIDE DEF last
<1>6. \A k \in 1 .. Len(t) : Refers(t, k)
  <2> TAKE k \in 1 .. Len(t)
  <2>1. CASE k \in 1 .. m
    BY <2>1, <1>2, <1>3 DEF Refers
  <2>2. CASE k = m + n + 1
    <3>1. t[k].back = n + 1 /\ n + 1 \in Nat /\ k - (n + 1) \in 1 .. k - 1
      BY <2>2, <1>2, <1>3, <1>5
    <3> QED BY <3>1 DEF Refers
  <2>3. CASE k - m \in 1 .. n /\ k = m + (k - m)
    <3>1. PICK j \in 1 .. n : k = m + j
      BY <2>3
    <3>2. t[k] = r[j] /\ Refers(r, j)
      BY <3>1, <1>2, <1>3
    <3>3. ASSUME r[j].operation # "name"
          PROVE  r[j].back \in Nat /\ k - r[j].back \in 1 .. k - 1
      <4>1. r[j].back \in Nat /\ j - r[j].back \in 1 .. j - 1
        BY <3>2, <3>3 DEF Refers
      <4> QED BY <4>1, <3>1, <1>2
    <3> QED BY <3>2, <3>3 DEF Refers
  <2> QED BY <1>3, <1>4, <2>1, <2>2, <2>3
<1>7. IsText(t)
  BY <1>2, <1>3, <1>6 DEF IsText
<1>8. NamesIn(t) = NamesIn(l) \cup NamesIn(r)
  <2>1. ASSUME NEW k \in DOMAIN t, t[k].operation = "name"
        PROVE  t[k].name \in NamesIn(l) \cup NamesIn(r)
    <3>1. k # m + n + 1
      BY <2>1, <1>3, <1>5
    <3>2. CASE k \in 1 .. m
      BY <2>1, <3>2, <1>2, <1>3 DEF NamesIn
    <3>3. CASE k - m \in 1 .. n /\ k = m + (k - m)
      <4>1. PICK j \in 1 .. n : k = m + j
        BY <3>3
      <4>2. t[k] = r[j] /\ j \in DOMAIN r
        BY <4>1, <1>2, <1>3
      <4> QED BY <2>1, <4>2 DEF NamesIn
    <3> QED BY <2>1, <3>1, <3>2, <3>3, <1>3, <1>4
  <2>2. ASSUME NEW k \in DOMAIN l, l[k].operation = "name"
        PROVE  l[k].name \in NamesIn(t)
    <3>1. k \in DOMAIN t /\ t[k] = l[k]
      BY <1>2, <1>3
    <3> QED BY <3>1, <2>2 DEF NamesIn
  <2>3. ASSUME NEW k \in DOMAIN r, r[k].operation = "name"
        PROVE  r[k].name \in NamesIn(t)
    <3>1. m + k \in DOMAIN t /\ t[m + k] = r[k]
      BY <1>2, <1>3
    <3> QED BY <3>1, <2>3 DEF NamesIn
  <2>4. NamesIn(t) \subseteq NamesIn(l) \cup NamesIn(r)
    BY <2>1 DEF NamesIn
  <2>5. NamesIn(l) \subseteq NamesIn(t) /\ NamesIn(r) \subseteq NamesIn(t)
    BY <2>2, <2>3 DEF NamesIn
  <2> QED BY <2>4, <2>5
<1>9. ASSUME NEW env
      PROVE  Evaluate(t, env) = Term(operation, Evaluate(l, env), Evaluate(r, env))
  <2>1. PICK w : IsValuation(w, t, env) /\ Evaluate(t, env) = w[Len(t)]
    BY <1>7, EvaluateValues
  <2>2. IsValuation(w, l, env)
    <3> SUFFICES ASSUME NEW k \in 1 .. m
                 PROVE  w[k] = SymbolValue(w, l, env, k)
      BY DEF IsValuation
    <3>1. k \in 1 .. Len(t) /\ t[k] = l[k]
      BY <1>2, <1>3
    <3> QED BY <2>1, <3>1 DEF IsValuation, SymbolValue
  <2> DEFINE v == [k \in 1 .. n |-> w[m + k]]
  <2>3. \A k \in 1 .. n : v[k] = w[m + k]
    OBVIOUS
  <2> HIDE DEF v
  <2>4. IsValuation(v, r, env)
    <3> SUFFICES ASSUME NEW k \in 1 .. n
                 PROVE  v[k] = SymbolValue(v, r, env, k)
      BY DEF IsValuation
    <3>1. PICK j \in 1 .. Len(t) : j = m + k /\ t[j] = r[k]
      BY <1>2, <1>3
    <3>2. v[k] = SymbolValue(w, t, env, j)
      BY <2>1, <2>3, <3>1 DEF IsValuation
    <3>3. CASE r[k].operation = "name"
      BY <3>1, <3>2, <3>3 DEF SymbolValue
    <3>4. CASE r[k].operation # "name"
      <4>1. r[k].back \in Nat /\ k - r[k].back \in 1 .. k - 1
        BY <3>4, <1>2 DEF Refers
      <4>2. /\ k - r[k].back \in 1 .. n /\ k - 1 \in 1 .. n
            /\ j - r[k].back = m + (k - r[k].back) /\ j - 1 = m + (k - 1)
        BY <3>1, <4>1, <1>2
      <4>3. w[j - r[k].back] = v[k - r[k].back] /\ w[j - 1] = v[k - 1]
        BY <4>2, <2>3
      <4>4. SymbolValue(w, t, env, j) = Term(r[k].operation, w[j - r[k].back], w[j - 1])
        BY <3>1, <3>4 DEF SymbolValue
      <4>5. SymbolValue(v, r, env, k) = Term(r[k].operation, v[k - r[k].back], v[k - 1])
        BY <3>4 DEF SymbolValue
      <4> QED BY <3>2, <4>3, <4>4, <4>5
    <3> QED BY <3>3, <3>4
  <2>5. Evaluate(l, env) = w[m] /\ Evaluate(r, env) = v[n]
    BY <2>2, <2>4, EvaluateIs
  <2>6. v[n] = w[m + n]
    BY <2>3, <1>2
  <2>7. w[m + n + 1] = SymbolValue(w, t, env, m + n + 1)
    BY <2>1, <1>2, <1>3 DEF IsValuation
  <2>8. m + n + 1 - (n + 1) = m /\ m + n + 1 - 1 = m + n
    <3>1. \A a, b \in Nat : a + b + 1 - (b + 1) = a /\ a + b + 1 - 1 = a + b
      OBVIOUS
    <3> QED BY <3>1, <1>2
  <2>9. SymbolValue(w, t, env, m + n + 1) = Term(operation, w[m], w[m + n])
    BY <1>3, <1>5, <2>8 DEF SymbolValue
  <2> QED BY <1>3, <2>1, <2>5, <2>6, <2>7, <2>9
<1> QED BY <1>1, <1>7, <1>8, <1>9

\* What the machine holds is v, or the machine's convention leaves it open.
Is(w, v) == w = Unknown \/ w = v

\* The names that the recovered code may assign: variables, slots, the top of the stack
\* and parameters on the stack.
MayBeAssigned(name) ==
  \/ name[1] \in {"result", "temp", "local", "memory", "top"}
  \/ name[1] = "arg" /\ name[2] \in Int /\ name[2] >= 6

NamesExact(mu) == \A name \in DOMAIN mu : MayBeAssigned(name)

VariableNames == {<<"result", 0>>} \cup ({"temp"} \X Nat)

\* What analysing a function finds of its parameters.
AbiExact ==
  /\ abi.registers \subseteq ToSet(ParameterRegisters)
  /\ \A d \in abi.stackVariables : d < 0
  /\ \A d \in abi.stackParameters : d >= 16

\* VariableDeclaration: an initializer is the argument of a register.
VariableDeclarations == [name : VariableNames, initializer : {<<>>} \cup ({"arg"} \X (0 .. 5))]

\* The texts and variables of a state of the recovery, whatever the machine does.
StateExact(s, declared) ==
  /\ DOMAIN s = StateFields
  /\ DOMAIN s.registerVariables \subseteq Registers \ FrameRegisters
  /\ DOMAIN s.registerValues \subseteq Registers \ FrameRegisters
  /\ \A r \in DOMAIN s.registerValues : IsText(s.registerValues[r])
  /\ \A d \in DOMAIN s.stackValues : IsText(s.stackValues[d])
  /\ DOMAIN s.stackValues \subseteq abi.stackVariables \cup abi.stackParameters
  /\ NoOffset \notin DOMAIN s.stackValues
  /\ DOMAIN s.storedIn = DOMAIN s.stackValues
  /\ s.comparison.known => IsText(s.comparison.left) /\ IsText(s.comparison.right)
  /\ \A r \in DOMAIN s.registerVariables : s.registerVariables[r] \in DeclaredNames(declared)
  /\ \A r, q \in DOMAIN s.registerVariables : s.registerVariables[r] = s.registerVariables[q] => r = q
  /\ s.nextTemporary \in Nat
  /\ declared \in Seq(VariableDeclarations)

\* The text of register r stands for w, which is what the machine holds in it.
RegisterExact(s, mu, r, w) ==
  /\ r \in DOMAIN s.registerVariables /\ ~ Shadowed(s, r) =>
       Is(w, ValueOf(s.registerVariables[r], mu))
  /\ r \in DOMAIN s.registerValues \ DOMAIN s.registerVariables /\ <<"register", r>> \notin s.stale =>
       Is(w, Evaluate(s.registerValues[r], mu))
  /\ r \notin DOMAIN s.registerValues \cup DOMAIN s.registerVariables => w = Unknown

\* The same for the name of a slot, and for the text that was last stored to it.
SlotExact(s, b, mu, d, w) ==
  /\ Is(w, ValueOf(SlotName(d), mu))
  /\ d \in DOMAIN s.stackValues /\ s.storedIn[d] = b /\ <<"slot", d>> \notin s.stale =>
       Is(w, Evaluate(s.stackValues[d], mu))

\* Nobody knows the value of a text, such as that of a register that has no expression.
Open(text) == \A mu : NamesExact(mu) => Evaluate(text, mu) = Unknown

FlagsExact(s, mu, fl) ==
  s.comparison.known /\ s.comparison.current /\ <<"comparison", 0>> \notin s.stale =>
    IF s.comparison.isBitTest
    THEN /\ fl[1] = "result" /\ fl[3] = Zero
         /\ Is(fl[2], Term("&", Evaluate(s.comparison.left, mu), Evaluate(s.comparison.right, mu)))
    ELSE \/ Open(s.comparison.left)
         \/ Is(fl[2], Evaluate(s.comparison.left, mu)) /\ Is(fl[3], Evaluate(s.comparison.right, mu))

Top == <<"top", 0>>

\* "top" has the value that was pushed last, as long as it is the last on the stack.
StackExact(mu, st, dp) ==
  /\ \E S : st \in Seq(S)
  /\ dp \in Nat /\ Len(st) <= dp
  /\ Len(st) = dp /\ st # <<>> => Is(Last(st), ValueOf(Top, mu))

--------------------------------------------------------------------------------

LEMMA TermUnknown ==
  ASSUME NEW operation, NEW a, NEW b, Unknown \in {a, b}
  PROVE  Term(operation, a, b) = Unknown
BY DEF Term

LEMMA TermIs ==
  ASSUME NEW operation, NEW a, NEW b, NEW c, NEW d, Is(a, c), Is(b, d)
  PROVE  Is(Term(operation, a, b), Term(operation, c, d))
<1>1. CASE Unknown \in {a, b}
  BY <1>1, TermUnknown DEF Is
<1>2. CASE Unknown \notin {a, b}
  <2>1. a = c /\ b = d
    BY <1>2 DEF Is
  <2> QED BY <2>1 DEF Is
<1> QED BY <1>1, <1>2

LEMMA FixedNames ==
  ASSUME NEW mu, NamesExact(mu)
  PROVE  /\ \A c : ValueOf(<<"constant", c>>, mu) = <<"constant", c>>
         /\ \A r : ValueOf(<<"register", r>>, mu) = Unknown
         /\ \A c : ValueOf(<<"condition", c>>, mu) = Unknown
         /\ \A k \in 0 .. 5 : ValueOf(<<"arg", k>>, mu) = <<"initial", k>>
<1>1. \A name \in {<<"constant", 0>>} : name[1] = "constant"
  OBVIOUS
<1>2. ASSUME NEW c PROVE ValueOf(<<"constant", c>>, mu) = <<"constant", c>>
  <2>1. <<"constant", c>> \notin DOMAIN mu
    BY DEF NamesExact, MayBeAssigned
  <2> QED BY <2>1 DEF ValueOf, InitialValue
<1>3. ASSUME NEW c, NEW k \in {"register", "condition"} PROVE ValueOf(<<k, c>>, mu) = Unknown
  <2>1. <<k, c>> \notin DOMAIN mu
    BY DEF NamesExact, MayBeAssigned
  <2> QED BY <2>1 DEF ValueOf, InitialValue
<1>4. ASSUME NEW k \in 0 .. 5 PROVE ValueOf(<<"arg", k>>, mu) = <<"initial", k>>
  <2>1. <<"arg", k>> \notin DOMAIN mu
    BY DEF NamesExact, MayBeAssigned
  <2> QED BY <2>1 DEF ValueOf, InitialValue
<1> QED BY <1>2, <1>3, <1>4

LEMMA ConstantText ==
  ASSUME NEW c, NEW mu, NamesExact(mu)
  PROVE  IsText(Constant(c)) /\ Evaluate(Constant(c), mu) = <<"constant", c>>
BY NameText, FixedNames DEF Constant

\* The simplification of an operation on equal texts.
LEMMA BinaryExact ==
  ASSUME NEW mu, NamesExact(mu), NEW operation, operation \in BinaryOperators,
         NEW l, NEW r, IsText(l), IsText(r),
         NEW a, NEW c, Is(a, Evaluate(l, mu)), Is(c, Evaluate(r, mu))
  PROVE  /\ IsText(Binary(l, operation, r))
         /\ Is(Term(operation, a, c), Evaluate(Binary(l, operation, r), mu))
<1>1. CASE operation \in {"^", "-"} /\ l = r
  <2>1. Binary(l, operation, r) = Constant(0)
    BY <1>1 DEF Binary
  <2>2. Unknown \notin {a, c} => Term(operation, a, c) = Zero
    BY <1>1 DEF Is, Term
  <2> QED BY <2>1, <2>2, ConstantText, TermUnknown DEF Is, Zero
<1>2. CASE ~ (operation \in {"^", "-"} /\ l = r)
  <2>1. Binary(l, operation, r) = Apply(operation, l, r) /\ operation # "name"
    BY <1>2 DEF Binary, BinaryOperators
  <2> QED BY <2>1, ApplyText, TermIs
<1> QED BY <1>1, <1>2

LEMMA ApplyTexts ==
  \A operation, l, r :
    operation # "name" /\ IsText(l) /\ IsText(r) =>
      /\ IsText(Apply(operation, l, r))
      /\ NamesIn(Apply(operation, l, r)) = NamesIn(l) \cup NamesIn(r)
      /\ \A mu : Evaluate(Apply(operation, l, r), mu) = Term(operation, Evaluate(l, mu), Evaluate(r, mu))
<1> SUFFICES ASSUME NEW operation, NEW l, NEW r, operation # "name", IsText(l), IsText(r)
             PROVE  /\ IsText(Apply(operation, l, r))
                    /\ NamesIn(Apply(operation, l, r)) = NamesIn(l) \cup NamesIn(r)
                    /\ \A mu : Evaluate(Apply(operation, l, r), mu) = Term(operation, Evaluate(l, mu), Evaluate(r, mu))
  OBVIOUS
<1> QED BY ONLY operation # "name", IsText(l), IsText(r), ApplyText

LEMMA UnaryExact ==
  ASSUME NEW mu, NamesExact(mu), NEW l, IsText(l), NEW a, Is(a, Evaluate(l, mu))
  PROVE  /\ IsText(Cast(l)) /\ Is(Term("cast", a, Zero), Evaluate(Cast(l), mu))
         /\ IsText(Negation(l)) /\ Is(Term("neg", a, Zero), Evaluate(Negation(l), mu))
<1>1. IsText(Constant(0)) /\ Evaluate(Constant(0), mu) = Zero
  BY ConstantText DEF Zero
<1>2. Is(Zero, Zero)
  BY DEF Is
<1>4. /\ IsText(Cast(l)) /\ Evaluate(Cast(l), mu) = Term("cast", Evaluate(l, mu), Zero)
      /\ IsText(Negation(l)) /\ Evaluate(Negation(l), mu) = Term("neg", Evaluate(l, mu), Zero)
  BY <1>1, ApplyTexts DEF Cast, Negation
<1> QED BY <1>2, <1>4, TermIs

LEMMA ParameterIndices ==
  ASSUME AbiExact, NEW r \in abi.registers
  PROVE  r \in Registers \ FrameRegisters /\ ParameterIndex(r) \in 0 .. 5
<1>1. /\ ParameterRegisters \in Seq(Registers) /\ Len(ParameterRegisters) <= 6
      /\ ToSet(ParameterRegisters) \subseteq CallClobbered /\ FrameRegisters \cap CallClobbered = {}
      /\ CallClobbered \subseteq Registers
  BY RegistersAssumption
<1>2. r \in ToSet(ParameterRegisters)
  BY DEF AbiExact
<1>3. PICK k \in DOMAIN ParameterRegisters : ParameterRegisters[k] = r
  BY <1>2 DEF ToSet
<1> DEFINE j == CHOOSE i \in DOMAIN ParameterRegisters : ParameterRegisters[i] = r
<1>4. j \in DOMAIN ParameterRegisters
  BY <1>3
<1>5. ParameterIndex(r) = j - 1
  BY DEF ParameterIndex
<1> HIDE DEF j
<1>6. j \in 1 .. Len(ParameterRegisters) /\ Len(ParameterRegisters) \in Nat
  BY <1>1, <1>4
<1> QED BY <1>1, <1>2, <1>5, <1>6

\* The names of slots of different offsets differ.
LEMMA SlotNames ==
  ASSUME AbiExact, NEW d \in Offsets
  PROVE  /\ MayBeAssigned(SlotName(d)) /\ SlotName(d)[1] \in {"local", "memory", "arg"}
         /\ InitialValue(SlotName(d)) = InitialSlot(d)
         /\ \A e \in Offsets : SlotName(e) = SlotName(d) => e = d
<1>1. d \in Int /\ \A e \in Offsets : e \in Int /\ (e >= 16 => e % 8 = 0)
  BY OffsetsAssumption
<1>2. ASSUME NEW e \in Int, e >= 16 PROVE StackParameterIndex(e) \in Int /\ StackParameterIndex(e) >= 6
  BY <1>2 DEF StackParameterIndex
<1>3. ASSUME NEW e \in Int, NEW f \in Int, e >= 16, f >= 16, e % 8 = 0, f % 8 = 0,
             StackParameterIndex(e) = StackParameterIndex(f)
      PROVE  e = f
  BY <1>3 DEF StackParameterIndex
<1>4. CASE d \in abi.stackVariables
  <2>1. SlotName(d) = <<"local", -d>> /\ d < 0
    <3>1. d < 0 /\ d \notin abi.stackParameters
      <4>1. d < 0 /\ (d \in abi.stackParameters => d >= 16)
        BY <1>4 DEF AbiExact
      <4> QED BY <4>1, <1>1
    <3> QED BY <3>1, <1>4 DEF SlotName
  <2>2. InitialValue(SlotName(d)) = <<"slot", d>> /\ InitialSlot(d) = <<"slot", d>>
    BY <1>1, <2>1 DEF InitialValue, InitialSlot
  <2>3. ASSUME NEW e \in Offsets, SlotName(e) = SlotName(d) PROVE e = d
    <3>1. -e = -d
      <4>1. CASE e \in abi.stackVariables
        BY <2>1, <2>3, <4>1 DEF SlotName
      <4>2. CASE e \notin abi.stackVariables
        BY <2>1, <2>3, <4>2 DEF SlotName
      <4> QED BY <4>1, <4>2
    <3> QED BY <3>1, <1>1
  <2> QED BY <2>1, <2>2, <2>3 DEF MayBeAssigned
<1>5. CASE d \notin abi.stackVariables /\ d \in abi.stackParameters
  <2>1. SlotName(d) = <<"arg", StackParameterIndex(d)>> /\ d >= 16
    BY <1>5 DEF SlotName, AbiExact
  <2>2. InitialValue(SlotName(d)) = InitialSlot(d)
    BY <2>1 DEF InitialValue, InitialSlot
  <2>3. ASSUME NEW e \in Offsets, SlotName(e) = SlotName(d) PROVE e = d
    <3>1. e \in abi.stackParameters /\ StackParameterIndex(e) = StackParameterIndex(d)
      BY <2>1, <2>3 DEF SlotName
    <3> QED BY <3>1, <2>1, <1>1, <1>3 DEF AbiExact
  <2> QED BY <2>1, <2>2, <2>3, <1>1, <1>2 DEF MayBeAssigned
<1>6. CASE d \notin abi.stackVariables /\ d \notin abi.stackParameters
  <2>1. SlotName(d) = <<"memory", d>>
    BY <1>6 DEF SlotName
  <2>2. InitialValue(SlotName(d)) = InitialSlot(d)
    BY <2>1 DEF InitialValue
  <2>3. ASSUME NEW e \in Offsets, SlotName(e) = SlotName(d) PROVE e = d
    BY <2>1, <2>3 DEF SlotName
  <2> QED BY <2>1, <2>2, <2>3 DEF MayBeAssigned
<1> QED BY <1>4, <1>5, <1>6

LEMMA PutValue ==
  ASSUME NEW mu, NEW name, NEW w, NEW n
  PROVE  ValueOf(n, Put(mu, name, w)) = IF n = name THEN w ELSE ValueOf(n, mu)
BY DEF ValueOf, Put

\* The names of one environment have the values of the other, where both are known.
AllAlike(mu, env) == \A n : Alike(ValueOf(n, mu), ValueOf(n, env))

LEMMA PutAlike ==
  ASSUME NEW mu, NEW env, AllAlike(mu, env), NEW name, NEW w, NEW v, Alike(w, v)
  PROVE  AllAlike(Put(mu, name, w), Put(env, name, v))
BY PutValue DEF AllAlike

LEMMA EvaluatePut ==
  ASSUME NEW t, IsText(t), NEW mu, NEW name, NEW w, name \notin NamesIn(t)
  PROVE  Evaluate(t, Put(mu, name, w)) = Evaluate(t, mu)
<1>1. \A n \in NamesIn(t) : ValueOf(n, Put(mu, name, w)) = ValueOf(n, mu)
  BY PutValue
<1> QED BY <1>1, EvaluateSame

\* What the machine holds is what the recovered code computes, where both are known.
LEMMA IsAlike ==
  ASSUME NEW mu, NEW env, AllAlike(mu, env), NEW t, IsText(t), NEW w, Is(w, Evaluate(t, mu))
  PROVE  Alike(w, Evaluate(t, env))
<1>1. Alike(Evaluate(t, mu), Evaluate(t, env))
  BY EvaluateAlike DEF AllAlike
<1> QED BY <1>1 DEF Is, Alike

\* Which texts an assignment leaves as they were.
LEMMA AssignedIs ==
  ASSUME NEW s, DOMAIN s = StateFields, NEW name
  PROVE  /\ DOMAIN Assigned(s, name) = StateFields
         /\ \A f \in StateFields \ {"stale"} : Assigned(s, name)[f] = s[f]
         /\ s.stale \subseteq Assigned(s, name).stale
         /\ \A r \in DOMAIN s.registerValues :
              name \in NamesIn(s.registerValues[r]) => <<"register", r>> \in Assigned(s, name).stale
         /\ \A r : <<"register", r>> \in Assigned(s, name).stale =>
              \/ <<"register", r>> \in s.stale
              \/ r \in DOMAIN s.registerValues /\ name \in NamesIn(s.registerValues[r])
         /\ \A d \in DOMAIN s.stackValues :
              name \in NamesIn(s.stackValues[d]) => <<"slot", d>> \in Assigned(s, name).stale
         /\ name \in NamesIn(s.comparison.left) \cup NamesIn(s.comparison.right)
              => <<"comparison", 0>> \in Assigned(s, name).stale
BY DEF Assigned, StateFields

\* Records with the fields of a state.
LEMMA SameFields ==
  ASSUME NEW s, NEW t, \A f \in StateFields \ {"stale"} : t[f] = s[f]
  PROVE  /\ t.registerValues = s.registerValues
         /\ t.stackValues = s.stackValues
         /\ t.registerVariables = s.registerVariables
         /\ t.availableRegisters = s.availableRegisters
         /\ t.nextTemporary = s.nextTemporary
         /\ t.nextCallResult = s.nextCallResult
         /\ t.comparison = s.comparison
         /\ t.storedIn = s.storedIn
BY DEF StateFields

\* What an assignment of w to a name does to the texts: those that are not marked as
\* stale mean what they meant.
Kept(s, mu, t, nu, b, name) ==
  /\ NamesExact(nu)
  /\ \A r \in Registers : \A w :
       /\ RegisterExact(s, mu, r, w)
       /\ r \in DOMAIN s.registerVariables => s.registerVariables[r] # name
       => RegisterExact(t, nu, r, w)
  /\ \A d \in Offsets : \A w :
       SlotExact(s, b, mu, d, w) /\ SlotName(d) # name => SlotExact(t, b, nu, d, w)
  /\ \A fl : FlagsExact(s, mu, fl) => FlagsExact(t, nu, fl)
  /\ name # Top => ValueOf(Top, nu) = ValueOf(Top, mu)

LEMMA AssignName ==
  ASSUME NEW s, NEW declared, StateExact(s, declared), NEW mu, NamesExact(mu),
         NEW name, MayBeAssigned(name), NEW w, NEW b
  PROVE  /\ StateExact(Assigned(s, name), declared)
         /\ Kept(s, mu, Assigned(s, name), Put(mu, name, w), b, name)
<1> DEFINE t == Assigned(s, name)
           nu == Put(mu, name, w)
<1>1. /\ DOMAIN t = StateFields
      /\ \A f \in StateFields \ {"stale"} : t[f] = s[f]
      /\ s.stale \subseteq t.stale
      /\ \A r \in DOMAIN s.registerValues :
           name \in NamesIn(s.registerValues[r]) => <<"register", r>> \in t.stale
      /\ \A d \in DOMAIN s.stackValues :
           name \in NamesIn(s.stackValues[d]) => <<"slot", d>> \in t.stale
      /\ name \in NamesIn(s.comparison.left) \cup NamesIn(s.comparison.right)
           => <<"comparison", 0>> \in t.stale
  BY AssignedIs DEF StateExact
<1> HIDE DEF t
<1>2. /\ t.registerValues = s.registerValues
      /\ t.stackValues = s.stackValues
      /\ t.registerVariables = s.registerVariables
      /\ t.nextTemporary = s.nextTemporary
      /\ t.comparison = s.comparison
      /\ t.storedIn = s.storedIn
  BY <1>1, SameFields
<1>3. StateExact(t, declared)
  BY <1>1, <1>2 DEF StateExact
<1>4. \A n : ValueOf(n, nu) = IF n = name THEN w ELSE ValueOf(n, mu)
  BY PutValue
<1>5. \A x : IsText(x) /\ name \notin NamesIn(x) => Evaluate(x, nu) = Evaluate(x, mu)
  BY EvaluatePut
<1>6. NamesExact(nu)
  BY DEF NamesExact, Put
<1> HIDE DEF nu
<1>7. ASSUME NEW r \in Registers, NEW v, RegisterExact(s, mu, r, v),
             r \in DOMAIN s.registerVariables => s.registerVariables[r] # name
      PROVE  RegisterExact(t, nu, r, v)
  <2>1. Shadowed(t, r) <=> Shadowed(s, r)
    BY <1>2 DEF Shadowed
  <2>2. r \in DOMAIN s.registerVariables => ValueOf(t.registerVariables[r], nu) = ValueOf(s.registerVariables[r], mu)
    BY <1>2, <1>4, <1>7
  <2>3. r \in DOMAIN s.registerValues /\ <<"register", r>> \notin t.stale =>
          /\ <<"register", r>> \notin s.stale
          /\ Evaluate(t.registerValues[r], nu) = Evaluate(s.registerValues[r], mu)
    BY <1>1, <1>2, <1>5 DEF StateExact
  <2> QED BY <1>2, <1>7, <2>1, <2>2, <2>3 DEF RegisterExact
<1>8. ASSUME NEW d \in Offsets, NEW v, SlotExact(s, b, mu, d, v), SlotName(d) # name
      PROVE  SlotExact(t, b, nu, d, v)
  <2>1. ValueOf(SlotName(d), nu) = ValueOf(SlotName(d), mu)
    BY <1>4, <1>8
  <2>2. d \in DOMAIN s.stackValues /\ <<"slot", d>> \notin t.stale =>
          /\ <<"slot", d>> \notin s.stale
          /\ Evaluate(t.stackValues[d], nu) = Evaluate(s.stackValues[d], mu)
    BY <1>1, <1>2, <1>5 DEF StateExact
  <2> QED BY <1>2, <1>8, <2>1, <2>2 DEF SlotExact
<1>9. ASSUME NEW fl, FlagsExact(s, mu, fl)
      PROVE  FlagsExact(t, nu, fl)
  <2>1. s.comparison.known /\ <<"comparison", 0>> \notin t.stale =>
          /\ <<"comparison", 0>> \notin s.stale
          /\ Evaluate(s.comparison.left, nu) = Evaluate(s.comparison.left, mu)
          /\ Evaluate(s.comparison.right, nu) = Evaluate(s.comparison.right, mu)
    BY <1>1, <1>5 DEF StateExact
  <2> QED BY <1>2, <1>9, <2>1 DEF FlagsExact
<1>10. Kept(s, mu, t, nu, b, name)
  BY <1>4, <1>6, <1>7, <1>8, <1>9 DEF Kept
<1> QED BY <1>3, <1>10 DEF t, nu

\* In a function of several blocks registers keep the variables they were given, and one
\* without a variable is a parameter or not known.
VariablesExact(s) ==
  Materialize =>
    /\ DOMAIN s.registerVariables = DOMAIN state.registerVariables
    /\ \A r \in DOMAIN s.registerVariables : s.registerVariables[r] = state.registerVariables[r]
    /\ \A r \in Registers \ DOMAIN s.registerVariables :
         /\ r \in DOMAIN s.registerValues <=> r \in abi.registers
         /\ r \in abi.registers =>
              /\ s.registerValues[r] = Text(<<"arg", ParameterIndex(r)>>)
              /\ <<"register", r>> \notin s.stale

\* What is stored on the stack has been stored in the blocks up to b.
StoredUpTo(s, b) == \A d \in DOMAIN s.stackValues : s.storedIn[d] \in 1 .. b

Sound(s, declared, b) ==
  StateExact(s, declared) /\ VariablesExact(s) /\ StoredUpTo(s, b)

IsDestination(v) ==
  \/ v.register \in Registers /\ v.name = <<"register", v.register>> /\ v.offset = NoOffset
  \/ v.register = NoRegister /\ v.name = Top /\ v.offset = NoOffset
  \/ /\ v.register = NoRegister
     /\ \E d \in Offsets :
          /\ v.name = SlotName(d)
          /\ v.offset = IF d \in abi.stackVariables \cup abi.stackParameters THEN d ELSE NoOffset

\* In a function of several blocks each register that is written has a variable.
HasVariable(v) ==
  Materialize /\ v.register \in Registers \ FrameRegisters => v.register \in DOMAIN state.registerVariables

\* Writing w to v makes t of s: nothing else changes.
WrittenExact(s, mu, t, nu, b, v, w) ==
  /\ NamesExact(nu)
  /\ \A r \in Registers \ {v.register} : \A x : RegisterExact(s, mu, r, x) => RegisterExact(t, nu, r, x)
  /\ v.register \in Registers \ FrameRegisters => RegisterExact(t, nu, v.register, w)
  /\ \A d \in Offsets : \A x : SlotExact(s, b, mu, d, x) /\ SlotName(d) # v.name => SlotExact(t, b, nu, d, x)
  /\ \A d \in Offsets : SlotName(d) = v.name => SlotExact(t, b, nu, d, w)
  /\ \A fl : FlagsExact(s, mu, fl) => FlagsExact(t, nu, fl)
  /\ v.name # Top => ValueOf(Top, nu) = ValueOf(Top, mu)
  /\ v.name = Top => Is(w, ValueOf(Top, nu))

\* States with the same texts.
SameTexts(s, t) ==
  /\ DOMAIN t = StateFields
  /\ t.registerValues = s.registerValues
  /\ t.stackValues = s.stackValues
  /\ t.registerVariables = s.registerVariables
  /\ t.nextTemporary = s.nextTemporary
  /\ t.comparison = s.comparison
  /\ t.storedIn = s.storedIn
  /\ t.stale = s.stale

LEMMA SameSound ==
  ASSUME NEW s, NEW t, SameTexts(s, t)
  PROVE  /\ \A declared, b : Sound(s, declared, b) => Sound(t, declared, b)
         /\ \A mu, r, w : RegisterExact(s, mu, r, w) <=> RegisterExact(t, mu, r, w)
         /\ \A mu, b, d, w : SlotExact(s, b, mu, d, w) <=> SlotExact(t, b, mu, d, w)
         /\ \A mu, fl : FlagsExact(s, mu, fl) <=> FlagsExact(t, mu, fl)
<1>1. \A declared, b : Sound(s, declared, b) => Sound(t, declared, b)
  BY DEF Sound, StateExact, VariablesExact, StoredUpTo, SameTexts
<1>2. \A mu, r, w : RegisterExact(s, mu, r, w) <=> RegisterExact(t, mu, r, w)
  BY DEF RegisterExact, Shadowed, SameTexts
<1>3. \A mu, b, d, w : SlotExact(s, b, mu, d, w) <=> SlotExact(t, b, mu, d, w)
  BY DEF SlotExact, SameTexts
<1>4. \A mu, fl : FlagsExact(s, mu, fl) <=> FlagsExact(t, mu, fl)
  BY DEF FlagsExact, SameTexts
<1> QED BY <1>1, <1>2, <1>3, <1>4

\* The names of variables, slots and the top of the stack differ.
LEMMA NamesApart ==
  ASSUME AbiExact, NEW name \in VariableNames
  PROVE  /\ MayBeAssigned(name) /\ MayBeAssigned(Top)
         /\ name # Top /\ \A r : name # <<"register", r>> /\ <<"register", r>> # Top
         /\ \A d \in Offsets : SlotName(d) # name /\ SlotName(d) # Top
         /\ \A d \in Offsets : \A r : SlotName(d) # <<"register", r>>
<1>1. name[1] \in {"result", "temp"}
  BY DEF VariableNames
<1>2. \A d \in Offsets : SlotName(d)[1] \in {"local", "memory", "arg"}
  BY SlotNames
<1>3. Top[1] = "top" /\ \A r : <<"register", r>>[1] = "register"
  BY DEF Top
<1>4. MayBeAssigned(name) /\ MayBeAssigned(Top)
  BY <1>1, <1>3 DEF MayBeAssigned
<1>5. name # Top
  BY <1>1, <1>3
<1>6. \A r : name # <<"register", r>> /\ <<"register", r>> # Top
  BY <1>1, <1>3
<1> QED BY <1>1, <1>2, <1>3, <1>4, <1>5, <1>6

\* A variable of a register is one of those declared.
LEMMA RegisterVariableName ==
  ASSUME NEW s, NEW declared, StateExact(s, declared), NEW r \in DOMAIN s.registerVariables
  PROVE  s.registerVariables[r] \in VariableNames
<1>1. PICK k \in DOMAIN declared : s.registerVariables[r] = declared[k].name
  BY DEF StateExact, DeclaredNames
<1>2. declared[k] \in VariableDeclarations
  BY <1>1 DEF StateExact
<1> QED BY <1>1, <1>2 DEF VariableDeclarations

\* An assignment keeps what is sound.
LEMMA AssignSound ==
  ASSUME AbiExact, NEW s, NEW declared, NEW b, Sound(s, declared, b), NEW name, MayBeAssigned(name)
  PROVE  Sound(Assigned(s, name), declared, b)
<1> DEFINE t == Assigned(s, name)
<1>1. DOMAIN s = StateFields
  BY DEF Sound, StateExact
<1>2. /\ DOMAIN t = StateFields
      /\ \A f \in StateFields \ {"stale"} : t[f] = s[f]
      /\ \A r : <<"register", r>> \in t.stale =>
              \/ <<"register", r>> \in s.stale
              \/ r \in DOMAIN s.registerValues /\ name \in NamesIn(s.registerValues[r])
  BY <1>1, AssignedIs
<1> HIDE DEF t
<1>3. /\ t.registerValues = s.registerValues
      /\ t.stackValues = s.stackValues
      /\ t.registerVariables = s.registerVariables
      /\ t.nextTemporary = s.nextTemporary
      /\ t.comparison = s.comparison
      /\ t.storedIn = s.storedIn
  BY <1>2, SameFields
<1>4. StateExact(t, declared) /\ StoredUpTo(t, b)
  BY <1>2, <1>3 DEF Sound, StateExact, StoredUpTo
<1>5. ASSUME NEW r \in abi.registers PROVE name \notin NamesIn(Text(<<"arg", ParameterIndex(r)>>))
  <2>1. name # <<"arg", ParameterIndex(r)>>
    BY ParameterIndices DEF MayBeAssigned
  <2> QED BY <2>1, NameText
<1>6. VariablesExact(t)
  BY <1>2, <1>3, <1>5 DEF Sound, VariablesExact
<1> QED BY <1>4, <1>6 DEF Sound, t

\* An assignment, or none where the text is the name: the name has the value of the text.
LEMMA AssignmentExact ==
  ASSUME AbiExact, NEW s, NEW declared, NEW b, Sound(s, declared, b),
         NEW name, MayBeAssigned(name), NEW text, IsText(text), NEW l,
         NEW out, out = Assignment(s, declared, name, text, l)
  PROVE  /\ Sound(out.state, declared, b) /\ out.variables = declared /\ out.lapses = l
         /\ out.state.registerValues = s.registerValues
         /\ out.state.registerVariables = s.registerVariables
         /\ out.state.stackValues = s.stackValues
         /\ out.state.storedIn = s.storedIn
         /\ out.statement.kind \in {"none", "assignment"}
         /\ \A mu, w :
              NamesExact(mu) /\ AllAlike(mu, values) /\ Is(w, Evaluate(text, mu)) =>
                \E nu :
                  /\ AllAlike(nu, ValuesAfter(out.statement))
                  /\ Kept(s, mu, out.state, nu, b, name)
                  /\ Is(w, ValueOf(name, nu))
                  /\ \A d \in DOMAIN s.stackValues :
                       s.stackValues[d] = text /\ <<"slot", d>> \notin out.state.stale =>
                         Is(w, Evaluate(text, nu))
<1>1. CASE Text(name) = text
  <2>1. out = Outcome(s, declared, NoStatement, l)
    BY <1>1 DEF Assignment
  <2>2. out.state = s /\ out.variables = declared /\ out.lapses = l /\ out.statement = NoStatement
    BY <2>1 DEF Outcome
  <2>3. ValuesAfter(NoStatement) = values
    BY DEF ValuesAfter, NoStatement, Statement
  <2>4. NoStatement.kind = "none"
    BY DEF NoStatement, Statement
  <2>5. ASSUME NEW mu, NEW w, NamesExact(mu), Is(w, Evaluate(text, mu))
        PROVE  /\ Kept(s, mu, s, mu, b, name)
               /\ Is(w, ValueOf(name, mu))
    <3>1. Evaluate(text, mu) = ValueOf(name, mu)
      BY <1>1, NameText
    <3> QED BY <2>5, <3>1 DEF Kept
  <2> QED BY <2>2, <2>3, <2>4, <2>5
<1>2. CASE Text(name) # text
  <2> DEFINE t == Assigned(s, name)
             assigned == Statement("assignment", name, text, <<>>)
  <2>1. out = Outcome(t, declared, assigned, l)
    BY <1>2 DEF Assignment
  <2>2. out.state = t /\ out.variables = declared /\ out.lapses = l /\ out.statement = assigned
    BY <2>1 DEF Outcome
  <2>3. ValuesAfter(assigned) = Put(values, name, Denotes(text)) /\ assigned.kind = "assignment"
    BY DEF ValuesAfter, Statement
  <2>4. Sound(t, declared, b)
    BY AssignSound
  <2>5. DOMAIN s = StateFields
    BY DEF Sound, StateExact
  <2>6. /\ \A f \in StateFields \ {"stale"} : t[f] = s[f]
        /\ \A d \in DOMAIN s.stackValues : name \in NamesIn(s.stackValues[d]) => <<"slot", d>> \in t.stale
    BY <2>5, AssignedIs
  <2> HIDE DEF t
  <2>7. /\ t.registerValues = s.registerValues
        /\ t.registerVariables = s.registerVariables
        /\ t.stackValues = s.stackValues
        /\ t.storedIn = s.storedIn
    BY <2>6, SameFields
  <2>8. ASSUME NEW mu, NEW w, NamesExact(mu), AllAlike(mu, values), Is(w, Evaluate(text, mu))
        PROVE  \E nu :
                  /\ AllAlike(nu, ValuesAfter(out.statement))
                  /\ Kept(s, mu, t, nu, b, name)
                  /\ Is(w, ValueOf(name, nu))
                  /\ \A d \in DOMAIN s.stackValues :
                       s.stackValues[d] = text /\ <<"slot", d>> \notin t.stale =>
                         Is(w, Evaluate(text, nu))
    <3> DEFINE nu == Put(mu, name, w)
    <3>1. Alike(w, Denotes(text))
      BY <2>8, IsAlike DEF Denotes
    <3>2. AllAlike(nu, Put(values, name, Denotes(text)))
      BY <2>8, <3>1, PutAlike
    <3>3. Kept(s, mu, t, nu, b, name)
      BY <2>8, AssignName DEF Sound, t
    <3>4. Is(w, ValueOf(name, nu))
      BY PutValue DEF Is
    <3>5. ASSUME NEW d \in DOMAIN s.stackValues, s.stackValues[d] = text, <<"slot", d>> \notin t.stale
          PROVE  Is(w, Evaluate(text, nu))
      <4>1. name \notin NamesIn(text)
        BY <2>6, <3>5
      <4>2. Evaluate(text, nu) = Evaluate(text, mu)
        BY <4>1, EvaluatePut
      <4> QED BY <2>8, <4>2
    <3> HIDE DEF nu
    <3> QED BY <2>2, <2>3, <3>2, <3>3, <3>4, <3>5
  <2> HIDE DEF assigned
  <2> QED BY <2>2, <2>3, <2>4, <2>7, <2>8
<1> QED BY <1>1, <1>2

\* What a lemma about writing shows of the outcome.
Writes(s, declared, b, v, out, w, mu) ==
  \E nu : /\ AllAlike(nu, ValuesAfter(out.statement))
          /\ WrittenExact(s, mu, out.state, nu, b, v, w)

LEMMA WriteRegister ==
  ASSUME AbiExact, NEW s, NEW declared, NEW b, Sound(s, declared, b), NEW v,
         v.register \in Registers, v.name = <<"register", v.register>>, HasVariable(v),
         NEW text, IsText(text), NEW l, NEW out, out = Write(s, declared, b, v, text, l)
  PROVE  /\ Sound(out.state, declared, b) /\ out.variables = declared /\ out.lapses = l
         /\ out.statement.kind \in {"none", "assignment"}
         /\ \A mu, w :
              NamesExact(mu) /\ AllAlike(mu, values) /\ Is(w, Evaluate(text, mu)) =>
                Writes(s, declared, b, v, out, w, mu)
<1> DEFINE r == v.register
           available1 == [s EXCEPT !.availableRegisters = @ \cup {r}]
<1>1. r \in Registers /\ r # NoRegister /\ DOMAIN s = StateFields
  BY RegistersAssumption DEF Sound, StateExact
<1>2. /\ v.name # Top /\ \A d \in Offsets : SlotName(d) # v.name
  <2>1. <<"result", 0>> \in VariableNames
    BY DEF VariableNames
  <2> QED BY <2>1, NamesApart
<1>3. ValuesAfter(NoStatement) = values /\ NoStatement.kind = "none"
  BY DEF ValuesAfter, NoStatement, Statement
<1>4. CASE r \in FrameRegisters
  <2>1. out = Outcome(s, declared, NoStatement, l)
    BY <1>1, <1>4 DEF Write
  <2>2. out.state = s /\ out.variables = declared /\ out.lapses = l /\ out.statement = NoStatement
    BY <2>1 DEF Outcome
  <2>3. ASSUME NEW mu, NEW w, NamesExact(mu) PROVE WrittenExact(s, mu, s, mu, b, v, w)
    BY <1>2, <1>4, <2>3 DEF WrittenExact
  <2> QED BY <1>3, <2>2, <2>3 DEF Writes
<1>5. CASE r \notin FrameRegisters /\ Materialize
  <2> DEFINE name == s.registerVariables[r]
  <2>1. r \in DOMAIN s.registerVariables
    BY <1>1, <1>5 DEF HasVariable, Sound, VariablesExact
  <2>2. SameTexts(s, available1)
    BY <1>1 DEF SameTexts, StateFields
  <2>3. out = Assignment(available1, declared, name, text, l)
    BY <1>1, <1>5 DEF Write
  <2>4. name \in VariableNames
    BY <2>1, RegisterVariableName DEF Sound
  <2>5. MayBeAssigned(name) /\ name # Top /\ \A d \in Offsets : SlotName(d) # name
    BY <2>4, NamesApart
  <2>6. Sound(available1, declared, b)
    BY <2>2, SameSound
  <2>7. \A q \in DOMAIN s.registerVariables : q # r => s.registerVariables[q] # name
    BY <2>1 DEF Sound, StateExact
  <2> HIDE DEF available1
  <2>8. /\ available1.registerVariables = s.registerVariables
        /\ out.state.registerVariables = s.registerVariables
        /\ Sound(out.state, declared, b) /\ out.variables = declared /\ out.lapses = l
        /\ out.statement.kind \in {"none", "assignment"}
    <3> HIDE DEF name
    <3> QED BY <2>2, <2>3, <2>5, <2>6, AssignmentExact DEF SameTexts
  <2>9. ASSUME NEW mu, NEW w, NamesExact(mu), AllAlike(mu, values), Is(w, Evaluate(text, mu))
        PROVE  Writes(s, declared, b, v, out, w, mu)
    <3>1. PICK nu :
            /\ AllAlike(nu, ValuesAfter(out.statement))
            /\ Kept(available1, mu, out.state, nu, b, name)
            /\ Is(w, ValueOf(name, nu))
      <4> HIDE DEF name
      <4> QED BY <2>3, <2>5, <2>6, <2>9, AssignmentExact
    <3>2. ASSUME NEW q \in Registers \ {r}, NEW x, RegisterExact(s, mu, q, x)
          PROVE  RegisterExact(out.state, nu, q, x)
      <4>1. RegisterExact(available1, mu, q, x)
        BY <2>2, <3>2, SameSound
      <4> HIDE DEF name
      <4> QED BY <2>7, <2>8, <3>1, <3>2, <4>1 DEF Kept
    <3>3. RegisterExact(out.state, nu, r, w)
      BY <1>5, <2>1, <2>8, <3>1 DEF RegisterExact, Shadowed
    <3>4. ASSUME NEW d \in Offsets, NEW x, SlotExact(s, b, mu, d, x)
          PROVE  SlotExact(out.state, b, nu, d, x)
      <4>1. SlotExact(available1, b, mu, d, x)
        BY <2>2, <3>4, SameSound
      <4> HIDE DEF name
      <4> QED BY <2>5, <3>1, <4>1 DEF Kept
    <3>5. ASSUME NEW fl, FlagsExact(s, mu, fl)
          PROVE  FlagsExact(out.state, nu, fl)
      <4>1. FlagsExact(available1, mu, fl)
        BY <2>2, <3>5, SameSound
      <4> HIDE DEF name
      <4> QED BY <3>1, <4>1 DEF Kept
    <3>6. NamesExact(nu) /\ ValueOf(Top, nu) = ValueOf(Top, mu)
      BY <2>5, <3>1 DEF Kept
    <3>7. WrittenExact(s, mu, out.state, nu, b, v, w)
      BY <1>2, <3>2, <3>3, <3>4, <3>5, <3>6 DEF WrittenExact
    <3> QED BY <3>1, <3>7 DEF Writes
  <2> QED BY <2>8, <2>9
<1>6. CASE r \notin FrameRegisters /\ ~ Materialize
  <2> DEFINE t == [available1 EXCEPT !.registerValues = Put(@, r, text), !.stale = @ \ {<<"register", r>>}]
  <2>1. out = Outcome(t, declared, NoStatement, l)
    BY <1>1, <1>6 DEF Write
  <2>2. out.state = t /\ out.variables = declared /\ out.lapses = l /\ out.statement = NoStatement
    <3> HIDE DEF t
    <3> QED BY <2>1 DEF Outcome
  <2>3. /\ DOMAIN t = StateFields
        /\ t.registerValues = Put(s.registerValues, r, text)
        /\ t.stackValues = s.stackValues
        /\ t.registerVariables = s.registerVariables
        /\ t.nextTemporary = s.nextTemporary
        /\ t.comparison = s.comparison
        /\ t.storedIn = s.storedIn
        /\ t.stale = s.stale \ {<<"register", r>>}
    BY <1>1 DEF StateFields
  <2> HIDE DEF t
  <2>4. /\ DOMAIN t.registerValues = DOMAIN s.registerValues \cup {r}
        /\ t.registerValues[r] = text
        /\ \A q \in DOMAIN s.registerValues : q # r => t.registerValues[q] = s.registerValues[q]
    BY <2>3 DEF Put
  <2>5. Sound(t, declared, b)
    <3>1. StateExact(t, declared)
      BY <1>1, <1>6, <2>3, <2>4 DEF Sound, StateExact
    <3> QED BY <3>1, <1>6, <2>3 DEF Sound, VariablesExact, StoredUpTo
  <2>6. ASSUME NEW mu, NEW w, NamesExact(mu), AllAlike(mu, values), Is(w, Evaluate(text, mu))
        PROVE  WrittenExact(s, mu, t, mu, b, v, w)
    <3>1. ASSUME NEW q \in Registers \ {r}, NEW x, RegisterExact(s, mu, q, x)
          PROVE  RegisterExact(t, mu, q, x)
      <4>1. q \in DOMAIN t.registerValues <=> q \in DOMAIN s.registerValues
        BY <2>4, <3>1
      <4>2. q \in DOMAIN s.registerValues => t.registerValues[q] = s.registerValues[q]
        BY <2>4, <3>1
      <4>3. <<"register", q>> \in t.stale <=> <<"register", q>> \in s.stale
        BY <2>3, <3>1
      <4> QED BY <2>3, <3>1, <4>1, <4>2, <4>3 DEF RegisterExact, Shadowed
    <3>2. RegisterExact(t, mu, r, w)
      BY <1>6, <2>3, <2>4, <2>6 DEF RegisterExact, Shadowed
    <3>3. \A d \in Offsets : \A x : SlotExact(s, b, mu, d, x) => SlotExact(t, b, mu, d, x)
      BY <2>3 DEF SlotExact
    <3>4. \A fl : FlagsExact(s, mu, fl) => FlagsExact(t, mu, fl)
      BY <2>3 DEF FlagsExact
    <3> QED BY <1>2, <2>6, <3>1, <3>2, <3>3, <3>4 DEF WrittenExact
  <2> QED BY <1>3, <2>2, <2>5, <2>6 DEF Writes
<1> QED BY <1>4, <1>5, <1>6

\* The state after the text of a slot has been recorded, or s for other memory.
Stored(s, b, v, text) ==
  IF v.offset = NoOffset THEN s
  ELSE [s EXCEPT !.stackValues = Put(@, v.offset, text), !.storedIn = Put(@, v.offset, b),
                 !.stale = @ \ {<<"slot", v.offset>>}]

LEMMA StoredSound ==
  ASSUME AbiExact, NEW s, NEW declared, NEW b \in Nat \ {0}, Sound(s, declared, b), NEW v, IsDestination(v),
         v.register = NoRegister, NEW text, IsText(text), NEW t,
         t = Stored(s, b, v, text)
  PROVE  /\ Sound(t, declared, b)
         /\ t.registerVariables = s.registerVariables
         /\ \A mu, r, w : RegisterExact(s, mu, r, w) => RegisterExact(t, mu, r, w)
         /\ \A mu, fl : FlagsExact(s, mu, fl) => FlagsExact(t, mu, fl)
         /\ \A d \in Offsets : \A mu, w :
              SlotExact(s, b, mu, d, w) /\ SlotName(d) # v.name => SlotExact(t, b, mu, d, w)
         /\ \A d \in Offsets :
              SlotName(d) = v.name /\ d \in DOMAIN t.stackValues => t.stackValues[d] = text
<1>1. NoRegister \notin Registers /\ DOMAIN s = StateFields /\ NoOffset \notin Offsets
  BY RegistersAssumption, OffsetsAssumption DEF Sound, StateExact
<1>2. CASE v.offset = NoOffset
  <2>1. t = s
    BY <1>2 DEF Stored
  <2>2. ASSUME NEW d \in Offsets, SlotName(d) = v.name PROVE d \notin DOMAIN s.stackValues
    <3>1. SlotName(d) # Top
      <4>1. <<"result", 0>> \in VariableNames
        BY DEF VariableNames
      <4> QED BY <4>1, NamesApart
    <3>2. PICK e \in Offsets : /\ v.name = SlotName(e)
                               /\ v.offset = IF e \in abi.stackVariables \cup abi.stackParameters THEN e ELSE NoOffset
      BY <1>1, <2>2, <3>1 DEF IsDestination
    <3>3. e = d
      BY <2>2, <3>2, SlotNames
    <3>4. d \notin abi.stackVariables \cup abi.stackParameters
      BY <1>1, <1>2, <3>2, <3>3
    <3> QED BY <3>4 DEF Sound, StateExact
  <2> QED BY <2>1, <2>2
<1>3. CASE v.offset # NoOffset
  <2>1. PICK d \in Offsets : /\ v.name = SlotName(d) /\ v.offset = d
                             /\ d \in abi.stackVariables \cup abi.stackParameters
    BY <1>1, <1>3 DEF IsDestination
  <2>2. t = [s EXCEPT !.stackValues = Put(@, d, text), !.storedIn = Put(@, d, b),
                      !.stale = @ \ {<<"slot", d>>}]
    BY <1>3, <2>1 DEF Stored
  <2>3. /\ DOMAIN t = StateFields
        /\ t.registerValues = s.registerValues
        /\ t.registerVariables = s.registerVariables
        /\ t.nextTemporary = s.nextTemporary
        /\ t.comparison = s.comparison
        /\ t.stackValues = Put(s.stackValues, d, text)
        /\ t.storedIn = Put(s.storedIn, d, b)
        /\ t.stale = s.stale \ {<<"slot", d>>}
    BY <1>1, <2>2 DEF StateFields
  <2>4. /\ DOMAIN t.stackValues = DOMAIN s.stackValues \cup {d}
        /\ t.stackValues[d] = text
        /\ \A e \in DOMAIN s.stackValues : e # d => t.stackValues[e] = s.stackValues[e]
    BY <2>3 DEF Put
  <2>5. /\ DOMAIN t.storedIn = DOMAIN s.storedIn \cup {d}
        /\ t.storedIn[d] = b
        /\ \A e \in DOMAIN s.storedIn : e # d => t.storedIn[e] = s.storedIn[e]
    BY <2>3 DEF Put
  <2>6. \A r : <<"register", r>> \in t.stale <=> <<"register", r>> \in s.stale
    BY <2>3
  <2>7. <<"comparison", 0>> \in t.stale <=> <<"comparison", 0>> \in s.stale
    BY <2>3
  <2>8. Sound(t, declared, b)
    <3>1. StateExact(t, declared)
      BY <1>1, <2>1, <2>3, <2>4, <2>5 DEF Sound, StateExact
    <3>2. VariablesExact(t)
      BY <2>3, <2>6 DEF Sound, VariablesExact
    <3>3. \A e \in DOMAIN s.stackValues : s.storedIn[e] \in 1 .. b /\ e \in DOMAIN s.storedIn
      BY DEF Sound, StateExact, StoredUpTo
    <3>4. StoredUpTo(t, b)
      BY <2>4, <2>5, <3>3 DEF StoredUpTo
    <3> QED BY <3>1, <3>2, <3>4 DEF Sound
  <2>9. \A mu, r, w : RegisterExact(s, mu, r, w) => RegisterExact(t, mu, r, w)
    BY <2>3, <2>6 DEF RegisterExact, Shadowed
  <2>10. \A mu, fl : FlagsExact(s, mu, fl) => FlagsExact(t, mu, fl)
    BY <2>3, <2>7 DEF FlagsExact
  <2>11. ASSUME NEW e \in Offsets, NEW mu, NEW w, SlotExact(s, b, mu, e, w), SlotName(e) # v.name
         PROVE  SlotExact(t, b, mu, e, w)
    <3>1. e # d
      BY <2>1, <2>11
    <3>2. e \in DOMAIN t.stackValues => /\ e \in DOMAIN s.stackValues /\ t.stackValues[e] = s.stackValues[e]
                                        /\ t.storedIn[e] = s.storedIn[e]
      BY <3>1, <2>4, <2>5 DEF Sound, StateExact
    <3>3. <<"slot", e>> \in t.stale <=> <<"slot", e>> \in s.stale
      BY <2>3, <3>1
    <3> QED BY <2>11, <3>2, <3>3 DEF SlotExact
  <2>12. \A e \in Offsets : SlotName(e) = v.name => e = d
    BY <2>1, SlotNames
  <2> QED BY <2>3, <2>4, <2>8, <2>9, <2>10, <2>11, <2>12
<1> QED BY <1>2, <1>3

LEMMA MemoryNames ==
  ASSUME AbiExact, NEW v, IsDestination(v), v.register = NoRegister
  PROVE  /\ MayBeAssigned(v.name)
         /\ \A name \in VariableNames : name # v.name
<1>1. NoRegister \notin Registers
  BY RegistersAssumption
<1>2. v.name = Top \/ \E d \in Offsets : v.name = SlotName(d)
  BY <1>1 DEF IsDestination
<1>3. <<"result", 0>> \in VariableNames
  BY DEF VariableNames
<1> QED BY <1>2, <1>3, NamesApart, SlotNames

LEMMA WriteMemory ==
  ASSUME AbiExact, NEW s, NEW declared, NEW b \in Nat \ {0}, Sound(s, declared, b), NEW v, IsDestination(v),
         v.register = NoRegister,
         NEW text, IsText(text), NEW l, NEW out, out = Write(s, declared, b, v, text, l)
  PROVE  /\ Sound(out.state, declared, b) /\ out.variables = declared /\ out.lapses = l
         /\ out.statement.kind \in {"none", "assignment"}
         /\ \A mu, w :
              NamesExact(mu) /\ AllAlike(mu, values) /\ Is(w, Evaluate(text, mu)) =>
                Writes(s, declared, b, v, out, w, mu)
<1>1. NoRegister \notin Registers /\ v.register \notin FrameRegisters
  BY RegistersAssumption
<1>2. PICK t : t = Stored(s, b, v, text)
  OBVIOUS
<1>3. out = Assignment(t, declared, v.name, text, l)
  BY <1>1, <1>2 DEF Write, Stored
<1>4. /\ Sound(t, declared, b)
      /\ t.registerVariables = s.registerVariables
      /\ \A mu, r, w : RegisterExact(s, mu, r, w) => RegisterExact(t, mu, r, w)
      /\ \A mu, fl : FlagsExact(s, mu, fl) => FlagsExact(t, mu, fl)
      /\ \A d \in Offsets : \A mu, w :
           SlotExact(s, b, mu, d, w) /\ SlotName(d) # v.name => SlotExact(t, b, mu, d, w)
      /\ \A d \in Offsets :
           SlotName(d) = v.name /\ d \in DOMAIN t.stackValues => t.stackValues[d] = text
  BY <1>2, StoredSound
<1>5. MayBeAssigned(v.name) /\ \A r \in DOMAIN t.registerVariables : t.registerVariables[r] # v.name
  BY <1>4, MemoryNames, RegisterVariableName DEF Sound
<1>6. /\ Sound(out.state, declared, b) /\ out.variables = declared /\ out.lapses = l
      /\ out.state.stackValues = t.stackValues
      /\ out.statement.kind \in {"none", "assignment"}
  BY <1>3, <1>4, <1>5, AssignmentExact
<1>7. ASSUME NEW mu, NEW w, NamesExact(mu), AllAlike(mu, values), Is(w, Evaluate(text, mu))
      PROVE  Writes(s, declared, b, v, out, w, mu)
  <2>1. PICK nu :
          /\ AllAlike(nu, ValuesAfter(out.statement))
          /\ Kept(t, mu, out.state, nu, b, v.name)
          /\ Is(w, ValueOf(v.name, nu))
          /\ \A d \in DOMAIN t.stackValues :
               t.stackValues[d] = text /\ <<"slot", d>> \notin out.state.stale => Is(w, Evaluate(text, nu))
    BY <1>3, <1>4, <1>5, <1>7, AssignmentExact
  <2>2. ASSUME NEW r \in Registers, NEW x, RegisterExact(s, mu, r, x)
        PROVE  RegisterExact(out.state, nu, r, x)
    BY <1>4, <1>5, <2>1, <2>2 DEF Kept
  <2>3. ASSUME NEW d \in Offsets, NEW x, SlotExact(s, b, mu, d, x), SlotName(d) # v.name
        PROVE  SlotExact(out.state, b, nu, d, x)
    BY <1>4, <2>1, <2>3 DEF Kept
  <2>4. ASSUME NEW d \in Offsets, SlotName(d) = v.name
        PROVE  SlotExact(out.state, b, nu, d, w)
    <3>1. d \in DOMAIN t.stackValues /\ <<"slot", d>> \notin out.state.stale => Is(w, Evaluate(text, nu))
      BY <1>4, <2>1, <2>4
    <3>2. d \in DOMAIN out.state.stackValues => out.state.stackValues[d] = text
      BY <1>4, <1>6, <2>4
    <3> QED BY <1>6, <2>1, <2>4, <3>1, <3>2 DEF SlotExact
  <2>5. \A fl : FlagsExact(s, mu, fl) => FlagsExact(out.state, nu, fl)
    BY <1>4, <2>1 DEF Kept
  <2>6. NamesExact(nu) /\ (v.name # Top => ValueOf(Top, nu) = ValueOf(Top, mu))
    BY <2>1 DEF Kept
  <2>7. WrittenExact(s, mu, out.state, nu, b, v, w)
    BY <1>1, <2>1, <2>2, <2>3, <2>4, <2>5, <2>6 DEF WrittenExact
  <2> QED BY <2>1, <2>7 DEF Writes
<1> QED BY <1>6, <1>7

LEMMA WriteExact ==
  ASSUME AbiExact, NEW s, NEW declared, NEW b \in Nat \ {0}, Sound(s, declared, b), NEW v, IsDestination(v),
         HasVariable(v), NEW text, IsText(text), NEW l, NEW out, out = Write(s, declared, b, v, text, l)
  PROVE  /\ Sound(out.state, declared, b) /\ out.variables = declared /\ out.lapses = l
         /\ out.statement.kind \in {"none", "assignment"}
         /\ \A mu, w :
              NamesExact(mu) /\ AllAlike(mu, values) /\ Is(w, Evaluate(text, mu)) =>
                Writes(s, declared, b, v, out, w, mu)
<1>1. CASE v.register = NoRegister
  BY <1>1, WriteMemory
<1>2. CASE v.register # NoRegister
  <2>1. v.register \in Registers /\ v.name = <<"register", v.register>>
    BY <1>2 DEF IsDestination
  <2> QED BY <2>1, WriteRegister
<1> QED BY <1>1, <1>2

\* Among one more temporaries than there are variables, one is none of them.
LEMMA FreshExists ==
  ASSUME NEW declared \in Seq(VariableDeclarations), NEW n \in Nat
  PROVE  \E m \in n .. n + Len(declared) : <<"temp", m>> \notin DeclaredNames(declared)
<1>1. SUFFICES ASSUME \A m \in n .. n + Len(declared) : <<"temp", m>> \in DeclaredNames(declared)
               PROVE  FALSE
  OBVIOUS
<1> DEFINE S == n .. n + Len(declared)
           T == 1 .. Len(declared)
           f == [m \in S |-> CHOOSE k \in T : declared[k].name = <<"temp", m>>]
<1>2. Len(declared) \in Nat /\ DOMAIN declared = T
  OBVIOUS
<1>3. IsFiniteSet(S) /\ IsFiniteSet(T) /\ Cardinality(S) = Len(declared) + 1 /\ Cardinality(T) = Len(declared)
  <2>1. \A i, j \in Int : IsFiniteSet(i .. j) /\ Cardinality(i .. j) = IF i > j THEN 0 ELSE j - i + 1
    BY FS_Interval
  <2>2. PICK k \in Nat : k = Len(declared)
    BY <1>2
  <2>3. n \in Int /\ n + k \in Int /\ ~ (n > n + k) /\ n + k - n + 1 = k + 1
    OBVIOUS
  <2>4. IsFiniteSet(n .. n + k) /\ Cardinality(n .. n + k) = k + 1
    BY <2>1, <2>3
  <2>5. IsFiniteSet(1 .. k) /\ Cardinality(1 .. k) = IF 1 > k THEN 0 ELSE k - 1 + 1
    BY <2>1
  <2>6. (IF 1 > k THEN 0 ELSE k - 1 + 1) = k
    OBVIOUS
  <2> QED BY <2>2, <2>4, <2>5, <2>6
<1>4. \A m \in S : \E k \in T : declared[k].name = <<"temp", m>>
  BY <1>1, <1>2 DEF DeclaredNames
<1>5. \A m \in S : f[m] \in T /\ declared[f[m]].name = <<"temp", m>>
  BY <1>4
<1>6. f \in [S -> T]
  BY <1>5
<1> HIDE DEF f
<1>7. PICK i, j \in S : i # j /\ f[i] = f[j]
  <2>1. Cardinality(T) < Cardinality(S)
    BY <1>2, <1>3
  <2> HIDE DEF S, T
  <2>2. \A X, Y : \A g \in [X -> Y] :
          IsFiniteSet(X) /\ IsFiniteSet(Y) /\ Cardinality(Y) < Cardinality(X) =>
            \E i, j \in X : i # j /\ g[i] = g[j]
    BY FS_PigeonHole
  <2> QED BY <1>3, <1>6, <2>1, <2>2
<1>8. <<"temp", i>> = <<"temp", j>>
  BY <1>5, <1>7
<1> QED BY <1>7, <1>8

LEMMA FreshIsNew ==
  ASSUME NEW s, NEW declared, StateExact(s, declared)
  PROVE  /\ FreshTemporary(s, declared) \in Nat
         /\ <<"temp", FreshTemporary(s, declared)>> \notin DeclaredNames(declared)
<1> DEFINE n == s.nextTemporary
           C == {m \in n .. n + Len(declared) : <<"temp", m>> \notin DeclaredNames(declared)}
<1>1. n \in Nat /\ declared \in Seq(VariableDeclarations) /\ Len(declared) \in Nat
  BY DEF StateExact
<1>2. C # {}
  BY <1>1, FreshExists
<1>3. PICK m \in C : \A k \in C : m <= k
  <2>1. C \in SUBSET Nat
    BY <1>1
  <2> QED BY <1>2, <2>1, LeastElement
<1>4. \A k \in n .. m - 1 : <<"temp", k>> \in DeclaredNames(declared)
  <2> TAKE k \in n .. m - 1
  <2>1. k \in n .. n + Len(declared) /\ ~ (m <= k)
    BY <1>1, <1>3
  <2>2. k \notin C
    BY <1>3, <2>1
  <2> QED BY <2>1, <2>2
<1>5. /\ FreshTemporary(s, declared) \in n .. n + Len(declared)
      /\ <<"temp", FreshTemporary(s, declared)>> \notin DeclaredNames(declared)
  <2>1. m \in n .. n + Len(declared) /\ <<"temp", m>> \notin DeclaredNames(declared)
    BY <1>3
  <2> HIDE DEF C
  <2> QED BY <1>4, <2>1, Zenon DEF FreshTemporary
<1> QED BY <1>1, <1>5

LEMMA NewNameIsNew ==
  ASSUME NEW s, NEW declared, StateExact(s, declared), NEW wanted
  PROVE  /\ NewName(s, declared, wanted).name \in VariableNames
         /\ NewName(s, declared, wanted).name \notin DeclaredNames(declared)
         /\ NewName(s, declared, wanted).next \in Nat
<1>1. /\ FreshTemporary(s, declared) \in Nat
      /\ <<"temp", FreshTemporary(s, declared)>> \notin DeclaredNames(declared)
      /\ s.nextTemporary \in Nat
  BY FreshIsNew DEF StateExact
<1> QED BY <1>1 DEF NewName, VariableNames

\* In a function of one block variables may be declared on the way.
MayDeclare(declared, more) ==
  \/ more = declared
  \/ ~ Materialize /\ \E name : more = Declare(declared, name, <<>>)

LEMMA DeclareNames ==
  ASSUME NEW declared \in Seq(VariableDeclarations), NEW name \in VariableNames, NEW x \in {<<>>} \cup ({"arg"} \X (0 .. 5))
  PROVE  /\ Declare(declared, name, x) \in Seq(VariableDeclarations)
         /\ DeclaredNames(Declare(declared, name, x)) = DeclaredNames(declared) \cup {name}
         /\ \A k \in 1 .. Len(declared) : Declare(declared, name, x)[k] = declared[k]
         /\ Len(Declare(declared, name, x)) = Len(declared) + 1
         /\ Declare(declared, name, x)[Len(declared) + 1] = [name |-> name, initializer |-> x]
<1> DEFINE e == [name |-> name, initializer |-> x]
           more == Append(declared, e)
<1>1. e \in VariableDeclarations /\ e.name = name
  BY DEF VariableDeclarations
<1> HIDE DEF e
<1>2. /\ more \in Seq(VariableDeclarations) /\ Len(more) = Len(declared) + 1
      /\ (\A k \in 1 .. Len(declared) : more[k] = declared[k])
      /\ more[Len(declared) + 1] = e
      /\ DOMAIN more = 1 .. Len(declared) + 1 /\ DOMAIN declared = 1 .. Len(declared)
      /\ Len(declared) \in Nat
  BY <1>1
<1>3. more = Declare(declared, name, x)
  BY DEF Declare, e
<1> HIDE DEF more
<1>4. \A k \in 1 .. Len(declared) + 1 : k \in 1 .. Len(declared) \/ k = Len(declared) + 1
  BY <1>2
<1>5. Len(declared) + 1 \in DOMAIN more /\ \A k \in 1 .. Len(declared) : k \in DOMAIN more
  BY <1>2
<1>6. DeclaredNames(more) = DeclaredNames(declared) \cup {name}
  <2>1. ASSUME NEW k \in DOMAIN more PROVE more[k].name \in DeclaredNames(declared) \cup {name}
    BY <1>1, <1>2, <1>4 DEF DeclaredNames
  <2>2. name \in DeclaredNames(more)
    BY <1>1, <1>2, <1>5 DEF DeclaredNames
  <2>3. ASSUME NEW k \in DOMAIN declared PROVE declared[k].name \in DeclaredNames(more)
    BY <1>2, <1>5 DEF DeclaredNames
  <2>4. DeclaredNames(more) \subseteq DeclaredNames(declared) \cup {name}
    BY <2>1 DEF DeclaredNames
  <2>5. DeclaredNames(declared) \subseteq DeclaredNames(more)
    BY <2>3 DEF DeclaredNames
  <2> QED BY <2>2, <2>4, <2>5
<1> QED BY <1>2, <1>3, <1>6 DEF e

\* A register is given a variable of its own by a conditional.
Selected(s, declared, r, name, next) ==
  [Assigned(s, name) EXCEPT !.registerVariables = Put(@, r, name),
                            !.nextTemporary = next,
                            !.availableRegisters = @ \cup {r},
                            !.registerValues = Without(@, {r}),
                            !.stale = @ \ {<<"register", r>>}]

LEMMA SelectedExact ==
  ASSUME AbiExact, NEW s, NEW declared, NEW b, Sound(s, declared, b),
         NEW r \in Registers \ FrameRegisters, NEW name \in VariableNames, NEW next \in Nat, NEW more,
         \/ /\ r \in DOMAIN s.registerVariables /\ name = s.registerVariables[r] /\ more = declared
         \/ /\ ~ Materialize /\ r \notin DOMAIN s.registerVariables /\ name \notin DeclaredNames(declared)
            /\ more = Declare(declared, name, <<>>),
         NEW t, t = Selected(s, declared, r, name, next)
  PROVE  /\ Sound(t, more, b)
         /\ \A mu, w : NamesExact(mu) =>
              /\ NamesExact(Put(mu, name, w))
              /\ RegisterExact(t, Put(mu, name, w), r, w)
              /\ \A q \in Registers \ {r} : \A x :
                   RegisterExact(s, mu, q, x) => RegisterExact(t, Put(mu, name, w), q, x)
              /\ \A d \in Offsets : \A x : SlotExact(s, b, mu, d, x) => SlotExact(t, b, Put(mu, name, w), d, x)
              /\ \A fl : FlagsExact(s, mu, fl) => FlagsExact(t, Put(mu, name, w), fl)
              /\ ValueOf(Top, Put(mu, name, w)) = ValueOf(Top, mu)
<1> DEFINE u == Assigned(s, name)
<1>1. MayBeAssigned(name) /\ name # Top /\ \A d \in Offsets : SlotName(d) # name
  BY NamesApart
<1>2. Sound(u, declared, b)
  BY <1>1, AssignSound
<1>3. DOMAIN s = StateFields /\ StateExact(s, declared)
  BY DEF Sound, StateExact
<1>4. DOMAIN u = StateFields /\ \A f \in StateFields \ {"stale"} : u[f] = s[f]
  BY <1>3, AssignedIs
<1>5. /\ u.registerValues = s.registerValues
      /\ u.stackValues = s.stackValues
      /\ u.registerVariables = s.registerVariables
      /\ u.comparison = s.comparison
      /\ u.storedIn = s.storedIn
  BY <1>4, SameFields
<1>6. \A mu, w : NamesExact(mu) => Kept(s, mu, u, Put(mu, name, w), b, name)
  BY <1>1, <1>3, AssignName
<1>7. t = [u EXCEPT !.registerVariables = Put(@, r, name),
                    !.nextTemporary = next,
                    !.availableRegisters = @ \cup {r},
                    !.registerValues = Without(@, {r}),
                    !.stale = @ \ {<<"register", r>>}]
  BY DEF Selected
<1> HIDE DEF u
<1>8. /\ DOMAIN t = StateFields
      /\ t.registerValues = Without(s.registerValues, {r})
      /\ t.stackValues = s.stackValues
      /\ t.registerVariables = Put(s.registerVariables, r, name)
      /\ t.nextTemporary = next
      /\ t.comparison = s.comparison
      /\ t.storedIn = s.storedIn
      /\ t.stale = u.stale \ {<<"register", r>>}
  BY <1>4, <1>5, <1>7 DEF StateFields
<1>9. /\ DOMAIN t.registerVariables = DOMAIN s.registerVariables \cup {r}
      /\ t.registerVariables[r] = name
      /\ \A q \in DOMAIN s.registerVariables : q # r => t.registerVariables[q] = s.registerVariables[q]
  BY <1>8 DEF Put
<1>10. /\ DOMAIN t.registerValues = DOMAIN s.registerValues \ {r}
       /\ \A q \in DOMAIN s.registerValues : q # r => t.registerValues[q] = s.registerValues[q]
  BY <1>8 DEF Without
<1>11. declared \in Seq(VariableDeclarations)
  BY <1>3 DEF StateExact
<1>12. /\ more \in Seq(VariableDeclarations)
       /\ DeclaredNames(more) = DeclaredNames(declared) \cup {name}
  <2>1. CASE r \in DOMAIN s.registerVariables /\ name = s.registerVariables[r] /\ more = declared
    BY <2>1, <1>3, <1>11 DEF StateExact
  <2>2. CASE name \notin DeclaredNames(declared) /\ more = Declare(declared, name, <<>>)
    BY <2>2, <1>11, DeclareNames
  <2> QED BY <2>1, <2>2
<1>13. \A q \in DOMAIN s.registerVariables : q # r => s.registerVariables[q] # name
  <2>1. CASE r \in DOMAIN s.registerVariables /\ name = s.registerVariables[r]
    BY <2>1, <1>3 DEF StateExact
  <2>2. CASE name \notin DeclaredNames(declared)
    BY <2>2, <1>3 DEF StateExact
  <2> QED BY <2>1, <2>2
<1>14. StateExact(t, more)
  <2>1. \A q, p \in DOMAIN t.registerVariables : t.registerVariables[q] = t.registerVariables[p] => q = p
    BY <1>3, <1>9, <1>13 DEF StateExact
  <2>2. \A q \in DOMAIN t.registerVariables : t.registerVariables[q] \in DeclaredNames(more)
    BY <1>3, <1>9, <1>12 DEF StateExact
  <2> QED BY <1>3, <1>8, <1>9, <1>10, <1>12, <2>1, <2>2 DEF StateExact
<1>15. VariablesExact(t)
  <2> SUFFICES ASSUME Materialize PROVE VariablesExact(t)
    BY DEF VariablesExact
  <2>1. r \in DOMAIN s.registerVariables /\ name = s.registerVariables[r]
    OBVIOUS
  <2>2. /\ DOMAIN t.registerVariables = DOMAIN s.registerVariables
        /\ \A q \in DOMAIN s.registerVariables : t.registerVariables[q] = s.registerVariables[q]
    BY <1>9, <2>1
  <2>3. \A q \in Registers \ DOMAIN s.registerVariables : <<"register", q>> \in t.stale <=> <<"register", q>> \in u.stale
    BY <1>8, <2>1
  <2> QED BY <1>2, <1>5, <1>10, <2>1, <2>2, <2>3 DEF Sound, VariablesExact
<1>16. Sound(t, more, b)
  BY <1>8, <1>14, <1>15 DEF Sound, StoredUpTo
<1>17. ASSUME NEW mu, NEW w, NamesExact(mu)
       PROVE  /\ NamesExact(Put(mu, name, w))
              /\ RegisterExact(t, Put(mu, name, w), r, w)
              /\ \A q \in Registers \ {r} : \A x :
                   RegisterExact(s, mu, q, x) => RegisterExact(t, Put(mu, name, w), q, x)
              /\ \A d \in Offsets : \A x : SlotExact(s, b, mu, d, x) => SlotExact(t, b, Put(mu, name, w), d, x)
              /\ \A fl : FlagsExact(s, mu, fl) => FlagsExact(t, Put(mu, name, w), fl)
              /\ ValueOf(Top, Put(mu, name, w)) = ValueOf(Top, mu)
  <2> DEFINE nu == Put(mu, name, w)
  <2>1. Kept(s, mu, u, nu, b, name)
    BY <1>6, <1>17
  <2>2. ValueOf(name, nu) = w
    BY PutValue
  <2> HIDE DEF nu
  <2>3. NamesExact(nu) /\ ValueOf(Top, nu) = ValueOf(Top, mu)
    BY <1>1, <2>1 DEF Kept
  <2>4. RegisterExact(t, nu, r, w)
    BY <1>9, <1>10, <2>2 DEF RegisterExact, Is
  <2>5. ASSUME NEW q \in Registers \ {r}, NEW x, RegisterExact(s, mu, q, x)
        PROVE  RegisterExact(t, nu, q, x)
    <3>1. RegisterExact(u, nu, q, x)
      BY <1>13, <2>1, <2>5 DEF Kept
    <3>2. q \in DOMAIN t.registerVariables <=> q \in DOMAIN u.registerVariables
      BY <1>5, <1>9, <2>5
    <3>3. q \in DOMAIN u.registerVariables => t.registerVariables[q] = u.registerVariables[q]
      BY <1>5, <1>9, <2>5
    <3>4. q \in DOMAIN t.registerValues <=> q \in DOMAIN u.registerValues
      BY <1>5, <1>10, <2>5
    <3>5. q \in DOMAIN u.registerValues => t.registerValues[q] = u.registerValues[q]
      BY <1>5, <1>10, <2>5
    <3>6. <<"register", q>> \in t.stale <=> <<"register", q>> \in u.stale
      BY <1>8, <2>5
    <3> QED BY <3>1, <3>2, <3>3, <3>4, <3>5, <3>6 DEF RegisterExact, Shadowed
  <2>6. ASSUME NEW d \in Offsets, NEW x, SlotExact(s, b, mu, d, x)
        PROVE  SlotExact(t, b, nu, d, x)
    <3>1. SlotExact(u, b, nu, d, x)
      BY <1>1, <2>1, <2>6 DEF Kept
    <3>2. <<"slot", d>> \in t.stale <=> <<"slot", d>> \in u.stale
      BY <1>8
    <3> QED BY <1>5, <1>8, <3>1, <3>2 DEF SlotExact
  <2>7. ASSUME NEW fl, FlagsExact(s, mu, fl)
        PROVE  FlagsExact(t, nu, fl)
    <3>1. FlagsExact(u, nu, fl)
      BY <2>1, <2>7 DEF Kept
    <3>2. <<"comparison", 0>> \in t.stale <=> <<"comparison", 0>> \in u.stale
      BY <1>8
    <3> QED BY <1>5, <1>8, <3>1, <3>2 DEF FlagsExact
  <2> QED BY <2>3, <2>4, <2>5, <2>6, <2>7 DEF nu
<1> QED BY <1>16, <1>17

LEMMA ConditionalStatement ==
  ASSUME NEW name, NEW condition, NEW choices, NEW mu, AllAlike(mu, values), NEW w,
         Alike(w, Select(Denotes(condition), Denotes(choices[1]), Denotes(choices[2])))
  PROVE  /\ Statement("conditional", name, condition, choices).kind = "conditional"
         /\ AllAlike(Put(mu, name, w), ValuesAfter(Statement("conditional", name, condition, choices)))
<1> DEFINE selected == Select(Denotes(condition), Denotes(choices[1]), Denotes(choices[2]))
<1>1. ValuesAfter(Statement("conditional", name, condition, choices)) = Put(values, name, selected)
  BY DEF ValuesAfter, Statement
<1>2. AllAlike(Put(mu, name, w), Put(values, name, selected))
  <2> HIDE DEF selected
  <2> QED BY PutAlike DEF selected
<1> HIDE DEF selected
<1> QED BY <1>1, <1>2 DEF Statement

LEMMA ConditionalRegister ==
  ASSUME AbiExact, NEW s, NEW declared, NEW b, Sound(s, declared, b), NEW v,
         v.register \in Registers, v.name = <<"register", v.register>>, HasVariable(v),
         NEW condition, NEW choices, NEW l, NEW out,
         out = WriteConditional(s, declared, b, v, condition, choices, l)
  PROVE  /\ Sound(out.state, out.variables, b) /\ MayDeclare(declared, out.variables) /\ out.lapses = l
         /\ out.statement.kind \in {"none", "conditional"}
         /\ \A mu, w :
              /\ NamesExact(mu) /\ AllAlike(mu, values)
              /\ Alike(w, Select(Denotes(condition), Denotes(choices[1]), Denotes(choices[2])))
              => Writes(s, declared, b, v, out, w, mu)
<1> DEFINE r == v.register
           new == NewName(s, declared, r = "rax")
           known == r \in DOMAIN s.registerVariables
           name == IF known THEN s.registerVariables[r] ELSE new.name
           next == IF known THEN s.nextTemporary ELSE new.next
           more == IF known THEN declared ELSE Declare(declared, name, <<>>)
           t == Selected(s, declared, r, name, next)
           statement == Statement("conditional", name, condition, choices)
<1>1. r \in Registers /\ r # NoRegister /\ DOMAIN s = StateFields /\ StateExact(s, declared)
  BY RegistersAssumption DEF Sound, StateExact
<1>2. v.name # Top /\ \A d \in Offsets : SlotName(d) # v.name
  <2>1. <<"result", 0>> \in VariableNames
    BY DEF VariableNames
  <2> QED BY <2>1, NamesApart
<1>3. CASE r \in FrameRegisters
  <2>1. ValuesAfter(NoStatement) = values /\ NoStatement.kind = "none"
    BY DEF ValuesAfter, NoStatement, Statement
  <2>2. out = Outcome(s, declared, NoStatement, l)
    BY <1>1, <1>3 DEF WriteConditional
  <2>3. out.state = s /\ out.variables = declared /\ out.lapses = l /\ out.statement = NoStatement
    BY <2>2 DEF Outcome
  <2>4. ASSUME NEW mu, NEW w, NamesExact(mu) PROVE WrittenExact(s, mu, s, mu, b, v, w)
    BY <1>2, <1>3, <2>4 DEF WrittenExact
  <2> QED BY <2>1, <2>3, <2>4 DEF Writes, MayDeclare
<1>4. CASE r \notin FrameRegisters
  <2>1. name \in VariableNames /\ next \in Nat /\ (~ known => name \notin DeclaredNames(declared))
    BY <1>1, NewNameIsNew, RegisterVariableName DEF StateExact
  <2>2. Assigned(s, name).nextTemporary = s.nextTemporary
    BY <1>1 DEF Assigned, StateFields
  <2>3. out = Outcome(t, more, statement, l)
    <3> DEFINE u == Assigned(s, name)
    <3>1. out = Outcome([u EXCEPT !.registerVariables = Put(@, r, name),
                                  !.nextTemporary = IF known THEN @ ELSE new.next,
                                  !.availableRegisters = @ \cup {r},
                                  !.registerValues = Without(@, {r}),
                                  !.stale = @ \ {<<"register", r>>}], more, statement, l)
      BY <1>1, <1>4 DEF WriteConditional
    <3>2. [u EXCEPT !.registerVariables = Put(@, r, name),
                                  !.nextTemporary = IF known THEN @ ELSE new.next,
                                  !.availableRegisters = @ \cup {r},
                                  !.registerValues = Without(@, {r}),
                                  !.stale = @ \ {<<"register", r>>}]
            = [u EXCEPT !.registerVariables = Put(@, r, name),
                                  !.nextTemporary = next,
                                  !.availableRegisters = @ \cup {r},
                                  !.registerValues = Without(@, {r}),
                                  !.stale = @ \ {<<"register", r>>}]
      <4> HIDE DEF known, new
      <4>1. u.nextTemporary = s.nextTemporary
        BY <2>2
      <4> HIDE DEF u
      <4>2. (IF known THEN u.nextTemporary ELSE new.next) = next
        BY <4>1
      <4> HIDE DEF next
      <4> QED BY <4>2
    <3> QED BY <3>1, <3>2 DEF Selected
  <2>4. out.state = t /\ out.variables = more /\ out.lapses = l /\ out.statement = statement
    <3> HIDE DEF t, more, statement
    <3> QED BY <2>3 DEF Outcome
  <2>5. \/ r \in DOMAIN s.registerVariables /\ name = s.registerVariables[r] /\ more = declared
        \/ /\ ~ Materialize /\ r \notin DOMAIN s.registerVariables /\ name \notin DeclaredNames(declared)
           /\ more = Declare(declared, name, <<>>)
    BY <1>1, <1>4, <2>1 DEF HasVariable, Sound, VariablesExact
  <2>6. MayDeclare(declared, more)
    <3> HIDE DEF name, more
    <3> QED BY <2>5 DEF MayDeclare
  <2> HIDE DEF name, next, more, t, known, new
  <2>7. /\ Sound(t, more, b)
        /\ \A mu, w : NamesExact(mu) =>
              /\ NamesExact(Put(mu, name, w))
              /\ RegisterExact(t, Put(mu, name, w), r, w)
              /\ \A q \in Registers \ {r} : \A x :
                   RegisterExact(s, mu, q, x) => RegisterExact(t, Put(mu, name, w), q, x)
              /\ \A d \in Offsets : \A x : SlotExact(s, b, mu, d, x) => SlotExact(t, b, Put(mu, name, w), d, x)
              /\ \A fl : FlagsExact(s, mu, fl) => FlagsExact(t, Put(mu, name, w), fl)
              /\ ValueOf(Top, Put(mu, name, w)) = ValueOf(Top, mu)
    <3>1. r \in Registers \ FrameRegisters
      BY <1>1, <1>4
    <3> HIDE DEF r
    <3> QED BY <2>1, <2>5, <3>1, SelectedExact DEF t
  <2>8. ASSUME NEW mu, NEW w, NamesExact(mu), AllAlike(mu, values),
               Alike(w, Select(Denotes(condition), Denotes(choices[1]), Denotes(choices[2])))
        PROVE  Writes(s, declared, b, v, out, w, mu)
    <3>1. AllAlike(Put(mu, name, w), ValuesAfter(statement))
      BY <2>8, ConditionalStatement
    <3> HIDE DEF statement
    <3>2. WrittenExact(s, mu, t, Put(mu, name, w), b, v, w)
      BY <1>2, <2>7, <2>8 DEF WrittenExact
    <3> QED BY <2>4, <3>1, <3>2 DEF Writes
  <2>9. statement.kind = "conditional"
    BY DEF Statement
  <2> HIDE DEF statement
  <2> QED BY <2>4, <2>6, <2>7, <2>8, <2>9
<1> QED BY <1>3, <1>4

LEMMA ConditionalMemory ==
  ASSUME AbiExact, NEW s, NEW declared, NEW b \in Nat \ {0}, Sound(s, declared, b), NEW v, IsDestination(v),
         v.register = NoRegister, NEW condition, NEW choices, NEW l, NEW out,
         out = WriteConditional(s, declared, b, v, condition, choices, l)
  PROVE  /\ Sound(out.state, out.variables, b) /\ MayDeclare(declared, out.variables) /\ out.lapses = l
         /\ out.statement.kind \in {"none", "conditional"}
         /\ \A mu, w :
              /\ NamesExact(mu) /\ AllAlike(mu, values)
              /\ Alike(w, Select(Denotes(condition), Denotes(choices[1]), Denotes(choices[2])))
              => Writes(s, declared, b, v, out, w, mu)
<1> DEFINE name == v.name
           u == Assigned(s, name)
           t == Stored(u, b, v, Text(name))
           statement == Statement("conditional", name, condition, choices)
<1>1. NoRegister \notin Registers /\ v.register \notin FrameRegisters
  BY RegistersAssumption
<1>2. MayBeAssigned(name) /\ \A r \in DOMAIN s.registerVariables : s.registerVariables[r] # name
  BY MemoryNames, RegisterVariableName DEF Sound
<1>3. out = Outcome(t, declared, statement, l)
  BY <1>1 DEF WriteConditional, Stored
<1>4. out.state = t /\ out.variables = declared /\ out.lapses = l /\ out.statement = statement
  <2> HIDE DEF t, statement
  <2> QED BY <1>3 DEF Outcome
<1>5. Sound(u, declared, b)
  BY <1>2, AssignSound
<1>6. \A mu, w : NamesExact(mu) => Kept(s, mu, u, Put(mu, name, w), b, name)
  BY <1>2, AssignName DEF Sound
<1> HIDE DEF u
<1>7. IsText(Text(name)) /\ \A mu : Evaluate(Text(name), mu) = ValueOf(name, mu)
  BY NameText
<1>8. /\ Sound(t, declared, b)
      /\ \A mu, r, w : RegisterExact(u, mu, r, w) => RegisterExact(t, mu, r, w)
      /\ \A mu, fl : FlagsExact(u, mu, fl) => FlagsExact(t, mu, fl)
      /\ \A d \in Offsets : \A mu, w :
           SlotExact(u, b, mu, d, w) /\ SlotName(d) # v.name => SlotExact(t, b, mu, d, w)
      /\ \A d \in Offsets :
           SlotName(d) = v.name /\ d \in DOMAIN t.stackValues => t.stackValues[d] = Text(name)
  <2>1. PICK text : text = Text(name)
    OBVIOUS
  <2>2. IsText(text)
    BY <1>7, <2>1
  <2>3. PICK x : x = Stored(u, b, v, text)
    OBVIOUS
  <2> QED BY <1>5, <2>1, <2>2, <2>3, StoredSound
<1> HIDE DEF t
<1>9. ASSUME NEW mu, NEW w, NamesExact(mu), AllAlike(mu, values),
             Alike(w, Select(Denotes(condition), Denotes(choices[1]), Denotes(choices[2])))
      PROVE  Writes(s, declared, b, v, out, w, mu)
  <2> DEFINE nu == Put(mu, name, w)
  <2>1. AllAlike(nu, ValuesAfter(statement))
    BY <1>9, ConditionalStatement
  <2>2. Kept(s, mu, u, nu, b, name)
    BY <1>6, <1>9
  <2>3. ValueOf(name, nu) = w
    BY PutValue
  <2> HIDE DEF nu, statement
  <2>4. ASSUME NEW d \in Offsets, SlotName(d) = v.name
        PROVE  SlotExact(t, b, nu, d, w)
    BY <1>7, <1>8, <2>3, <2>4 DEF SlotExact, Is
  <2>5. WrittenExact(s, mu, t, nu, b, v, w)
    <3>1. NamesExact(nu)
      BY <2>2 DEF Kept
    <3>2. \A r \in Registers : \A x : RegisterExact(s, mu, r, x) => RegisterExact(t, nu, r, x)
      BY <1>2, <1>8, <2>2 DEF Kept
    <3>3. \A d \in Offsets : \A x : SlotExact(s, b, mu, d, x) /\ SlotName(d) # v.name => SlotExact(t, b, nu, d, x)
      BY <1>8, <2>2 DEF Kept
    <3>4. \A fl : FlagsExact(s, mu, fl) => FlagsExact(t, nu, fl)
      BY <1>8, <2>2 DEF Kept
    <3>5. v.name # Top => ValueOf(Top, nu) = ValueOf(Top, mu)
      BY <2>2 DEF Kept
    <3>6. v.name = Top => Is(w, ValueOf(Top, nu))
      BY <2>3 DEF Is
    <3> QED BY <1>1, <2>4, <3>1, <3>2, <3>3, <3>4, <3>5, <3>6 DEF WrittenExact
  <2> QED BY <1>4, <2>1, <2>5 DEF Writes
<1>10. statement.kind = "conditional"
  BY DEF Statement
<1> HIDE DEF statement
<1> QED BY <1>4, <1>8, <1>9, <1>10 DEF MayDeclare

LEMMA ConditionalExact ==
  ASSUME AbiExact, NEW s, NEW declared, NEW b \in Nat \ {0}, Sound(s, declared, b), NEW v, IsDestination(v),
         HasVariable(v), NEW condition, NEW choices, NEW l, NEW out,
         out = WriteConditional(s, declared, b, v, condition, choices, l)
  PROVE  /\ Sound(out.state, out.variables, b) /\ MayDeclare(declared, out.variables) /\ out.lapses = l
         /\ out.statement.kind \in {"none", "conditional"}
         /\ \A mu, w :
              /\ NamesExact(mu) /\ AllAlike(mu, values)
              /\ Alike(w, Select(Denotes(condition), Denotes(choices[1]), Denotes(choices[2])))
              => Writes(s, declared, b, v, out, w, mu)
<1>1. CASE v.register = NoRegister
  BY <1>1, ConditionalMemory
<1>2. CASE v.register # NoRegister
  <2>1. v.register \in Registers /\ v.name = <<"register", v.register>>
    BY <1>2 DEF IsDestination
  <2> QED BY <2>1, ConditionalRegister
<1> QED BY <1>1, <1>2

\* What a call leaves: its result in rax, and the registers that it may not destroy.
CalledExact(s, mu, t, nu, b) ==
  /\ NamesExact(nu)
  /\ RegisterExact(t, nu, "rax", Returned)
  /\ \A r \in Registers \ CallClobbered : \A x : RegisterExact(s, mu, r, x) => RegisterExact(t, nu, r, x)
  /\ \A d \in Offsets : \A x : SlotExact(s, b, mu, d, x) => SlotExact(t, b, nu, d, x)
  /\ ValueOf(Top, nu) = ValueOf(Top, mu)

LEMMA CallExact ==
  ASSUME AbiExact, NEW s, NEW declared, NEW b, Sound(s, declared, b), HasVariable(ReturnRegisterValue),
         NEW given, NEW out, out = Call(s, declared, b, given)
  PROVE  /\ Sound(out.state, out.variables, b) /\ MayDeclare(declared, out.variables)
         /\ out.lapses = ArgumentLapses(s, b)
         /\ out.statement.kind = "call" /\ out.statement.arguments = given
         /\ \A mu : NamesExact(mu) /\ AllAlike(mu, values) =>
              \E nu : AllAlike(nu, ValuesAfter(out.statement)) /\ CalledExact(s, mu, out.state, nu, b)
<1> DEFINE new == NewName(s, declared, s.nextCallResult = 0)
           known == Materialize /\ "rax" \in DOMAIN s.registerVariables
           name == IF known THEN s.registerVariables["rax"] ELSE new.name
           u == Assigned(s, name)
           t == DropClobbered(u)
           x == [t EXCEPT !.availableRegisters = @ \cup {"rax"},
                          !.nextTemporary = IF known THEN @ ELSE new.next,
                          !.nextCallResult = IF known THEN @ ELSE @ + 1]
           y == IF Materialize THEN x ELSE [x EXCEPT !.registerValues = Put(@, "rax", Text(name))]
           more == IF known THEN declared ELSE Declare(declared, name, <<>>)
           statement == Statement("call", name, NoText, given)
<1>1. out = Outcome(y, more, statement, ArgumentLapses(s, b))
  BY DEF Call
<1>2. /\ out.state = y /\ out.variables = more /\ out.statement = statement
      /\ out.lapses = ArgumentLapses(s, b)
  <2> HIDE DEF y, more, statement
  <2> QED BY <1>1 DEF Outcome
<1>3. /\ "rax" \in CallClobbered /\ "rax" \in Registers \ FrameRegisters
      /\ StateExact(s, declared) /\ DOMAIN s = StateFields
  BY RegistersAssumption DEF Sound, StateExact
<1>4. Materialize => known
  <2>1. ReturnRegisterValue.register = "rax"
    BY DEF ReturnRegisterValue, IRValue
  <2> QED BY <1>3, <2>1 DEF HasVariable, Sound, VariablesExact
<1>5. /\ name \in VariableNames
      /\ ~ known => name \notin DeclaredNames(declared) /\ new.next \in Nat
  <2>1. new.name \in VariableNames /\ new.name \notin DeclaredNames(declared) /\ new.next \in Nat
    BY <1>3, NewNameIsNew
  <2> HIDE DEF new
  <2> QED BY <1>3, <2>1, RegisterVariableName
<1>6. MayBeAssigned(name) /\ name # Top /\ \A d \in Offsets : SlotName(d) # name
  BY <1>5, NamesApart
<1> HIDE DEF new, name
<1>7. Sound(u, declared, b)
  BY <1>6, AssignSound
<1>8. DOMAIN u = StateFields /\ \A f \in StateFields \ {"stale"} : u[f] = s[f]
  BY <1>3, AssignedIs
<1>9. /\ u.registerValues = s.registerValues
      /\ u.stackValues = s.stackValues
      /\ u.registerVariables = s.registerVariables
      /\ u.nextTemporary = s.nextTemporary
      /\ u.comparison = s.comparison
      /\ u.storedIn = s.storedIn
  BY <1>8, SameFields
<1>10. \A mu, w : NamesExact(mu) => Kept(s, mu, u, Put(mu, name, w), b, name)
  BY <1>3, <1>6, AssignName
<1> HIDE DEF u
<1>11. /\ DOMAIN t = StateFields
       /\ t.stackValues = s.stackValues
       /\ t.registerVariables = s.registerVariables
       /\ t.nextTemporary = s.nextTemporary
       /\ t.comparison = s.comparison
       /\ t.storedIn = s.storedIn
       /\ Materialize => t.registerValues = s.registerValues /\ t.stale = u.stale
       /\ ~ Materialize => /\ t.registerValues = Without(s.registerValues, CallClobbered)
                           /\ t.stale = u.stale \ {<<"register", r>> : r \in CallClobbered}
  BY <1>8, <1>9 DEF DropClobbered, StateFields
<1> HIDE DEF t
<1>12. /\ DOMAIN x = StateFields
       /\ x.registerValues = t.registerValues
       /\ x.stackValues = s.stackValues
       /\ x.registerVariables = s.registerVariables
       /\ x.nextTemporary = IF known THEN s.nextTemporary ELSE new.next
       /\ x.comparison = s.comparison
       /\ x.storedIn = s.storedIn
       /\ x.stale = t.stale
  <2> HIDE DEF known
  <2> QED BY <1>11 DEF StateFields
<1> HIDE DEF x
<1>13. /\ DOMAIN y = StateFields
       /\ y.stackValues = s.stackValues
       /\ y.registerVariables = s.registerVariables
       /\ y.nextTemporary = IF known THEN s.nextTemporary ELSE new.next
       /\ y.comparison = s.comparison
       /\ y.storedIn = s.storedIn
       /\ Materialize => y.registerValues = s.registerValues /\ y.stale = u.stale
       /\ ~ Materialize => /\ y.registerValues = Put(Without(s.registerValues, CallClobbered), "rax", Text(name))
                           /\ y.stale = u.stale \ {<<"register", r>> : r \in CallClobbered}
  <2> HIDE DEF known
  <2> QED BY <1>11, <1>12 DEF StateFields
<1> HIDE DEF y
<1>14. ~ Materialize =>
         /\ DOMAIN y.registerValues = (DOMAIN s.registerValues \ CallClobbered) \cup {"rax"}
         /\ y.registerValues["rax"] = Text(name)
         /\ \A r \in DOMAIN s.registerValues \ CallClobbered : y.registerValues[r] = s.registerValues[r]
  BY <1>3, <1>13 DEF Put, Without
<1>15. IsText(Text(name)) /\ \A mu : Evaluate(Text(name), mu) = ValueOf(name, mu)
  BY NameText
<1>16. declared \in Seq(VariableDeclarations)
  BY <1>3 DEF StateExact
<1>17. more \in Seq(VariableDeclarations) /\ DeclaredNames(declared) \subseteq DeclaredNames(more)
  <2>1. CASE known
    BY <1>16, <2>1
  <2>2. CASE ~ known
    <3>1. more = Declare(declared, name, <<>>)
      BY <2>2
    <3>2. PICK none \in {<<>>} \cup ({"arg"} \X (0 .. 5)) : none = <<>>
      OBVIOUS
    <3>3. /\ Declare(declared, name, none) \in Seq(VariableDeclarations)
          /\ DeclaredNames(Declare(declared, name, none)) = DeclaredNames(declared) \cup {name}
      BY ONLY <1>5, <1>16, DeclareNames
    <3> QED BY <3>1, <3>2, <3>3
  <2> QED BY <2>1, <2>2
<1>18. MayDeclare(declared, more)
  <2> HIDE DEF known
  <2> QED BY <1>4 DEF MayDeclare
<1> HIDE DEF more
<1>19. StateExact(y, more)
  <2>1. DOMAIN y.registerValues \subseteq Registers \ FrameRegisters
    BY <1>3, <1>13, <1>14 DEF StateExact
  <2>2. \A r \in DOMAIN y.registerValues : IsText(y.registerValues[r])
    BY <1>3, <1>13, <1>14, <1>15 DEF StateExact
  <2>3. y.nextTemporary \in Nat
    <3> HIDE DEF known
    <3> QED BY <1>3, <1>5, <1>13 DEF StateExact
  <2>4. \A r \in DOMAIN y.registerVariables : y.registerVariables[r] \in DeclaredNames(more)
    BY <1>3, <1>13, <1>17 DEF StateExact
  <2> QED BY <1>3, <1>13, <1>17, <2>1, <2>2, <2>3, <2>4 DEF StateExact
<1>20. Sound(y, more, b)
  <2>1. VariablesExact(y)
    BY <1>7, <1>9, <1>13 DEF Sound, VariablesExact
  <2>2. StoredUpTo(y, b)
    BY <1>13 DEF Sound, StoredUpTo
  <2> QED BY <1>19, <2>1, <2>2 DEF Sound
<1>21. ASSUME NEW mu, NamesExact(mu), AllAlike(mu, values)
       PROVE  \E nu : AllAlike(nu, ValuesAfter(statement)) /\ CalledExact(s, mu, y, nu, b)
  <2> DEFINE nu == Put(mu, name, Returned)
  <2>1. ValuesAfter(statement) = Put(values, name, Returned)
    BY DEF ValuesAfter, Statement
  <2>2. AllAlike(nu, Put(values, name, Returned))
    BY <1>21, PutAlike DEF Alike
  <2>3. Kept(s, mu, u, nu, b, name)
    BY <1>10, <1>21
  <2>4. ValueOf(name, nu) = Returned
    BY PutValue
  <2> HIDE DEF nu, statement
  <2>5. \A r : r \notin CallClobbered => (<<"register", r>> \in y.stale <=> <<"register", r>> \in u.stale)
    BY <1>13
  <2>6. RegisterExact(y, nu, "rax", Returned)
    <3>1. CASE Materialize
      <4>1. "rax" \in DOMAIN y.registerVariables /\ y.registerVariables["rax"] = name
        BY <1>4, <1>13, <3>1 DEF name
      <4> QED BY <2>4, <4>1 DEF RegisterExact, Is
    <3>2. CASE ~ Materialize
      BY <1>14, <1>15, <2>4, <3>2 DEF RegisterExact, Shadowed, Is
    <3> QED BY <3>1, <3>2
  <2>7. ASSUME NEW r \in Registers \ CallClobbered, NEW w, RegisterExact(s, mu, r, w)
        PROVE  RegisterExact(y, nu, r, w)
    <3>1. r \in DOMAIN s.registerVariables => s.registerVariables[r] # name
      <4>1. CASE known
        BY <1>3, <2>7, <4>1 DEF name, StateExact
      <4>2. CASE ~ known
        <5>1. name \notin DeclaredNames(declared)
          BY <1>5, <4>2
        <5> QED BY <1>3, <5>1 DEF StateExact
      <4> QED BY <4>1, <4>2
    <3>2. RegisterExact(u, nu, r, w)
      BY <2>3, <2>7, <3>1 DEF Kept
    <3>3. /\ r \in DOMAIN y.registerValues <=> r \in DOMAIN u.registerValues
          /\ r \in DOMAIN u.registerValues => y.registerValues[r] = u.registerValues[r]
      BY <1>3, <1>9, <1>13, <1>14, <2>7
    <3> QED BY <1>9, <1>13, <2>5, <2>7, <3>2, <3>3 DEF RegisterExact, Shadowed
  <2>8. ASSUME NEW d \in Offsets, NEW w, SlotExact(s, b, mu, d, w)
        PROVE  SlotExact(y, b, nu, d, w)
    <3>1. SlotExact(u, b, nu, d, w)
      BY <1>6, <2>3, <2>8 DEF Kept
    <3>2. <<"slot", d>> \in y.stale <=> <<"slot", d>> \in u.stale
      BY <1>13
    <3> QED BY <1>9, <1>13, <3>1, <3>2 DEF SlotExact
  <2>9. NamesExact(nu) /\ ValueOf(Top, nu) = ValueOf(Top, mu)
    BY <1>6, <2>3 DEF Kept
  <2>10. CalledExact(s, mu, y, nu, b)
    BY <2>6, <2>7, <2>8, <2>9 DEF CalledExact
  <2> QED BY <2>1, <2>2, <2>10
<1>22. statement.kind = "call" /\ statement.arguments = given
  BY DEF Statement
<1> HIDE DEF statement
<1> QED BY <1>2, <1>18, <1>20, <1>21, <1>22

\* A comparison is recorded; the texts stay.
LEMMA ComparedExact ==
  ASSUME NEW s, NEW declared, NEW b, Sound(s, declared, b), NEW l, NEW r, IsText(l), IsText(r),
         NEW bit \in BOOLEAN, NEW t, t = Compared(s, l, r, bit)
  PROVE  /\ Sound(t, declared, b)
         /\ \A mu, q, w : RegisterExact(s, mu, q, w) => RegisterExact(t, mu, q, w)
         /\ \A mu, d, w : SlotExact(s, b, mu, d, w) => SlotExact(t, b, mu, d, w)
         /\ t.comparison = [known |-> TRUE, left |-> l, right |-> r, isBitTest |-> bit, current |-> TRUE]
         /\ \A mu, fl :
              (IF bit THEN fl[1] = "result" /\ fl[3] = Zero /\ Is(fl[2], Term("&", Evaluate(l, mu), Evaluate(r, mu)))
                      ELSE Open(l) \/ (Is(fl[2], Evaluate(l, mu)) /\ Is(fl[3], Evaluate(r, mu))))
              => FlagsExact(t, mu, fl)
<1>1. DOMAIN s = StateFields
  BY DEF Sound, StateExact
<1>2. /\ DOMAIN t = StateFields
      /\ t.registerValues = s.registerValues
      /\ t.stackValues = s.stackValues
      /\ t.registerVariables = s.registerVariables
      /\ t.nextTemporary = s.nextTemporary
      /\ t.storedIn = s.storedIn
      /\ t.comparison = [known |-> TRUE, left |-> l, right |-> r, isBitTest |-> bit, current |-> TRUE]
      /\ t.stale = s.stale \ {<<"comparison", 0>>}
  BY <1>1 DEF Compared, StateFields
<1>3. /\ t.comparison.known = TRUE /\ t.comparison.left = l /\ t.comparison.right = r
      /\ t.comparison.isBitTest = bit
  BY <1>2
<1>4. (\A q : <<"register", q>> \in t.stale <=> <<"register", q>> \in s.stale)
      /\ \A d : <<"slot", d>> \in t.stale <=> <<"slot", d>> \in s.stale
  BY <1>2
<1>5. StateExact(t, declared)
  BY <1>1, <1>2, <1>3 DEF Sound, StateExact
<1>6. VariablesExact(t) /\ StoredUpTo(t, b)
  BY <1>2, <1>4 DEF Sound, VariablesExact, StoredUpTo
<1>7. \A mu, q, w : RegisterExact(s, mu, q, w) => RegisterExact(t, mu, q, w)
  BY <1>2, <1>4 DEF RegisterExact, Shadowed
<1>8. \A mu, d, w : SlotExact(s, b, mu, d, w) => SlotExact(t, b, mu, d, w)
  BY <1>2, <1>4 DEF SlotExact
<1>9. \A mu, fl :
        (IF bit THEN fl[1] = "result" /\ fl[3] = Zero /\ Is(fl[2], Term("&", Evaluate(l, mu), Evaluate(r, mu)))
                ELSE Open(l) \/ (Is(fl[2], Evaluate(l, mu)) /\ Is(fl[3], Evaluate(r, mu))))
        => FlagsExact(t, mu, fl)
  BY <1>3 DEF FlagsExact
<1>10. Sound(t, declared, b)
  BY <1>5, <1>6 DEF Sound
<1>11. t.comparison = [known |-> TRUE, left |-> l, right |-> r, isBitTest |-> bit, current |-> TRUE]
  BY <1>2
<1> QED BY <1>7, <1>8, <1>9, <1>10, <1>11

\* The instructions after which the comparison is not current.
FlagsLost == Arithmetic \cup {"imul3", "mul", "idiv", "call", "unknown"}

LEMMA FlagsWrittenExact ==
  ASSUME NEW s, NEW declared, NEW b, Sound(s, declared, b), NEW i, NEW t, t = FlagsWritten(s, i)
  PROVE  /\ Sound(t, declared, b)
         /\ \A mu, q, w : RegisterExact(s, mu, q, w) => RegisterExact(t, mu, q, w)
         /\ \A mu, d, w : SlotExact(s, b, mu, d, w) => SlotExact(t, b, mu, d, w)
         /\ \A mu, fl : i.code \in FlagsLost \/ FlagsExact(s, mu, fl) => FlagsExact(t, mu, fl)
<1>1. CASE i.code \in FlagsLost
  <2>1. DOMAIN s = StateFields
    BY DEF Sound, StateExact
  <2>2. t = [s EXCEPT !.comparison.current = FALSE]
    BY <1>1 DEF FlagsWritten, FlagsLost
  <2>3. /\ DOMAIN t = StateFields
        /\ t.registerValues = s.registerValues
        /\ t.stackValues = s.stackValues
        /\ t.registerVariables = s.registerVariables
        /\ t.nextTemporary = s.nextTemporary
        /\ t.storedIn = s.storedIn
        /\ t.comparison = [s.comparison EXCEPT !.current = FALSE]
        /\ t.stale = s.stale
    BY <2>1, <2>2 DEF StateFields
  <2>4. /\ t.comparison.known = s.comparison.known /\ t.comparison.left = s.comparison.left
        /\ t.comparison.right = s.comparison.right /\ (t.comparison.known => ~ t.comparison.current)
    BY <2>3
  <2>5. StateExact(t, declared)
    BY <2>3, <2>4 DEF Sound, StateExact
  <2>6. VariablesExact(t) /\ StoredUpTo(t, b)
    BY <2>3 DEF Sound, VariablesExact, StoredUpTo
  <2>7. \A mu, q, w : RegisterExact(s, mu, q, w) => RegisterExact(t, mu, q, w)
    BY <2>3 DEF RegisterExact, Shadowed
  <2>8. \A mu, d, w : SlotExact(s, b, mu, d, w) => SlotExact(t, b, mu, d, w)
    BY <2>3 DEF SlotExact
  <2>9. \A mu, fl : FlagsExact(t, mu, fl)
    BY <2>4 DEF FlagsExact
  <2> QED BY <2>5, <2>6, <2>7, <2>8, <2>9 DEF Sound
<1>2. CASE i.code \notin FlagsLost
  <2>1. t = s
    BY <1>2 DEF FlagsWritten, FlagsLost
  <2> QED BY <1>2, <2>1
<1> QED BY <1>1, <1>2

\* A register that is read, with either of its names.
LEMMA RegisterOperand ==
  ASSUME NEW s, NEW declared, StateExact(s, declared), NEW v, v.register \in Registers, v.offset = NoOffset,
         ~ Shadowed(s, v.register),
         Place(s, v) = "expression" => <<"register", v.register>> \notin s.stale,
         NEW mu, NEW w, RegisterExact(s, mu, v.register, w)
  PROVE  IsText(ValueText(s, v)) /\ Is(w, Evaluate(ValueText(s, v), mu))
<1>1. NoOffset \notin DOMAIN s.stackValues /\ \A r \in DOMAIN s.registerValues : IsText(s.registerValues[r])
  BY DEF StateExact
<1>2. CASE v.register \in DOMAIN s.registerVariables
  <2>1. Place(s, v) = "variable"
    BY <1>2 DEF Place
  <2>2. ValueText(s, v) = Text(s.registerVariables[v.register])
    BY <2>1 DEF ValueText
  <2> QED BY <1>2, <2>2, NameText DEF RegisterExact
<1>3. CASE v.register \in DOMAIN s.registerValues \ DOMAIN s.registerVariables
  <2>1. Place(s, v) = "expression"
    BY <1>3 DEF Place
  <2>2. ValueText(s, v) = s.registerValues[v.register]
    BY <2>1 DEF ValueText
  <2> QED BY <1>1, <1>3, <2>1, <2>2 DEF RegisterExact
<1>4. CASE v.register \notin DOMAIN s.registerValues \cup DOMAIN s.registerVariables
  <2>1. Place(s, v) = "name"
    BY <1>1, <1>4 DEF Place
  <2>2. ValueText(s, v) = IF v.name[1] = "constant" THEN Constant(v.name[2]) ELSE Text(v.name)
    BY <2>1 DEF ValueText
  <2>3. w = Unknown
    BY <1>4 DEF RegisterExact
  <2> QED BY <2>2, <2>3, NameText DEF Is, Constant
<1> QED BY <1>2, <1>3, <1>4

\* What no lapse of a value means.
LEMMA NoValueLapses ==
  ASSUME NEW s, NEW b, NEW v, ValueLapses(s, b, v) = {}
  PROVE  /\ ~ Shadowed(s, v.register)
         /\ Place(s, v) = "expression" => <<"register", v.register>> \notin s.stale
         /\ Place(s, v) = "slot" => <<"slot", v.offset>> \notin s.stale /\ s.storedIn[v.offset] = b
<1>1. "shadowed" \notin ValueLapses(s, b, v) /\ "overwritten" \notin ValueLapses(s, b, v)
        /\ "other block" \notin ValueLapses(s, b, v)
  OBVIOUS
<1>2. ~ Shadowed(s, v.register)
  BY <1>1 DEF ValueLapses
<1>3. ~ (Place(s, v) = "expression" /\ <<"register", v.register>> \in s.stale)
        /\ ~ (Place(s, v) = "slot" /\ <<"slot", v.offset>> \in s.stale)
  BY <1>1 DEF ValueLapses
<1>4. ~ (Place(s, v) = "slot" /\ s.storedIn[v.offset] # b)
  BY <1>1 DEF ValueLapses
<1> QED BY <1>2, <1>3, <1>4

\* The operands of an instruction have the texts of what the machine reads.
OperandMeans(s, b, mu, o) ==
  LET v == OperandValue(o, abi, FALSE)
  IN  ValueLapses(s, b, v) = {} => IsText(ValueText(s, v)) /\ Is(OperandTerm(o), Evaluate(ValueText(s, v), mu))

LEMMA ImmediateOperand ==
  ASSUME NEW s, NEW declared, StateExact(s, declared), NEW b, NEW mu, NamesExact(mu), NEW c,
         NEW o, o = <<"immediate", c>>
  PROVE  OperandMeans(s, b, mu, o)
<1> DEFINE v == OperandValue(o, abi, FALSE)
<1>1. v = ImmediateValue(c)
  BY DEF OperandValue
<1> HIDE DEF v
<1>2. v.register = NoRegister /\ v.offset = NoOffset /\ v.name = <<"constant", c>>
  BY <1>1 DEF ImmediateValue, IRValue
<1>3. Place(s, v) = "name"
  <2>1. NoRegister \notin DOMAIN s.registerVariables \cup DOMAIN s.registerValues /\ NoOffset \notin DOMAIN s.stackValues
    BY RegistersAssumption DEF StateExact
  <2> QED BY <1>2, <2>1 DEF Place
<1>4. ValueText(s, v) = Constant(c)
  BY <1>2, <1>3 DEF ValueText
<1>5. OperandTerm(o) = <<"constant", c>>
  BY DEF OperandTerm
<1> QED BY <1>4, <1>5, ConstantText DEF OperandMeans, Is, v

LEMMA RegisterSource ==
  ASSUME AbiExact, NEW s, NEW declared, StateExact(s, declared), NEW b, NEW mu, NamesExact(mu),
         NEW r \in Registers, RegisterExact(s, mu, r, register[r]), NEW o, o = <<"register", r>>
  PROVE  OperandMeans(s, b, mu, o)
<1> DEFINE v == OperandValue(o, abi, FALSE)
<1>1. v = RegisterValue(r, abi, FALSE)
  BY DEF OperandValue
<1> HIDE DEF v
<1>2. v.register = r /\ v.offset = NoOffset
  BY <1>1 DEF RegisterValue, IRValue
<1>3. OperandTerm(o) = register[r]
  BY DEF OperandTerm
<1>4. ASSUME ValueLapses(s, b, v) = {}
      PROVE  IsText(ValueText(s, v)) /\ Is(OperandTerm(o), Evaluate(ValueText(s, v), mu))
  BY <1>2, <1>3, <1>4, NoValueLapses, RegisterOperand
<1> QED BY <1>4 DEF OperandMeans, v

LEMMA MemoryOperand ==
  ASSUME AbiExact, NEW s, NEW declared, StateExact(s, declared), NEW b, NEW mu, NamesExact(mu),
         NEW d \in Offsets, SlotExact(s, b, mu, d, slot[d]), NEW o, o = <<"memory", d>>
  PROVE  OperandMeans(s, b, mu, o)
<1> DEFINE v == OperandValue(o, abi, FALSE)
<1>1. v = MemoryValue(d, abi)
  BY DEF OperandValue
<1>2. OperandTerm(o) = slot[d]
  BY DEF OperandTerm
<1> HIDE DEF v
<1>3. /\ v.register = NoRegister /\ v.name = SlotName(d)
      /\ v.kind = "StackVariable" <=> d \in abi.stackVariables
      /\ v.offset = IF d \in abi.stackVariables \cup abi.stackParameters THEN d ELSE NoOffset
  <2>1. d \in abi.stackVariables => d \notin abi.stackParameters
    <3>1. d \in Int
      BY OffsetsAssumption
    <3> QED BY <3>1 DEF AbiExact
  <2> QED BY <1>1, <2>1 DEF MemoryValue, IRValue, SlotName
<1>4. NoRegister \notin DOMAIN s.registerVariables \cup DOMAIN s.registerValues /\ NoOffset \notin DOMAIN s.stackValues
  BY RegistersAssumption DEF StateExact
<1>5. v.name[1] # "constant"
  BY <1>3, SlotNames
<1>6. CASE Place(s, v) = "slot"
  <2>1. v.offset \in DOMAIN s.stackValues
    BY <1>3, <1>4, <1>6 DEF Place
  <2>2. v.offset = d
    BY <1>3, <1>4, <2>1
  <2>3. ValueText(s, v) = s.stackValues[d]
    BY <1>6, <2>2 DEF ValueText
  <2>4. IsText(s.stackValues[d])
    BY <2>1, <2>2 DEF StateExact
  <2>5. ASSUME ValueLapses(s, b, v) = {} PROVE Is(slot[d], Evaluate(s.stackValues[d], mu))
    <3>1. <<"slot", d>> \notin s.stale /\ s.storedIn[d] = b
      BY <1>6, <2>2, <2>5, NoValueLapses
    <3> QED BY <2>1, <2>2, <3>1 DEF SlotExact
  <2> QED BY <1>2, <2>3, <2>4, <2>5 DEF OperandMeans, v
<1>7. CASE Place(s, v) # "slot"
  <2>1. Place(s, v) = "name"
    BY <1>3, <1>4, <1>7 DEF Place
  <2>2. ValueText(s, v) = Text(SlotName(d))
    BY <1>3, <1>5, <2>1 DEF ValueText
  <2> QED BY <1>2, <2>2, NameText DEF OperandMeans, SlotExact, v
<1> QED BY <1>6, <1>7

LEMMA TopText ==
  ASSUME NEW s, NEW declared, StateExact(s, declared)
  PROVE  ValueText(s, TopValue) = Text(Top)
<1> DEFINE v == TopValue
<1>1. v.register = NoRegister /\ v.offset = NoOffset /\ v.name = Top
  BY DEF TopValue, IRValue, Top
<1> HIDE DEF v
<1>2. NoRegister \notin DOMAIN s.registerVariables \cup DOMAIN s.registerValues /\ NoOffset \notin DOMAIN s.stackValues
  BY RegistersAssumption DEF StateExact
<1>3. Place(s, v) = "name"
  BY <1>1, <1>2 DEF Place
<1>4. v.name[1] # "constant"
  BY <1>1 DEF Top
<1>5. ValueText(s, v) = Text(Top)
  BY <1>1, <1>3, <1>4 DEF ValueText
<1> QED BY <1>5 DEF v

LEMMA TestTextMeans ==
  ASSUME NEW c, IsText(c.left), IsText(c.right), NEW mu
  PROVE  /\ IsText(TestText(c))
         /\ Evaluate(TestText(c), mu) = Term("&", Evaluate(c.left, mu), Evaluate(c.right, mu))
<1>1. CASE c.left = c.right
  <2>1. \A a : Term("&", a, a) = a
    BY DEF Term
  <2> QED BY <1>1, <2>1 DEF TestText
<1>2. CASE c.left # c.right
  BY <1>2, ApplyTexts DEF TestText
<1> QED BY <1>1, <1>2

\* The three conditions on a comparison that is known.
ComparisonText(c, operation) ==
  IF c.isBitTest THEN Apply(operation, TestText(c), Constant(0)) ELSE Apply(operation, c.left, c.right)

LEMMA ConditionTexts ==
  ASSUME NEW s, NEW condition
  PROVE  /\ s.comparison.known /\ condition = "e" => ConditionText(s, condition) = ComparisonText(s.comparison, "==")
         /\ s.comparison.known /\ condition = "l" => ConditionText(s, condition) = ComparisonText(s.comparison, "<")
         /\ s.comparison.known /\ condition = "s" =>
              ConditionText(s, condition) = Apply("<", TestText(s.comparison), Constant(0))
         /\ ~ s.comparison.known \/ condition \notin {"e", "l", "s"} => ConditionText(s, condition) = UnknownCondition
BY DEF ConditionText, ComparisonText

\* A comparison whose texts are those of the flags.
LEMMA ComparisonMeans ==
  ASSUME NEW c, IsText(c.left), IsText(c.right), NEW mu, NamesExact(mu), NEW operation, operation # "name", NEW fl,
         IF c.isBitTest
         THEN fl[3] = Zero /\ Is(fl[2], Term("&", Evaluate(c.left, mu), Evaluate(c.right, mu)))
         ELSE Is(fl[2], Evaluate(c.left, mu)) /\ Is(fl[3], Evaluate(c.right, mu))
  PROVE  /\ IsText(ComparisonText(c, operation))
         /\ Is(Term(operation, fl[2], fl[3]), Evaluate(ComparisonText(c, operation), mu))
<1>1. CASE c.isBitTest
  <2>1. IsText(TestText(c)) /\ Is(fl[2], Evaluate(TestText(c), mu))
    BY <1>1, TestTextMeans
  <2>2. IsText(Constant(0)) /\ Is(fl[3], Evaluate(Constant(0), mu))
    BY <1>1, ConstantText DEF Zero, Is
  <2>3. ComparisonText(c, operation) = Apply(operation, TestText(c), Constant(0))
    BY <1>1 DEF ComparisonText
  <2> QED BY <2>1, <2>2, <2>3, ApplyTexts, TermIs
<1>2. CASE ~ c.isBitTest
  <2>1. ComparisonText(c, operation) = Apply(operation, c.left, c.right)
    BY <1>2 DEF ComparisonText
  <2> QED BY <1>2, <2>1, ApplyTexts, TermIs
<1> QED BY <1>1, <1>2

LEMMA OpenComparison ==
  ASSUME NEW c, IsText(c.left), IsText(c.right), ~ c.isBitTest, Open(c.left), NEW operation, operation # "name"
  PROVE  IsText(ComparisonText(c, operation)) /\ Open(ComparisonText(c, operation))
<1>1. ComparisonText(c, operation) = Apply(operation, c.left, c.right)
  BY DEF ComparisonText
<1>2. ASSUME NEW mu, NamesExact(mu) PROVE Evaluate(ComparisonText(c, operation), mu) = Unknown
  <2>1. Evaluate(ComparisonText(c, operation), mu) = Term(operation, Evaluate(c.left, mu), Evaluate(c.right, mu))
    BY <1>1, ApplyTexts
  <2>2. Evaluate(c.left, mu) = Unknown
    BY <1>2 DEF Open
  <2> QED BY <2>1, <2>2, TermUnknown
<1> QED BY <1>1, <1>2, ApplyTexts DEF Open

\* What no lapse of a condition means.
LEMMA NoConditionLapses ==
  ASSUME NEW s, NEW condition, ConditionLapses(s, condition) = {}, ConditionText(s, condition) # UnknownCondition
  PROVE  /\ s.comparison.current /\ <<"comparison", 0>> \notin s.stale
         /\ condition = "s" => s.comparison.isBitTest
<1>1. "flags" \notin ConditionLapses(s, condition) /\ "overwritten" \notin ConditionLapses(s, condition)
        /\ "sign" \notin ConditionLapses(s, condition)
  OBVIOUS
<1>2. s.comparison.current
  BY <1>1 DEF ConditionLapses
<1>3. <<"comparison", 0>> \notin s.stale
  BY <1>1 DEF ConditionLapses
<1>4. condition = "s" => s.comparison.isBitTest
  BY <1>1 DEF ConditionLapses
<1> QED BY <1>2, <1>3, <1>4

LEMMA ConditionExact ==
  ASSUME NEW s, NEW declared, StateExact(s, declared), NEW mu, NamesExact(mu), NamesExact(values),
         AllAlike(mu, values), FlagsExact(s, mu, flags), NEW condition, ConditionLapses(s, condition) = {}
  PROVE  Alike(ConditionHolds(condition), Denotes(ConditionText(s, condition)))
<1> DEFINE text == ConditionText(s, condition)
           c == s.comparison
<1>1. CASE text = UnknownCondition
  <2>1. Denotes(text) = Unknown
    BY <1>1, NameText, FixedNames DEF UnknownCondition, Denotes
  <2> QED BY <2>1 DEF Alike
<1>2. CASE text # UnknownCondition
  <2>1. c.known /\ condition \in {"e", "l", "s"}
    BY <1>2, ConditionTexts
  <2>2. c.current /\ <<"comparison", 0>> \notin s.stale /\ (condition = "s" => c.isBitTest)
    BY <1>2, NoConditionLapses
  <2>3. IsText(c.left) /\ IsText(c.right)
    BY <2>1 DEF StateExact
  <2>4. IF c.isBitTest
        THEN /\ flags[1] = "result" /\ flags[3] = Zero
             /\ Is(flags[2], Term("&", Evaluate(c.left, mu), Evaluate(c.right, mu)))
        ELSE \/ Open(c.left)
             \/ Is(flags[2], Evaluate(c.left, mu)) /\ Is(flags[3], Evaluate(c.right, mu))
    BY <2>1, <2>2 DEF FlagsExact
  <2>5. /\ condition = "e" => text = ComparisonText(c, "==") /\ ConditionHolds(condition) = Term("==", flags[2], flags[3])
        /\ condition = "l" => text = ComparisonText(c, "<") /\ ConditionHolds(condition) = Term("<", flags[2], flags[3])
    BY <2>1, ConditionTexts DEF ConditionHolds
  <2> HIDE DEF text
  <2>6. CASE condition = "s"
    <3>1. text = Apply("<", TestText(c), Constant(0))
      BY <2>1, <2>6, ConditionTexts DEF text
    <3>2. c.isBitTest /\ flags[1] = "result" /\ Is(flags[2], Term("&", Evaluate(c.left, mu), Evaluate(c.right, mu)))
      BY <2>2, <2>4, <2>6
    <3>3. ConditionHolds(condition) = Term("<", flags[2], Zero)
      BY <2>6, <3>2 DEF ConditionHolds
    <3>4. IsText(TestText(c)) /\ Is(flags[2], Evaluate(TestText(c), mu))
      BY <2>3, <3>2, TestTextMeans
    <3>5. IsText(Constant(0)) /\ Is(Zero, Evaluate(Constant(0), mu))
      BY ConstantText DEF Zero, Is
    <3>6. IsText(text) /\ Is(ConditionHolds(condition), Evaluate(text, mu))
      BY <3>1, <3>3, <3>4, <3>5, ApplyTexts, TermIs
    <3> QED BY <3>6, IsAlike DEF Denotes, text
  <2>7. ASSUME NEW operation, operation # "name", text = ComparisonText(c, operation),
               ConditionHolds(condition) = Term(operation, flags[2], flags[3])
        PROVE  Alike(ConditionHolds(condition), Denotes(text))
    <3>1. CASE ~ c.isBitTest /\ Open(c.left)
      <4>1. Open(text)
        BY <2>3, <2>7, <3>1, OpenComparison
      <4> QED BY <4>1 DEF Open, Denotes, Alike
    <3>2. CASE c.isBitTest \/ ~ Open(c.left)
      <4>1. IsText(text) /\ Is(ConditionHolds(condition), Evaluate(text, mu))
        BY <2>3, <2>4, <2>7, <3>2, ComparisonMeans
      <4> QED BY <4>1, IsAlike DEF Denotes
    <3> QED BY <3>1, <3>2
  <2> QED BY <2>1, <2>5, <2>6, <2>7 DEF text
<1> QED BY <1>1, <1>2

LEMMA SelectAlike ==
  ASSUME NEW a, NEW b, NEW c, NEW d, NEW e, NEW f, Alike(a, d), Alike(b, e), Alike(c, f)
  PROVE  Alike(Select(a, b, c), Select(d, e, f))
BY DEF Alike, Select

\* What an instruction writes is a register or a slot.
LEMMA Destinations ==
  ASSUME AbiExact, NEW o \in Operands, o[1] # "immediate", o[1] = "memory" => o[2] \in Offsets
  PROVE  IsDestination(OperandValue(o, abi, TRUE))
<1> DEFINE v == OperandValue(o, abi, TRUE)
<1>1. CASE o[1] = "register"
  <2>1. v = RegisterValue(o[2], abi, TRUE) /\ o[2] \in Registers
    BY <1>1 DEF OperandValue, Operands
  <2> HIDE DEF v
  <2>2. v.register = o[2] /\ v.name = <<"register", o[2]>> /\ v.offset = NoOffset
    BY <2>1 DEF RegisterValue, IRValue
  <2> QED BY <2>1, <2>2 DEF IsDestination, v
<1>2. CASE o[1] = "memory"
  <2>1. v = MemoryValue(o[2], abi) /\ o[2] \in Offsets
    BY <1>2 DEF OperandValue
  <2> HIDE DEF v
  <2>2. o[2] \in Int
    BY <2>1, OffsetsAssumption
  <2>3. o[2] \in abi.stackVariables => o[2] \notin abi.stackParameters
    BY <2>2 DEF AbiExact
  <2>4. /\ v.register = NoRegister /\ v.name = SlotName(o[2])
        /\ v.offset = IF o[2] \in abi.stackVariables \cup abi.stackParameters THEN o[2] ELSE NoOffset
    BY <2>1, <2>3 DEF MemoryValue, IRValue, SlotName
  <2> QED BY <2>1, <2>4 DEF IsDestination, v
<1> QED BY <1>1, <1>2 DEF Operands

LEMMA FixedDestinations ==
  IsDestination(ReturnRegisterValue) /\ IsDestination(TopValue)
<1>1. "rax" \in Registers
  BY RegistersAssumption
<1> QED BY <1>1 DEF IsDestination, ReturnRegisterValue, TopValue, IRValue, Top

\* What the recovery holds in s, after the instructions of the machine so far in the
\* block b, is exact: mu gives the names the values that the machine gave them.
MachineExact(s, b, mu) ==
  /\ NamesExact(mu) /\ NamesExact(values) /\ AllAlike(mu, values)
  /\ \A r \in Registers \ hidden : RegisterExact(s, mu, r, register[r])
  /\ \A d \in Offsets : SlotExact(s, b, mu, d, slot[d])
  /\ FlagsExact(s, mu, flags)
  /\ StackExact(mu, stack, depth)

DepthAfter(i) == IF i.code = "push" THEN Len(StackAfter(i)) ELSE depth

\* The same after the next instruction.
NextExact(t, b, nu, i) ==
  /\ NamesExact(nu)
  /\ \A r \in Registers \ HiddenAfter(i) : RegisterExact(t, nu, r, RegistersAfter(i)[r])
  /\ \A d \in Offsets : SlotExact(t, b, nu, d, SlotsAfter(i)[d])
  /\ FlagsExact(t, nu, FlagsAfter(i))
  /\ StackExact(nu, StackAfter(i), DepthAfter(i))

\* The instruction writes w to v and leaves the rest of the machine as it was.
Effects(i, v, w) ==
  /\ \A r \in Registers \ HiddenAfter(i) :
       IF r = v.register THEN r \notin FrameRegisters /\ RegistersAfter(i)[r] = w
                         ELSE r \notin hidden /\ RegistersAfter(i)[r] = register[r]
  /\ \A d \in Offsets : SlotsAfter(i)[d] = IF SlotName(d) = v.name THEN w ELSE slot[d]
  /\ IF v.name = Top THEN i.code = "push" /\ StackAfter(i) = Append(stack, w)
     ELSE /\ i.code # "push"
          /\ StackAfter(i) \in {stack, <<>>} \/ (stack # <<>> /\ StackAfter(i) = Front(stack))

LEMMA StackGrows ==
  ASSUME NEW mu, NEW nu, StackExact(mu, stack, depth), NEW w
  PROVE  /\ Is(w, ValueOf(Top, nu)) => StackExact(nu, Append(stack, w), Len(Append(stack, w)))
         /\ ValueOf(Top, nu) = ValueOf(Top, mu) =>
              /\ StackExact(nu, stack, depth) /\ StackExact(nu, <<>>, depth)
              /\ stack # <<>> => StackExact(nu, Front(stack), depth)
<1>1. PICK S : stack \in Seq(S)
  BY DEF StackExact
<1>2. depth \in Nat /\ Len(stack) <= depth /\ Len(stack) \in Nat
  BY <1>1 DEF StackExact
<1>3. Append(stack, w) \in Seq(S \cup {w}) /\ Len(Append(stack, w)) = Len(stack) + 1
        /\ Append(stack, w)[Len(stack) + 1] = w
  BY <1>1
<1>4. Is(w, ValueOf(Top, nu)) => StackExact(nu, Append(stack, w), Len(Append(stack, w)))
  <2>1. Last(Append(stack, w)) = w
    BY <1>2, <1>3 DEF Last
  <2> QED BY <1>2, <1>3, <2>1 DEF StackExact
<1>5. stack # <<>> => Front(stack) \in Seq(S) /\ Len(Front(stack)) = Len(stack) - 1
  <2>1. stack # <<>> => Len(stack) - 1 \in 0 .. Len(stack)
    BY <1>1
  <2>2. stack # <<>> => /\ SubSeq(stack, 1, Len(stack) - 1) \in Seq(S)
                        /\ Len(SubSeq(stack, 1, Len(stack) - 1)) = Len(stack) - 1
    <3>1. ASSUME NEW n \in Int, n \in 0 .. Len(stack)
          PROVE  SubSeq(stack, 1, n) \in Seq(S) /\ Len(SubSeq(stack, 1, n)) = n
      <4>1. \A k \in 1 .. n : stack[k] \in S
        BY <1>1, <3>1
      <4>2. /\ SubSeq(stack, 1, n) \in Seq(S)
            /\ Len(SubSeq(stack, 1, n)) = IF 1 <= n THEN n - 1 + 1 ELSE 0
        BY <4>1, SubSeqProperties
      <4> QED BY <3>1, <4>2
    <3>2. PICK n \in Int : n = Len(stack) - 1
      BY <1>2
    <3> QED BY <2>1, <3>1, <3>2
  <2> QED BY <2>2 DEF Front
<1>6. ASSUME ValueOf(Top, nu) = ValueOf(Top, mu)
      PROVE  StackExact(nu, stack, depth) /\ StackExact(nu, <<>>, depth)
  <2>1. <<>> \in Seq(S) /\ Len(<<>>) = 0
    OBVIOUS
  <2> QED BY <1>2, <1>6, <2>1 DEF StackExact
<1>7. ASSUME ValueOf(Top, nu) = ValueOf(Top, mu), stack # <<>> PROVE StackExact(nu, Front(stack), depth)
  BY <1>2, <1>5, <1>7 DEF StackExact
<1> QED BY <1>4, <1>6, <1>7

\* What a step of the recovery has written is what the machine has written.
LEMMA NextWritten ==
  ASSUME AbiExact, NEW s, NEW declared, NEW b, NEW mu,
         \A r \in Registers \ hidden : RegisterExact(s, mu, r, register[r]),
         \A d \in Offsets : SlotExact(s, b, mu, d, slot[d]),
         StackExact(mu, stack, depth), NEW i,
         FlagsExact(s, mu, FlagsAfter(i)) \/ i.code \in FlagsLost,
         NEW v, NEW w, Effects(i, v, w), NEW out, NEW more, Sound(out.state, more, b),
         Writes(s, declared, b, v, out, w, mu)
  PROVE  \E nu : /\ AllAlike(nu, ValuesAfter(out.statement))
                 /\ NextExact(FlagsWritten(out.state, i), b, nu, i)
<1>1. PICK nu : AllAlike(nu, ValuesAfter(out.statement)) /\ WrittenExact(s, mu, out.state, nu, b, v, w)
  BY DEF Writes
<1> DEFINE u == out.state
           t == FlagsWritten(u, i)
<1>2. /\ \A q, x : RegisterExact(u, nu, q, x) => RegisterExact(t, nu, q, x)
      /\ \A d, x : SlotExact(u, b, nu, d, x) => SlotExact(t, b, nu, d, x)
      /\ \A fl : i.code \in FlagsLost \/ FlagsExact(u, nu, fl) => FlagsExact(t, nu, fl)
  BY FlagsWrittenExact
<1> HIDE DEF t
<1>3. ASSUME NEW r \in Registers \ HiddenAfter(i) PROVE RegisterExact(t, nu, r, RegistersAfter(i)[r])
  <2>1. CASE r = v.register
    BY <1>1, <1>2, <1>3, <2>1 DEF Effects, WrittenExact
  <2>2. CASE r # v.register
    <3>1. r \notin hidden /\ RegistersAfter(i)[r] = register[r]
      BY <1>3, <2>2 DEF Effects
    <3> QED BY <1>1, <1>2, <1>3, <2>2, <3>1 DEF WrittenExact
  <2> QED BY <2>1, <2>2
<1>4. ASSUME NEW d \in Offsets PROVE SlotExact(t, b, nu, d, SlotsAfter(i)[d])
  BY <1>1, <1>2 DEF Effects, WrittenExact
<1>5. FlagsExact(t, nu, FlagsAfter(i))
  BY <1>1, <1>2 DEF WrittenExact
<1>6. StackExact(nu, StackAfter(i), DepthAfter(i))
  <2>1. CASE v.name = Top
    <3>1. i.code = "push" /\ StackAfter(i) = Append(stack, w) /\ Is(w, ValueOf(Top, nu))
      BY <1>1, <2>1 DEF Effects, WrittenExact
    <3>2. StackExact(nu, Append(stack, w), Len(Append(stack, w)))
      BY <3>1, StackGrows
    <3> QED BY <3>1, <3>2 DEF DepthAfter
  <2>2. CASE v.name # Top
    BY <1>1, <2>2, StackGrows DEF Effects, WrittenExact, DepthAfter
  <2> QED BY <2>1, <2>2
<1>7. NextExact(t, b, nu, i)
  BY <1>1, <1>3, <1>4, <1>5, <1>6 DEF NextExact, WrittenExact
<1> QED BY <1>1, <1>7 DEF t

\* The recovery passes over what is written to a frame register.
LEMMA FrameWrites ==
  ASSUME AbiExact, NEW s, NEW declared, NEW b, NEW v, v.register \in FrameRegisters,
         v.name = <<"register", v.register>>, NEW text, NEW l, NEW condition, NEW choices, NEW out,
         \/ out = Write(s, declared, b, v, text, l)
         \/ out = WriteConditional(s, declared, b, v, condition, choices, l)
  PROVE  /\ out.state = s /\ out.variables = declared /\ out.statement = NoStatement
         /\ \A mu, w : NamesExact(mu) /\ AllAlike(mu, values) => Writes(s, declared, b, v, out, w, mu)
<1>1. v.register \in Registers /\ v.register # NoRegister
  BY RegistersAssumption
<1>2. out = Outcome(s, declared, NoStatement, l)
  <2>1. CASE out = Write(s, declared, b, v, text, l)
    BY <1>1, <2>1 DEF Write
  <2>2. CASE out = WriteConditional(s, declared, b, v, condition, choices, l)
    BY <1>1, <2>2 DEF WriteConditional
  <2> QED BY <2>1, <2>2
<1>3. out.state = s /\ out.variables = declared /\ out.statement = NoStatement
  BY <1>2 DEF Outcome
<1>4. ASSUME NEW mu, NEW w, NamesExact(mu), AllAlike(mu, values) PROVE Writes(s, declared, b, v, out, w, mu)
  <2>1. ValuesAfter(out.statement) = values
    BY <1>3 DEF ValuesAfter, NoStatement, Statement
  <2>2. v.name # Top /\ \A d \in Offsets : SlotName(d) # v.name
    <3>1. PICK name \in VariableNames : name = <<"result", 0>>
      BY DEF VariableNames
    <3> QED BY NamesApart
  <2>3. WrittenExact(s, mu, out.state, mu, b, v, w)
    BY <1>1, <1>3, <1>4, <2>2 DEF WrittenExact
  <2> QED BY <1>4, <2>1, <2>3 DEF Writes
<1> QED BY <1>3, <1>4

LEMMA ValueTextIsText ==
  ASSUME NEW s, NEW declared, StateExact(s, declared), NEW v
  PROVE  IsText(ValueText(s, v))
<1>1. (\A r \in DOMAIN s.registerValues : IsText(s.registerValues[r])) /\ \A d \in DOMAIN s.stackValues : IsText(s.stackValues[d])
  BY DEF StateExact
<1>2. CASE v.register \in DOMAIN s.registerVariables
  <2>1. Place(s, v) = "variable"
    BY <1>2 DEF Place
  <2> QED BY <2>1, NameText DEF ValueText
<1>3. CASE v.register \in DOMAIN s.registerValues \ DOMAIN s.registerVariables
  <2>1. Place(s, v) = "expression"
    BY <1>3 DEF Place
  <2> QED BY <1>1, <1>3, <2>1 DEF ValueText
<1>4. CASE v.register \notin DOMAIN s.registerValues \cup DOMAIN s.registerVariables
  <2>1. CASE v.kind # "StackVariable" /\ v.offset \in DOMAIN s.stackValues
    <3>1. Place(s, v) = "slot"
      BY <1>4, <2>1 DEF Place
    <3> QED BY <1>1, <2>1, <3>1 DEF ValueText
  <2>2. CASE ~ (v.kind # "StackVariable" /\ v.offset \in DOMAIN s.stackValues)
    <3>1. Place(s, v) = "name"
      BY <1>4, <2>2 DEF Place
    <3>2. ValueText(s, v) = IF v.name[1] = "constant" THEN Constant(v.name[2]) ELSE Text(v.name)
      BY <3>1 DEF ValueText
    <3> QED BY <3>2, NameText DEF Constant
  <2> QED BY <2>1, <2>2
<1> QED BY <1>2, <1>3, <1>4

\* A statement assigns to a variable, a slot or the top of the stack.
Assigns(statement) ==
  statement.kind \in {"assignment", "conditional", "call"} => MayBeAssigned(statement.destination)

LEMMA ValuesNamed ==
  ASSUME NEW statement, Assigns(statement), NamesExact(values)
  PROVE  NamesExact(ValuesAfter(statement))
<1>1. CASE statement.kind \in {"assignment", "conditional", "call"}
  <2>1. \A w : NamesExact(Put(values, statement.destination, w))
    BY <1>1 DEF Assigns, NamesExact, Put
  <2> QED BY <1>1, <2>1 DEF ValuesAfter
<1>2. CASE statement.kind \notin {"assignment", "conditional", "call"}
  BY <1>2 DEF ValuesAfter
<1> QED BY <1>1, <1>2

LEMMA AssignmentAssigns ==
  ASSUME NEW s, NEW declared, NEW name, MayBeAssigned(name), NEW text, NEW l
  PROVE  Assigns(Assignment(s, declared, name, text, l).statement)
<1>1. CASE Text(name) = text
  BY <1>1 DEF Assignment, Outcome, NoStatement, Statement, Assigns
<1>2. CASE Text(name) # text
  BY <1>2 DEF Assignment, Outcome, Statement, Assigns
<1> QED BY <1>1, <1>2

LEMMA WriteAssigns ==
  ASSUME AbiExact, NEW s, NEW declared, NEW b, Sound(s, declared, b), NEW v, IsDestination(v), HasVariable(v),
         NEW text, NEW l
  PROVE  Assigns(Write(s, declared, b, v, text, l).statement)
<1>1. NoRegister \notin Registers /\ FrameRegisters \subseteq Registers
  BY RegistersAssumption
<1> DEFINE r == v.register
<1>2. CASE r \in FrameRegisters
  <2>1. Write(s, declared, b, v, text, l) = Outcome(s, declared, NoStatement, l)
    BY <1>1, <1>2 DEF Write
  <2> QED BY <2>1 DEF Outcome, NoStatement, Statement, Assigns
<1>3. CASE r \in Registers \ FrameRegisters /\ Materialize
  <2>1. PICK t : Write(s, declared, b, v, text, l) = Assignment(t, declared, s.registerVariables[r], text, l)
    BY <1>1, <1>3 DEF Write
  <2>2. s.registerVariables[r] \in VariableNames
    <3>1. r \in DOMAIN s.registerVariables
      BY <1>3 DEF HasVariable, Sound, VariablesExact
    <3> QED BY <3>1, RegisterVariableName DEF Sound
  <2>3. MayBeAssigned(s.registerVariables[r])
    BY <2>2, NamesApart
  <2> QED BY <2>1, <2>3, AssignmentAssigns
<1>4. CASE r \in Registers \ FrameRegisters /\ ~ Materialize
  <2>1. \E t : Write(s, declared, b, v, text, l) = Outcome(t, declared, NoStatement, l)
    BY <1>1, <1>4 DEF Write
  <2> QED BY <2>1 DEF Outcome, NoStatement, Statement, Assigns
<1>5. CASE r = NoRegister
  <2>1. PICK t : Write(s, declared, b, v, text, l) = Assignment(t, declared, v.name, text, l)
    BY <1>1, <1>5 DEF Write
  <2>2. MayBeAssigned(v.name)
    BY <1>5, MemoryNames
  <2> QED BY <2>1, <2>2, AssignmentAssigns
<1> QED BY <1>2, <1>3, <1>4, <1>5 DEF IsDestination

LEMMA ConditionalAssigns ==
  ASSUME AbiExact, NEW s, NEW declared, NEW b, Sound(s, declared, b), NEW v, IsDestination(v),
         NEW condition, NEW choices, NEW l
  PROVE  Assigns(WriteConditional(s, declared, b, v, condition, choices, l).statement)
<1>1. NoRegister \notin Registers /\ FrameRegisters \subseteq Registers
  BY RegistersAssumption
<1> DEFINE r == v.register
           out == WriteConditional(s, declared, b, v, condition, choices, l)
<1>2. CASE r \in FrameRegisters
  <2>1. out = Outcome(s, declared, NoStatement, l)
    BY <1>1, <1>2 DEF WriteConditional
  <2> QED BY <2>1 DEF Outcome, NoStatement, Statement, Assigns
<1>3. CASE r \in Registers \ FrameRegisters
  <2> DEFINE new == NewName(s, declared, r = "rax")
             name == IF r \in DOMAIN s.registerVariables THEN s.registerVariables[r] ELSE new.name
  <2>1. \E t, names : out = Outcome(t, names, Statement("conditional", name, condition, choices), l)
    BY <1>1, <1>3 DEF WriteConditional
  <2>2. name \in VariableNames
    BY RegisterVariableName, NewNameIsNew DEF Sound
  <2> HIDE DEF name, out
  <2>3. MayBeAssigned(name)
    BY <2>2, NamesApart
  <2>4. out.statement = Statement("conditional", name, condition, choices)
    BY <2>1 DEF Outcome
  <2>5. Assigns(out.statement)
    BY <2>3, <2>4 DEF Statement, Assigns
  <2> QED BY <2>5 DEF out
<1>4. CASE r = NoRegister
  <2>1. \E t : out = Outcome(t, declared, Statement("conditional", v.name, condition, choices), l)
    BY <1>1, <1>4 DEF WriteConditional
  <2>2. MayBeAssigned(v.name)
    BY <1>4, MemoryNames
  <2> HIDE DEF out
  <2>3. out.statement = Statement("conditional", v.name, condition, choices)
    BY <2>1 DEF Outcome
  <2>4. Assigns(out.statement)
    BY <2>2, <2>3 DEF Statement, Assigns
  <2> QED BY <2>4 DEF out
<1> QED BY <1>2, <1>3, <1>4 DEF IsDestination

LEMMA CallAssigns ==
  ASSUME AbiExact, NEW s, NEW declared, NEW b, Sound(s, declared, b), NEW given
  PROVE  Assigns(Call(s, declared, b, given).statement)
<1> DEFINE new == NewName(s, declared, s.nextCallResult = 0)
           known == Materialize /\ "rax" \in DOMAIN s.registerVariables
           name == IF known THEN s.registerVariables["rax"] ELSE new.name
           out == Call(s, declared, b, given)
<1>1. \E t, names, l : out = Outcome(t, names, Statement("call", name, NoText, given), l)
  BY DEF Call
<1>2. name \in VariableNames
  BY RegisterVariableName, NewNameIsNew DEF Sound
<1> HIDE DEF name, out
<1>3. MayBeAssigned(name)
  BY <1>2, NamesApart
<1>4. out.statement = Statement("call", name, NoText, given)
  BY <1>1 DEF Outcome
<1>5. Assigns(out.statement)
  BY <1>3, <1>4 DEF Statement, Assigns
<1> QED BY <1>5 DEF out

Offered(statement) ==
  {ParameterRegisters[k] : k \in {j \in DOMAIN statement.arguments : statement.arguments[j] # NoText}}

\* What no lapse of the path means.
LEMMA NoPathLapses ==
  ASSUME NEW i, NEW statement, PathLapses(i, statement) = {}
  PROVE  /\ i.code = "call" => Offered(statement) \cap hidden = {}
         /\ i.code \in {"mul", "idiv"} \/ (i.code = "ret" /\ abi.returnsValue) => "rax" \notin hidden
         /\ /\ i.code \notin {"call", "ret", "unknown", "jmp"}
            /\ RegistersAmong(OperandsWritten(i)) \cap FrameRegisters = {}
            => RegistersAmong(OperandsRead(i)) \cap hidden = {}
         /\ i.code = "idiv" => Dividend = register["rax"]
         /\ i.code = "pop" => Len(stack) = depth
         /\ i.code = "unknown" => \A o \in i.written : IsRegister(o)
         /\ ~ Materialize => at[2] = steps + 1
<1>1. {"loop", "unnamed", "stack", "unlifted"} \cap PathLapses(i, statement) = {}
  OBVIOUS
<1>2. ~ Materialize => at[2] = steps + 1
  BY <1>1 DEF PathLapses
<1>3. i.code = "pop" => Len(stack) = depth
  BY <1>1 DEF PathLapses
<1>4. RegistersUsed(i, statement) \cap hidden = {} /\ (i.code = "idiv" => Dividend = register["rax"])
  BY <1>1 DEF PathLapses
<1>5. i.code = "unknown" => \A o \in i.written : IsRegister(o)
  BY <1>1 DEF PathLapses
<1>6. i.code \in {"call", "ret", "mul", "idiv"} => RegistersAmong(OperandsWritten(i)) = {}
  <2>1. i.code \in {"call", "ret", "mul", "idiv"} => OperandsWritten(i) = {}
    BY DEF OperandsWritten, Arithmetic
  <2>2. RegistersAmong({}) = {o[2] : o \in {p \in {} : IsRegister(p)}}
    BY DEF RegistersAmong
  <2> QED BY <2>1, <2>2
<1>7. i.code = "call" => RegistersUsed(i, statement) = Offered(statement)
  BY <1>6 DEF RegistersUsed, Offered
<1>8. i.code \in {"mul", "idiv"} => RegistersUsed(i, statement) = {"rax"} \cup RegistersAmong(OperandsRead(i))
  BY <1>6 DEF RegistersUsed
<1>9. i.code = "ret" /\ abi.returnsValue => RegistersUsed(i, statement) = {"rax"}
  BY <1>6 DEF RegistersUsed
<1>10. /\ i.code \notin {"call", "ret", "unknown", "jmp", "mul", "idiv"}
       /\ RegistersAmong(OperandsWritten(i)) \cap FrameRegisters = {}
       => RegistersUsed(i, statement) = RegistersAmong(OperandsRead(i))
  BY DEF RegistersUsed
<1> QED BY <1>2, <1>3, <1>4, <1>5, <1>7, <1>8, <1>9, <1>10

LEMMA Among ==
  ASSUME NEW S
  PROVE  RegistersAmong(S) = {o[2] : o \in {p \in S : p[1] = "register"}}
BY DEF RegistersAmong, IsRegister

LEMMA EffectsWritten ==
  ASSUME AbiExact, NEW i, NEW o \in Operands, o[1] # "immediate", o[1] = "memory" => o[2] \in Offsets,
         OperandsWritten(i) = {o}, ImplicitlyWritten(i) = {}, i.code \notin {"call", "push", "unknown"},
         NEW v, v = OperandValue(o, abi, TRUE)
  PROVE  Effects(i, v, Written(i))
<1>1. HiddenAfter(i) = (hidden \ RegistersWritten(i)) \cup (RegistersWritten(i) \cap FrameRegisters)
  BY DEF HiddenAfter
<1>2. RegistersWritten(i) = RegistersAmong({o})
  BY DEF RegistersWritten
<1>3. StackAfter(i) \in {stack, <<>>} \/ (stack # <<>> /\ StackAfter(i) = Front(stack))
  BY DEF StackAfter
<1>4. PICK name \in VariableNames : name = <<"result", 0>>
  BY DEF VariableNames
<1>5. \A d \in Offsets : SlotName(d) # Top /\ \A r : SlotName(d) # <<"register", r>> /\ <<"register", r>> # Top
  BY <1>4, NamesApart
<1>6. CASE o[1] = "register"
  <2>1. o = <<"register", o[2]>> /\ o[2] \in Registers
    BY <1>6 DEF Operands
  <2>2. v = RegisterValue(o[2], abi, TRUE)
    BY <1>6 DEF OperandValue
  <2>3. v.register = o[2] /\ v.name = <<"register", o[2]>>
    BY ONLY <2>2 DEF RegisterValue, IRValue
  <2>4. RegistersWritten(i) = {o[2]}
    <3>1. RegistersAmong({o}) = {p[2] : p \in {q \in {o} : q[1] = "register"}}
      BY Among
    <3> QED BY <1>2, <1>6, <3>1
  <2>5. \A r \in Registers : RegistersAfter(i)[r] = IF r = o[2] THEN Written(i) ELSE register[r]
    <3>1. \A r \in Registers : {o} = {<<"register", r>>} <=> r = o[2]
      BY <2>1
    <3> QED BY <3>1 DEF RegistersAfter
  <2>6. \A d \in Offsets : SlotsAfter(i)[d] = slot[d]
    <3>1. \A d : {o} # {<<"memory", d>>}
      BY <2>1
    <3> QED BY <3>1 DEF SlotsAfter
  <2>7. \A d \in Offsets : SlotName(d) # v.name
    BY <1>5, <2>3
  <2>8. v.name # Top
    BY ONLY <2>3 DEF Top
  <2> QED BY <1>1, <1>3, <2>3, <2>4, <2>5, <2>6, <2>7, <2>8 DEF Effects
<1>7. CASE o[1] = "memory"
  <2>1. o = <<"memory", o[2]>> /\ o[2] \in Offsets
    BY <1>7 DEF Operands
  <2>2. v = MemoryValue(o[2], abi)
    BY <1>7 DEF OperandValue
  <2>3. v.register = NoRegister /\ v.name = SlotName(o[2])
    <3>1. o[2] \in abi.stackVariables => o[2] \notin abi.stackParameters
      <4>1. o[2] \in Int
        BY <2>1, OffsetsAssumption
      <4> QED BY <4>1 DEF AbiExact
    <3> QED BY ONLY <2>2, <3>1 DEF MemoryValue, IRValue, SlotName
  <2>4. RegistersWritten(i) = {}
    <3>1. RegistersAmong({o}) = {p[2] : p \in {q \in {o} : q[1] = "register"}}
      BY Among
    <3> QED BY <1>2, <1>7, <3>1
  <2>5. \A r \in Registers : RegistersAfter(i)[r] = register[r]
    <3>1. \A r \in Registers : {o} # {<<"register", r>>}
      BY <2>1
    <3> QED BY <3>1 DEF RegistersAfter
  <2>6. \A d \in Offsets : SlotsAfter(i)[d] = IF d = o[2] THEN Written(i) ELSE slot[d]
    <3>1. \A d \in Offsets : {o} = {<<"memory", d>>} <=> d = o[2]
      BY <2>1
    <3> QED BY <3>1 DEF SlotsAfter
  <2>7. \A d \in Offsets : SlotName(d) = v.name <=> d = o[2]
    BY <2>1, <2>3, SlotNames
  <2>8. v.name # Top
    BY <1>5, <2>1, <2>3
  <2>9. NoRegister \notin Registers
    BY RegistersAssumption
  <2> QED BY <1>1, <1>3, <2>3, <2>4, <2>5, <2>6, <2>7, <2>8, <2>9 DEF Effects
<1> QED BY <1>6, <1>7 DEF Operands

LEMMA NoOperandWritten ==
  ASSUME NEW i, OperandsWritten(i) = {}, i.code # "unknown"
  PROVE  /\ \A d \in Offsets : SlotsAfter(i)[d] = slot[d]
         /\ \A r \in Registers \ ImplicitlyWritten(i) : i.code # "call" => RegistersAfter(i)[r] = register[r]
         /\ \A r \in Registers \cap ImplicitlyWritten(i) : RegistersAfter(i)[r] = ImplicitResult(i, r)
<1>1. \A d \in Offsets : SlotsAfter(i)[d] = slot[d]
  BY DEF SlotsAfter
<1>2. i.code = "call" => ImplicitlyWritten(i) = {}
  BY DEF ImplicitlyWritten
<1>3. ASSUME NEW r \in Registers, r \notin ImplicitlyWritten(i), i.code # "call"
      PROVE  RegistersAfter(i)[r] = register[r]
  BY <1>3 DEF RegistersAfter
<1>4. ASSUME NEW r \in Registers, r \in ImplicitlyWritten(i)
      PROVE  RegistersAfter(i)[r] = ImplicitResult(i, r)
  BY <1>2, <1>4 DEF RegistersAfter
<1> QED BY <1>1, <1>3, <1>4

LEMMA EffectsPush ==
  ASSUME AbiExact, NEW i, i.code = "push"
  PROVE  Effects(i, TopValue, OperandTerm(i.operands[1]))
<1>1. OperandsWritten(i) = {} /\ ImplicitlyWritten(i) = {}
  BY DEF OperandsWritten, ImplicitlyWritten, Arithmetic
<1>2. RegistersWritten(i) = {}
  <2>1. RegistersAmong({}) = {p[2] : p \in {q \in {} : q[1] = "register"}}
    BY Among
  <2> QED BY <1>1, <2>1 DEF RegistersWritten
<1>3. HiddenAfter(i) = hidden
  BY <1>1, <1>2 DEF HiddenAfter
<1>4. StackAfter(i) = Append(stack, OperandTerm(i.operands[1]))
  BY <1>2 DEF StackAfter
<1>5. TopValue.register = NoRegister /\ TopValue.name = Top
  BY DEF TopValue, IRValue, Top
<1>6. \A d \in Offsets : SlotName(d) # Top
  <2>1. PICK name \in VariableNames : name = <<"result", 0>>
    BY DEF VariableNames
  <2> QED BY <2>1, NamesApart
<1>7. NoRegister \notin Registers
  BY RegistersAssumption
<1> QED BY <1>1, <1>3, <1>4, <1>5, <1>6, <1>7, NoOperandWritten DEF Effects

LEMMA EffectsProduct ==
  ASSUME AbiExact, NEW i, i.code \in {"mul", "idiv"}
  PROVE  Effects(i, ReturnRegisterValue, ImplicitResult(i, "rax"))
<1>1. OperandsWritten(i) = {} /\ ImplicitlyWritten(i) = {"rax", "rdx"}
  BY DEF OperandsWritten, ImplicitlyWritten, Arithmetic
<1>2. HiddenAfter(i) = hidden \cup {"rdx"}
  BY <1>1 DEF HiddenAfter
<1>3. StackAfter(i) \in {stack, <<>>}
  BY DEF StackAfter
<1>4. ReturnRegisterValue.register = "rax" /\ ReturnRegisterValue.name = <<"register", "rax">>
  BY DEF ReturnRegisterValue, IRValue
<1>5. <<"register", "rax">> # Top /\ \A d \in Offsets : SlotName(d) # <<"register", "rax">>
  <2>1. PICK name \in VariableNames : name = <<"result", 0>>
    BY DEF VariableNames
  <2> QED BY <2>1, NamesApart
<1>6. "rax" \in Registers \ FrameRegisters
  BY RegistersAssumption
<1>7. /\ \A d \in Offsets : SlotsAfter(i)[d] = slot[d]
      /\ \A r \in Registers \ {"rax", "rdx"} : RegistersAfter(i)[r] = register[r]
      /\ RegistersAfter(i)["rax"] = ImplicitResult(i, "rax")
  BY <1>1, <1>6, NoOperandWritten
<1> QED BY <1>2, <1>3, <1>4, <1>5, <1>6, <1>7 DEF Effects

\* The instructions that write nothing that the recovery follows.  What one that is not
\* lifted writes to registers is hidden.
WritesNothing(i) ==
  /\ OperandsWritten(i) = {} \/ i.code = "unknown"
  /\ i.code \notin {"call", "push", "pop", "mul", "idiv"}

LEMMA NoEffects ==
  ASSUME NEW i, WritesNothing(i), i.code = "unknown" => \A o \in i.written : IsRegister(o)
  PROVE  /\ \A r \in Registers \ HiddenAfter(i) : r \notin hidden /\ RegistersAfter(i)[r] = register[r]
         /\ \A d \in Offsets : SlotsAfter(i)[d] = slot[d]
         /\ StackAfter(i) \in {stack, <<>>} /\ DepthAfter(i) = depth
<1>1. StackAfter(i) \in {stack, <<>>} /\ DepthAfter(i) = depth
  BY DEF StackAfter, DepthAfter, WritesNothing
<1>2. CASE i.code = "cdq"
  <2>1. ImplicitlyWritten(i) = {"rax", "rdx"}
    BY <1>2 DEF ImplicitlyWritten
  <2>2. HiddenAfter(i) = hidden \cup {"rdx"}
    BY <1>2, <2>1 DEF HiddenAfter
  <2>3. ImplicitResult(i, "rax") = register["rax"]
    BY <1>2 DEF ImplicitResult
  <2>4. OperandsWritten(i) = {} /\ i.code # "unknown" /\ i.code # "call"
    BY <1>2 DEF WritesNothing
  <2> QED BY <1>1, <2>1, <2>2, <2>3, <2>4, NoOperandWritten
<1>3. CASE i.code \notin {"cdq", "unknown"}
  <2>1. ImplicitlyWritten(i) = {} /\ OperandsWritten(i) = {} /\ i.code \notin {"call", "unknown"}
    BY <1>3 DEF ImplicitlyWritten, WritesNothing
  <2>2. RegistersWritten(i) = {}
    <3>1. RegistersAmong({}) = {p[2] : p \in {q \in {} : q[1] = "register"}}
      BY Among
    <3> QED BY <2>1, <3>1 DEF RegistersWritten
  <2>3. HiddenAfter(i) = hidden
    BY <2>1, <2>2 DEF HiddenAfter
  <2> QED BY <1>1, <2>1, <2>3, NoOperandWritten
<1>4. CASE i.code = "unknown"
  <2>1. ImplicitlyWritten(i) = {} /\ OperandsWritten(i) = i.written
    BY <1>4 DEF ImplicitlyWritten, OperandsWritten, Arithmetic
  <2>2. HiddenAfter(i) = hidden \cup RegistersWritten(i)
    BY <1>4, <2>1 DEF HiddenAfter
  <2>3. \A r : <<"register", r>> \in i.written => r \in RegistersWritten(i)
    <3>1. RegistersAmong(i.written) = {p[2] : p \in {q \in i.written : q[1] = "register"}}
      BY Among
    <3> QED BY <2>1, <3>1 DEF RegistersWritten
  <2>4. \A r \in Registers : <<"register", r>> \notin i.written => RegistersAfter(i)[r] = register[r]
    BY <1>4, <2>1 DEF RegistersAfter
  <2>5. \A d : <<"memory", d>> \notin i.written
    <3>1. \A d : ~ IsRegister(<<"memory", d>>)
      BY DEF IsRegister
    <3> QED BY <1>4, <3>1
  <2>6. \A d \in Offsets : SlotsAfter(i)[d] = slot[d]
    BY <1>4, <2>5 DEF SlotsAfter
  <2> QED BY <1>1, <2>2, <2>3, <2>4, <2>6
<1> QED BY <1>2, <1>3, <1>4

\* The recovery meets the instruction i of block b.
MayRecover(s, declared, b, i) ==
  /\ AbiExact /\ b \in Nat \ {0} /\ Sound(s, declared, b)
  /\ i \in DecodedInstructions /\ MemoryOperands(i) \subseteq Offsets
  /\ HasVariable(Lift(i, abi).destination)

\* What the outcome of its step is, whatever the machine does.
Recovered(declared, b, out) ==
  Sound(out.state, out.variables, b) /\ MayDeclare(declared, out.variables) /\ Assigns(out.statement)

\* What it is without a lapse.
StepExact(s, b, mu, i, out) ==
  MachineExact(s, b, mu) /\ out.lapses = {} /\ PathLapses(i, out.statement) = {} =>
    /\ \E nu : /\ AllAlike(nu, ValuesAfter(out.statement))
               /\ NextExact(FlagsWritten(out.state, i), b, nu, i)
    /\ \A pair \in Shown(i, out.statement) : Agree(pair)

LEMMA AgreeAlike ==
  ASSUME NEW v, NEW w, Alike(v, w)
  PROVE  Agree(<<v, w>>)
BY DEF Alike, Agree

\* Every slot is shown with the value that its name has.
LEMMA ShownSlots ==
  ASSUME NEW t, NEW b, NEW nu, NEW i, NEW statement, AllAlike(nu, ValuesAfter(statement)), NextExact(t, b, nu, i)
  PROVE  /\ \A d \in Offsets : Agree(<<SlotsAfter(i)[d], ValueOf(SlotName(d), ValuesAfter(statement))>>)
         /\ statement.kind \notin {"call", "return", "branch"} => \A pair \in Shown(i, statement) : Agree(pair)
<1>1. ASSUME NEW d \in Offsets
      PROVE  Agree(<<SlotsAfter(i)[d], ValueOf(SlotName(d), ValuesAfter(statement))>>)
  <2>1. Is(SlotsAfter(i)[d], ValueOf(SlotName(d), nu))
    BY DEF NextExact, SlotExact
  <2>2. Alike(ValueOf(SlotName(d), nu), ValueOf(SlotName(d), ValuesAfter(statement)))
    BY DEF AllAlike
  <2>3. Alike(SlotsAfter(i)[d], ValueOf(SlotName(d), ValuesAfter(statement)))
    BY <2>1, <2>2 DEF Is, Alike
  <2> QED BY <2>3, AgreeAlike
<1>2. statement.kind \notin {"call", "return", "branch"} =>
        Shown(i, statement) = {<<SlotsAfter(i)[d], ValueOf(SlotName(d), ValuesAfter(statement))>> : d \in Offsets}
  BY DEF Shown
<1> QED BY <1>1, <1>2

LEMMA OperandsExact ==
  ASSUME NEW s, NEW declared, NEW b, NEW i, MayRecover(s, declared, b, i), NEW mu, MachineExact(s, b, mu),
         NEW o \in ToSet(i.operands), o[1] = "register" => o[2] \notin hidden
  PROVE  OperandMeans(s, b, mu, o)
<1>1. AbiExact /\ StateExact(s, declared) /\ NamesExact(mu)
  BY DEF MayRecover, Sound, MachineExact
<1>2. o \in Operands
  BY DEF MayRecover, DecodedInstructions, ToSet
<1>3. CASE o[1] = "register"
  <2>1. o = <<"register", o[2]>> /\ o[2] \in Registers
    BY <1>2, <1>3 DEF Operands
  <2>2. RegisterExact(s, mu, o[2], register[o[2]])
    BY <1>3, <2>1 DEF MachineExact
  <2> QED BY <1>1, <2>1, <2>2, RegisterSource
<1>4. CASE o[1] = "immediate"
  <2>1. o = <<"immediate", o[2]>>
    BY <1>2, <1>4 DEF Operands
  <2> QED BY <1>1, <2>1, ImmediateOperand
<1>5. CASE o[1] = "memory"
  <2>1. o = <<"memory", o[2]>>
    BY <1>2, <1>5 DEF Operands
  <2>2. o[2] \in Offsets
    <3>1. o[2] \in MemoryOperands(i)
      BY <1>5 DEF MemoryOperands
    <3> QED BY <3>1 DEF MayRecover
  <2>3. SlotExact(s, b, mu, o[2], slot[o[2]])
    BY <2>2 DEF MachineExact
  <2> QED BY <1>1, <2>1, <2>2, <2>3, MemoryOperand
<1> QED BY <1>2, <1>3, <1>4, <1>5 DEF Operands

\* The operand that is written, if any, is not a frame register.
WritesValue(i) ==
  \/ OperandsWritten(i) = {}
  \/ OperandsWritten(i) = {i.operands[1]} /\ OperandValue(i.operands[1], abi, TRUE).register \notin FrameRegisters

\* The recovered code names the operands that the instruction reads.
NamesOperands(i) == i.code \notin {"call", "ret", "unknown", "jmp"}

LEMMA ReadsExact ==
  ASSUME NEW s, NEW declared, NEW b, NEW i, MayRecover(s, declared, b, i), NEW mu, MachineExact(s, b, mu),
         NEW statement, PathLapses(i, statement) = {}, NamesOperands(i), WritesValue(i),
         NEW o \in ToSet(i.operands), o \in OperandsRead(i)
  PROVE  OperandMeans(s, b, mu, o)
<1>1. RegistersAmong(OperandsWritten(i)) \cap FrameRegisters = {}
  <2>1. RegistersAmong(OperandsWritten(i)) = {p[2] : p \in {q \in OperandsWritten(i) : q[1] = "register"}}
    BY Among
  <2>2. CASE OperandsWritten(i) = {}
    BY <2>1, <2>2
  <2>3. CASE OperandsWritten(i) = {i.operands[1]} /\ OperandValue(i.operands[1], abi, TRUE).register \notin FrameRegisters
    <3>1. PICK p : p = i.operands[1]
      OBVIOUS
    <3>2. p[1] = "register" => OperandValue(p, abi, TRUE) = RegisterValue(p[2], abi, TRUE)
      BY DEF OperandValue
    <3>3. RegisterValue(p[2], abi, TRUE).register = p[2]
      BY ONLY TRUE DEF RegisterValue, IRValue
    <3>4. p[1] = "register" => p[2] \notin FrameRegisters
      BY <2>3, <3>1, <3>2, <3>3
    <3> QED BY <2>1, <2>3, <3>1, <3>4
  <2> QED BY <2>2, <2>3 DEF WritesValue
<1>2. RegistersAmong(OperandsRead(i)) \cap hidden = {}
  BY <1>1, NoPathLapses DEF NamesOperands
<1>3. o[1] = "register" => o[2] \in RegistersAmong(OperandsRead(i))
  BY DEF RegistersAmong, IsRegister
<1> QED BY <1>2, <1>3, OperandsExact

\* What a step that writes a value has to start from.
Carries(s, b, mu, i) ==
  /\ \A r \in Registers \ hidden : RegisterExact(s, mu, r, register[r])
  /\ \A d \in Offsets : SlotExact(s, b, mu, d, slot[d])
  /\ FlagsExact(s, mu, FlagsAfter(i)) \/ i.code \in FlagsLost

\* An instruction that writes the text of the value w to v, from the state u.
LEMMA WriteStep ==
  ASSUME NEW s, NEW declared, NEW b, NEW i, MayRecover(s, declared, b, i),
         NEW u, Sound(u, declared, b), NEW v, IsDestination(v), HasVariable(v),
         NEW text, IsText(text), NEW l, NEW out, out = Write(u, declared, b, v, text, l),
         NEW w, Effects(i, v, w),
         \A mu : MachineExact(s, b, mu) /\ l = {} /\ PathLapses(i, out.statement) = {} => Carries(u, b, mu, i),
         \A mu : MachineExact(s, b, mu) /\ l = {} /\ PathLapses(i, out.statement) = {}
                   /\ v.register \notin FrameRegisters => Is(w, Evaluate(text, mu))
  PROVE  Recovered(declared, b, out) /\ \A mu : StepExact(s, b, mu, i, out)
<1>1. AbiExact /\ b \in Nat \ {0}
  BY DEF MayRecover
<1>2. /\ Sound(out.state, declared, b) /\ out.variables = declared /\ out.lapses = l
      /\ out.statement.kind \in {"none", "assignment"}
      /\ \A mu, x :
           NamesExact(mu) /\ AllAlike(mu, values) /\ Is(x, Evaluate(text, mu)) =>
             Writes(u, declared, b, v, out, x, mu)
  BY <1>1, WriteExact
<1>3. Recovered(declared, b, out)
  BY <1>1, <1>2, WriteAssigns DEF Recovered, MayDeclare
<1>4. ASSUME NEW mu, MachineExact(s, b, mu), out.lapses = {}, PathLapses(i, out.statement) = {}
      PROVE  /\ \E nu : /\ AllAlike(nu, ValuesAfter(out.statement))
                        /\ NextExact(FlagsWritten(out.state, i), b, nu, i)
             /\ \A pair \in Shown(i, out.statement) : Agree(pair)
  <2>1. Writes(u, declared, b, v, out, w, mu)
    <3>1. NamesExact(mu) /\ AllAlike(mu, values)
      BY <1>4 DEF MachineExact
    <3>2. CASE v.register \in FrameRegisters
      <4>1. v.name = <<"register", v.register>>
        BY <3>2, RegistersAssumption DEF IsDestination
      <4> QED BY <1>1, <3>1, <3>2, <4>1, FrameWrites
    <3>3. CASE v.register \notin FrameRegisters
      BY <1>2, <1>4, <3>1, <3>3
    <3> QED BY <3>2, <3>3
  <2>2. Carries(u, b, mu, i)
    BY <1>2, <1>4
  <2>3. StackExact(mu, stack, depth)
    BY <1>4 DEF MachineExact
  <2>4. PICK nu : AllAlike(nu, ValuesAfter(out.statement)) /\ NextExact(FlagsWritten(out.state, i), b, nu, i)
    BY <1>1, <1>2, <2>1, <2>2, <2>3, NextWritten DEF Carries
  <2>5. \A pair \in Shown(i, out.statement) : Agree(pair)
    BY <1>2, <2>4, ShownSlots
  <2> QED BY <2>4, <2>5
<1>5. \A mu : StepExact(s, b, mu, i, out)
  BY <1>4 DEF StepExact
<1> QED BY <1>3, <1>5

\* The operands of an instruction as sources and as what is written.
SourceOf(i, k) == OperandValue(i.operands[k], abi, FALSE)
TargetOf(i) == OperandValue(i.operands[1], abi, TRUE)

\* The instructions that leave the result of an operation.
OperationCodes == Arithmetic \cup {"lea", "imul3"}

LEMMA LiftOperation ==
  ASSUME NEW i, i.code \in OperationCodes
  PROVE  /\ i.code = "lea" => Lift(i, abi) = Lifted("+", TargetOf(i), [k \in 1 .. 2 |-> SourceOf(i, k + 1)])
         /\ i.code = "imul3" => Lift(i, abi) = Lifted("*", TargetOf(i), <<SourceOf(i, 2), SourceOf(i, 3)>>)
         /\ i.code \in Arithmetic =>
              /\ Lift(i, abi) = Lifted(BinaryOpcode[i.code], TargetOf(i), <<SourceOf(i, 1), SourceOf(i, 2)>>)
              /\ BinaryOpcode[i.code] \in BinaryOperators
<1>1. ASSUME i.code = "lea"
      PROVE  Lift(i, abi) = Lifted("+", TargetOf(i), [k \in 1 .. 2 |-> SourceOf(i, k + 1)])
  BY <1>1 DEF Lift, LiftLea, TargetOf, SourceOf, Arithmetic, Transfers
<1>2. ASSUME i.code = "imul3"
      PROVE  Lift(i, abi) = Lifted("*", TargetOf(i), <<SourceOf(i, 2), SourceOf(i, 3)>>)
  BY <1>2 DEF Lift, LiftMultiply, TargetOf, SourceOf, Arithmetic, Transfers
<1>3. ASSUME i.code = "imul"
      PROVE  Lift(i, abi) = Lifted("*", TargetOf(i), <<SourceOf(i, 1), SourceOf(i, 2)>>)
  BY <1>3 DEF Lift, LiftMultiply, TargetOf, SourceOf, Arithmetic, Transfers
<1>4. ASSUME i.code \in Arithmetic \ {"imul"}
      PROVE  Lift(i, abi) = Lifted(BinaryOpcode[i.code], TargetOf(i), <<SourceOf(i, 1), SourceOf(i, 2)>>)
  BY <1>4 DEF Lift, TargetOf, SourceOf, Arithmetic, Transfers
<1>5. BinaryOpcode["imul"] = "*" /\ \A code \in Arithmetic : BinaryOpcode[code] \in BinaryOperators
  BY DEF BinaryOpcode, Arithmetic, BinaryOperators
<1> QED BY <1>1, <1>2, <1>3, <1>4, <1>5

LEMMA LiftProduct ==
  ASSUME NEW i, i.code \in {"mul", "idiv"}
  PROVE  Lift(i, abi) = Lifted(IF i.code = "mul" THEN "*" ELSE "/", ReturnRegisterValue,
                               <<ReturnRegisterValue, SourceOf(i, 1)>>)
<1>1. ASSUME i.code = "mul" PROVE Lift(i, abi) = Lifted("*", ReturnRegisterValue, <<ReturnRegisterValue, SourceOf(i, 1)>>)
  BY <1>1 DEF Lift, LiftMultiply, SourceOf, Arithmetic, Transfers
<1>2. ASSUME i.code = "idiv" PROVE Lift(i, abi) = Lifted("/", ReturnRegisterValue, <<ReturnRegisterValue, SourceOf(i, 1)>>)
  BY <1>2 DEF Lift, SourceOf, Arithmetic, Transfers
<1> QED BY <1>1, <1>2

LEMMA LiftMoves ==
  ASSUME NEW i
  PROVE  /\ i.code = "mov" => Lift(i, abi) = Lifted(MoveOpcode(i), TargetOf(i), <<SourceOf(i, 2)>>)
         /\ i.code = "movzx" => Lift(i, abi) = Lifted("Cast", TargetOf(i), <<SourceOf(i, 2)>>)
         /\ i.code = "pop" => Lift(i, abi) = Lifted("Load", TargetOf(i), <<TopValue>>)
         /\ i.code = "push" => Lift(i, abi) = Lifted("Store", TopValue, <<SourceOf(i, 1)>>)
         /\ i.code = "neg" => Lift(i, abi) = Lifted("Negate", TargetOf(i), <<SourceOf(i, 1)>>)
         /\ MoveOpcode(i) \in {"Assign", "Store", "Load"}
<1>1. ASSUME i.code = "mov" PROVE Lift(i, abi) = Lifted(MoveOpcode(i), TargetOf(i), <<SourceOf(i, 2)>>)
  BY <1>1 DEF Lift, LiftMove, TargetOf, SourceOf, Arithmetic, Transfers
<1>2. ASSUME i.code = "movzx" PROVE Lift(i, abi) = Lifted("Cast", TargetOf(i), <<SourceOf(i, 2)>>)
  BY <1>2 DEF Lift, TargetOf, SourceOf, Arithmetic, Transfers
<1>3. ASSUME i.code = "pop" PROVE Lift(i, abi) = Lifted("Load", TargetOf(i), <<TopValue>>)
  BY <1>3 DEF Lift, TargetOf, SourceOf, Arithmetic, Transfers
<1>4. ASSUME i.code = "push" PROVE Lift(i, abi) = Lifted("Store", TopValue, <<SourceOf(i, 1)>>)
  BY <1>4 DEF Lift, TargetOf, SourceOf, Arithmetic, Transfers
<1>5. ASSUME i.code = "neg" PROVE Lift(i, abi) = Lifted("Negate", TargetOf(i), <<SourceOf(i, 1)>>)
  BY <1>5 DEF Lift, TargetOf, SourceOf, Arithmetic, Transfers
<1>6. MoveOpcode(i) \in {"Assign", "Store", "Load"}
  BY DEF MoveOpcode
<1> QED BY <1>1, <1>2, <1>3, <1>4, <1>5, <1>6

LEMMA LiftOthers ==
  ASSUME NEW i
  PROVE  /\ i.code \in {"cmp", "test"} => Lift(i, abi) = Lifted("Compare", NoValue, <<SourceOf(i, 1), SourceOf(i, 2)>>)
         /\ i.code = "set" => Lift(i, abi) = Lifted("ConditionalSelect", TargetOf(i), <<ImmediateValue(1), ImmediateValue(0)>>)
         /\ i.code = "cmov" => Lift(i, abi) = Lifted("ConditionalSelect", TargetOf(i), <<SourceOf(i, 2), SourceOf(i, 1)>>)
         /\ i.code = "call" => Lift(i, abi) = Lifted("Call", ReturnRegisterValue, <<>>)
         /\ i.code = "ret" => Lift(i, abi) = Lifted("Return", NoValue, IF abi.returnsValue THEN <<ReturnRegisterValue>> ELSE <<>>)
         /\ i.code = "jcc" => Lift(i, abi) = Lifted("ConditionalJump", NoValue, <<>>)
         /\ i.code = "jmp" => Lift(i, abi) = Lifted("Jump", NoValue, <<>>)
         /\ i.code = "nop" => Lift(i, abi) = Lifted("Nop", NoValue, <<>>)
<1>1. ASSUME i.code \in {"cmp", "test"} PROVE Lift(i, abi) = Lifted("Compare", NoValue, <<SourceOf(i, 1), SourceOf(i, 2)>>)
  BY <1>1 DEF Lift, SourceOf, Arithmetic, Transfers
<1>2. ASSUME i.code = "set" PROVE Lift(i, abi) = Lifted("ConditionalSelect", TargetOf(i), <<ImmediateValue(1), ImmediateValue(0)>>)
  BY <1>2 DEF Lift, LiftConditionalSelect, TargetOf, Arithmetic, Transfers
<1>3. ASSUME i.code = "cmov" PROVE Lift(i, abi) = Lifted("ConditionalSelect", TargetOf(i), <<SourceOf(i, 2), SourceOf(i, 1)>>)
  BY <1>3 DEF Lift, LiftConditionalSelect, TargetOf, SourceOf, Arithmetic, Transfers
<1>4. ASSUME i.code = "call" PROVE Lift(i, abi) = Lifted("Call", ReturnRegisterValue, <<>>)
  BY <1>4 DEF Lift, LiftTransfer, Arithmetic, Transfers
<1>5. ASSUME i.code = "ret"
      PROVE  Lift(i, abi) = Lifted("Return", NoValue, IF abi.returnsValue THEN <<ReturnRegisterValue>> ELSE <<>>)
  BY <1>5 DEF Lift, LiftTransfer, Arithmetic, Transfers
<1>6. ASSUME i.code = "jcc" PROVE Lift(i, abi) = Lifted("ConditionalJump", NoValue, <<>>)
  BY <1>6 DEF Lift, LiftTransfer, Arithmetic, Transfers
<1>7. ASSUME i.code = "jmp" PROVE Lift(i, abi) = Lifted("Jump", NoValue, <<>>)
  BY <1>7 DEF Lift, LiftTransfer, Arithmetic, Transfers
<1>8. ASSUME i.code = "nop" PROVE Lift(i, abi) = Lifted("Nop", NoValue, <<>>)
  BY <1>8 DEF Lift, Arithmetic, Transfers
<1> QED BY <1>1, <1>2, <1>3, <1>4, <1>5, <1>6, <1>7, <1>8

LiftedCodes ==
  OperationCodes \cup {"mul", "idiv", "mov", "movzx", "pop", "push", "neg", "cmp", "test", "set", "cmov"}
    \cup Transfers \cup {"nop"}

LEMMA LiftUnknown ==
  ASSUME NEW i, i.code \notin LiftedCodes
  PROVE  Lift(i, abi) = Lifted("Unknown", NoValue, <<>>)
BY DEF Lift, Arithmetic, Transfers, LiftedCodes, OperationCodes

--------------------------------------------------------------------------------

\* The recovery of two sources and of one.
LEMMA RecoverBinary ==
  ASSUME NEW s, NEW declared, NEW b, NEW i, i.code \notin {"frame", "lea"}, NEW operation \in BinaryOperators,
         NEW v, NEW p, NEW q, Lift(i, abi) = Lifted(operation, v, <<p, q>>)
  PROVE  \E l : /\ Recover(s, declared, b, i)
                     = Write(s, declared, b, v, Binary(ValueText(s, p), operation, ValueText(s, q)), l)
                /\ l = {} => ValueLapses(s, b, p) = {} /\ ValueLapses(s, b, q) = {}
<1> DEFINE ir == Lift(i, abi)
           l == UNION {ValueLapses(s, b, ir.operands[k]) : k \in DOMAIN ir.operands}
<1>1. ir.opcode = operation /\ ir.destination = v /\ ir.operands = <<p, q>>
  BY DEF Lifted
<1>2. Recover(s, declared, b, i)
        = Write(s, declared, b, v, Binary(ValueText(s, ir.operands[1]), operation, ValueText(s, ir.operands[2])), l)
  <2> HIDE DEF ir
  <2>1. operation \notin {"Assign", "Store", "Load", "Cast", "Negate", "Compare", "ConditionalSelect", "Call",
                          "Return", "ConditionalJump", "Unknown"}
    BY DEF BinaryOperators
  <2>2. ir = Lift(i, abi)
    BY DEF ir
  <2> QED BY <1>1, <2>1, <2>2 DEF Recover
<1>3. ir.operands[1] = p /\ ir.operands[2] = q /\ 1 \in DOMAIN ir.operands /\ 2 \in DOMAIN ir.operands
  BY <1>1
<1>4. l = {} => ValueLapses(s, b, p) = {} /\ ValueLapses(s, b, q) = {}
  BY <1>3
<1> HIDE DEF l
<1> QED BY <1>2, <1>3, <1>4

LEMMA RecoverUnary ==
  ASSUME NEW s, NEW declared, NEW b, NEW i, i.code \notin {"frame", "lea"},
         NEW operation \in {"Assign", "Store", "Load", "Cast"},
         NEW v, NEW p, Lift(i, abi) = Lifted(operation, v, <<p>>)
  PROVE  \E l : /\ Recover(s, declared, b, i)
                     = Write(s, declared, b, v, IF operation = "Cast" THEN Cast(ValueText(s, p)) ELSE ValueText(s, p), l)
                /\ l = {} => ValueLapses(s, b, p) = {}
<1> DEFINE ir == Lift(i, abi)
           l == UNION {ValueLapses(s, b, ir.operands[k]) : k \in DOMAIN ir.operands}
<1>1. ir.opcode = operation /\ ir.destination = v /\ ir.operands = <<p>>
  BY DEF Lifted
<1>2. Recover(s, declared, b, i)
        = Write(s, declared, b, v, IF operation = "Cast" THEN Cast(ValueText(s, ir.operands[1])) ELSE ValueText(s, ir.operands[1]), l)
  <2> HIDE DEF ir
  <2>1. operation \notin BinaryOperators
    BY DEF BinaryOperators
  <2>2. ir = Lift(i, abi)
    BY DEF ir
  <2>3. CASE operation = "Cast"
    BY <1>1, <2>1, <2>2, <2>3 DEF Recover
  <2>4. CASE operation # "Cast"
    BY <1>1, <2>1, <2>2, <2>4 DEF Recover
  <2> QED BY <2>3, <2>4
<1>3. ir.operands[1] = p /\ 1 \in DOMAIN ir.operands
  BY <1>1
<1>4. l = {} => ValueLapses(s, b, p) = {}
  BY <1>3
<1> HIDE DEF l
<1> QED BY <1>2, <1>3, <1>4

LEMMA RecoverAddress ==
  ASSUME NEW s, NEW declared, NEW b, NEW i, i.code = "lea"
  PROVE  \E l : /\ Recover(s, declared, b, i)
                     = Write(s, declared, b, TargetOf(i),
                             Binary(RegisterText(s, SourceOf(i, 2)), "+", RegisterText(s, SourceOf(i, 3))), l)
                /\ l = {} => ValueLapses(s, b, SourceOf(i, 2)) = {} /\ ValueLapses(s, b, SourceOf(i, 3)) = {}
<1> DEFINE ir == Lift(i, abi)
           l == UNION {ValueLapses(s, b, ir.operands[k]) : k \in DOMAIN ir.operands}
<1>1. Lift(i, abi) = Lifted("+", TargetOf(i), [k \in 1 .. 2 |-> SourceOf(i, k + 1)])
  BY LiftOperation DEF OperationCodes
<1>2. ir.opcode = "+" /\ ir.destination = TargetOf(i) /\ ir.operands = [k \in 1 .. 2 |-> SourceOf(i, k + 1)]
  BY <1>1 DEF Lifted
<1>3. ir.operands[1] = SourceOf(i, 2) /\ ir.operands[2] = SourceOf(i, 3) /\ 1 \in DOMAIN ir.operands /\ 2 \in DOMAIN ir.operands
  BY <1>2
<1>4. Recover(s, declared, b, i)
        = Write(s, declared, b, ir.destination,
                Binary(RegisterText(s, ir.operands[1]), "+", RegisterText(s, ir.operands[2])), l)
  <2> HIDE DEF ir
  <2>1. ir = Lift(i, abi)
    BY DEF ir
  <2>2. "+" \notin {"Assign", "Store", "Load", "Cast", "Negate", "Compare", "ConditionalSelect", "Call",
                    "Return", "ConditionalJump", "Unknown"}
    OBVIOUS
  <2> QED BY <1>2, <2>1, <2>2 DEF Recover
<1>5. l = {} => ValueLapses(s, b, SourceOf(i, 2)) = {} /\ ValueLapses(s, b, SourceOf(i, 3)) = {}
  BY <1>3
<1> HIDE DEF l, ir
<1> QED BY <1>2, <1>3, <1>4, <1>5

LEMMA RecoverNegated ==
  ASSUME NEW s, NEW declared, NEW b, NEW i, i.code = "neg"
  PROVE  \E l : /\ Recover(s, declared, b, i)
                     = Write(Compared(s, Negation(ValueText(s, SourceOf(i, 1))), Constant(0), FALSE), declared, b,
                             TargetOf(i), Negation(ValueText(s, SourceOf(i, 1))), l)
                /\ l = {} => ValueLapses(s, b, SourceOf(i, 1)) = {}
<1> DEFINE ir == Lift(i, abi)
           l == UNION {ValueLapses(s, b, ir.operands[k]) : k \in DOMAIN ir.operands}
<1>1. Lift(i, abi) = Lifted("Negate", TargetOf(i), <<SourceOf(i, 1)>>)
  BY LiftMoves
<1>2. ir.opcode = "Negate" /\ ir.destination = TargetOf(i) /\ ir.operands = <<SourceOf(i, 1)>>
  BY <1>1 DEF Lifted
<1>3. ir.operands[1] = SourceOf(i, 1) /\ 1 \in DOMAIN ir.operands
  BY <1>2
<1>4. Recover(s, declared, b, i) = RecoverNegation(s, declared, b, ir, l)
  <2> HIDE DEF ir
  <2>1. ir = Lift(i, abi)
    BY DEF ir
  <2>2. "Negate" \notin BinaryOperators
    BY DEF BinaryOperators
  <2> QED BY <1>2, <2>1, <2>2 DEF Recover
<1>5. l = {} => ValueLapses(s, b, SourceOf(i, 1)) = {}
  BY <1>3
<1> HIDE DEF l, ir
<1> QED BY <1>2, <1>3, <1>4, <1>5 DEF RecoverNegation

LEMMA RecoverSelect ==
  ASSUME NEW s, NEW declared, NEW b, NEW i, i.code \notin {"frame", "lea"}, NEW v, NEW p, NEW q,
         Lift(i, abi) = Lifted("ConditionalSelect", v, <<p, q>>)
  PROVE  \E l : /\ Recover(s, declared, b, i)
                     = WriteConditional(s, declared, b, v, ConditionText(s, i.condition),
                                        <<ValueText(s, p), ValueText(s, q)>>, l)
                /\ l = {} => /\ ValueLapses(s, b, p) = {} /\ ValueLapses(s, b, q) = {}
                             /\ ConditionLapses(s, i.condition) = {}
<1> DEFINE ir == Lift(i, abi)
           m == UNION {ValueLapses(s, b, ir.operands[k]) : k \in DOMAIN ir.operands}
           l == m \cup ConditionLapses(s, i.condition)
<1>1. ir.opcode = "ConditionalSelect" /\ ir.destination = v /\ ir.operands = <<p, q>>
  BY DEF Lifted
<1>2. ir.operands[1] = p /\ ir.operands[2] = q /\ 1 \in DOMAIN ir.operands /\ 2 \in DOMAIN ir.operands
  BY <1>1
<1>3. Recover(s, declared, b, i)
        = WriteConditional(s, declared, b, v, ConditionText(s, i.condition),
                           <<ValueText(s, ir.operands[1]), ValueText(s, ir.operands[2])>>, l)
  <2> HIDE DEF ir
  <2>1. ir = Lift(i, abi)
    BY DEF ir
  <2>2. "ConditionalSelect" \notin BinaryOperators
    BY DEF BinaryOperators
  <2> QED BY <1>1, <2>1, <2>2 DEF Recover
<1>4. m = {} => ValueLapses(s, b, p) = {} /\ ValueLapses(s, b, q) = {}
  BY <1>2
<1> HIDE DEF m, ir
<1>5. l = {} => m = {} /\ ConditionLapses(s, i.condition) = {}
  OBVIOUS
<1> HIDE DEF l
<1> QED BY <1>2, <1>3, <1>4, <1>5

LEMMA RecoverComparison ==
  ASSUME NEW s, NEW declared, NEW b, NEW i, i.code \in {"cmp", "test"}
  PROVE  \E l : /\ Recover(s, declared, b, i)
                     = Outcome(Compared(s, ValueText(s, SourceOf(i, 1)), ValueText(s, SourceOf(i, 2)), i.code = "test"),
                               declared, NoStatement, l)
                /\ l = {} => ValueLapses(s, b, SourceOf(i, 1)) = {} /\ ValueLapses(s, b, SourceOf(i, 2)) = {}
<1> DEFINE ir == Lift(i, abi)
           l == UNION {ValueLapses(s, b, ir.operands[k]) : k \in 1 .. 2}
<1>1. Lift(i, abi) = Lifted("Compare", NoValue, <<SourceOf(i, 1), SourceOf(i, 2)>>)
  BY LiftOthers
<1>2. ir.opcode = "Compare" /\ ir.operands = <<SourceOf(i, 1), SourceOf(i, 2)>>
  BY <1>1 DEF Lifted
<1>3. ir.operands[1] = SourceOf(i, 1) /\ ir.operands[2] = SourceOf(i, 2)
  BY <1>2
<1>4. Recover(s, declared, b, i) = RecoverCompare(s, declared, b, i, ir.operands)
  <2> HIDE DEF ir
  <2>1. ir = Lift(i, abi)
    BY DEF ir
  <2>2. "Compare" \notin BinaryOperators
    BY DEF BinaryOperators
  <2> QED BY <1>2, <2>1, <2>2 DEF Recover
<1>5. RecoverCompare(s, declared, b, i, ir.operands)
        = Outcome(Compared(s, ValueText(s, ir.operands[1]), ValueText(s, ir.operands[2]), i.code = "test"),
                  declared, NoStatement, l)
  BY DEF RecoverCompare
<1>6. l = {} => ValueLapses(s, b, ir.operands[1]) = {} /\ ValueLapses(s, b, ir.operands[2]) = {}
  OBVIOUS
<1> HIDE DEF l, ir
<1> QED BY <1>3, <1>4, <1>5, <1>6

\* The step of the recovery at i is sound, and exact without a lapse.
Steps(s, declared, b, i) ==
  /\ Recovered(declared, b, Recover(s, declared, b, i))
  /\ \A mu : StepExact(s, b, mu, i, Recover(s, declared, b, i))

Writers == OperationCodes \cup {"mov", "movzx", "pop", "neg", "set", "cmov"}

LEMMA OperandWritten ==
  ASSUME NEW s, NEW declared, NEW b, NEW i, MayRecover(s, declared, b, i), i.code \in Writers
  PROVE  /\ i.operands[1] \in ToSet(i.operands) /\ i.operands[1] \in Operands
         /\ OperandsWritten(i) = {i.operands[1]}
         /\ IsDestination(TargetOf(i)) /\ Effects(i, TargetOf(i), Written(i))
         /\ TargetOf(i).register \notin FrameRegisters => WritesValue(i)
<1> DEFINE o == i.operands[1]
<1>1. i \in DecodedInstructions /\ AbiExact /\ MemoryOperands(i) \subseteq Offsets
  BY DEF MayRecover
<1>2. /\ i.operands \in Seq(Operands) /\ Len(i.operands) = OperandCount(i.code)
      /\ \A p \in OperandsWritten(i) : p[1] # "immediate"
  BY <1>1 DEF DecodedInstructions
<1>3. OperandCount(i.code) \in 1 .. 3
  BY DEF OperandCount, Writers, OperationCodes, Arithmetic
<1>4. o \in ToSet(i.operands) /\ o \in Operands
  BY <1>2, <1>3 DEF ToSet
<1>5. OperandsWritten(i) = {o}
  BY DEF OperandsWritten, Writers, OperationCodes, Arithmetic
<1>6. o[1] # "immediate"
  BY <1>2, <1>5
<1>7. o[1] = "memory" => o[2] \in Offsets
  BY <1>1, <1>4 DEF MemoryOperands
<1>8. ImplicitlyWritten(i) = {} /\ i.code \notin {"call", "push", "unknown"}
  BY DEF ImplicitlyWritten, Writers, OperationCodes, Arithmetic
<1>9. IsDestination(TargetOf(i))
  BY <1>1, <1>4, <1>6, <1>7, Destinations DEF TargetOf
<1>10. Effects(i, TargetOf(i), Written(i))
  BY <1>1, <1>4, <1>5, <1>6, <1>7, <1>8, EffectsWritten DEF TargetOf
<1>11. TargetOf(i).register \notin FrameRegisters => WritesValue(i)
  BY <1>5 DEF WritesValue, TargetOf
<1> QED BY <1>4, <1>5, <1>9, <1>10, <1>11

LEMMA CarriesFlags ==
  ASSUME NEW s, NEW b, NEW mu, MachineExact(s, b, mu), NEW i, FlagsAfter(i) = flags \/ i.code \in FlagsLost
  PROVE  Carries(s, b, mu, i)
BY DEF MachineExact, Carries

\* A text is that of an operand.
LEMMA SourceMeans ==
  ASSUME NEW s, NEW declared, NEW b, NEW i, MayRecover(s, declared, b, i), NEW mu, MachineExact(s, b, mu),
         NEW statement, PathLapses(i, statement) = {}, NamesOperands(i), WritesValue(i),
         NEW k \in 1 .. Len(i.operands), i.operands[k] \in OperandsRead(i), ValueLapses(s, b, SourceOf(i, k)) = {}
  PROVE  Is(OperandTerm(i.operands[k]), Evaluate(ValueText(s, SourceOf(i, k)), mu))
<1>1. i.operands \in Seq(Operands)
  BY DEF MayRecover, DecodedInstructions
<1>2. i.operands[k] \in ToSet(i.operands)
  BY <1>1 DEF ToSet
<1>3. OperandMeans(s, b, mu, i.operands[k])
  BY <1>2, ReadsExact
<1> QED BY <1>3 DEF OperandMeans, SourceOf

\* The base and the index of an address.
LEMMA AddressMeans ==
  ASSUME NEW s, NEW declared, NEW b, NEW i, MayRecover(s, declared, b, i), i.code = "lea", NEW k \in 2 .. 3,
         NEW mu, MachineExact(s, b, mu), NEW statement, PathLapses(i, statement) = {}, WritesValue(i),
         ValueLapses(s, b, SourceOf(i, k)) = {}
  PROVE  Is(OperandTerm(i.operands[k]), Evaluate(RegisterText(s, SourceOf(i, k)), mu))
<1> DEFINE v == SourceOf(i, k)
           u == [v EXCEPT !.name = <<"register", v.register>>]
<1>1. /\ i.operands \in Seq(Operands) /\ Len(i.operands) = OperandCount(i.code) /\ StateExact(s, declared)
      /\ IsRegister(i.operands[k])
  BY DEF MayRecover, DecodedInstructions, Sound
<1>2. OperandCount(i.code) = 3
  BY DEF OperandCount, Arithmetic
<1>3. PICK o \in Operands : o = i.operands[k]
  BY <1>1, <1>2
<1>4. o = <<"register", o[2]>> /\ o[2] \in Registers
  BY <1>1, <1>3 DEF Operands, IsRegister
<1>5. v = RegisterValue(o[2], abi, FALSE)
  <2>1. v = OperandValue(o, abi, FALSE)
    BY <1>3 DEF SourceOf
  <2>2. o[1] = "register"
    BY <1>4
  <2>3. OperandValue(o, abi, FALSE) = RegisterValue(o[2], abi, FALSE)
    BY ONLY <2>2 DEF OperandValue
  <2> QED BY <2>1, <2>3
<1>6. o[2] \notin hidden
  <2>1. o \in OperandsRead(i)
    <3>1. OperandsRead(i) = {i.operands[2], i.operands[3]}
      BY DEF OperandsRead, Arithmetic
    <3>2. k = 2 \/ k = 3
      OBVIOUS
    <3> QED BY <1>3, <3>1, <3>2
  <2>2. o \in ToSet(i.operands)
    BY <1>1, <1>2, <1>3 DEF ToSet
  <2>3. RegistersAmong(OperandsWritten(i)) \cap FrameRegisters = {}
    <3>1. RegistersAmong(OperandsWritten(i)) = {p[2] : p \in {q \in OperandsWritten(i) : q[1] = "register"}}
      BY Among
    <3>2. PICK p : p = i.operands[1]
      OBVIOUS
    <3>3. OperandsWritten(i) = {p}
      BY <3>2 DEF OperandsWritten, Arithmetic
    <3>4. OperandValue(p, abi, TRUE).register \notin FrameRegisters
      BY <3>2, <3>3 DEF WritesValue
    <3>5. p[1] = "register" => OperandValue(p, abi, TRUE) = RegisterValue(p[2], abi, TRUE)
      BY DEF OperandValue
    <3>6. RegisterValue(p[2], abi, TRUE).register = p[2]
      BY ONLY TRUE DEF RegisterValue, IRValue
    <3> QED BY <3>1, <3>3, <3>4, <3>5, <3>6
  <2>4. RegistersAmong(OperandsRead(i)) \cap hidden = {}
    BY <2>3, NoPathLapses
  <2>5. o[2] \in RegistersAmong(OperandsRead(i))
    BY <1>1, <1>3, <2>1 DEF RegistersAmong
  <2> QED BY <2>4, <2>5
<1> HIDE DEF v
<1>7. v.register = o[2] /\ v.offset = NoOffset /\ v.kind \in {"Parameter", "Register"}
      /\ DOMAIN v = {"kind", "name", "register", "offset"}
  BY ONLY <1>5 DEF RegisterValue, IRValue
<1>8. u.register = o[2] /\ u.offset = NoOffset /\ u.kind = v.kind
  BY <1>7
<1>9. RegisterText(s, v) = ValueText(s, u)
  BY DEF RegisterText
<1> HIDE DEF u
<1>10. ~ Shadowed(s, o[2]) /\ (Place(s, v) = "expression" => <<"register", o[2]>> \notin s.stale)
  <2>1. ValueLapses(s, b, v) = {}
    BY DEF v
  <2>2. ~ Shadowed(s, v.register) /\ (Place(s, v) = "expression" => <<"register", v.register>> \notin s.stale)
    BY <2>1, NoValueLapses
  <2> QED BY <1>7, <2>2
<1>11. Place(s, u) = Place(s, v)
  BY <1>7, <1>8 DEF Place
<1>12. RegisterExact(s, mu, o[2], register[o[2]])
  BY <1>4, <1>6 DEF MachineExact
<1>13. Is(register[o[2]], Evaluate(ValueText(s, u), mu))
  BY <1>1, <1>4, <1>8, <1>10, <1>11, <1>12, RegisterOperand
<1>14. OperandTerm(o) = register[o[2]]
  BY <1>4 DEF OperandTerm
<1> QED BY <1>3, <1>9, <1>13, <1>14 DEF v

LEMMA ArithmeticMeans ==
  ASSUME NEW s, NEW declared, NEW b, NEW i, MayRecover(s, declared, b, i), i.code \in Arithmetic,
         NEW mu, MachineExact(s, b, mu), NEW statement, PathLapses(i, statement) = {}, WritesValue(i),
         ValueLapses(s, b, SourceOf(i, 1)) = {}, ValueLapses(s, b, SourceOf(i, 2)) = {}
  PROVE  Is(Written(i), Evaluate(Binary(ValueText(s, SourceOf(i, 1)), BinaryOpcode[i.code], ValueText(s, SourceOf(i, 2))), mu))
<1> DEFINE operation == BinaryOpcode[i.code]
           p == ValueText(s, SourceOf(i, 1))
           q == ValueText(s, SourceOf(i, 2))
           same == i.code \in {"xor", "sub"} /\ i.operands[1] = i.operands[2]
<1>1. NamesExact(mu) /\ StateExact(s, declared)
  BY DEF MachineExact, MayRecover, Sound
<1>2. IsText(p) /\ IsText(q)
  BY <1>1, ValueTextIsText
<1>3. operation \in BinaryOperators /\ (i.code = "xor" => operation = "^") /\ (i.code = "sub" => operation = "-")
  BY DEF BinaryOpcode, Arithmetic, BinaryOperators
<1>4. Written(i) = IF same THEN Zero ELSE Term(operation, OperandTerm(i.operands[1]), OperandTerm(i.operands[2]))
  BY DEF Written, Computed, Arithmetic
<1>5. CASE same
  <2>1. p = q
    BY <1>5 DEF SourceOf
  <2>2. Binary(p, operation, q) = Constant(0)
    BY <1>3, <1>5, <2>1 DEF Binary
  <2> QED BY <1>1, <1>4, <1>5, <2>2, ConstantText DEF Is, Zero
<1>6. CASE ~ same
  <2>1. OperandsRead(i) = {i.operands[1], i.operands[2]}
    BY <1>6 DEF OperandsRead, Arithmetic
  <2>2. Len(i.operands) = 2
    BY DEF MayRecover, DecodedInstructions, OperandCount
  <2>3. NamesOperands(i)
    BY DEF Arithmetic, NamesOperands
  <2>4. 1 \in 1 .. Len(i.operands) /\ 2 \in 1 .. Len(i.operands)
    BY <2>2
  <2> HIDE DEF operation, same
  <2>5. Is(OperandTerm(i.operands[1]), Evaluate(p, mu)) /\ Is(OperandTerm(i.operands[2]), Evaluate(q, mu))
    BY <2>1, <2>3, <2>4, SourceMeans
  <2> HIDE DEF p, q
  <2>6. Is(Term(operation, OperandTerm(i.operands[1]), OperandTerm(i.operands[2])), Evaluate(Binary(p, operation, q), mu))
    BY <1>1, <1>2, <1>3, <2>5, BinaryExact
  <2>7. Is(Written(i), Evaluate(Binary(p, operation, q), mu))
    BY <1>4, <1>6, <2>6
  <2> QED BY <2>7 DEF p, q, operation
<1> QED BY <1>5, <1>6

LEMMA ArithmeticStep ==
  ASSUME NEW s, NEW declared, NEW b, NEW i, MayRecover(s, declared, b, i), i.code \in Arithmetic
  PROVE  Steps(s, declared, b, i)
<1> DEFINE operation == BinaryOpcode[i.code]
           v == TargetOf(i)
           text == Binary(ValueText(s, SourceOf(i, 1)), operation, ValueText(s, SourceOf(i, 2)))
           out == Recover(s, declared, b, i)
           w == Written(i)
<1>1. StateExact(s, declared) /\ Sound(s, declared, b) /\ i.code \in OperationCodes /\ i.code \in Writers
        /\ i.code \notin {"frame", "lea"} /\ i.code \in FlagsLost
  BY DEF MayRecover, Sound, OperationCodes, Writers, FlagsLost, Arithmetic
<1>2. Lift(i, abi) = Lifted(operation, v, <<SourceOf(i, 1), SourceOf(i, 2)>>) /\ operation \in BinaryOperators
  BY <1>1, LiftOperation
<1>3. HasVariable(v)
  <2>1. Lift(i, abi).destination = v
    BY <1>2 DEF Lifted
  <2> QED BY <2>1 DEF MayRecover
<1>4. IsDestination(v) /\ Effects(i, v, w) /\ (v.register \notin FrameRegisters => WritesValue(i))
  BY <1>1, OperandWritten
<1>5. PICK l : /\ out = Write(s, declared, b, v, text, l)
               /\ l = {} => ValueLapses(s, b, SourceOf(i, 1)) = {} /\ ValueLapses(s, b, SourceOf(i, 2)) = {}
  BY <1>1, <1>2, RecoverBinary
<1>6. IsText(text)
  BY <1>1, <1>2, ValueTextIsText, ApplyTexts, NameText DEF Binary, Constant, BinaryOperators
<1>7. \A mu : MachineExact(s, b, mu) /\ l = {} /\ PathLapses(i, out.statement) = {} => Carries(s, b, mu, i)
  BY <1>1, CarriesFlags
<1>8. \A mu : MachineExact(s, b, mu) /\ l = {} /\ PathLapses(i, out.statement) = {}
                /\ v.register \notin FrameRegisters => Is(w, Evaluate(text, mu))
  BY <1>4, <1>5, ArithmeticMeans
<1> HIDE DEF v, text, out, w, operation
<1>9. Recovered(declared, b, out) /\ \A mu : StepExact(s, b, mu, i, out)
  BY <1>1, <1>3, <1>4, <1>5, <1>6, <1>7, <1>8, WriteStep
<1> QED BY <1>9 DEF Steps, out

\* Binary is a text.
LEMMA BinaryText ==
  ASSUME NEW l, IsText(l), NEW r, IsText(r), NEW operation \in BinaryOperators
  PROVE  IsText(Binary(l, operation, r))
BY ApplyTexts, NameText DEF Binary, Constant, BinaryOperators

LEMMA AddressStep ==
  ASSUME NEW s, NEW declared, NEW b, NEW i, MayRecover(s, declared, b, i), i.code = "lea"
  PROVE  Steps(s, declared, b, i)
<1> DEFINE v == TargetOf(i)
           p == RegisterText(s, SourceOf(i, 2))
           q == RegisterText(s, SourceOf(i, 3))
           text == Binary(p, "+", q)
           out == Recover(s, declared, b, i)
           w == Written(i)
<1>1. StateExact(s, declared) /\ Sound(s, declared, b) /\ i.code \in OperationCodes /\ i.code \in Writers
  BY DEF MayRecover, Sound, OperationCodes, Writers
<1>2. Lift(i, abi).destination = v
  BY <1>1, LiftOperation DEF Lifted
<1>3. HasVariable(v)
  BY <1>2 DEF MayRecover
<1>4. IsDestination(v) /\ Effects(i, v, w) /\ (v.register \notin FrameRegisters => WritesValue(i))
  BY <1>1, OperandWritten
<1>5. PICK l : /\ out = Write(s, declared, b, v, text, l)
               /\ l = {} => ValueLapses(s, b, SourceOf(i, 2)) = {} /\ ValueLapses(s, b, SourceOf(i, 3)) = {}
  BY RecoverAddress
<1>6. IsText(p) /\ IsText(q) /\ "+" \in BinaryOperators
  BY <1>1, ValueTextIsText DEF RegisterText, BinaryOperators
<1>7. FlagsAfter(i) = flags
  BY DEF FlagsAfter
<1>8. w = Term("+", OperandTerm(i.operands[2]), OperandTerm(i.operands[3]))
  BY DEF Written, Computed, Arithmetic
<1>9. \A mu : MachineExact(s, b, mu) /\ l = {} /\ PathLapses(i, out.statement) = {} => Carries(s, b, mu, i)
  BY <1>7, CarriesFlags
<1> HIDE DEF out, v
<1>10. ASSUME NEW mu, MachineExact(s, b, mu), l = {}, PathLapses(i, out.statement) = {}, v.register \notin FrameRegisters
       PROVE  Is(w, Evaluate(text, mu))
  <2>1. 2 \in 2 .. 3 /\ 3 \in 2 .. 3
    OBVIOUS
  <2>2. Is(OperandTerm(i.operands[2]), Evaluate(p, mu)) /\ Is(OperandTerm(i.operands[3]), Evaluate(q, mu))
    BY <1>4, <1>5, <1>10, <2>1, AddressMeans
  <2>3. NamesExact(mu)
    BY <1>10 DEF MachineExact
  <2> HIDE DEF p, q, w
  <2> QED BY <1>6, <1>8, <2>2, <2>3, BinaryExact
<1>11. IsText(text)
  <2> HIDE DEF p, q
  <2> QED BY <1>6, BinaryText
<1> HIDE DEF text, w
<1>12. Recovered(declared, b, out) /\ \A mu : StepExact(s, b, mu, i, out)
  BY <1>1, <1>3, <1>4, <1>5, <1>9, <1>10, <1>11, WriteStep
<1> QED BY <1>12 DEF Steps, out

LEMMA Imul3Step ==
  ASSUME NEW s, NEW declared, NEW b, NEW i, MayRecover(s, declared, b, i), i.code = "imul3"
  PROVE  Steps(s, declared, b, i)
<1> DEFINE v == TargetOf(i)
           p == ValueText(s, SourceOf(i, 2))
           q == ValueText(s, SourceOf(i, 3))
           text == Binary(p, "*", q)
           out == Recover(s, declared, b, i)
           w == Written(i)
<1>1. StateExact(s, declared) /\ Sound(s, declared, b) /\ i.code \in OperationCodes /\ i.code \in Writers
        /\ i.code \in FlagsLost
  BY DEF MayRecover, Sound, OperationCodes, Writers, FlagsLost
<1>2. Lift(i, abi) = Lifted("*", v, <<SourceOf(i, 2), SourceOf(i, 3)>>)
  BY <1>1, LiftOperation
<1>3. HasVariable(v)
  <2>1. Lift(i, abi).destination = v
    BY <1>2 DEF Lifted
  <2> QED BY <2>1 DEF MayRecover
<1>4. IsDestination(v) /\ Effects(i, v, w) /\ (v.register \notin FrameRegisters => WritesValue(i))
  BY <1>1, OperandWritten
<1>5. PICK l : /\ out = Write(s, declared, b, v, text, l)
               /\ l = {} => ValueLapses(s, b, SourceOf(i, 2)) = {} /\ ValueLapses(s, b, SourceOf(i, 3)) = {}
  <2>1. PICK operation \in BinaryOperators : operation = "*"
    BY DEF BinaryOperators
  <2>2. Lift(i, abi) = Lifted(operation, v, <<SourceOf(i, 2), SourceOf(i, 3)>>)
    BY <1>2, <2>1
  <2>3. \E l : /\ out = Write(s, declared, b, v, Binary(p, operation, q), l)
               /\ l = {} => ValueLapses(s, b, SourceOf(i, 2)) = {} /\ ValueLapses(s, b, SourceOf(i, 3)) = {}
    BY <2>2, RecoverBinary
  <2> QED BY <2>1, <2>3
<1>6. IsText(p) /\ IsText(q) /\ "*" \in BinaryOperators
  BY <1>1, ValueTextIsText DEF BinaryOperators
<1>8. w = Term("*", OperandTerm(i.operands[2]), OperandTerm(i.operands[3]))
  BY DEF Written, Computed, Arithmetic
<1>9. \A mu : MachineExact(s, b, mu) /\ l = {} /\ PathLapses(i, out.statement) = {} => Carries(s, b, mu, i)
  BY <1>1, CarriesFlags
<1> HIDE DEF out, v
<1>10. ASSUME NEW mu, MachineExact(s, b, mu), l = {}, PathLapses(i, out.statement) = {}, v.register \notin FrameRegisters
       PROVE  Is(w, Evaluate(text, mu))
  <2>1. OperandsRead(i) = {i.operands[2], i.operands[3]} /\ Len(i.operands) = 3
    BY DEF OperandsRead, Arithmetic, MayRecover, DecodedInstructions, OperandCount
  <2>2. 2 \in 1 .. Len(i.operands) /\ 3 \in 1 .. Len(i.operands) /\ NamesOperands(i)
    BY <2>1 DEF NamesOperands
  <2>3. Is(OperandTerm(i.operands[2]), Evaluate(p, mu)) /\ Is(OperandTerm(i.operands[3]), Evaluate(q, mu))
    BY <1>4, <1>5, <1>10, <2>1, <2>2, SourceMeans
  <2>4. NamesExact(mu)
    BY <1>10 DEF MachineExact
  <2> HIDE DEF p, q, w
  <2> QED BY <1>6, <1>8, <2>3, <2>4, BinaryExact
<1>11. IsText(text)
  <2> HIDE DEF p, q
  <2> QED BY <1>6, BinaryText
<1> HIDE DEF text, w
<1>12. Recovered(declared, b, out) /\ \A mu : StepExact(s, b, mu, i, out)
  BY <1>1, <1>3, <1>4, <1>5, <1>9, <1>10, <1>11, WriteStep
<1> QED BY <1>12 DEF Steps, out

LEMMA RaxMeans ==
  ASSUME NEW s, NEW declared, NEW b, StateExact(s, declared), NEW mu, MachineExact(s, b, mu),
         ValueLapses(s, b, ReturnRegisterValue) = {}, "rax" \notin hidden
  PROVE  Is(register["rax"], Evaluate(ValueText(s, ReturnRegisterValue), mu))
<1>1. PICK v : v = ReturnRegisterValue
  OBVIOUS
<1>2. v.register = "rax" /\ v.offset = NoOffset
  BY ONLY <1>1 DEF ReturnRegisterValue, IRValue
<1>3. "rax" \in Registers \ FrameRegisters
  BY RegistersAssumption
<1>4. RegisterExact(s, mu, v.register, register["rax"])
  BY <1>2, <1>3 DEF MachineExact
<1>5. ValueLapses(s, b, v) = {}
  BY <1>1
<1>6. ~ Shadowed(s, v.register) /\ (Place(s, v) = "expression" => <<"register", v.register>> \notin s.stale)
  BY <1>5, NoValueLapses
<1>7. v.register \in Registers
  BY <1>2, <1>3
<1>8. Is(register["rax"], Evaluate(ValueText(s, v), mu))
  BY <1>2, <1>4, <1>6, <1>7, RegisterOperand
<1> QED BY <1>1, <1>8

\* mul and idiv: the low half and the quotient are what the recovery follows.
LEMMA ProductStep ==
  ASSUME NEW s, NEW declared, NEW b, NEW i, MayRecover(s, declared, b, i), i.code \in {"mul", "idiv"}
  PROVE  Steps(s, declared, b, i)
<1> DEFINE v == ReturnRegisterValue
           p == ValueText(s, ReturnRegisterValue)
           q == ValueText(s, SourceOf(i, 1))
           out == Recover(s, declared, b, i)
           w == ImplicitResult(i, "rax")
<1>1. StateExact(s, declared) /\ Sound(s, declared, b) /\ i.code \in FlagsLost /\ AbiExact
  BY DEF MayRecover, Sound, FlagsLost
<1>2. PICK operation \in BinaryOperators : operation = IF i.code = "mul" THEN "*" ELSE "/"
  BY DEF BinaryOperators
<1> DEFINE text == Binary(p, operation, q)
<1>3. Lift(i, abi) = Lifted(operation, v, <<ReturnRegisterValue, SourceOf(i, 1)>>)
  BY <1>2, LiftProduct
<1>4. HasVariable(v)
  <2>1. Lift(i, abi).destination = v
    BY <1>3 DEF Lifted
  <2> QED BY <2>1 DEF MayRecover
<1>5. IsDestination(v) /\ Effects(i, v, w)
  BY <1>1, FixedDestinations, EffectsProduct
<1>6. PICK l : /\ out = Write(s, declared, b, v, text, l)
               /\ l = {} => ValueLapses(s, b, ReturnRegisterValue) = {} /\ ValueLapses(s, b, SourceOf(i, 1)) = {}
  BY <1>3, RecoverBinary
<1>7. IsText(p) /\ IsText(q)
  BY <1>1, ValueTextIsText
<1>8. \A mu : MachineExact(s, b, mu) /\ l = {} /\ PathLapses(i, out.statement) = {} => Carries(s, b, mu, i)
  BY <1>1, CarriesFlags
<1> HIDE DEF out, v
<1>9. ASSUME NEW mu, MachineExact(s, b, mu), l = {}, PathLapses(i, out.statement) = {}
      PROVE  Is(w, Evaluate(text, mu))
  <2>1. OperandsRead(i) = {i.operands[1]} /\ Len(i.operands) = 1
    BY DEF OperandsRead, Arithmetic, MayRecover, DecodedInstructions, OperandCount
  <2>2. 1 \in 1 .. Len(i.operands) /\ NamesOperands(i)
    BY <2>1 DEF NamesOperands
  <2>3. WritesValue(i)
    BY DEF WritesValue, OperandsWritten, Arithmetic
  <2>4. Is(OperandTerm(i.operands[1]), Evaluate(q, mu))
    BY <1>6, <1>9, <2>1, <2>2, <2>3, SourceMeans
  <2>5. Is(register["rax"], Evaluate(p, mu))
    BY <1>1, <1>6, <1>9, NoPathLapses, RaxMeans
  <2>6. NamesExact(mu)
    BY <1>9 DEF MachineExact
  <2>7. i.code = "idiv" => Dividend = register["rax"]
    BY <1>9, NoPathLapses
  <2>8. w = Term(operation, register["rax"], OperandTerm(i.operands[1]))
    BY <1>2, <2>7 DEF ImplicitResult
  <2> HIDE DEF p, q, w
  <2> QED BY <1>7, <2>4, <2>5, <2>6, <2>8, BinaryExact
<1>10. IsText(text)
  <2> HIDE DEF p, q
  <2> QED BY <1>7, BinaryText
<1> HIDE DEF text, w
<1>11. Recovered(declared, b, out) /\ \A mu : StepExact(s, b, mu, i, out)
  BY <1>1, <1>4, <1>5, <1>6, <1>8, <1>9, <1>10, WriteStep
<1> QED BY <1>11 DEF Steps, out

\* mov and movzx.
LEMMA MoveStep ==
  ASSUME NEW s, NEW declared, NEW b, NEW i, MayRecover(s, declared, b, i), i.code \in {"mov", "movzx"}
  PROVE  Steps(s, declared, b, i)
<1> DEFINE v == TargetOf(i)
           p == ValueText(s, SourceOf(i, 2))
           text == IF i.code = "movzx" THEN Cast(p) ELSE p
           out == Recover(s, declared, b, i)
           w == Written(i)
<1>1. StateExact(s, declared) /\ Sound(s, declared, b) /\ i.code \in Writers /\ i.code \notin {"frame", "lea"}
  BY DEF MayRecover, Sound, Writers
<1>2. PICK operation \in {"Assign", "Store", "Load", "Cast"} :
        /\ operation = "Cast" <=> i.code = "movzx"
        /\ Lift(i, abi) = Lifted(operation, v, <<SourceOf(i, 2)>>)
  <2>1. CASE i.code = "mov"
    BY <2>1, LiftMoves
  <2>2. CASE i.code = "movzx"
    BY <2>2, LiftMoves
  <2> QED BY <2>1, <2>2
<1>3. HasVariable(v)
  <2>1. Lift(i, abi).destination = v
    BY <1>2 DEF Lifted
  <2> QED BY <2>1 DEF MayRecover
<1>4. IsDestination(v) /\ Effects(i, v, w) /\ (v.register \notin FrameRegisters => WritesValue(i))
  BY <1>1, OperandWritten
<1>5. PICK l : /\ out = Write(s, declared, b, v, text, l)
               /\ l = {} => ValueLapses(s, b, SourceOf(i, 2)) = {}
  BY <1>1, <1>2, RecoverUnary
<1>6. IsText(p)
  BY <1>1, ValueTextIsText
<1>7. FlagsAfter(i) = flags
  BY DEF FlagsAfter
<1>8. w = IF i.code = "movzx" THEN Term("cast", OperandTerm(i.operands[2]), Zero) ELSE OperandTerm(i.operands[2])
  BY DEF Written, Computed, Arithmetic
<1>9. \A mu : MachineExact(s, b, mu) /\ l = {} /\ PathLapses(i, out.statement) = {} => Carries(s, b, mu, i)
  BY <1>7, CarriesFlags
<1> HIDE DEF out, v
<1>10. ASSUME NEW mu, MachineExact(s, b, mu), l = {}, PathLapses(i, out.statement) = {}, v.register \notin FrameRegisters
       PROVE  Is(w, Evaluate(text, mu))
  <2>1. OperandsRead(i) = {i.operands[2]} /\ Len(i.operands) = 2
    BY DEF OperandsRead, Arithmetic, MayRecover, DecodedInstructions, OperandCount
  <2>2. 2 \in 1 .. Len(i.operands) /\ NamesOperands(i)
    BY <2>1 DEF NamesOperands
  <2>3. Is(OperandTerm(i.operands[2]), Evaluate(p, mu))
    BY <1>4, <1>5, <1>10, <2>1, <2>2, SourceMeans
  <2>4. NamesExact(mu)
    BY <1>10 DEF MachineExact
  <2> HIDE DEF p, w
  <2> QED BY <1>6, <1>8, <2>3, <2>4, UnaryExact
<1>11. IsText(text)
  <2>1. "cast" # "name" /\ IsText(Constant(0))
    BY NameText DEF Constant
  <2> HIDE DEF p
  <2> QED BY <1>6, <2>1, ApplyTexts DEF Cast
<1> HIDE DEF text, w
<1>12. Recovered(declared, b, out) /\ \A mu : StepExact(s, b, mu, i, out)
  BY <1>1, <1>3, <1>4, <1>5, <1>9, <1>10, <1>11, WriteStep
<1> QED BY <1>12 DEF Steps, out

LEMMA PopStep ==
  ASSUME NEW s, NEW declared, NEW b, NEW i, MayRecover(s, declared, b, i), i.code = "pop"
  PROVE  Steps(s, declared, b, i)
<1> DEFINE v == TargetOf(i)
           text == ValueText(s, TopValue)
           out == Recover(s, declared, b, i)
           w == Written(i)
<1>1. StateExact(s, declared) /\ Sound(s, declared, b) /\ i.code \in Writers /\ i.code \notin {"frame", "lea"}
  BY DEF MayRecover, Sound, Writers
<1>2. Lift(i, abi) = Lifted("Load", v, <<TopValue>>)
  BY LiftMoves
<1>3. HasVariable(v)
  <2>1. Lift(i, abi).destination = v
    BY <1>2 DEF Lifted
  <2> QED BY <2>1 DEF MayRecover
<1>4. IsDestination(v) /\ Effects(i, v, w)
  BY <1>1, OperandWritten
<1>5. PICK l : out = Write(s, declared, b, v, text, l)
  <2>1. PICK operation \in {"Assign", "Store", "Load", "Cast"} : operation = "Load"
    OBVIOUS
  <2>2. Lift(i, abi) = Lifted(operation, v, <<TopValue>>)
    BY <1>2, <2>1
  <2> QED BY <1>1, <2>1, <2>2, RecoverUnary
<1>6. text = Text(Top)
  BY <1>1, TopText
<1>7. FlagsAfter(i) = flags
  BY DEF FlagsAfter
<1>8. w = IF stack = <<>> THEN Unknown ELSE Last(stack)
  BY DEF Written, Computed, Arithmetic
<1>9. \A mu : MachineExact(s, b, mu) /\ l = {} /\ PathLapses(i, out.statement) = {} => Carries(s, b, mu, i)
  BY <1>7, CarriesFlags
<1> HIDE DEF out, v
<1>10. ASSUME NEW mu, MachineExact(s, b, mu), l = {}, PathLapses(i, out.statement) = {}, v.register \notin FrameRegisters
       PROVE  Is(w, Evaluate(text, mu))
  <2>1. Len(stack) = depth
    BY <1>10, NoPathLapses
  <2>2. stack # <<>> => Is(Last(stack), ValueOf(Top, mu))
    BY <1>10, <2>1 DEF MachineExact, StackExact
  <2>3. Evaluate(text, mu) = ValueOf(Top, mu)
    BY <1>6, NameText
  <2> QED BY <1>8, <2>2, <2>3 DEF Is
<1>11. IsText(text)
  BY <1>6, NameText
<1> HIDE DEF text, w
<1>12. Recovered(declared, b, out) /\ \A mu : StepExact(s, b, mu, i, out)
  BY <1>1, <1>3, <1>4, <1>5, <1>9, <1>10, <1>11, WriteStep
<1> QED BY <1>12 DEF Steps, out

LEMMA PushStep ==
  ASSUME NEW s, NEW declared, NEW b, NEW i, MayRecover(s, declared, b, i), i.code = "push"
  PROVE  Steps(s, declared, b, i)
<1> DEFINE v == TopValue
           text == ValueText(s, SourceOf(i, 1))
           out == Recover(s, declared, b, i)
           w == OperandTerm(i.operands[1])
<1>1. StateExact(s, declared) /\ Sound(s, declared, b) /\ AbiExact /\ i.code \notin {"frame", "lea"}
  BY DEF MayRecover, Sound
<1>2. Lift(i, abi) = Lifted("Store", v, <<SourceOf(i, 1)>>)
  BY LiftMoves
<1>3. HasVariable(v)
  <2>1. Lift(i, abi).destination = v
    BY <1>2 DEF Lifted
  <2> QED BY <2>1 DEF MayRecover
<1>4. IsDestination(v) /\ Effects(i, v, w)
  BY <1>1, FixedDestinations, EffectsPush
<1>5. PICK l : /\ out = Write(s, declared, b, v, text, l)
               /\ l = {} => ValueLapses(s, b, SourceOf(i, 1)) = {}
  <2>1. PICK operation \in {"Assign", "Store", "Load", "Cast"} : operation = "Store"
    OBVIOUS
  <2>2. Lift(i, abi) = Lifted(operation, v, <<SourceOf(i, 1)>>)
    BY <1>2, <2>1
  <2> QED BY <1>1, <2>1, <2>2, RecoverUnary
<1>6. IsText(text)
  BY <1>1, ValueTextIsText
<1>7. FlagsAfter(i) = flags
  BY DEF FlagsAfter
<1>8. \A mu : MachineExact(s, b, mu) /\ l = {} /\ PathLapses(i, out.statement) = {} => Carries(s, b, mu, i)
  BY <1>7, CarriesFlags
<1> HIDE DEF out, v
<1>9. ASSUME NEW mu, MachineExact(s, b, mu), l = {}, PathLapses(i, out.statement) = {}
      PROVE  Is(w, Evaluate(text, mu))
  <2>1. OperandsRead(i) = {i.operands[1]} /\ Len(i.operands) = 1
    BY DEF OperandsRead, Arithmetic, MayRecover, DecodedInstructions, OperandCount
  <2>2. 1 \in 1 .. Len(i.operands) /\ NamesOperands(i)
    BY <2>1 DEF NamesOperands
  <2>3. WritesValue(i)
    BY DEF WritesValue, OperandsWritten, Arithmetic
  <2> QED BY <1>5, <1>9, <2>1, <2>2, <2>3, SourceMeans
<1> HIDE DEF text, w
<1>10. Recovered(declared, b, out) /\ \A mu : StepExact(s, b, mu, i, out)
  BY <1>1, <1>3, <1>4, <1>5, <1>6, <1>8, <1>9, WriteStep
<1> QED BY <1>10 DEF Steps, out

\* A frame register has neither a variable nor an expression.
LEMMA FrameText ==
  ASSUME AbiExact, NEW s, NEW declared, StateExact(s, declared), NEW r \in FrameRegisters, NEW v,
         v = RegisterValue(r, abi, FALSE)
  PROVE  ValueText(s, v) = Text(<<"register", r>>)
<1>1. r \notin abi.registers
  BY RegistersAssumption DEF AbiExact
<1>2. v.register = r /\ v.name = <<"register", r>> /\ v.offset = NoOffset
  BY ONLY <1>1, v = RegisterValue(r, abi, FALSE) DEF RegisterValue, IRValue
<1>3. Place(s, v) = "name"
  <2>1. r \notin DOMAIN s.registerVariables \cup DOMAIN s.registerValues /\ NoOffset \notin DOMAIN s.stackValues
    BY DEF StateExact
  <2> QED BY <1>2, <2>1 DEF Place
<1>4. v.name[1] # "constant"
  BY ONLY <1>2
<1> QED BY <1>2, <1>3, <1>4 DEF ValueText

LEMMA NegationOpen ==
  ASSUME NEW r
  PROVE  Open(Negation(Text(<<"register", r>>)))
<1> DEFINE t == Text(<<"register", r>>)
<1>1. IsText(t) /\ IsText(Constant(0))
  BY NameText DEF Constant
<1>2. ASSUME NEW mu, NamesExact(mu) PROVE Evaluate(Negation(t), mu) = Unknown
  <2>1. Evaluate(t, mu) = Unknown
    BY <1>2, FixedNames, NameText
  <2> HIDE DEF t
  <2>2. Evaluate(Negation(t), mu) = Term("neg", Evaluate(t, mu), Evaluate(Constant(0), mu))
    BY <1>1, ApplyTexts DEF Negation
  <2> QED BY <2>1, <2>2, TermUnknown
<1> QED BY <1>2 DEF Open

LEMMA NegatedCompared ==
  ASSUME NEW s, NEW declared, NEW b, Sound(s, declared, b), NEW l, IsText(l), NEW r, IsText(r),
         NEW t, t = Compared(s, l, r, FALSE)
  PROVE  /\ Sound(t, declared, b)
         /\ \A mu, q, w : RegisterExact(s, mu, q, w) => RegisterExact(t, mu, q, w)
         /\ \A mu, d, w : SlotExact(s, b, mu, d, w) => SlotExact(t, b, mu, d, w)
         /\ \A mu, fl : Open(l) \/ (Is(fl[2], Evaluate(l, mu)) /\ Is(fl[3], Evaluate(r, mu))) => FlagsExact(t, mu, fl)
<1>1. \A bit \in BOOLEAN : t = Compared(s, l, r, bit) =>
        /\ Sound(t, declared, b)
        /\ \A mu, q, w : RegisterExact(s, mu, q, w) => RegisterExact(t, mu, q, w)
        /\ \A mu, d, w : SlotExact(s, b, mu, d, w) => SlotExact(t, b, mu, d, w)
        /\ \A mu, fl :
              (IF bit THEN fl[1] = "result" /\ fl[3] = Zero /\ Is(fl[2], Term("&", Evaluate(l, mu), Evaluate(r, mu)))
                      ELSE Open(l) \/ (Is(fl[2], Evaluate(l, mu)) /\ Is(fl[3], Evaluate(r, mu))))
              => FlagsExact(t, mu, fl)
  BY ComparedExact
<1> QED BY <1>1

LEMMA NegateStep ==
  ASSUME NEW s, NEW declared, NEW b, NEW i, MayRecover(s, declared, b, i), i.code = "neg"
  PROVE  Steps(s, declared, b, i)
<1> DEFINE v == TargetOf(i)
           p == ValueText(s, SourceOf(i, 1))
           text == Negation(p)
           u == Compared(s, text, Constant(0), FALSE)
           out == Recover(s, declared, b, i)
           w == Written(i)
<1>1. StateExact(s, declared) /\ Sound(s, declared, b) /\ AbiExact /\ i.code \in Writers
  BY DEF MayRecover, Sound, Writers
<1>2. Lift(i, abi).destination = v
  BY LiftMoves DEF Lifted
<1>3. HasVariable(v)
  BY <1>2 DEF MayRecover
<1>4. /\ IsDestination(v) /\ Effects(i, v, w) /\ (v.register \notin FrameRegisters => WritesValue(i))
      /\ i.operands[1] \in Operands
  BY <1>1, OperandWritten
<1>5. PICK l : /\ out = Write(u, declared, b, v, text, l)
               /\ l = {} => ValueLapses(s, b, SourceOf(i, 1)) = {}
  BY RecoverNegated
<1>6. IsText(p) /\ IsText(Constant(0))
  BY <1>1, ValueTextIsText, NameText DEF Constant
<1>7. IsText(text)
  <2>1. "neg" # "name"
    OBVIOUS
  <2> HIDE DEF p
  <2> QED BY <1>6, <2>1, ApplyTexts DEF Negation
<1>8. w = Term("neg", OperandTerm(i.operands[1]), Zero) /\ FlagsAfter(i) = <<"result", w, Zero>>
  BY DEF Written, Computed, FlagsAfter, ResultFlags, Arithmetic
<1> HIDE DEF out, v
<1>9. ASSUME NEW mu, MachineExact(s, b, mu), l = {}, PathLapses(i, out.statement) = {}, v.register \notin FrameRegisters
      PROVE  Is(w, Evaluate(text, mu))
  <2>1. OperandsRead(i) = {i.operands[1]} /\ Len(i.operands) = 1
    BY DEF OperandsRead, Arithmetic, MayRecover, DecodedInstructions, OperandCount
  <2>2. 1 \in 1 .. Len(i.operands) /\ NamesOperands(i)
    BY <2>1 DEF NamesOperands
  <2>3. Is(OperandTerm(i.operands[1]), Evaluate(p, mu))
    BY <1>4, <1>5, <1>9, <2>1, <2>2, SourceMeans
  <2>4. NamesExact(mu)
    BY <1>9 DEF MachineExact
  <2> HIDE DEF p, w
  <2> QED BY <1>6, <1>8, <2>3, <2>4, UnaryExact
<1>10. v.register \in FrameRegisters => Open(text)
  <2> SUFFICES ASSUME v.register \in FrameRegisters PROVE Open(text)
    OBVIOUS
  <2>1. PICK o \in Operands : o = i.operands[1]
    BY <1>4
  <2>2. v = OperandValue(o, abi, TRUE)
    BY <2>1 DEF v, TargetOf
  <2>3. o[1] = "register" => v = RegisterValue(o[2], abi, TRUE)
    BY <2>2 DEF OperandValue
  <2>4. RegisterValue(o[2], abi, TRUE).register = o[2]
    BY ONLY TRUE DEF RegisterValue, IRValue
  <2>5. o[1] = "register"
    <3>1. NoRegister \notin FrameRegisters
      BY RegistersAssumption
    <3>2. o[1] = "immediate" => v = ImmediateValue(o[2])
      BY <2>2 DEF OperandValue
    <3>3. o[1] = "memory" => v = MemoryValue(o[2], abi)
      BY <2>2 DEF OperandValue
    <3>4. ImmediateValue(o[2]).register = NoRegister /\ MemoryValue(o[2], abi).register = NoRegister
      BY ONLY TRUE DEF ImmediateValue, MemoryValue, IRValue
    <3>5. o[1] \in {"register", "immediate", "memory"}
      BY DEF Operands
    <3> QED BY <3>1, <3>2, <3>3, <3>4, <3>5
  <2>6. o[2] \in FrameRegisters
    BY <2>3, <2>4, <2>5
  <2>7. SourceOf(i, 1) = OperandValue(o, abi, FALSE)
    BY <2>1 DEF SourceOf
  <2>8. OperandValue(o, abi, FALSE) = RegisterValue(o[2], abi, FALSE)
    BY ONLY <2>5 DEF OperandValue
  <2>9. p = Text(<<"register", o[2]>>)
    BY <1>1, <2>6, <2>7, <2>8, FrameText
  <2> QED BY <2>9, NegationOpen
<1>11. /\ Sound(u, declared, b)
       /\ \A mu, q, x : RegisterExact(s, mu, q, x) => RegisterExact(u, mu, q, x)
       /\ \A mu, d, x : SlotExact(s, b, mu, d, x) => SlotExact(u, b, mu, d, x)
       /\ \A mu, fl : Open(text) \/ (Is(fl[2], Evaluate(text, mu)) /\ Is(fl[3], Evaluate(Constant(0), mu)))
            => FlagsExact(u, mu, fl)
  <2> HIDE DEF text
  <2> QED BY <1>1, <1>6, <1>7, NegatedCompared
<1> HIDE DEF text, u, w
<1>12. ASSUME NEW mu, MachineExact(s, b, mu), l = {}, PathLapses(i, out.statement) = {}
       PROVE  Carries(u, b, mu, i)
  <2>1. Is(Zero, Evaluate(Constant(0), mu))
    BY <1>12, ConstantText DEF MachineExact, Is, Zero
  <2>2. FlagsExact(u, mu, FlagsAfter(i))
    <3>1. CASE v.register \in FrameRegisters
      BY <1>10, <1>11, <3>1
    <3>2. CASE v.register \notin FrameRegisters
      <4>1. Is(w, Evaluate(text, mu))
        BY <1>9, <1>12, <3>2
      <4>2. FlagsAfter(i)[2] = w /\ FlagsAfter(i)[3] = Zero
        BY <1>8
      <4> QED BY <1>11, <2>1, <4>1, <4>2
    <3> QED BY <3>1, <3>2
  <2> QED BY <1>11, <1>12, <2>2 DEF MachineExact, Carries
<1>13. Recovered(declared, b, out) /\ \A mu : StepExact(s, b, mu, i, out)
  BY <1>3, <1>4, <1>5, <1>7, <1>9, <1>11, <1>12, WriteStep
<1> QED BY <1>13 DEF Steps, out

\* cmp and test.
LEMMA CompareStep ==
  ASSUME NEW s, NEW declared, NEW b, NEW i, MayRecover(s, declared, b, i), i.code \in {"cmp", "test"}
  PROVE  Steps(s, declared, b, i)
<1> DEFINE p == ValueText(s, SourceOf(i, 1))
           q == ValueText(s, SourceOf(i, 2))
           t == Compared(s, p, q, i.code = "test")
           out == Recover(s, declared, b, i)
<1>1. StateExact(s, declared) /\ Sound(s, declared, b)
  BY DEF MayRecover, Sound
<1>2. PICK l : /\ out = Outcome(t, declared, NoStatement, l)
               /\ l = {} => ValueLapses(s, b, SourceOf(i, 1)) = {} /\ ValueLapses(s, b, SourceOf(i, 2)) = {}
  BY RecoverComparison
<1>3. IsText(p) /\ IsText(q)
  BY <1>1, ValueTextIsText
<1> HIDE DEF out
<1>4. out.state = t /\ out.variables = declared /\ out.statement = NoStatement /\ out.lapses = l
  <2> HIDE DEF t
  <2> QED BY <1>2 DEF Outcome
<1>5. \A bit \in BOOLEAN : t = Compared(s, p, q, bit) =>
        /\ Sound(t, declared, b)
        /\ \A mu, r, w : RegisterExact(s, mu, r, w) => RegisterExact(t, mu, r, w)
        /\ \A mu, d, w : SlotExact(s, b, mu, d, w) => SlotExact(t, b, mu, d, w)
        /\ \A mu, fl :
              (IF bit THEN fl[1] = "result" /\ fl[3] = Zero /\ Is(fl[2], Term("&", Evaluate(p, mu), Evaluate(q, mu)))
                      ELSE Open(p) \/ (Is(fl[2], Evaluate(p, mu)) /\ Is(fl[3], Evaluate(q, mu))))
              => FlagsExact(t, mu, fl)
  <2> HIDE DEF t, p, q
  <2> SUFFICES ASSUME NEW bit \in BOOLEAN, t = Compared(s, p, q, bit)
               PROVE  /\ Sound(t, declared, b)
                      /\ \A mu, r, w : RegisterExact(s, mu, r, w) => RegisterExact(t, mu, r, w)
                      /\ \A mu, d, w : SlotExact(s, b, mu, d, w) => SlotExact(t, b, mu, d, w)
                      /\ \A mu, fl :
                            (IF bit THEN fl[1] = "result" /\ fl[3] = Zero /\ Is(fl[2], Term("&", Evaluate(p, mu), Evaluate(q, mu)))
                                    ELSE Open(p) \/ (Is(fl[2], Evaluate(p, mu)) /\ Is(fl[3], Evaluate(q, mu))))
                            => FlagsExact(t, mu, fl)
    OBVIOUS
  <2> QED BY <1>1, <1>3, ComparedExact
<1>6. t = Compared(s, p, q, i.code = "test") /\ (i.code = "test") \in BOOLEAN
  OBVIOUS
<1> HIDE DEF t
<1>7. /\ Sound(t, declared, b)
      /\ \A mu, r, w : RegisterExact(s, mu, r, w) => RegisterExact(t, mu, r, w)
      /\ \A mu, d, w : SlotExact(s, b, mu, d, w) => SlotExact(t, b, mu, d, w)
      /\ \A mu, fl :
            (IF i.code = "test" THEN fl[1] = "result" /\ fl[3] = Zero /\ Is(fl[2], Term("&", Evaluate(p, mu), Evaluate(q, mu)))
                    ELSE Open(p) \/ (Is(fl[2], Evaluate(p, mu)) /\ Is(fl[3], Evaluate(q, mu))))
            => FlagsExact(t, mu, fl)
  <2> HIDE DEF p, q
  <2> QED BY <1>5, <1>6
<1>8. Recovered(declared, b, out)
  BY <1>4, <1>7 DEF Recovered, MayDeclare, Assigns, NoStatement, Statement
<1>9. FlagsWritten(t, i) = t
  BY DEF FlagsWritten, Arithmetic
<1>10. FlagsAfter(i) = IF i.code = "test"
                       THEN <<"result", Term("&", OperandTerm(i.operands[1]), OperandTerm(i.operands[2])), Zero>>
                       ELSE <<"difference", OperandTerm(i.operands[1]), OperandTerm(i.operands[2])>>
  BY DEF FlagsAfter, ResultFlags, Difference
<1>11. ASSUME NEW mu, MachineExact(s, b, mu), out.lapses = {}, PathLapses(i, out.statement) = {}
       PROVE  /\ \E nu : /\ AllAlike(nu, ValuesAfter(out.statement))
                         /\ NextExact(FlagsWritten(out.state, i), b, nu, i)
              /\ \A pair \in Shown(i, out.statement) : Agree(pair)
  <2>1. OperandsRead(i) = {i.operands[1], i.operands[2]} /\ Len(i.operands) = 2
    BY DEF OperandsRead, Arithmetic, MayRecover, DecodedInstructions, OperandCount
  <2>2. 1 \in 1 .. Len(i.operands) /\ 2 \in 1 .. Len(i.operands) /\ NamesOperands(i)
    BY <2>1 DEF NamesOperands
  <2>3. OperandsWritten(i) = {}
    BY DEF OperandsWritten, Arithmetic
  <2>4. WritesValue(i)
    BY <2>3 DEF WritesValue
  <2>5. Is(OperandTerm(i.operands[1]), Evaluate(p, mu)) /\ Is(OperandTerm(i.operands[2]), Evaluate(q, mu))
    BY <1>2, <1>4, <1>11, <2>1, <2>2, <2>4, SourceMeans
  <2> HIDE DEF p, q
  <2>6. FlagsExact(t, mu, FlagsAfter(i))
    <3>1. CASE i.code = "test"
      <4>1. Is(Term("&", OperandTerm(i.operands[1]), OperandTerm(i.operands[2])), Term("&", Evaluate(p, mu), Evaluate(q, mu)))
        BY <2>5, TermIs
      <4>2. /\ FlagsAfter(i)[1] = "result" /\ FlagsAfter(i)[3] = Zero
            /\ FlagsAfter(i)[2] = Term("&", OperandTerm(i.operands[1]), OperandTerm(i.operands[2]))
        BY <1>10, <3>1
      <4> QED BY <1>7, <3>1, <4>1, <4>2
    <3>2. CASE i.code # "test"
      <4>1. FlagsAfter(i)[2] = OperandTerm(i.operands[1]) /\ FlagsAfter(i)[3] = OperandTerm(i.operands[2])
        BY <1>10, <3>2
      <4> QED BY <1>7, <2>5, <3>2, <4>1
    <3> QED BY <3>1, <3>2
  <2>7. /\ \A r \in Registers \ HiddenAfter(i) : r \notin hidden /\ RegistersAfter(i)[r] = register[r]
        /\ \A d \in Offsets : SlotsAfter(i)[d] = slot[d]
        /\ StackAfter(i) \in {stack, <<>>} /\ DepthAfter(i) = depth
    <3>1. WritesNothing(i) /\ i.code # "unknown"
      BY <2>3 DEF WritesNothing
    <3> QED BY <3>1, NoEffects
  <2>8. NextExact(t, b, mu, i)
    <3>1. StackExact(mu, stack, depth) /\ StackExact(mu, <<>>, depth)
      BY <1>11, StackGrows DEF MachineExact
    <3> QED BY <1>7, <1>11, <2>6, <2>7, <3>1 DEF MachineExact, NextExact
  <2>9. ValuesAfter(out.statement) = values /\ out.statement.kind = "none"
    BY <1>4 DEF ValuesAfter, NoStatement, Statement
  <2>10. AllAlike(mu, ValuesAfter(out.statement))
    BY <1>11, <2>9 DEF MachineExact
  <2>11. \A pair \in Shown(i, out.statement) : Agree(pair)
    BY <2>8, <2>9, <2>10, ShownSlots
  <2> QED BY <1>4, <1>9, <2>8, <2>10, <2>11
<1>12. \A mu : StepExact(s, b, mu, i, out)
  BY <1>11 DEF StepExact
<1> QED BY <1>8, <1>12 DEF Steps, out

\* set and cmov.
LEMMA ChoicesMean ==
  ASSUME NEW s, NEW declared, NEW b, NEW i, MayRecover(s, declared, b, i), i.code \in {"set", "cmov"},
         NEW mu, MachineExact(s, b, mu), NEW statement, PathLapses(i, statement) = {}, WritesValue(i),
         NEW p, NEW q, <<p, q>> = IF i.code = "set" THEN <<ImmediateValue(1), ImmediateValue(0)>>
                                  ELSE <<SourceOf(i, 2), SourceOf(i, 1)>>,
         ValueLapses(s, b, p) = {}, ValueLapses(s, b, q) = {}, ConditionLapses(s, i.condition) = {}
  PROVE  Alike(Written(i), Select(Denotes(ConditionText(s, i.condition)), Denotes(ValueText(s, p)), Denotes(ValueText(s, q))))
<1>1. StateExact(s, declared) /\ NamesExact(mu) /\ NamesExact(values) /\ AllAlike(mu, values) /\ FlagsExact(s, mu, flags)
  BY DEF MayRecover, Sound, MachineExact
<1>2. Alike(ConditionHolds(i.condition), Denotes(ConditionText(s, i.condition)))
  BY <1>1, ConditionExact
<1>3. IsText(ValueText(s, p)) /\ IsText(ValueText(s, q))
  BY <1>1, ValueTextIsText
<1>4. CASE i.code = "set"
  <2>1. p = ImmediateValue(1) /\ q = ImmediateValue(0)
    BY <1>4
  <2>2. \A c : LET o == <<"immediate", c>> IN OperandMeans(s, b, mu, o)
    BY <1>1, ImmediateOperand
  <2>3. \A c : OperandValue(<<"immediate", c>>, abi, FALSE) = ImmediateValue(c) /\ OperandTerm(<<"immediate", c>>) = <<"constant", c>>
    BY DEF OperandValue, OperandTerm
  <2>4. \A c : ValueLapses(s, b, ImmediateValue(c)) = {} => Is(<<"constant", c>>, Evaluate(ValueText(s, ImmediateValue(c)), mu))
    BY <2>2, <2>3 DEF OperandMeans
  <2>5. Is(<<"constant", 1>>, Evaluate(ValueText(s, p), mu)) /\ Is(Zero, Evaluate(ValueText(s, q), mu))
    BY <2>1, <2>4 DEF Zero
  <2>6. Alike(<<"constant", 1>>, Denotes(ValueText(s, p))) /\ Alike(Zero, Denotes(ValueText(s, q)))
    BY <1>1, <1>3, <2>5, IsAlike DEF Denotes
  <2>7. Written(i) = Select(ConditionHolds(i.condition), <<"constant", 1>>, Zero)
    BY <1>4 DEF Written
  <2> QED BY <1>2, <2>6, <2>7, SelectAlike
<1>5. CASE i.code = "cmov"
  <2>1. p = SourceOf(i, 2) /\ q = SourceOf(i, 1)
    BY <1>5
  <2>2. OperandsRead(i) = {i.operands[1], i.operands[2]} /\ Len(i.operands) = 2
    BY <1>5 DEF OperandsRead, Arithmetic, MayRecover, DecodedInstructions, OperandCount
  <2>3. 1 \in 1 .. Len(i.operands) /\ 2 \in 1 .. Len(i.operands) /\ NamesOperands(i)
    BY <1>5, <2>2 DEF NamesOperands
  <2>4. Is(OperandTerm(i.operands[2]), Evaluate(ValueText(s, p), mu)) /\ Is(OperandTerm(i.operands[1]), Evaluate(ValueText(s, q), mu))
    BY <2>1, <2>2, <2>3, SourceMeans
  <2>5. Alike(OperandTerm(i.operands[2]), Denotes(ValueText(s, p))) /\ Alike(OperandTerm(i.operands[1]), Denotes(ValueText(s, q)))
    BY <1>1, <1>3, <2>4, IsAlike DEF Denotes
  <2>6. Written(i) = Select(ConditionHolds(i.condition), OperandTerm(i.operands[2]), OperandTerm(i.operands[1]))
    BY <1>5 DEF Written
  <2> QED BY <1>2, <2>5, <2>6, SelectAlike
<1> QED BY <1>4, <1>5

LEMMA ConditionalStep ==
  ASSUME NEW s, NEW declared, NEW b, NEW i, MayRecover(s, declared, b, i), i.code \in {"set", "cmov"}
  PROVE  Steps(s, declared, b, i)
<1> DEFINE v == TargetOf(i)
           condition == ConditionText(s, i.condition)
           out == Recover(s, declared, b, i)
           w == Written(i)
<1>1. StateExact(s, declared) /\ Sound(s, declared, b) /\ AbiExact /\ b \in Nat \ {0} /\ i.code \in Writers
        /\ i.code \notin {"frame", "lea"}
  BY DEF MayRecover, Sound, Writers
<1>2. PICK p, q : /\ <<p, q>> = IF i.code = "set" THEN <<ImmediateValue(1), ImmediateValue(0)>>
                                ELSE <<SourceOf(i, 2), SourceOf(i, 1)>>
                  /\ Lift(i, abi) = Lifted("ConditionalSelect", v, <<p, q>>)
  <2>1. CASE i.code = "set"
    BY <2>1, LiftOthers
  <2>2. CASE i.code = "cmov"
    BY <2>2, LiftOthers
  <2> QED BY <2>1, <2>2
<1> DEFINE choices == <<ValueText(s, p), ValueText(s, q)>>
<1>3. HasVariable(v)
  <2>1. Lift(i, abi).destination = v
    BY <1>2 DEF Lifted
  <2> QED BY <2>1 DEF MayRecover
<1>4. IsDestination(v) /\ Effects(i, v, w) /\ (v.register \notin FrameRegisters => WritesValue(i))
  BY <1>1, OperandWritten
<1>5. PICK l : /\ out = WriteConditional(s, declared, b, v, condition, choices, l)
               /\ l = {} => /\ ValueLapses(s, b, p) = {} /\ ValueLapses(s, b, q) = {}
                            /\ ConditionLapses(s, i.condition) = {}
  <2>1. i.code \notin {"frame", "lea"} /\ Lift(i, abi) = Lifted("ConditionalSelect", v, <<p, q>>)
    BY <1>1, <1>2
  <2> HIDE DEF v
  <2> QED BY ONLY <2>1, RecoverSelect
<1>6. FlagsAfter(i) = flags
  BY DEF FlagsAfter
<1>7. ASSUME NEW mu, MachineExact(s, b, mu), l = {}, PathLapses(i, out.statement) = {}, v.register \notin FrameRegisters
      PROVE  Alike(w, Select(Denotes(condition), Denotes(choices[1]), Denotes(choices[2])))
  <2>1. Alike(w, Select(Denotes(condition), Denotes(ValueText(s, p)), Denotes(ValueText(s, q))))
    BY <1>2, <1>4, <1>5, <1>7, ChoicesMean
  <2>2. choices[1] = ValueText(s, p) /\ choices[2] = ValueText(s, q)
    OBVIOUS
  <2> HIDE DEF choices, condition, w
  <2> QED BY <2>1, <2>2
<1> HIDE DEF out, v, choices, condition, w
<1>8. /\ Sound(out.state, out.variables, b) /\ MayDeclare(declared, out.variables) /\ out.lapses = l
      /\ out.statement.kind \in {"none", "conditional"}
      /\ \A mu, x :
           /\ NamesExact(mu) /\ AllAlike(mu, values)
           /\ Alike(x, Select(Denotes(condition), Denotes(choices[1]), Denotes(choices[2])))
           => Writes(s, declared, b, v, out, x, mu)
  BY <1>1, <1>3, <1>4, <1>5, ConditionalExact
<1>9. Recovered(declared, b, out)
  BY <1>1, <1>4, <1>5, <1>8, ConditionalAssigns DEF Recovered
<1>10. ASSUME NEW mu, MachineExact(s, b, mu), out.lapses = {}, PathLapses(i, out.statement) = {}
       PROVE  /\ \E nu : /\ AllAlike(nu, ValuesAfter(out.statement))
                         /\ NextExact(FlagsWritten(out.state, i), b, nu, i)
              /\ \A pair \in Shown(i, out.statement) : Agree(pair)
  <2>1. Writes(s, declared, b, v, out, w, mu)
    <3>1. NamesExact(mu) /\ AllAlike(mu, values)
      BY <1>10 DEF MachineExact
    <3>2. CASE v.register \in FrameRegisters
      <4>1. v.name = <<"register", v.register>>
        BY <1>4, <3>2, RegistersAssumption DEF IsDestination
      <4> QED BY <1>1, <1>5, <3>1, <3>2, <4>1, FrameWrites
    <3>3. CASE v.register \notin FrameRegisters
      BY <1>7, <1>8, <1>10, <3>1, <3>3
    <3> QED BY <3>2, <3>3
  <2>2. /\ \A r \in Registers \ hidden : RegisterExact(s, mu, r, register[r])
        /\ \A d \in Offsets : SlotExact(s, b, mu, d, slot[d])
        /\ FlagsExact(s, mu, FlagsAfter(i)) /\ StackExact(mu, stack, depth)
    BY <1>6, <1>10 DEF MachineExact
  <2>3. PICK nu : AllAlike(nu, ValuesAfter(out.statement)) /\ NextExact(FlagsWritten(out.state, i), b, nu, i)
    BY <1>1, <1>4, <1>8, <2>1, <2>2, NextWritten
  <2>4. \A pair \in Shown(i, out.statement) : Agree(pair)
    BY <1>8, <2>3, ShownSlots
  <2> QED BY <2>3, <2>4
<1>11. \A mu : StepExact(s, b, mu, i, out)
  BY <1>10 DEF StepExact
<1> QED BY <1>9, <1>11 DEF Steps, out

\* What a call is offered is the text of a register.
LEMMA ArgumentText ==
  ASSUME NEW s, NEW r, Argument(s, r) # NoText, NEW v, v = IRValue("Register", <<"register", r>>, r, NoOffset)
  PROVE  r \in s.availableRegisters /\ Argument(s, r) = ValueText(s, v)
<1>1. v.register = r /\ v.offset = NoOffset /\ v.kind = "Register"
  BY ONLY v = IRValue("Register", <<"register", r>>, r, NoOffset) DEF IRValue
<1>2. r \in s.availableRegisters /\ (r \in DOMAIN s.registerVariables \/ r \in DOMAIN s.registerValues \ DOMAIN s.registerVariables)
  BY DEF Argument
<1>3. CASE r \in DOMAIN s.registerVariables
  <2>1. Argument(s, r) = Text(s.registerVariables[r])
    BY <1>2, <1>3 DEF Argument
  <2>2. Place(s, v) = "variable"
    BY <1>1, <1>3 DEF Place
  <2> QED BY <1>1, <1>2, <2>1, <2>2 DEF ValueText
<1>4. CASE r \in DOMAIN s.registerValues \ DOMAIN s.registerVariables
  <2>1. Argument(s, r) = s.registerValues[r]
    BY <1>2, <1>4 DEF Argument
  <2>2. Place(s, v) = "expression"
    BY <1>1, <1>4 DEF Place
  <2> QED BY <1>1, <1>2, <2>1, <2>2 DEF ValueText
<1> QED BY <1>2, <1>3, <1>4

LEMMA ArgumentsAgree ==
  ASSUME NEW s, NEW declared, NEW b, StateExact(s, declared), NEW mu, MachineExact(s, b, mu),
         ArgumentLapses(s, b) = {}, NEW statement, statement.arguments = Arguments(s),
         Offered(statement) \cap hidden = {}
  PROVE  \A pair \in ArgumentPairs(statement) : Agree(pair)
<1>1. NamesExact(mu) /\ AllAlike(mu, values)
  BY DEF MachineExact
<1>2. ParameterRegisters \in Seq(Registers)
  BY RegistersAssumption
<1>3. DOMAIN statement.arguments = DOMAIN ParameterRegisters
        /\ \A k \in DOMAIN ParameterRegisters : statement.arguments[k] = Argument(s, ParameterRegisters[k])
  BY DEF Arguments
<1>4. ASSUME NEW k \in DOMAIN ParameterRegisters, statement.arguments[k] # NoText
      PROVE  Agree(<<register[ParameterRegisters[k]], Denotes(statement.arguments[k])>>)
  <2>1. PICK r \in Registers : r = ParameterRegisters[k]
    BY <1>2
  <2>2. PICK v : v = IRValue("Register", <<"register", r>>, r, NoOffset)
    OBVIOUS
  <2>3. Argument(s, r) # NoText
    BY <1>3, <1>4, <2>1
  <2>4. r \in s.availableRegisters /\ Argument(s, r) = ValueText(s, v)
    BY <2>2, <2>3, ArgumentText
  <2>5. r \in ToSet(ParameterRegisters)
    BY <2>1 DEF ToSet
  <2>6. ValueLapses(s, b, v) = {}
    BY <2>2, <2>4, <2>5 DEF ArgumentLapses
  <2>7. v.register = r /\ v.offset = NoOffset
    BY ONLY <2>2 DEF IRValue
  <2>8. ~ Shadowed(s, v.register) /\ (Place(s, v) = "expression" => <<"register", v.register>> \notin s.stale)
    BY <2>6, NoValueLapses
  <2>9. r \notin hidden
    BY <1>3, <1>4, <2>1 DEF Offered
  <2>10. RegisterExact(s, mu, v.register, register[r])
    BY <2>7, <2>9 DEF MachineExact
  <2>11. IsText(ValueText(s, v)) /\ Is(register[r], Evaluate(ValueText(s, v), mu))
    BY <2>7, <2>8, <2>10, RegisterOperand
  <2>12. Alike(register[r], Denotes(ValueText(s, v)))
    BY <1>1, <2>11, IsAlike DEF Denotes
  <2>13. statement.arguments[k] = ValueText(s, v)
    BY <1>3, <2>1, <2>4
  <2> QED BY <2>1, <2>12, <2>13, AgreeAlike
<1> QED BY <1>3, <1>4 DEF ArgumentPairs

LEMMA RecoverCall ==
  ASSUME NEW s, NEW declared, NEW b, NEW i, i.code = "call"
  PROVE  Recover(s, declared, b, i) = Call(s, declared, b, Arguments(s))
<1> DEFINE ir == Lift(i, abi)
<1>1. ir.opcode = "Call"
  BY LiftOthers DEF Lifted
<1> HIDE DEF ir
<1>2. ir = Lift(i, abi)
  BY DEF ir
<1>3. "Call" \notin BinaryOperators
  BY DEF BinaryOperators
<1> QED BY <1>1, <1>2, <1>3 DEF Recover

LEMMA CallStep ==
  ASSUME NEW s, NEW declared, NEW b, NEW i, MayRecover(s, declared, b, i), i.code = "call"
  PROVE  Steps(s, declared, b, i)
<1> DEFINE given == Arguments(s)
           out == Recover(s, declared, b, i)
<1>1. StateExact(s, declared) /\ Sound(s, declared, b) /\ AbiExact
  BY DEF MayRecover, Sound
<1>2. HasVariable(ReturnRegisterValue)
  <2>1. Lift(i, abi).destination = ReturnRegisterValue
    BY LiftOthers DEF Lifted
  <2> QED BY <2>1 DEF MayRecover
<1>3. out = Call(s, declared, b, given)
  BY RecoverCall
<1>4. Assigns(out.statement)
  BY <1>1, <1>3, CallAssigns
<1> HIDE DEF given, out
<1>5. /\ Sound(out.state, out.variables, b) /\ MayDeclare(declared, out.variables)
      /\ out.lapses = ArgumentLapses(s, b)
      /\ out.statement.kind = "call" /\ out.statement.arguments = given
      /\ \A mu : NamesExact(mu) /\ AllAlike(mu, values) =>
           \E nu : AllAlike(nu, ValuesAfter(out.statement)) /\ CalledExact(s, mu, out.state, nu, b)
  BY ONLY <1>1, <1>2, <1>3, CallExact
<1>6. OperandsWritten(i) = {} /\ ImplicitlyWritten(i) = {}
  BY DEF OperandsWritten, ImplicitlyWritten, Arithmetic
<1>7. HiddenAfter(i) = hidden \ CallClobbered /\ StackAfter(i) \in {stack, <<>>} /\ DepthAfter(i) = depth
  BY <1>6 DEF HiddenAfter, StackAfter, DepthAfter
<1>8. \A r \in Registers : RegistersAfter(i)[r] = IF r = "rax" THEN Returned
                                                  ELSE IF r \in CallClobbered THEN Unknown ELSE register[r]
  BY <1>6, RegistersAssumption DEF RegistersAfter
<1>9. \A d \in Offsets : SlotsAfter(i)[d] = slot[d]
  BY <1>6, NoOperandWritten
<1>10. i.code \in FlagsLost
  BY DEF FlagsLost
<1>11. ASSUME NEW mu, MachineExact(s, b, mu), out.lapses = {}, PathLapses(i, out.statement) = {}
       PROVE  /\ \E nu : /\ AllAlike(nu, ValuesAfter(out.statement))
                         /\ NextExact(FlagsWritten(out.state, i), b, nu, i)
              /\ \A pair \in Shown(i, out.statement) : Agree(pair)
  <2>1. PICK nu : AllAlike(nu, ValuesAfter(out.statement)) /\ CalledExact(s, mu, out.state, nu, b)
    BY <1>5, <1>11 DEF MachineExact
  <2> DEFINE u == out.state
             t == FlagsWritten(u, i)
  <2>2. /\ \A q, x : RegisterExact(u, nu, q, x) => RegisterExact(t, nu, q, x)
        /\ \A d, x : SlotExact(u, b, nu, d, x) => SlotExact(t, b, nu, d, x)
        /\ FlagsExact(t, nu, FlagsAfter(i))
    BY <1>5, <1>10, FlagsWrittenExact
  <2> HIDE DEF t, u
  <2>3. ASSUME NEW r \in Registers \ HiddenAfter(i) PROVE RegisterExact(t, nu, r, RegistersAfter(i)[r])
    <3>1. CASE r = "rax"
      <4>1. RegisterExact(u, nu, "rax", Returned)
        BY <2>1 DEF CalledExact, u
      <4> QED BY <1>8, <2>2, <3>1, <4>1
    <3>2. CASE r # "rax" /\ r \in CallClobbered
      <4>1. RegistersAfter(i)[r] = Unknown
        BY <1>8, <3>2
      <4> QED BY <4>1 DEF RegisterExact, Is
    <3>3. CASE r # "rax" /\ r \notin CallClobbered
      <4>1. r \notin hidden /\ RegistersAfter(i)[r] = register[r]
        BY <1>7, <1>8, <2>3, <3>3
      <4>2. RegisterExact(s, mu, r, register[r])
        BY <1>11, <4>1 DEF MachineExact
      <4>3. RegisterExact(u, nu, r, register[r])
        BY <2>1, <3>3, <4>2 DEF CalledExact, u
      <4> QED BY <2>2, <4>1, <4>3
    <3> QED BY <3>1, <3>2, <3>3
  <2>4. ASSUME NEW d \in Offsets PROVE SlotExact(t, b, nu, d, SlotsAfter(i)[d])
    <3>1. SlotExact(s, b, mu, d, slot[d])
      BY <1>11 DEF MachineExact
    <3>2. SlotExact(u, b, nu, d, slot[d])
      BY <2>1, <3>1 DEF CalledExact, u
    <3> QED BY <1>9, <2>2, <3>2
  <2>5. StackExact(nu, stack, depth) /\ StackExact(nu, <<>>, depth)
    <3>1. StackExact(mu, stack, depth)
      BY <1>11 DEF MachineExact
    <3> QED BY <2>1, <3>1, StackGrows DEF CalledExact
  <2>6. NextExact(t, b, nu, i)
    BY <1>7, <2>1, <2>2, <2>3, <2>4, <2>5 DEF NextExact, CalledExact
  <2>7. \A pair \in ArgumentPairs(out.statement) : Agree(pair)
    <3>1. Offered(out.statement) \cap hidden = {}
      BY <1>11, NoPathLapses
    <3> QED BY <1>1, <1>5, <1>11, <3>1, ArgumentsAgree DEF given
  <2>8. \A pair \in Shown(i, out.statement) : Agree(pair)
    <3>1. PICK statement : statement = out.statement
      OBVIOUS
    <3>2. AllAlike(nu, ValuesAfter(statement)) /\ NextExact(t, b, nu, i)
      BY <2>1, <2>6, <3>1
    <3> DEFINE slots == {<<SlotsAfter(i)[d], ValueOf(SlotName(d), ValuesAfter(statement))>> : d \in Offsets}
    <3>3. \A pair \in slots : Agree(pair)
      <4>1. \A d \in Offsets : Agree(<<SlotsAfter(i)[d], ValueOf(SlotName(d), ValuesAfter(statement))>>)
        BY ONLY <3>2, ShownSlots
      <4> QED BY <4>1
    <3>4. Shown(i, statement) = slots \cup ArgumentPairs(statement)
      BY <1>5, <3>1 DEF Shown
    <3> HIDE DEF slots
    <3> QED BY <2>7, <3>1, <3>3, <3>4
  <2> QED BY <2>1, <2>6, <2>8 DEF t, u
<1>12. \A mu : StepExact(s, b, mu, i, out)
  BY <1>11 DEF StepExact
<1>13. Recovered(declared, b, out)
  BY <1>4, <1>5 DEF Recovered
<1> QED BY <1>12, <1>13 DEF Steps, out

\* A statement that assigns nothing leaves the recovery as it was.
LEMMA QuietStep ==
  ASSUME NEW s, NEW declared, NEW b, NEW i, MayRecover(s, declared, b, i),
         WritesNothing(i), FlagsAfter(i) = flags \/ i.code \in FlagsLost,
         NEW statement, statement.kind \notin {"assignment", "conditional", "call"}, NEW l,
         Recover(s, declared, b, i) = Outcome(s, declared, statement, l),
         \A mu : MachineExact(s, b, mu) /\ l = {} /\ PathLapses(i, statement) = {} =>
           /\ statement.kind = "return" /\ abi.returnsValue => Agree(<<register["rax"], Denotes(statement.expression)>>)
           /\ statement.kind = "branch" => Agree(<<ConditionHolds(i.condition), Denotes(statement.expression)>>)
  PROVE  Steps(s, declared, b, i)
<1> DEFINE out == Recover(s, declared, b, i)
<1>1. Sound(s, declared, b)
  BY DEF MayRecover
<1>2. out.state = s /\ out.variables = declared /\ out.statement = statement /\ out.lapses = l
  BY DEF Outcome
<1> HIDE DEF out
<1>3. Recovered(declared, b, out)
  BY <1>1, <1>2 DEF Recovered, MayDeclare, Assigns
<1>4. ASSUME NEW mu, MachineExact(s, b, mu), l = {}, PathLapses(i, statement) = {}
      PROVE  /\ \E nu : /\ AllAlike(nu, ValuesAfter(statement))
                        /\ NextExact(FlagsWritten(s, i), b, nu, i)
             /\ \A pair \in Shown(i, statement) : Agree(pair)
  <2>1. ValuesAfter(statement) = values
    BY DEF ValuesAfter
  <2> DEFINE t == FlagsWritten(s, i)
  <2>2. /\ \A q, x : RegisterExact(s, mu, q, x) => RegisterExact(t, mu, q, x)
        /\ \A d, x : SlotExact(s, b, mu, d, x) => SlotExact(t, b, mu, d, x)
        /\ \A fl : i.code \in FlagsLost \/ FlagsExact(s, mu, fl) => FlagsExact(t, mu, fl)
    BY <1>1, FlagsWrittenExact
  <2> HIDE DEF t
  <2>3. /\ \A r \in Registers \ HiddenAfter(i) : r \notin hidden /\ RegistersAfter(i)[r] = register[r]
        /\ \A d \in Offsets : SlotsAfter(i)[d] = slot[d]
        /\ StackAfter(i) \in {stack, <<>>} /\ DepthAfter(i) = depth
    BY <1>4, NoPathLapses, NoEffects
  <2>4. NextExact(t, b, mu, i)
    <3>1. StackExact(mu, stack, depth) /\ StackExact(mu, <<>>, depth)
      BY <1>4, StackGrows DEF MachineExact
    <3> QED BY <1>4, <2>2, <2>3, <3>1 DEF NextExact, MachineExact
  <2>5. AllAlike(mu, ValuesAfter(statement))
    BY <1>4, <2>1 DEF MachineExact
  <2>6. ASSUME NEW pair \in Shown(i, statement) PROVE Agree(pair)
    <3>1. \A d \in Offsets : Agree(<<SlotsAfter(i)[d], ValueOf(SlotName(d), ValuesAfter(statement))>>)
      BY ONLY <2>4, <2>5, ShownSlots
    <3>2. \/ \E d \in Offsets : pair = <<SlotsAfter(i)[d], ValueOf(SlotName(d), ValuesAfter(statement))>>
          \/ statement.kind = "return" /\ abi.returnsValue /\ pair = <<register["rax"], Denotes(statement.expression)>>
          \/ statement.kind = "branch" /\ pair = <<ConditionHolds(i.condition), Denotes(statement.expression)>>
      BY <2>6 DEF Shown
    <3> QED BY <1>4, <3>1, <3>2
  <2> QED BY <2>4, <2>5, <2>6 DEF t
<1>5. \A mu : StepExact(s, b, mu, i, out)
  BY <1>2, <1>4 DEF StepExact
<1> QED BY <1>3, <1>5 DEF Steps, out

LEMMA ReturnStep ==
  ASSUME NEW s, NEW declared, NEW b, NEW i, MayRecover(s, declared, b, i), i.code = "ret"
  PROVE  Steps(s, declared, b, i)
<1> DEFINE ir == Lift(i, abi)
           l == UNION {ValueLapses(s, b, ir.operands[k]) : k \in DOMAIN ir.operands}
           text == IF abi.returnsValue THEN ValueText(s, ir.operands[1]) ELSE NoText
           statement == Statement("return", <<"constant", 0>>, text, <<>>)
<1>1. ir.opcode = "Return" /\ ir.operands = IF abi.returnsValue THEN <<ReturnRegisterValue>> ELSE <<>>
  BY LiftOthers DEF Lifted
<1>2. Recover(s, declared, b, i) = Outcome(s, declared, statement, l)
  <2> HIDE DEF ir
  <2>1. ir = Lift(i, abi)
    BY DEF ir
  <2>2. "Return" \notin BinaryOperators
    BY DEF BinaryOperators
  <2> QED BY <1>1, <2>1, <2>2 DEF Recover
<1>3. abi.returnsValue => ir.operands[1] = ReturnRegisterValue /\ 1 \in DOMAIN ir.operands
  BY <1>1
<1>4. abi.returnsValue /\ l = {} => ValueLapses(s, b, ReturnRegisterValue) = {}
  BY <1>3
<1>5. abi.returnsValue => text = ValueText(s, ReturnRegisterValue)
  BY <1>3
<1>6. statement.kind = "return" /\ statement.expression = text
  BY DEF Statement
<1> HIDE DEF l, text, statement
<1>7. WritesNothing(i) /\ FlagsAfter(i) = flags
  BY DEF WritesNothing, OperandsWritten, FlagsAfter, Arithmetic
<1>8. ASSUME NEW mu, MachineExact(s, b, mu), l = {}, PathLapses(i, statement) = {}, abi.returnsValue
      PROVE  Agree(<<register["rax"], Denotes(text)>>)
  <2>1. StateExact(s, declared) /\ AllAlike(mu, values)
    BY <1>8 DEF MayRecover, Sound, MachineExact
  <2>2. Is(register["rax"], Evaluate(text, mu))
    BY <1>4, <1>5, <1>8, <2>1, NoPathLapses, RaxMeans
  <2>3. IsText(text)
    BY <1>5, <1>8, <2>1, ValueTextIsText
  <2>4. Alike(register["rax"], Denotes(text))
    BY <2>1, <2>2, <2>3, IsAlike DEF Denotes
  <2> QED BY <2>4, AgreeAlike
<1> QED BY <1>2, <1>6, <1>7, <1>8, QuietStep

LEMMA BranchStep ==
  ASSUME NEW s, NEW declared, NEW b, NEW i, MayRecover(s, declared, b, i), i.code = "jcc"
  PROVE  Steps(s, declared, b, i)
<1> DEFINE ir == Lift(i, abi)
           l == ConditionLapses(s, i.condition)
           text == ConditionText(s, i.condition)
           statement == Statement("branch", <<"constant", 0>>, text, <<>>)
<1>1. ir.opcode = "ConditionalJump"
  BY LiftOthers DEF Lifted
<1>2. Recover(s, declared, b, i) = Outcome(s, declared, statement, l)
  <2> HIDE DEF ir
  <2>1. ir = Lift(i, abi)
    BY DEF ir
  <2>2. "ConditionalJump" \notin BinaryOperators
    BY DEF BinaryOperators
  <2> QED BY <1>1, <2>1, <2>2 DEF Recover
<1>3. statement.kind = "branch" /\ statement.expression = text
  BY DEF Statement
<1>4. WritesNothing(i) /\ FlagsAfter(i) = flags
  BY DEF WritesNothing, OperandsWritten, FlagsAfter, Arithmetic
<1>5. ASSUME NEW mu, MachineExact(s, b, mu), l = {}
      PROVE  Agree(<<ConditionHolds(i.condition), Denotes(text)>>)
  <2>1. /\ StateExact(s, declared) /\ NamesExact(mu) /\ NamesExact(values) /\ AllAlike(mu, values)
        /\ FlagsExact(s, mu, flags)
    BY <1>5 DEF MayRecover, Sound, MachineExact
  <2>2. Alike(ConditionHolds(i.condition), Denotes(text))
    BY <1>5, <2>1, ConditionExact
  <2> QED BY <2>2, AgreeAlike
<1> HIDE DEF l, text, statement
<1> QED BY <1>2, <1>3, <1>4, <1>5, QuietStep

\* Jumps, nop, and what is not lifted.
LEMMA OtherStep ==
  ASSUME NEW s, NEW declared, NEW b, NEW i, MayRecover(s, declared, b, i),
         i.code \in {"jmp", "nop"} \/ i.code \notin LiftedCodes
  PROVE  Steps(s, declared, b, i)
<1> DEFINE ir == Lift(i, abi)
<1>1. ir.opcode \in {"Jump", "Nop", "Unknown"} /\ i.code # "lea"
  BY LiftOthers, LiftUnknown DEF Lifted, LiftedCodes, OperationCodes
<1>2. \E statement, l : /\ Recover(s, declared, b, i) = Outcome(s, declared, statement, l)
                        /\ statement.kind \in {"none", "unsupported"}
  <2> HIDE DEF ir
  <2>1. ir = Lift(i, abi)
    BY DEF ir
  <2>2. ir.opcode \notin BinaryOperators
    BY <1>1 DEF BinaryOperators
  <2>3. \/ Recover(s, declared, b, i) = Outcome(s, declared, NoStatement, {})
        \/ Recover(s, declared, b, i)
             = Outcome(s, declared, Statement("unsupported", <<"constant", 0>>, NoText, <<>>), {})
    BY <1>1, <2>1, <2>2 DEF Recover
  <2>4. NoStatement.kind = "none" /\ Statement("unsupported", <<"constant", 0>>, NoText, <<>>).kind = "unsupported"
    BY DEF NoStatement, Statement
  <2> QED BY <2>3, <2>4
<1>3. PICK statement, l : /\ Recover(s, declared, b, i) = Outcome(s, declared, statement, l)
                          /\ statement.kind \in {"none", "unsupported"}
  BY <1>2
<1>4. WritesNothing(i)
  BY DEF WritesNothing, OperandsWritten, LiftedCodes, OperationCodes, Transfers, Arithmetic
<1>5. FlagsAfter(i) = flags \/ i.code \in FlagsLost
  <2>1. CASE i.code = "unknown"
    BY <2>1 DEF FlagsLost
  <2>2. CASE i.code # "unknown"
    BY <2>2 DEF FlagsAfter, LiftedCodes, OperationCodes, Transfers, Arithmetic
  <2> QED BY <2>1, <2>2
<1>6. statement.kind \notin {"assignment", "conditional", "call", "return", "branch"}
  BY <1>3
<1> QED BY <1>3, <1>4, <1>5, <1>6, QuietStep

\* Every step of the recovery is sound, and exact without a lapse.
LEMMA RecoverSteps ==
  ASSUME NEW s, NEW declared, NEW b, NEW i, MayRecover(s, declared, b, i)
  PROVE  Steps(s, declared, b, i)
<1>1. CASE i.code \in Arithmetic
  BY <1>1, ArithmeticStep
<1>2. CASE i.code = "lea"
  BY <1>2, AddressStep
<1>3. CASE i.code = "imul3"
  BY <1>3, Imul3Step
<1>4. CASE i.code \in {"mul", "idiv"}
  BY <1>4, ProductStep
<1>5. CASE i.code \in {"mov", "movzx"}
  BY <1>5, MoveStep
<1>6. CASE i.code = "pop"
  BY <1>6, PopStep
<1>7. CASE i.code = "push"
  BY <1>7, PushStep
<1>8. CASE i.code = "neg"
  BY <1>8, NegateStep
<1>9. CASE i.code \in {"cmp", "test"}
  BY <1>9, CompareStep
<1>10. CASE i.code \in {"set", "cmov"}
  BY <1>10, ConditionalStep
<1>11. CASE i.code = "call"
  BY <1>11, CallStep
<1>12. CASE i.code = "ret"
  BY <1>12, ReturnStep
<1>13. CASE i.code = "jcc"
  BY <1>13, BranchStep
<1>14. CASE i.code \in {"jmp", "nop"} \/ i.code \notin LiftedCodes
  BY <1>14, OtherStep
<1> QED BY <1>1, <1>2, <1>3, <1>4, <1>5, <1>6, <1>7, <1>8, <1>9, <1>10, <1>11, <1>12, <1>13, <1>14
        DEF LiftedCodes, OperationCodes, Transfers

--------------------------------------------------------------------------------
(***************************************************************************)
(* The instructions of a function, and the variables they are given.       *)
(***************************************************************************)

\* One step of FlattenSeq, for any function w in its place.
Joined(w, p, n) == [i \in 1 .. n |-> IF i = 1 THEN p[i] ELSE w[i-1] \o p[i]]

LEMMA JoinedExists ==
  ASSUME NEW p, NEW N \in Nat
  PROVE  \E w : w = Joined(w, p, N)
<1> DEFINE Good(n) == \E w : w = Joined(w, p, n)
           Bad == {n \in 0 .. N : ~ Good(n)}
<1>1. SUFFICES ASSUME Bad # {} PROVE FALSE
  OBVIOUS
<1>2. PICK m \in Bad : \A n \in Bad : m <= n
  <2>1. Bad \in SUBSET Nat
    OBVIOUS
  <2> QED BY <1>1, <2>1, LeastElement
<1>3. CASE m = 0
  <2> DEFINE w == [k \in 1 .. 0 |-> 0]
  <2>1. \A k : k \notin 1 .. 0
    OBVIOUS
  <2>2. w = Joined(w, p, 0)
    BY <2>1 DEF Joined
  <2>3. Good(0)
    BY <2>2
  <2> QED BY <2>3, <1>2, <1>3
<1>4. CASE m # 0
  <2>1. m \in 1 .. N /\ m - 1 \in 0 .. N /\ ~ (m <= m - 1)
    BY <1>2, <1>4
  <2>2. Good(m - 1)
    BY <2>1, <1>2
  <2>3. PICK u : u = Joined(u, p, m - 1)
    BY <2>2
  <2> DEFINE w == [k \in 1 .. m |-> IF k = m THEN (IF k = 1 THEN p[k] ELSE u[k-1] \o p[k]) ELSE u[k]]
  <2>4. \A k \in 1 .. m - 1 : u[k] = IF k = 1 THEN p[k] ELSE u[k-1] \o p[k]
    BY <2>3 DEF Joined
  <2>5. \A k \in 1 .. m - 1 : w[k] = u[k]
    BY <2>1
  <2>6. \A k \in 1 .. m : w[k] = IF k = 1 THEN p[k] ELSE w[k-1] \o p[k]
    <3> TAKE k \in 1 .. m
    <3>1. k # 1 => k - 1 \in 1 .. m - 1
      BY <2>1
    <3>2. k # 1 => w[k-1] = u[k-1]
      <4> HIDE DEF w
      <4> QED BY <2>5, <3>1
    <3>3. w[k] = IF k = 1 THEN p[k] ELSE u[k-1] \o p[k]
      <4>1. k # m => k \in 1 .. m - 1
        BY <2>1
      <4> QED BY <2>4, <4>1
    <3> HIDE DEF w
    <3> QED BY <3>2, <3>3
  <2>7. w = [k \in 1 .. m |-> w[k]]
    OBVIOUS
  <2> HIDE DEF w
  <2>8. w = Joined(w, p, m)
    BY <2>6, <2>7 DEF Joined
  <2>9. Good(m)
    BY <2>8
  <2> QED BY <2>9, <1>2
<1> QED BY <1>3, <1>4

\* All elements are in it, and nothing else.
LEMMA FlattenCovers ==
  ASSUME NEW S, NEW p \in Seq(Seq(S)), Len(p) # 0
  PROVE  /\ FlattenSeq(p) \in Seq(S)
         /\ \A b \in 1 .. Len(p) : \A k \in 1 .. Len(p[b]) :
              \E n \in 1 .. Len(FlattenSeq(p)) : FlattenSeq(p)[n] = p[b][k]
<1>1. Len(p) \in Nat /\ DOMAIN p = 1 .. Len(p) /\ \A b \in 1 .. Len(p) : p[b] \in Seq(S)
  OBVIOUS
<1> DEFINE w == CHOOSE f : f = Joined(f, p, Len(p))
<1>2. w = Joined(w, p, Len(p))
  BY <1>1, JoinedExists, Zenon
<1>3. FlattenSeq(p) = w[Len(p)]
  BY <1>1, Zenon DEF FlattenSeq, Joined
<1> HIDE DEF w
<1>4. \A i \in 1 .. Len(p) : w[i] = IF i = 1 THEN p[i] ELSE w[i-1] \o p[i]
  BY <1>2 DEF Joined
<1> DEFINE Good(i) == /\ w[i] \in Seq(S)
                      /\ \A b \in 1 .. i : \A k \in 1 .. Len(p[b]) : \E n \in 1 .. Len(w[i]) : w[i][n] = p[b][k]
           Bad == {i \in 1 .. Len(p) : ~ Good(i)}
<1>5. Bad = {}
  <2>1. SUFFICES ASSUME Bad # {} PROVE FALSE
    OBVIOUS
  <2>2. PICK m \in Bad : \A n \in Bad : m <= n
    <3>1. Bad \in SUBSET Nat
      BY <1>1
    <3> HIDE DEF Bad
    <3> QED BY <2>1, <3>1, LeastElement
  <2>3. m \in 1 .. Len(p) /\ ~ Good(m)
    BY <2>2
  <2>4. CASE m = 1
    <3>1. w[m] = p[m] /\ p[m] \in Seq(S) /\ \A b \in 1 .. m : b = m
      BY <1>1, <1>4, <2>3, <2>4
    <3>2. Good(m)
      BY <3>1
    <3> QED BY <2>3, <3>2
  <2>5. CASE m # 1
    <3>1. m - 1 \in 1 .. Len(p) /\ ~ (m <= m - 1)
      BY <1>1, <2>3, <2>5
    <3>2. Good(m - 1)
      <4>1. m - 1 \notin Bad
        BY <2>2, <3>1
      <4> QED BY <3>1, <4>1
    <3>3. PICK u \in Seq(S) : u = w[m-1]
      BY <3>2
    <3>4. PICK q \in Seq(S) : q = p[m]
      BY <1>1, <2>3
    <3>5. w[m] = u \o q
      BY <1>4, <2>3, <2>5, <3>3, <3>4
    <3>6. /\ u \o q \in Seq(S) /\ Len(u \o q) = Len(u) + Len(q)
          /\ \A n \in 1 .. Len(u) : (u \o q)[n] = u[n] /\ n \in 1 .. Len(u \o q)
          /\ \A k \in 1 .. Len(q) : (u \o q)[Len(u) + k] = q[k] /\ Len(u) + k \in 1 .. Len(u \o q)
      OBVIOUS
    <3>7. ASSUME NEW b \in 1 .. m, NEW k \in 1 .. Len(p[b]) PROVE \E n \in 1 .. Len(w[m]) : w[m][n] = p[b][k]
      <4>1. CASE b = m
        BY <3>4, <3>5, <3>6, <4>1
      <4>2. CASE b # m
        <5>1. b \in 1 .. m - 1
          BY <1>1, <2>3, <4>2
        <5>2. PICK n \in 1 .. Len(u) : u[n] = p[b][k]
          BY <3>2, <3>3, <5>1
        <5> QED BY <3>5, <3>6, <5>2
      <4> QED BY <4>1, <4>2
    <3>8. Good(m)
      BY <3>5, <3>6, <3>7
    <3> QED BY <2>3, <3>8
  <2> QED BY <2>4, <2>5
<1>6. Good(Len(p))
  <2>1. Len(p) \in 1 .. Len(p)
    BY <1>1
  <2> QED BY <1>5, <2>1
<1> QED BY <1>3, <1>6

LEMMA InstructionsCovered ==
  ASSUME program \in Programs
  PROVE  /\ Instructions(program) \in Seq(DecodedInstructions)
         /\ \A b \in DOMAIN program : \A k \in DOMAIN program[b] :
              \E n \in 1 .. Len(Instructions(program)) : Instructions(program)[n] = program[b][k]
<1>1. program \in Seq(Seq(DecodedInstructions)) /\ program # <<>>
  BY ProgramsAssumption
<1>2. Len(program) # 0 /\ DOMAIN program = 1 .. Len(program)
  BY <1>1
<1>3. \A b \in DOMAIN program : DOMAIN program[b] = 1 .. Len(program[b])
  BY <1>1
<1> QED BY <1>1, <1>2, <1>3, FlattenCovers DEF Instructions

LEMMA LiftedDestination ==
  ASSUME NEW i, i.code \in LiftedCodes
  PROVE  Lift(i, abi).destination =
           IF i.code \in Writers THEN TargetOf(i)
           ELSE IF i.code \in {"mul", "idiv", "call"} THEN ReturnRegisterValue
           ELSE IF i.code = "push" THEN TopValue ELSE NoValue
<1>1. CASE i.code \in OperationCodes
  <2>1. \E operation, l : Lift(i, abi) = Lifted(operation, TargetOf(i), l)
    BY <1>1, LiftOperation DEF OperationCodes
  <2>2. Lift(i, abi).destination = TargetOf(i)
    BY <2>1 DEF Lifted
  <2> QED BY <1>1, <2>2 DEF Writers
<1>2. CASE i.code \in {"mov", "movzx", "pop", "neg", "set", "cmov"}
  <2>1. \E operation, l : Lift(i, abi) = Lifted(operation, TargetOf(i), l)
    <3>1. CASE i.code \in {"mov", "movzx", "pop", "neg"}
      BY <3>1, LiftMoves
    <3>2. CASE i.code \in {"set", "cmov"}
      BY <3>2, LiftOthers
    <3> QED BY <1>2, <3>1, <3>2
  <2>2. Lift(i, abi).destination = TargetOf(i)
    BY <2>1 DEF Lifted
  <2> QED BY <1>2, <2>2 DEF Writers
<1>3. CASE i.code \in {"mul", "idiv", "call"}
  <2>1. \E operation, l : Lift(i, abi) = Lifted(operation, ReturnRegisterValue, l)
    <3>1. CASE i.code \in {"mul", "idiv"}
      <4>1. Lift(i, abi) = Lifted(IF i.code = "mul" THEN "*" ELSE "/", ReturnRegisterValue,
                                  <<ReturnRegisterValue, SourceOf(i, 1)>>)
        BY <3>1, LiftProduct
      <4> QED BY ONLY <4>1
    <3>2. CASE i.code = "call"
      BY <3>2, LiftOthers
    <3> QED BY <1>3, <3>1, <3>2
  <2>2. Lift(i, abi).destination = ReturnRegisterValue
    BY <2>1 DEF Lifted
  <2> QED BY <1>3, <2>2 DEF Writers, OperationCodes, Arithmetic
<1>4. CASE i.code = "push"
  <2>1. \E operation, l : Lift(i, abi) = Lifted(operation, TopValue, l)
    BY <1>4, LiftMoves
  <2>2. Lift(i, abi).destination = TopValue
    BY <2>1 DEF Lifted
  <2> QED BY <1>4, <2>2 DEF Writers, OperationCodes, Arithmetic
<1>5. CASE i.code \in {"cmp", "test", "ret", "jcc", "jmp", "nop"}
  <2>1. \E operation, l : Lift(i, abi) = Lifted(operation, NoValue, l)
    BY <1>5, LiftOthers
  <2>2. Lift(i, abi).destination = NoValue
    BY <2>1 DEF Lifted
  <2> QED BY <1>5, <2>2 DEF Writers, OperationCodes, Arithmetic
<1> QED BY <1>1, <1>2, <1>3, <1>4, <1>5 DEF LiftedCodes, Transfers

LEMMA DestinationRegister ==
  ASSUME NEW i \in DecodedInstructions
  PROVE  Lift(i, abi).destination.register \in Registers \cup {NoRegister}
<1>1. CASE i.code \notin LiftedCodes
  <2>1. Lift(i, abi).destination = NoValue
    BY <1>1, LiftUnknown DEF Lifted
  <2> QED BY <2>1 DEF NoValue, IRValue
<1>2. CASE i.code \in LiftedCodes
  <2>1. CASE i.code \in Writers
    <3>1. i.operands \in Seq(Operands) /\ Len(i.operands) = OperandCount(i.code)
      BY DEF DecodedInstructions
    <3>2. OperandCount(i.code) \in 1 .. 3
      BY <2>1 DEF OperandCount, Writers, OperationCodes, Arithmetic
    <3>3. PICK o \in Operands : o = i.operands[1]
      BY <3>1, <3>2
    <3>4. CASE o[1] = "register"
      <4>1. OperandValue(o, abi, TRUE) = RegisterValue(o[2], abi, TRUE) /\ o[2] \in Registers
        BY <3>4 DEF OperandValue, Operands
      <4>2. RegisterValue(o[2], abi, TRUE).register = o[2]
        BY ONLY TRUE DEF RegisterValue, IRValue
      <4>3. TargetOf(i).register = o[2]
        BY <3>3, <4>1, <4>2 DEF TargetOf
      <4> QED BY <1>2, <2>1, <4>1, <4>3, LiftedDestination
    <3>5. CASE o[1] \in {"immediate", "memory"}
      <4>1. OperandValue(o, abi, TRUE).register = NoRegister
        BY <3>5 DEF OperandValue, ImmediateValue, MemoryValue, IRValue
      <4>2. TargetOf(i).register = NoRegister
        BY <3>3, <4>1 DEF TargetOf
      <4> QED BY <1>2, <2>1, <4>2, LiftedDestination
    <3> QED BY <3>4, <3>5 DEF Operands
  <2>2. CASE i.code \notin Writers
    <3>1. Lift(i, abi).destination \in {ReturnRegisterValue, TopValue, NoValue}
      BY <1>2, <2>2, LiftedDestination
    <3>2. ReturnRegisterValue.register = "rax" /\ TopValue.register = NoRegister /\ NoValue.register = NoRegister
      BY DEF ReturnRegisterValue, TopValue, NoValue, IRValue
    <3>3. "rax" \in Registers
      BY RegistersAssumption
    <3> QED BY <3>1, <3>2, <3>3
  <2> QED BY <2>1, <2>2
<1> QED BY <1>1, <1>2

--------------------------------------------------------------------------------

\* Every variable is declared once.
Unrepeated(declared) ==
  \A j, k \in 1 .. Len(declared) : declared[j].name = declared[k].name => j = k

\* Every variable of a register starts with the argument in it.
Initialises(registerVariables, declared) ==
  \A r \in DOMAIN registerVariables : \E k \in 1 .. Len(declared) :
    declared[k].name = registerVariables[r] /\ declared[k].initializer = Initializer(r)

\* o follows from start by giving variables to registers.
Prepares(o, start) ==
  /\ StateExact(o.state, o.variables)
  /\ \A f \in StateFields \ {"registerVariables", "nextTemporary"} : o.state[f] = start.state[f]
  /\ Unrepeated(o.variables)
  /\ Initialises(o.state.registerVariables, o.variables)

HasPlace(o, i) ==
  Lift(i, abi).destination.register \in {NoRegister} \cup FrameRegisters \cup DOMAIN o.state.registerVariables

LEMMA PrepareStep ==
  ASSUME AbiExact, NEW o, NEW start, Prepares(o, start), NEW i \in DecodedInstructions
  PROVE  /\ Prepares(PrepareVariable(o, i), start) /\ HasPlace(PrepareVariable(o, i), i)
         /\ DOMAIN o.state.registerVariables \subseteq DOMAIN PrepareVariable(o, i).state.registerVariables
<1> DEFINE r == Lift(i, abi).destination.register
           s == o.state
           declared == o.variables
           new == NewName(s, declared, r = "rax" /\ abi.returnsValue)
           q == PrepareVariable(o, i)
<1>1. r \in Registers \cup {NoRegister}
  BY DestinationRegister
<1>2. CASE r \in {NoRegister} \cup FrameRegisters \cup DOMAIN s.registerVariables
  <2>1. PrepareVariable(o, i) = o
    BY <1>2 DEF PrepareVariable
  <2>2. HasPlace(o, i)
    BY <1>2 DEF HasPlace
  <2> HIDE DEF q
  <2> QED BY ONLY Prepares(o, start), <2>1, <2>2
<1>3. CASE r \notin {NoRegister} \cup FrameRegisters \cup DOMAIN s.registerVariables
  <2> DEFINE t == [s EXCEPT !.registerVariables = Put(@, r, new.name), !.nextTemporary = new.next]
             more == Declare(declared, new.name, Initializer(r))
  <2>1. q = Outcome(t, more, NoStatement, {})
    BY <1>3 DEF PrepareVariable
  <2>2. q.state = t /\ q.variables = more
    <3> HIDE DEF t, more
    <3> QED BY <2>1 DEF Outcome
  <2>3. StateExact(s, declared) /\ DOMAIN s = StateFields
    BY DEF Prepares, StateExact
  <2>4. PICK name \in VariableNames : name = new.name /\ name \notin DeclaredNames(declared) /\ new.next \in Nat
    BY <2>3, NewNameIsNew
  <2>5. Initializer(r) \in {<<>>} \cup ({"arg"} \X (0 .. 5))
    BY ParameterIndices DEF Initializer
  <2>6. declared \in Seq(VariableDeclarations) /\ Len(declared) \in Nat
    BY <2>3 DEF StateExact
  <2>7. PICK x \in {<<>>} \cup ({"arg"} \X (0 .. 5)) : x = Initializer(r)
    BY <2>5
  <2>8. /\ more \in Seq(VariableDeclarations)
        /\ DeclaredNames(more) = DeclaredNames(declared) \cup {name}
        /\ \A k \in 1 .. Len(declared) : more[k] = declared[k]
        /\ Len(more) = Len(declared) + 1
        /\ more[Len(declared) + 1] = [name |-> name, initializer |-> x]
    BY <2>4, <2>6, <2>7, DeclareNames
  <2>9. more[Len(declared) + 1].name = name /\ more[Len(declared) + 1].initializer = Initializer(r)
    BY <2>7, <2>8
  <2>10. /\ DOMAIN t = StateFields
         /\ t.registerVariables = Put(s.registerVariables, r, name)
         /\ t.nextTemporary = new.next
         /\ \A f \in StateFields \ {"registerVariables", "nextTemporary"} : t[f] = s[f]
    <3> HIDE DEF new
    <3> QED BY <2>3, <2>4 DEF StateFields
  <2>11. /\ t.registerValues = s.registerValues /\ t.stackValues = s.stackValues /\ t.storedIn = s.storedIn
         /\ t.comparison = s.comparison
    BY <2>10 DEF StateFields
  <2> HIDE DEF t, more, q, new
  <2>12. /\ DOMAIN t.registerVariables = DOMAIN s.registerVariables \cup {r}
         /\ t.registerVariables[r] = name
         /\ \A p \in DOMAIN s.registerVariables : t.registerVariables[p] = s.registerVariables[p]
    BY <1>3, <2>10 DEF Put
  <2>13. r \in Registers \ FrameRegisters
    BY <1>1, <1>3
  <2> HIDE DEF r
  <2>14. \A p \in DOMAIN s.registerVariables : s.registerVariables[p] \in DeclaredNames(declared) /\ s.registerVariables[p] # name
    BY <2>3, <2>4 DEF StateExact
  <2>15. \A p, w \in DOMAIN t.registerVariables : t.registerVariables[p] = t.registerVariables[w] => p = w
    BY <2>3, <2>12, <2>14 DEF StateExact
  <2>16. \A p \in DOMAIN t.registerVariables : t.registerVariables[p] \in DeclaredNames(more)
    BY <2>8, <2>12, <2>14
  <2>17. StateExact(t, more)
    BY <2>3, <2>4, <2>8, <2>10, <2>11, <2>12, <2>13, <2>15, <2>16 DEF StateExact
  <2>18. Unrepeated(more)
    <3> SUFFICES ASSUME NEW j \in 1 .. Len(more), NEW k \in 1 .. Len(more), more[j].name = more[k].name PROVE j = k
      BY DEF Unrepeated
    <3>1. (j \in 1 .. Len(declared) \/ j = Len(declared) + 1) /\ (k \in 1 .. Len(declared) \/ k = Len(declared) + 1)
      BY <2>6, <2>8
    <3>2. \A m \in 1 .. Len(declared) : more[m].name # name
      BY <2>4, <2>6, <2>8 DEF DeclaredNames
    <3> QED BY <2>8, <2>9, <3>1, <3>2 DEF Prepares, Unrepeated
  <2>19. Initialises(t.registerVariables, more)
    <3> SUFFICES ASSUME NEW p \in DOMAIN t.registerVariables
                 PROVE  \E k \in 1 .. Len(more) : more[k].name = t.registerVariables[p] /\ more[k].initializer = Initializer(p)
      BY DEF Initialises
    <3>1. CASE p = r
      BY <2>6, <2>8, <2>9, <2>12, <3>1
    <3>2. CASE p # r
      <4>1. PICK k \in 1 .. Len(declared) :
              declared[k].name = s.registerVariables[p] /\ declared[k].initializer = Initializer(p)
        BY <2>12, <3>2 DEF Prepares, Initialises
      <4>2. k \in 1 .. Len(more) /\ more[k] = declared[k]
        BY <2>6, <2>8
      <4> QED BY <2>12, <3>2, <4>1, <4>2
    <3> QED BY <3>1, <3>2
  <2>20. \A f \in StateFields \ {"registerVariables", "nextTemporary"} : t[f] = start.state[f]
    BY <2>10 DEF Prepares
  <2>21. Prepares(q, start)
    BY <2>2, <2>17, <2>18, <2>19, <2>20 DEF Prepares
  <2>22. HasPlace(q, i)
    BY <2>2, <2>12 DEF HasPlace, r
  <2> QED BY <2>2, <2>12, <2>21, <2>22 DEF q
<1> QED BY <1>2, <1>3

\* One step of PrepareVariables, for any function w in its place.
PreparedUpTo(w, start, n) ==
  [k \in 0 .. n |-> IF k = 0 THEN start ELSE PrepareVariable(w[k - 1], Instructions(program)[k])]

LEMMA PreparedExists ==
  ASSUME NEW start, NEW N \in Nat
  PROVE  \E w : w = PreparedUpTo(w, start, N)
<1> DEFINE Good(n) == \E w : w = PreparedUpTo(w, start, n)
           Bad == {n \in 0 .. N : ~ Good(n)}
<1>1. SUFFICES ASSUME Bad # {} PROVE FALSE
  OBVIOUS
<1>2. PICK m \in Bad : \A n \in Bad : m <= n
  <2>1. Bad \in SUBSET Nat
    OBVIOUS
  <2> QED BY <1>1, <2>1, LeastElement
<1>3. CASE m = 0
  <2> DEFINE w == [k \in 0 .. 0 |-> start]
  <2>1. \A k : k \in 0 .. 0 => k = 0
    OBVIOUS
  <2>2. w = PreparedUpTo(w, start, 0)
    BY <2>1 DEF PreparedUpTo
  <2>3. Good(0)
    BY <2>2
  <2> QED BY <2>3, <1>2, <1>3
<1>4. CASE m # 0
  <2>1. m \in 1 .. N /\ m - 1 \in 0 .. N /\ ~ (m <= m - 1)
    BY <1>2, <1>4
  <2>2. Good(m - 1)
    BY <2>1, <1>2
  <2>3. PICK u : u = PreparedUpTo(u, start, m - 1)
    BY <2>2
  <2> DEFINE w == [k \in 0 .. m |-> IF k = m THEN PrepareVariable(u[k - 1], Instructions(program)[k]) ELSE u[k]]
  <2>4. \A k \in 0 .. m - 1 : u[k] = IF k = 0 THEN start ELSE PrepareVariable(u[k - 1], Instructions(program)[k])
    BY <2>3 DEF PreparedUpTo
  <2>5. \A k \in 0 .. m - 1 : w[k] = u[k]
    BY <2>1
  <2>6. \A k \in 0 .. m : w[k] = IF k = 0 THEN start ELSE PrepareVariable(w[k - 1], Instructions(program)[k])
    <3> TAKE k \in 0 .. m
    <3>1. k # 0 => k - 1 \in 0 .. m - 1
      BY <2>1
    <3>2. k # 0 => w[k - 1] = u[k - 1]
      <4> HIDE DEF w
      <4> QED BY <2>5, <3>1
    <3>3. w[k] = IF k = 0 THEN start ELSE PrepareVariable(u[k - 1], Instructions(program)[k])
      <4>1. k # m => k \in 0 .. m - 1
        BY <2>1
      <4>2. k = m => k # 0
        BY <1>4
      <4> QED BY <2>4, <4>1, <4>2
    <3> HIDE DEF w
    <3> QED BY <3>2, <3>3
  <2>7. w = [k \in 0 .. m |-> w[k]]
    OBVIOUS
  <2> HIDE DEF w
  <2>8. w = PreparedUpTo(w, start, m)
    BY <2>6, <2>7 DEF PreparedUpTo
  <2>9. Good(m)
    BY <2>8
  <2> QED BY <2>9, <1>2
<1> QED BY <1>3, <1>4

\* All registers that are written have variables then.
LEMMA PreparedAll ==
  ASSUME AbiExact, program \in Programs, NEW start, Prepares(start, start)
  PROVE  /\ Prepares(PrepareVariables(start), start)
         /\ \A b \in DOMAIN program : \A k \in DOMAIN program[b] : HasPlace(PrepareVariables(start), program[b][k])
<1> DEFINE ins == Instructions(program)
           N == Len(ins)
           w == CHOOSE f : f = PreparedUpTo(f, start, N)
<1>1. ins \in Seq(DecodedInstructions) /\ N \in Nat
  BY InstructionsCovered
<1>2. w = PreparedUpTo(w, start, N)
  BY <1>1, PreparedExists, Zenon
<1>3. PrepareVariables(start) = w[N]
  BY Zenon DEF PrepareVariables, PreparedUpTo
<1> HIDE DEF w
<1>4. \A k \in 0 .. N : w[k] = IF k = 0 THEN start ELSE PrepareVariable(w[k - 1], ins[k])
  BY <1>2 DEF PreparedUpTo
<1> DEFINE Good(n) == Prepares(w[n], start) /\ \A k \in 1 .. n : HasPlace(w[n], ins[k])
           Bad == {n \in 0 .. N : ~ Good(n)}
<1>5. Bad = {}
  <2>1. SUFFICES ASSUME Bad # {} PROVE FALSE
    OBVIOUS
  <2>2. PICK m \in Bad : \A n \in Bad : m <= n
    <3>1. Bad \in SUBSET Nat
      BY <1>1
    <3> HIDE DEF Bad
    <3> QED BY <2>1, <3>1, LeastElement
  <2>3. m \in 0 .. N /\ ~ Good(m)
    BY <2>2
  <2>4. CASE m = 0
    <3>1. w[m] = start /\ \A k : k \notin 1 .. m
      BY <1>1, <1>4, <2>3, <2>4
    <3>2. Good(m)
      BY <3>1
    <3> QED BY <2>3, <3>2
  <2>5. CASE m # 0
    <3>1. m - 1 \in 0 .. N /\ ~ (m <= m - 1) /\ m \in 1 .. N
      BY <1>1, <2>3, <2>5
    <3>2. Good(m - 1)
      <4>1. m - 1 \notin Bad
        BY <2>2, <3>1
      <4> QED BY <3>1, <4>1
    <3>3. PICK o : o = w[m - 1]
      OBVIOUS
    <3>4. PICK i \in DecodedInstructions : i = ins[m]
      BY <1>1, <3>1
    <3>5. w[m] = PrepareVariable(o, i)
      BY <1>4, <2>3, <2>5, <3>3, <3>4
    <3>6. Prepares(o, start)
      BY <3>2, <3>3
    <3>7. /\ Prepares(PrepareVariable(o, i), start) /\ HasPlace(PrepareVariable(o, i), i)
          /\ DOMAIN o.state.registerVariables \subseteq DOMAIN PrepareVariable(o, i).state.registerVariables
      BY <3>6, PrepareStep
    <3>8. ASSUME NEW k \in 1 .. m PROVE HasPlace(w[m], ins[k])
      <4>1. CASE k = m
        BY <3>4, <3>5, <3>7, <4>1
      <4>2. CASE k # m
        <5>1. k \in 1 .. m - 1
          BY <3>1, <4>2
        <5>2. HasPlace(o, ins[k])
          BY <3>2, <3>3, <5>1
        <5> QED BY <3>5, <3>7, <5>2 DEF HasPlace
      <4> QED BY <4>1, <4>2
    <3>9. Good(m)
      BY <3>5, <3>7, <3>8
    <3> QED BY <2>3, <3>9
  <2> QED BY <2>4, <2>5
<1>6. Good(N)
  <2>1. N \in 0 .. N
    BY <1>1
  <2> QED BY <1>5, <2>1
<1>7. ASSUME NEW b \in DOMAIN program, NEW k \in DOMAIN program[b] PROVE HasPlace(w[N], program[b][k])
  <2>1. PICK n \in 1 .. N : ins[n] = program[b][k]
    BY InstructionsCovered
  <2> QED BY <1>6, <2>1
<1> QED BY <1>3, <1>6, <1>7

--------------------------------------------------------------------------------

\* A register without a variable is a parameter or not known; in a function of one
\* block no register has one.
AtEntry(s) ==
  /\ \A r \in Registers \ DOMAIN s.registerVariables :
       /\ r \in DOMAIN s.registerValues <=> r \in abi.registers
       /\ r \in abi.registers =>
            /\ s.registerValues[r] = Text(<<"arg", ParameterIndex(r)>>)
            /\ <<"register", r>> \notin s.stale
  /\ ~ Materialize => DOMAIN s.registerVariables = {}

\* The variables that a function starts with.
Initialised(s, declared) ==
  IF Materialize THEN Unrepeated(declared) /\ Initialises(s.registerVariables, declared)
  ELSE \A k \in 1 .. Len(declared) : declared[k].initializer = <<>>

\* The state that Prepare leaves.
Ready ==
  LET s == [EmptyState EXCEPT !.registerValues = [r \in abi.registers |-> Text(<<"arg", ParameterIndex(r)>>)],
                                 !.availableRegisters = abi.registers]
      start == Outcome(s, <<>>, NoStatement, {})
  IN  IF Materialize THEN PrepareVariables(start) ELSE start

LEMMA ReadyExact ==
  ASSUME AbiExact, program \in Programs
  PROVE  /\ StateExact(Ready.state, Ready.variables) /\ AtEntry(Ready.state) /\ DOMAIN Ready.state.stackValues = {}
         /\ Initialised(Ready.state, Ready.variables)
         /\ ~ Ready.state.comparison.known
         /\ Materialize => \A b \in DOMAIN program : \A k \in DOMAIN program[b] : HasPlace(Ready, program[b][k])
<1> DEFINE s == [EmptyState EXCEPT !.registerValues = [r \in abi.registers |-> Text(<<"arg", ParameterIndex(r)>>)],
                                 !.availableRegisters = abi.registers]
           start == Outcome(s, <<>>, NoStatement, {})
<1>1. /\ DOMAIN s = StateFields
      /\ s.registerValues = [r \in abi.registers |-> Text(<<"arg", ParameterIndex(r)>>)]
      /\ s.stackValues = <<>> /\ s.registerVariables = <<>> /\ s.nextTemporary = 0
      /\ s.comparison = NoComparison /\ s.stale = {} /\ s.storedIn = <<>>
  BY DEF EmptyState, StateFields
<1>2. start.state = s /\ start.variables = <<>>
  <2> HIDE DEF s
  <2> QED BY DEF Outcome
<1>3. Ready = IF Materialize THEN PrepareVariables(start) ELSE start
  BY DEF Ready
<1> HIDE DEF s, start
<1>4. DOMAIN s.registerValues = abi.registers
        /\ \A r \in abi.registers : s.registerValues[r] = Text(<<"arg", ParameterIndex(r)>>)
  BY <1>1
<1>5. DOMAIN s.registerVariables = {} /\ DOMAIN s.stackValues = {} /\ DOMAIN s.storedIn = {} /\ ~ s.comparison.known
  BY <1>1 DEF NoComparison
<1>6. abi.registers \subseteq Registers \ FrameRegisters
  BY ParameterIndices
<1>7. \A r \in abi.registers : IsText(s.registerValues[r])
  BY <1>4, NameText
<1>8. <<>> \in Seq(VariableDeclarations)
  OBVIOUS
<1>9. StateExact(s, <<>>)
  BY <1>1, <1>4, <1>5, <1>6, <1>7, <1>8 DEF StateExact
<1>10. Prepares(start, start)
  BY <1>2, <1>5, <1>9 DEF Prepares, Unrepeated, Initialises
<1>11. CASE Materialize
  <2>1. PICK o : o = PrepareVariables(start) /\ o = Ready
    BY <1>3, <1>11
  <2>2. Prepares(o, start) /\ \A b \in DOMAIN program : \A k \in DOMAIN program[b] : HasPlace(o, program[b][k])
    BY <1>10, <2>1, PreparedAll
  <2>3. /\ o.state.registerValues = s.registerValues /\ o.state.stackValues = s.stackValues
        /\ o.state.comparison = s.comparison /\ o.state.stale = s.stale
    BY <1>2, <2>2 DEF Prepares, StateFields
  <2>4. AtEntry(o.state)
    BY <1>1, <1>4, <1>11, <2>3 DEF AtEntry
  <2>5. Initialised(o.state, o.variables) /\ StateExact(o.state, o.variables)
    BY <1>11, <2>2 DEF Prepares, Initialised
  <2> QED BY <1>5, <2>1, <2>2, <2>3, <2>4, <2>5
<1>12. CASE ~ Materialize
  <2>1. Ready.state = s /\ Ready.variables = <<>>
    BY <1>2, <1>3, <1>12
  <2>2. AtEntry(s)
    BY <1>1, <1>4, <1>5 DEF AtEntry
  <2>3. Initialised(s, <<>>)
    BY <1>12 DEF Initialised
  <2> QED BY <1>5, <1>9, <1>12, <2>1, <2>2, <2>3
<1> QED BY <1>11, <1>12

--------------------------------------------------------------------------------
(***************************************************************************)
(* The recovery of a function depends on the function and its parameters.  *)
(***************************************************************************)

LEMMA SameValues ==
  ASSUME UNCHANGED program
  PROVE  /\ Materialize' <=> Materialize
         /\ \A s, r : Shadowed(s, r)' <=> Shadowed(s, r)
         /\ \A s, b, v : ValueLapses(s, b, v)' = ValueLapses(s, b, v)
         /\ \A s, b : ArgumentLapses(s, b)' = ArgumentLapses(s, b)
<1>1. Materialize' <=> Materialize
  BY DEF Materialize
<1>2. \A s, r : Shadowed(s, r)' <=> Shadowed(s, r)
  BY <1>1 DEF Shadowed
<1>3. \A s, b, v : ValueLapses(s, b, v)' = ValueLapses(s, b, v)
  <2> SUFFICES ASSUME NEW s, NEW b, NEW v PROVE ValueLapses(s, b, v)' = ValueLapses(s, b, v)
    OBVIOUS
  <2>1. Shadowed(s, v.register)' <=> Shadowed(s, v.register)
    BY <1>2
  <2>2. ASSUME NEW l \in {"shadowed", "overwritten", "other block"}
        PROVE  l \in ValueLapses(s, b, v)' <=> l \in ValueLapses(s, b, v)
    BY <2>1 DEF ValueLapses
  <2>3. \A l : l \in ValueLapses(s, b, v)' <=> l \in ValueLapses(s, b, v)
    BY <2>2 DEF ValueLapses
  <2> QED BY <2>3, Zenon
<1>4. \A s, b : ArgumentLapses(s, b)' = ArgumentLapses(s, b)
  BY <1>3 DEF ArgumentLapses
<1> QED BY <1>1, <1>2, <1>3, <1>4

LEMMA SameSteps ==
  ASSUME UNCHANGED program
  PROVE  /\ \A s, declared, b, v, text, l : Write(s, declared, b, v, text, l)' = Write(s, declared, b, v, text, l)
         /\ \A s, declared, b, given : Call(s, declared, b, given)' = Call(s, declared, b, given)
<1>1. /\ Materialize' <=> Materialize
      /\ \A s, b : ArgumentLapses(s, b)' = ArgumentLapses(s, b)
  BY SameValues
<1>2. ASSUME NEW s, NEW declared, NEW b, NEW v, NEW text, NEW l
      PROVE  Write(s, declared, b, v, text, l)' = Write(s, declared, b, v, text, l)
  BY <1>1 DEF Write
<1>3. \A s : DropClobbered(s)' = DropClobbered(s)
  BY <1>1 DEF DropClobbered
<1>4. ASSUME NEW s, NEW declared, NEW b, NEW given
      PROVE  Call(s, declared, b, given)' = Call(s, declared, b, given)
  BY <1>1, <1>3 DEF Call
<1> QED BY <1>2, <1>4

LEMMA SameRecovery ==
  ASSUME UNCHANGED <<program, abi>>
  PROVE  \A s, declared, b, i : Recover(s, declared, b, i)' = Recover(s, declared, b, i)
<1>1. /\ \A s, b, v : ValueLapses(s, b, v)' = ValueLapses(s, b, v)
      /\ \A s, declared, b, v, text, l : Write(s, declared, b, v, text, l)' = Write(s, declared, b, v, text, l)
      /\ \A s, declared, b, given : Call(s, declared, b, given)' = Call(s, declared, b, given)
  BY SameValues, SameSteps
<1>2. \A s, declared, b, ir, l : RecoverNegation(s, declared, b, ir, l)' = RecoverNegation(s, declared, b, ir, l)
  BY <1>1 DEF RecoverNegation
<1>3. \A s, declared, b, i, sources : RecoverCompare(s, declared, b, i, sources)' = RecoverCompare(s, declared, b, i, sources)
  BY <1>1 DEF RecoverCompare
<1>4. ASSUME NEW s, NEW declared, NEW b, NEW i
      PROVE  Recover(s, declared, b, i)' = Recover(s, declared, b, i)
  BY <1>1, <1>2, <1>3 DEF Recover
<1> QED BY <1>4

\* The state of the recovery keeps the variables of registers.
SameVariables ==
  /\ UNCHANGED <<program, abi>>
  /\ Materialize =>
       /\ DOMAIN state'.registerVariables = DOMAIN state.registerVariables
       /\ \A r \in DOMAIN state.registerVariables : state'.registerVariables[r] = state.registerVariables[r]

LEMMA SameExact ==
  ASSUME SameVariables
  PROVE  /\ AbiExact' <=> AbiExact
         /\ \A s, declared : StateExact(s, declared)' <=> StateExact(s, declared)
         /\ \A s, declared, b : Sound(s, declared, b)' <=> Sound(s, declared, b)
         /\ \A v : HasVariable(v)' <=> HasVariable(v)
         /\ \A s : AtEntry(s)' <=> AtEntry(s)
         /\ \A s, declared : Initialised(s, declared)' <=> Initialised(s, declared)
<1>1. UNCHANGED <<program, abi>> /\ (Materialize' <=> Materialize)
  BY SameValues DEF SameVariables
<1>2. AbiExact' <=> AbiExact
  BY <1>1 DEF AbiExact
<1>3. \A s, declared : StateExact(s, declared)' <=> StateExact(s, declared)
  BY <1>1 DEF StateExact
<1>4. \A s : VariablesExact(s)' <=> VariablesExact(s)
  BY <1>1 DEF VariablesExact, SameVariables
<1>5. \A s, declared, b : Sound(s, declared, b)' <=> Sound(s, declared, b)
  BY <1>3, <1>4 DEF Sound, StoredUpTo
<1>6. \A v : HasVariable(v)' <=> HasVariable(v)
  BY <1>1 DEF HasVariable, SameVariables
<1>7. \A s : AtEntry(s)' <=> AtEntry(s)
  BY <1>1 DEF AtEntry
<1>8. \A r : Initializer(r)' = Initializer(r)
  BY <1>1 DEF Initializer
<1>9. \A s, declared : Initialised(s, declared)' <=> Initialised(s, declared)
  BY <1>1, <1>8 DEF Initialised, Initialises
<1> QED BY <1>2, <1>3, <1>5, <1>6, <1>7, <1>9

--------------------------------------------------------------------------------
(***************************************************************************)
(* What the recovery went through in a block: its states and variables     *)
(* before each instruction, and behind the last.                           *)
(***************************************************************************)

RecoversOne(b, k, entry, t, d) ==
  /\ Sound(t[k], d[k], b)
  /\ entry.statement = Recover(t[k], d[k], b, program[b][k]).statement
  /\ entry.lapses = Recover(t[k], d[k], b, program[b][k]).lapses
  /\ t[k + 1] = FlagsWritten(Recover(t[k], d[k], b, program[b][k]).state, program[b][k])
  /\ d[k + 1] = Recover(t[k], d[k], b, program[b][k]).variables

Recovers(b, done, t, d) ==
  /\ \A k \in 1 .. Len(done) : RecoversOne(b, k, done[k], t, d)
  /\ Sound(t[Len(done) + 1], d[Len(done) + 1], b)
  /\ StoredUpTo(t[1], b - 1) /\ ~ t[1].comparison.known

\* A block starts without a comparison.
Fresh(s) == [s EXCEPT !.comparison = NoComparison, !.stale = @ \ {<<"comparison", 0>>}]

LEMMA FreshExact ==
  ASSUME NEW s, NEW declared, NEW b, Sound(s, declared, b)
  PROVE  /\ Sound(Fresh(s), declared, b) /\ ~ Fresh(s).comparison.known
         /\ AtEntry(s) => AtEntry(Fresh(s))
<1>1. DOMAIN s = StateFields
  BY DEF Sound, StateExact
<1>2. PICK t : t = Fresh(s)
  OBVIOUS
<1>3. /\ DOMAIN t = StateFields
      /\ t.registerValues = s.registerValues /\ t.stackValues = s.stackValues
      /\ t.registerVariables = s.registerVariables /\ t.nextTemporary = s.nextTemporary
      /\ t.storedIn = s.storedIn /\ t.comparison = NoComparison
      /\ t.stale = s.stale \ {<<"comparison", 0>>}
  BY <1>1, <1>2 DEF Fresh, StateFields
<1>4. ~ t.comparison.known
  BY <1>3 DEF NoComparison
<1>5. StateExact(t, declared)
  BY <1>3, <1>4 DEF Sound, StateExact
<1>6. VariablesExact(t)
  BY <1>3 DEF Sound, VariablesExact
<1>7. StoredUpTo(t, b)
  BY <1>3 DEF Sound, StoredUpTo
<1>8. AtEntry(s) => AtEntry(t)
  BY <1>3 DEF AtEntry
<1> QED BY <1>2, <1>4, <1>5, <1>6, <1>7, <1>8 DEF Sound

LEMMA RecoversStarts ==
  ASSUME NEW s, NEW declared, NEW b \in Nat \ {0}, Sound(s, declared, b - 1), ~ s.comparison.known
  PROVE  \E t, d : Recovers(b, <<>>, t, d) /\ t[1] = s /\ d[1] = declared
<1>1. Sound(s, declared, b)
  BY DEF Sound, StoredUpTo
<1> DEFINE t == [k \in {1} |-> s]
           d == [k \in {1} |-> declared]
<1>2. t[1] = s /\ d[1] = declared
  OBVIOUS
<1> HIDE DEF t, d
<1>3. Recovers(b, <<>>, t, d)
  BY <1>1, <1>2 DEF Recovers, Sound
<1> QED BY <1>2, <1>3

\* The next instruction of a block is recovered.
Extends(b, done, t, d, i, s, declared, out, more) ==
  /\ Recovers(b, done, t, d)
  /\ i = program[b][Len(done) + 1]
  /\ s = t[Len(done) + 1] /\ declared = d[Len(done) + 1] /\ MayRecover(s, declared, b, i)
  /\ out = Recover(s, declared, b, i)
  /\ more = Append(done, [statement |-> out.statement, lapses |-> out.lapses])

LEMMA RecoversExtends ==
  ASSUME NEW b, NEW S, NEW done \in Seq(S), NEW t, NEW d, NEW i, NEW s, NEW declared, NEW out, NEW more,
         Extends(b, done, t, d, i, s, declared, out, more)
  PROVE  /\ Len(more) = Len(done) + 1
         /\ \E u, e : /\ Recovers(b, more, u, e) /\ u[1] = t[1] /\ e[1] = d[1]
                      /\ u[Len(more) + 1] = FlagsWritten(out.state, i) /\ e[Len(more) + 1] = out.variables
<1>0. /\ Recovers(b, done, t, d)
      /\ i = program[b][Len(done) + 1]
      /\ s = t[Len(done) + 1] /\ declared = d[Len(done) + 1] /\ MayRecover(s, declared, b, i)
      /\ out = Recover(s, declared, b, i)
      /\ more = Append(done, [statement |-> out.statement, lapses |-> out.lapses])
  BY DEF Extends
<1> DEFINE entry == [statement |-> out.statement, lapses |-> out.lapses]
           n == Len(done)
           u == [k \in 1 .. n + 2 |-> IF k = n + 2 THEN FlagsWritten(out.state, i) ELSE t[k]]
           e == [k \in 1 .. n + 2 |-> IF k = n + 2 THEN out.variables ELSE d[k]]
<1>1. entry.statement = out.statement /\ entry.lapses = out.lapses
  OBVIOUS
<1>2. PICK x : x = entry
  OBVIOUS
<1>3. n \in Nat /\ Len(more) = n + 1 /\ more[n + 1] = x /\ \A k \in 1 .. n : more[k] = done[k]
  <2> HIDE DEF entry
  <2>2. \A T : T = S \cup {x} => done \in Seq(T) /\ x \in T
    OBVIOUS
  <2>3. PICK T : done \in Seq(T) /\ x \in T
    BY <2>2
  <2>4. more = Append(done, x)
    BY <1>0, <1>2 DEF entry
  <2> QED BY <2>3, <2>4
<1>4. /\ \A k \in 1 .. n + 1 : u[k] = t[k] /\ e[k] = d[k]
      /\ u[n + 2] = FlagsWritten(out.state, i) /\ e[n + 2] = out.variables
  <2>1. \A k \in 1 .. n + 1 : k \in 1 .. n + 2 /\ k # n + 2
    BY <1>3
  <2>2. n + 2 \in 1 .. n + 2
    BY <1>3
  <2> QED BY <2>1, <2>2
<1> HIDE DEF u, e, entry
<1>5. Sound(FlagsWritten(out.state, i), out.variables, b)
  <2>1. Steps(s, declared, b, i)
    BY <1>0, RecoverSteps
  <2>2. Sound(out.state, out.variables, b)
    BY <1>0, <2>1 DEF Steps, Recovered
  <2> QED BY <2>2, FlagsWrittenExact
<1>6. ASSUME NEW k \in 1 .. n + 1 PROVE RecoversOne(b, k, more[k], u, e)
  <2>1. CASE k = n + 1
    <3>1. u[k] = s /\ e[k] = declared /\ k + 1 = n + 2 /\ program[b][k] = i
      BY <1>0, <1>3, <1>4, <2>1
    <3>2. Sound(s, declared, b)
      BY <1>0 DEF MayRecover
    <3> QED BY <1>0, <1>1, <1>2, <1>3, <1>4, <2>1, <3>1, <3>2 DEF RecoversOne, entry
  <2>2. CASE k # n + 1
    <3>1. k \in 1 .. n /\ k + 1 \in 1 .. n + 1
      BY <1>3, <2>2
    <3>2. RecoversOne(b, k, done[k], t, d)
      BY <1>0, <3>1 DEF Recovers
    <3> QED BY <1>3, <1>4, <3>1, <3>2 DEF RecoversOne
  <2> QED BY <2>1, <2>2
<1>7. u[1] = t[1] /\ e[1] = d[1] /\ Len(more) + 1 = n + 2
  BY <1>3, <1>4
<1>8. Recovers(b, more, u, e)
  BY <1>0, <1>3, <1>4, <1>5, <1>6, <1>7 DEF Recovers
<1> QED BY <1>3, <1>4, <1>7, <1>8

LEMMA SameRecovers ==
  ASSUME SameVariables
  PROVE  \A b, done, t, d : Recovers(b, done, t, d)' <=> Recovers(b, done, t, d)
<1>1. /\ UNCHANGED program
      /\ \A s, declared, b : Sound(s, declared, b)' <=> Sound(s, declared, b)
      /\ \A s, declared, b, i : Recover(s, declared, b, i)' = Recover(s, declared, b, i)
  BY SameExact, SameRecovery DEF SameVariables
<1>2. \A b, k, entry, t, d : RecoversOne(b, k, entry, t, d)' <=> RecoversOne(b, k, entry, t, d)
  BY <1>1 DEF RecoversOne
<1> QED BY <1>1, <1>2 DEF Recovers, StoredUpTo

\* What a block was recovered through leads from its entry to the state there is now.
HistoryOf(b) ==
  \E t, d : /\ Recovers(b, blocks[b], t, d)
            /\ b = 1 => AtEntry(t[1])
            /\ b = Len(blocks) => t[Len(blocks[b]) + 1] = state /\ d[Len(blocks[b]) + 1] = variables

HistoryInv ==
  /\ \A b \in DOMAIN program : \A k \in DOMAIN program[b] : HasVariable(Lift(program[b][k], abi).destination)
  /\ Initialised(state, variables)
  /\ Sound(state, variables, Len(blocks))
  /\ blocks = <<>> => AtEntry(state)
  /\ (\E S : blocks \in Seq(S)) /\ Len(blocks) <= Len(program)
  /\ \A b \in 1 .. Len(blocks) :
       /\ (\E S : blocks[b] \in Seq(S)) /\ Len(blocks[b]) \in 1 .. Len(program[b])
       /\ b < Len(blocks) => Len(blocks[b]) = Len(program[b])
       /\ HistoryOf(b)

StageInv ==
  /\ program \in Programs
  /\ stage \in {"abi", "prepare", "recover", "execute", "stopped"}
  /\ stage \in {"abi", "prepare"} => blocks = <<>>
  /\ stage # "abi" => AbiExact
  /\ stage \notin {"abi", "prepare"} => HistoryInv

\* What has been recovered of the block that the recovery is at, and its next state.
Begun == IF AtBlock \in DOMAIN blocks THEN blocks[AtBlock] ELSE <<>>
Going == IF Begun = <<>> THEN Fresh(state) ELSE state

LEMMA ProgramBlocks ==
  ASSUME program \in Programs
  PROVE  /\ Len(program) \in Nat \ {0} /\ DOMAIN program = 1 .. Len(program)
         /\ \A b \in DOMAIN program :
              /\ Len(program[b]) \in Nat \ {0} /\ DOMAIN program[b] = 1 .. Len(program[b])
              /\ \A k \in 1 .. Len(program[b]) :
                   program[b][k] \in DecodedInstructions /\ MemoryOperands(program[b][k]) \subseteq Offsets
<1>1. program \in Seq(Seq(DecodedInstructions)) /\ program # <<>> /\ \A b \in DOMAIN program : program[b] # <<>>
  BY ProgramsAssumption
<1>2. Len(program) \in Nat \ {0} /\ DOMAIN program = 1 .. Len(program)
  BY <1>1
<1>3. ASSUME NEW b \in DOMAIN program
      PROVE  /\ Len(program[b]) \in Nat \ {0} /\ DOMAIN program[b] = 1 .. Len(program[b])
             /\ \A k \in 1 .. Len(program[b]) : program[b][k] \in DecodedInstructions
  <2>1. program[b] \in Seq(DecodedInstructions) /\ program[b] # <<>>
    BY <1>1, <1>2
  <2> QED BY <2>1
<1>4. \A b \in DOMAIN program : \A k \in DOMAIN program[b] : MemoryOperands(program[b][k]) \subseteq Offsets
  BY OffsetsAssumption
<1> QED BY <1>2, <1>3, <1>4

LEMMA RecoveryGoes ==
  ASSUME StageInv, HistoryInv, AtBlock \in DOMAIN program
  PROVE  /\ AtBlock \in 1 .. Len(program)
         /\ (\E S : Begun \in Seq(S)) /\ Len(Begun) \in Nat /\ Len(Begun) + 1 \in 1 .. Len(program[AtBlock])
         /\ \A c \in 1 .. AtBlock - 1 : c \in 1 .. Len(blocks) /\ Len(blocks[c]) = Len(program[c])
         /\ IF Begun = <<>> THEN AtBlock = Len(blocks) + 1 ELSE AtBlock = Len(blocks) /\ AtBlock \in DOMAIN blocks
         /\ \E t, d : /\ Recovers(AtBlock, Begun, t, d)
                      /\ AtBlock = 1 => AtEntry(t[1])
                      /\ t[Len(Begun) + 1] = Going /\ d[Len(Begun) + 1] = variables
<1>1. /\ Len(program) \in Nat \ {0} /\ DOMAIN program = 1 .. Len(program)
      /\ \A b \in DOMAIN program : Len(program[b]) \in Nat \ {0}
  BY ProgramBlocks DEF StageInv
<1>2. /\ (\E S : blocks \in Seq(S)) /\ Len(blocks) <= Len(program)
      /\ \A b \in 1 .. Len(blocks) :
           /\ (\E S : blocks[b] \in Seq(S)) /\ Len(blocks[b]) \in 1 .. Len(program[b])
           /\ b < Len(blocks) => Len(blocks[b]) = Len(program[b])
           /\ HistoryOf(b)
      /\ Sound(state, variables, Len(blocks))
      /\ blocks = <<>> => AtEntry(state)
  BY DEF HistoryInv
<1>3. Len(blocks) \in Nat /\ DOMAIN blocks = 1 .. Len(blocks) /\ (Len(blocks) = 0 <=> blocks = <<>>)
  BY <1>2
<1> DEFINE n == Len(blocks)
<1>4. AtBlock \in 1 .. Len(program)
  BY <1>1
<1>5. CASE blocks # <<>> /\ Len(blocks[n]) < Len(program[n])
  <2>1. n \in 1 .. n /\ AtBlock = n
    BY <1>3, <1>5 DEF AtBlock
  <2>2. Begun = blocks[n]
    BY <1>3, <2>1 DEF Begun
  <2>3. (\E S : Begun \in Seq(S)) /\ Len(Begun) \in 1 .. Len(program[n]) /\ HistoryOf(n) /\ Len(Begun) < Len(program[n])
    BY <1>2, <1>5, <2>1, <2>2
  <2>4. Begun # <<>> /\ Going = state
    BY <2>3 DEF Going
  <2>5. Len(Begun) \in Nat /\ Len(Begun) + 1 \in 1 .. Len(program[n])
    <3>1. Len(program[n]) \in Nat
      BY <1>1, <1>4, <2>1
    <3> QED BY <2>3, <3>1
  <2>6. \A c \in 1 .. n - 1 : c \in 1 .. n /\ Len(blocks[c]) = Len(program[c])
    BY <1>2, <1>3
  <2>7. PICK t, d : /\ Recovers(n, Begun, t, d) /\ (n = 1 => AtEntry(t[1]))
                    /\ t[Len(Begun) + 1] = state /\ d[Len(Begun) + 1] = variables
    BY <2>2, <2>3 DEF HistoryOf
  <2>8. \E u, e : /\ Recovers(AtBlock, Begun, u, e)
                  /\ AtBlock = 1 => AtEntry(u[1])
                  /\ u[Len(Begun) + 1] = Going /\ e[Len(Begun) + 1] = variables
    BY <2>1, <2>4, <2>7
  <2> QED BY <1>3, <1>4, <2>1, <2>3, <2>4, <2>5, <2>6, <2>8
<1>6. CASE ~ (blocks # <<>> /\ Len(blocks[n]) < Len(program[n]))
  <2>1. AtBlock = n + 1
    BY <1>6 DEF AtBlock
  <2>2. Begun = <<>> /\ Going = Fresh(state)
    <3>1. n + 1 \notin 1 .. n
      BY <1>3
    <3> QED BY <1>3, <2>1, <3>1 DEF Begun, Going
  <2>3. Len(Begun) = 0 /\ Begun \in Seq({})
    BY <2>2
  <2>4. Len(Begun) + 1 \in 1 .. Len(program[AtBlock])
    <3>1. Len(program[AtBlock]) \in Nat \ {0}
      BY <1>1
    <3> QED BY <2>3, <3>1
  <2>5. ASSUME NEW c \in 1 .. AtBlock - 1 PROVE c \in 1 .. n /\ Len(blocks[c]) = Len(program[c])
    <3>1. c \in 1 .. n
      BY <1>3, <2>1
    <3>2. CASE c < n
      BY <1>2, <3>1, <3>2
    <3>3. CASE ~ (c < n)
      <4>1. c = n /\ blocks # <<>>
        <5>1. Len(blocks) \in Nat /\ c \in 1 .. Len(blocks) /\ ~ (c < Len(blocks))
          BY <1>3, <3>1, <3>3
        <5>2. c = Len(blocks) /\ Len(blocks) # 0
          BY ONLY <5>1
        <5> QED BY <1>3, <5>2
      <4>2. ~ (Len(blocks[n]) < Len(program[n])) /\ Len(blocks[n]) \in 1 .. Len(program[n])
        BY <1>2, <1>6, <3>1, <4>1
      <4>3. Len(program[n]) \in Nat
        BY <1>1, <1>2, <3>1, <4>1, <1>3
      <4> QED BY <3>1, <4>1, <4>2, <4>3
    <3> QED BY <3>2, <3>3
  <2>6. PICK s : s = Fresh(state)
    OBVIOUS
  <2>7. Sound(s, variables, n) /\ ~ s.comparison.known /\ (AtEntry(state) => AtEntry(s))
    BY <1>2, <2>6, FreshExact
  <2>8. PICK b \in Nat \ {0} : b = AtBlock /\ b - 1 = n
    BY <1>3, <2>1
  <2>9. PICK t, d : Recovers(b, <<>>, t, d) /\ t[1] = s /\ d[1] = variables
    BY <2>7, <2>8, RecoversStarts
  <2>10. b = 1 => AtEntry(s)
    BY <1>2, <1>3, <2>7, <2>8
  <2>11. \E u, e : /\ Recovers(AtBlock, Begun, u, e)
                   /\ AtBlock = 1 => AtEntry(u[1])
                   /\ u[Len(Begun) + 1] = Going /\ e[Len(Begun) + 1] = variables
    BY <2>2, <2>3, <2>6, <2>8, <2>9, <2>10
  <2> QED BY <1>4, <2>1, <2>2, <2>3, <2>4, <2>5, <2>11
<1> QED BY <1>5, <1>6

LEMMA InitialisedKept ==
  ASSUME NEW s, NEW declared, Initialised(s, declared), StateExact(s, declared),
         NEW t, NEW more, MayDeclare(declared, more),
         Materialize =>
           /\ DOMAIN t.registerVariables = DOMAIN s.registerVariables
           /\ \A r \in DOMAIN t.registerVariables : t.registerVariables[r] = s.registerVariables[r]
  PROVE  Initialised(t, more)
<1>1. CASE Materialize
  <2>1. more = declared
    BY <1>1 DEF MayDeclare
  <2> QED BY <1>1, <2>1 DEF Initialised, Initialises
<1>2. CASE ~ Materialize
  <2>1. \A k \in 1 .. Len(declared) : declared[k].initializer = <<>>
    BY <1>2 DEF Initialised
  <2>2. CASE more = declared
    BY <1>2, <2>1, <2>2 DEF Initialised
  <2>3. CASE more # declared
    <3>1. PICK name : more = Declare(declared, name, <<>>)
      BY <2>3 DEF MayDeclare
    <3>2. PICK x : x = [name |-> name, initializer |-> <<>>]
      OBVIOUS
    <3>3. x.initializer = <<>> /\ more = Append(declared, x)
      BY <3>1, <3>2 DEF Declare
    <3>4. declared \in Seq(VariableDeclarations)
      BY DEF StateExact
    <3>5. \A T : T = VariableDeclarations \cup {x} => declared \in Seq(T) /\ x \in T
      BY <3>4
    <3>6. PICK T : declared \in Seq(T) /\ x \in T
      BY <3>5
    <3>7. /\ Len(more) = Len(declared) + 1 /\ Len(declared) \in Nat
          /\ \A k \in 1 .. Len(declared) : more[k] = declared[k]
          /\ more[Len(declared) + 1] = x
      BY <3>3, <3>6
    <3>8. ASSUME NEW k \in 1 .. Len(more) PROVE more[k].initializer = <<>>
      <4>1. CASE k = Len(declared) + 1
        BY <3>3, <3>7, <4>1
      <4>2. CASE k # Len(declared) + 1
        <5>1. k \in 1 .. Len(declared)
          BY <3>7, <4>2
        <5> QED BY <2>1, <3>7, <5>1
      <4> QED BY <4>1, <4>2
    <3> QED BY <1>2, <3>8 DEF Initialised
  <2> QED BY <2>2, <2>3
<1> QED BY <1>1, <1>2

\* What a step of the recovery adds.
LEMMA RecoveryAdds ==
  ASSUME StageInv, HistoryInv, AbiExact, RecoverInstruction
  PROVE  /\ AtBlock \in 1 .. Len(program)
         /\ (\E S : blocks' \in Seq(S)) /\ Len(blocks') = AtBlock
         /\ \A c \in 1 .. AtBlock - 1 : c \in 1 .. Len(blocks) /\ blocks'[c] = blocks[c] /\ Len(blocks[c]) = Len(program[c])
         /\ (\E S : blocks'[AtBlock] \in Seq(S)) /\ Len(blocks'[AtBlock]) \in 1 .. Len(program[AtBlock])
         /\ \E t, d : /\ Recovers(AtBlock, blocks'[AtBlock], t, d)
                      /\ AtBlock = 1 => AtEntry(t[1])
                      /\ t[Len(blocks'[AtBlock]) + 1] = state' /\ d[Len(blocks'[AtBlock]) + 1] = variables'
         /\ Sound(state', variables', AtBlock)
         /\ MayDeclare(variables, variables')
<1> DEFINE b == AtBlock
           i == program[b][Len(Begun) + 1]
           out == Recover(Going, variables, b, i)
           entry == [statement |-> out.statement, lapses |-> out.lapses]
           done == Append(Begun, entry)
<1>1. /\ stage = "recover" /\ b \in DOMAIN program /\ UNCHANGED <<program, stage, abi>>
      /\ state' = FlagsWritten(out.state, i)
      /\ variables' = out.variables
      /\ blocks' = IF Begun = <<>> THEN Append(blocks, done) ELSE [blocks EXCEPT ![b] = done]
  BY DEF RecoverInstruction, Begun, Going, Fresh
<1>2. /\ b \in 1 .. Len(program)
      /\ (\E S : Begun \in Seq(S)) /\ Len(Begun) \in Nat /\ Len(Begun) + 1 \in 1 .. Len(program[b])
      /\ \A c \in 1 .. b - 1 : c \in 1 .. Len(blocks) /\ Len(blocks[c]) = Len(program[c])
      /\ IF Begun = <<>> THEN b = Len(blocks) + 1 ELSE b = Len(blocks) /\ b \in DOMAIN blocks
  BY <1>1, RecoveryGoes
<1>3. PICK t, d : /\ Recovers(b, Begun, t, d)
                  /\ b = 1 => AtEntry(t[1])
                  /\ t[Len(Begun) + 1] = Going /\ d[Len(Begun) + 1] = variables
  BY <1>1, RecoveryGoes
<1>4. /\ DOMAIN program = 1 .. Len(program) /\ DOMAIN program[b] = 1 .. Len(program[b])
      /\ i \in DecodedInstructions /\ MemoryOperands(i) \subseteq Offsets
  <2>1. program \in Programs
    BY DEF StageInv
  <2> QED BY <1>1, <1>2, <2>1, ProgramBlocks
<1>5. MayRecover(Going, variables, b, i)
  <2>1. Sound(Going, variables, b)
    BY <1>3 DEF Recovers
  <2>2. b \in Nat \ {0}
    BY <1>2
  <2>3. HasVariable(Lift(i, abi).destination)
    BY <1>1, <1>2, <1>4 DEF HistoryInv
  <2> QED BY <1>4, <2>1, <2>2, <2>3 DEF MayRecover
<1>6. /\ Len(done) = Len(Begun) + 1
      /\ \E u, e : /\ Recovers(b, done, u, e) /\ u[1] = t[1] /\ e[1] = d[1]
                   /\ u[Len(done) + 1] = FlagsWritten(out.state, i) /\ e[Len(done) + 1] = out.variables
  <2>1. PICK begun, s, declared, x, o, more :
          begun = Begun /\ s = Going /\ declared = variables /\ x = i /\ o = Recover(s, declared, b, x)
            /\ more = Append(begun, [statement |-> o.statement, lapses |-> o.lapses])
    OBVIOUS
  <2>2. done = more /\ out = o
    BY <2>1
  <2> HIDE DEF done, out, entry
  <2>5. PICK S : begun \in Seq(S)
    BY <1>2, <2>1
  <2>3. Extends(b, begun, t, d, x, s, declared, o, more)
    BY <1>3, <1>5, <2>1 DEF Extends
  <2>4. /\ Len(more) = Len(begun) + 1
        /\ \E u, e : /\ Recovers(b, more, u, e) /\ u[1] = t[1] /\ e[1] = d[1]
                     /\ u[Len(more) + 1] = FlagsWritten(o.state, x) /\ e[Len(more) + 1] = o.variables
    BY ONLY <2>3, <2>5, RecoversExtends
  <2> QED BY <2>1, <2>2, <2>4
<1>7. PICK u, e : /\ Recovers(b, done, u, e) /\ (b = 1 => AtEntry(u[1]))
                  /\ u[Len(done) + 1] = state' /\ e[Len(done) + 1] = variables'
  BY <1>1, <1>3, <1>6
<1>8. /\ (\E S : blocks' \in Seq(S)) /\ Len(blocks') = b /\ blocks'[b] = done
      /\ \A c \in 1 .. b - 1 : blocks'[c] = blocks[c]
  <2> HIDE DEF done
  <2>1. PICK S : blocks \in Seq(S)
    BY DEF HistoryInv
  <2>2. \A T : T = S \cup {done} => blocks \in Seq(T) /\ done \in T
    BY <2>1
  <2>3. PICK T : blocks \in Seq(T) /\ done \in T
    BY <2>2
  <2>4. CASE Begun = <<>>
    <3>1. blocks' = Append(blocks, done) /\ b = Len(blocks) + 1
      BY <1>1, <1>2, <2>4
    <3>2. Append(blocks, done) \in Seq(T) /\ Len(Append(blocks, done)) = Len(blocks) + 1 /\ Len(blocks) \in Nat
            /\ Append(blocks, done)[Len(blocks) + 1] = done
            /\ \A c \in 1 .. Len(blocks) : Append(blocks, done)[c] = blocks[c]
      BY <2>3
    <3> HIDE DEF b
    <3>3. \A c \in 1 .. b - 1 : c \in 1 .. Len(blocks)
      BY <3>1, <3>2
    <3> QED BY <3>1, <3>2, <3>3
  <2>5. CASE Begun # <<>>
    <3>1. blocks' = [blocks EXCEPT ![b] = done] /\ b = Len(blocks) /\ b \in 1 .. Len(blocks)
      BY <1>1, <1>2, <2>3, <2>5
    <3> HIDE DEF b
    <3>2. /\ [blocks EXCEPT ![b] = done] \in Seq(T) /\ Len([blocks EXCEPT ![b] = done]) = Len(blocks)
          /\ [blocks EXCEPT ![b] = done][b] = done
          /\ \A c \in 1 .. b - 1 : [blocks EXCEPT ![b] = done][c] = blocks[c]
      BY <2>3, <3>1
    <3> QED BY <3>1, <3>2
  <2> QED BY <2>4, <2>5
<1>9. (\E S : done \in Seq(S))
  <2> HIDE DEF entry
  <2>1. PICK S : Begun \in Seq(S)
    BY <1>2
  <2>2. \A T : T = S \cup {entry} => Begun \in Seq(T) /\ entry \in T
    BY <2>1
  <2>3. PICK T : Begun \in Seq(T) /\ entry \in T
    BY <2>2
  <2>4. done \in Seq(T)
    BY <2>3
  <2> QED BY <2>4
<1>10. MayDeclare(variables, variables')
  <2>1. Steps(Going, variables, b, i)
    BY <1>5, RecoverSteps
  <2> QED BY <1>1, <2>1 DEF Steps, Recovered
<1>11. Sound(state', variables', b)
  BY <1>7 DEF Recovers
<1> HIDE DEF done
<1> QED BY <1>2, <1>6, <1>7, <1>8, <1>9, <1>10, <1>11

LEMMA RecoverHistory ==
  ASSUME StageInv, HistoryInv, AbiExact, RecoverInstruction
  PROVE  HistoryInv'
<1> DEFINE b == AtBlock
<1>1. UNCHANGED <<program, abi>> /\ (Materialize' <=> Materialize)
  BY DEF RecoverInstruction, Materialize
<1>2. /\ b \in 1 .. Len(program)
      /\ (\E S : blocks' \in Seq(S)) /\ Len(blocks') = b
      /\ \A c \in 1 .. b - 1 : c \in 1 .. Len(blocks) /\ blocks'[c] = blocks[c] /\ Len(blocks[c]) = Len(program[c])
      /\ (\E S : blocks'[b] \in Seq(S)) /\ Len(blocks'[b]) \in 1 .. Len(program[b])
      /\ \E t, d : /\ Recovers(b, blocks'[b], t, d)
                   /\ b = 1 => AtEntry(t[1])
                   /\ t[Len(blocks'[b]) + 1] = state' /\ d[Len(blocks'[b]) + 1] = variables'
      /\ Sound(state', variables', b)
      /\ MayDeclare(variables, variables')
  BY RecoveryAdds
<1>3. SameVariables
  <2>1. VariablesExact(state')
    BY <1>2 DEF Sound
  <2> QED BY <1>1, <2>1 DEF SameVariables, VariablesExact
<1>4. /\ \A s, declared, c : Sound(s, declared, c)' <=> Sound(s, declared, c)
      /\ \A v : HasVariable(v)' <=> HasVariable(v)
      /\ \A s : AtEntry(s)' <=> AtEntry(s)
      /\ \A s, declared : Initialised(s, declared)' <=> Initialised(s, declared)
      /\ \A c, done, t, d : Recovers(c, done, t, d)' <=> Recovers(c, done, t, d)
  BY <1>3, SameExact, SameRecovers
<1>5. /\ \A c \in DOMAIN program : \A k \in DOMAIN program[c] : HasVariable(Lift(program[c][k], abi).destination)
      /\ Initialised(state, variables) /\ Sound(state, variables, Len(blocks))
      /\ \A c \in 1 .. Len(blocks) :
           /\ (\E S : blocks[c] \in Seq(S)) /\ Len(blocks[c]) \in 1 .. Len(program[c])
           /\ HistoryOf(c)
  BY DEF HistoryInv
<1>6. \A c \in DOMAIN program : \A k \in DOMAIN program[c] : HasVariable(Lift(program[c][k], abi).destination)'
  BY <1>1, <1>3, <1>5 DEF HasVariable, SameVariables
<1>7. Initialised(state', variables')
  <2>1. StateExact(state, variables)
    BY <1>5 DEF Sound
  <2>3. Materialize =>
           /\ DOMAIN state'.registerVariables = DOMAIN state.registerVariables
           /\ \A r \in DOMAIN state'.registerVariables : state'.registerVariables[r] = state.registerVariables[r]
    BY <1>3 DEF SameVariables
  <2> QED BY <1>2, <1>5, <2>1, <2>3, InitialisedKept
<1>8. Initialised(state, variables)'
  <2>1. PICK s, declared : s = state' /\ declared = variables'
    OBVIOUS
  <2>2. Initialised(s, declared)'
    BY <1>4, <1>7, <2>1
  <2> QED BY <2>1, <2>2 DEF Initialised
<1>9. Sound(state, variables, Len(blocks))'
  <2>1. PICK s, declared, c : s = state' /\ declared = variables' /\ c = b
    OBVIOUS
  <2>2. Sound(s, declared, c)'
    BY <1>2, <1>4, <2>1
  <2> QED BY <1>2, <2>1, <2>2 DEF Sound, StateExact, VariablesExact, StoredUpTo
<1>10. ASSUME NEW c \in 1 .. b
       PROVE  /\ (\E S : blocks'[c] \in Seq(S)) /\ Len(blocks'[c]) \in 1 .. Len(program[c])
              /\ c < b => Len(blocks'[c]) = Len(program[c])
              /\ HistoryOf(c)'
  <2>1. CASE c = b
    <3>1. PICK t, d : /\ Recovers(b, blocks'[b], t, d)
                      /\ b = 1 => AtEntry(t[1])
                      /\ t[Len(blocks'[b]) + 1] = state' /\ d[Len(blocks'[b]) + 1] = variables'
      BY <1>2
    <3>2. PICK done : done = blocks'[b]
      OBVIOUS
    <3>3. Recovers(c, done, t, d)'
      BY <1>4, <2>1, <3>1, <3>2
    <3>4. c = 1 => AtEntry(t[1])'
      BY <1>4, <2>1, <3>1
    <3>5. HistoryOf(c)'
      BY <2>1, <3>1, <3>2, <3>3, <3>4 DEF HistoryOf
    <3> QED BY <1>2, <2>1, <3>5
  <2>2. CASE c # b
    <3>1. c \in 1 .. b - 1 /\ c \in 1 .. Len(blocks) /\ c < b
      BY <1>2, <2>2
    <3>2. blocks'[c] = blocks[c] /\ Len(blocks[c]) = Len(program[c])
      BY <1>2, <3>1
    <3>3. PICK t, d : Recovers(c, blocks[c], t, d) /\ (c = 1 => AtEntry(t[1]))
      BY <1>5, <3>1 DEF HistoryOf
    <3>4. PICK done : done = blocks[c]
      OBVIOUS
    <3>5. Recovers(c, done, t, d)' /\ (c = 1 => AtEntry(t[1])')
      BY <1>4, <3>3, <3>4
    <3>6. HistoryOf(c)'
      BY <1>2, <2>2, <3>2, <3>4, <3>5 DEF HistoryOf
    <3> QED BY <1>5, <3>1, <3>2, <3>6
  <2> QED BY <2>1, <2>2
<1>11. blocks' # <<>> /\ Len(blocks') <= Len(program)
  <2>1. Len(blocks') # 0
    BY <1>2
  <2>2. Len(<<>>) = 0
    OBVIOUS
  <2>3. Len(program) \in Nat
    BY ProgramBlocks DEF StageInv
  <2> QED BY <1>2, <2>1, <2>2, <2>3
<1> HIDE DEF b
<1> QED BY <1>1, <1>2, <1>6, <1>8, <1>9, <1>10, <1>11 DEF HistoryInv

LEMMA AnalyzedExact ==
  ASSUME NEW instructions, NEW a, a = AbiAnalysis(instructions)
  PROVE  /\ a.registers \subseteq ToSet(ParameterRegisters)
         /\ \A d \in a.stackVariables : d < 0
         /\ \A d \in a.stackParameters : d >= 16
BY DEF AbiAnalysis

LEMMA PrepareHistory ==
  ASSUME program \in Programs, AbiExact, blocks = <<>>, Prepare
  PROVE  HistoryInv'
<1>1. UNCHANGED <<program, abi, blocks>> /\ (Materialize' <=> Materialize)
      /\ state' = Ready.state /\ variables' = Ready.variables
  BY DEF Prepare, Ready, Materialize
<1>2. PICK s, declared : s = state' /\ declared = variables'
  OBVIOUS
<1>3. /\ StateExact(s, declared) /\ AtEntry(s) /\ DOMAIN s.stackValues = {}
      /\ Initialised(s, declared)
      /\ Materialize => \A b \in DOMAIN program : \A k \in DOMAIN program[b] : HasPlace(Ready, program[b][k])
  BY <1>1, <1>2, ReadyExact
<1>4. Sound(state, variables, Len(blocks))'
  <2>1. StateExact(s, declared)'
    BY <1>1, <1>3 DEF StateExact
  <2>2. VariablesExact(state)'
    BY <1>1, <1>2, <1>3 DEF VariablesExact, AtEntry
  <2>3. StoredUpTo(state', Len(blocks'))
    BY <1>2, <1>3 DEF StoredUpTo
  <2> QED BY <1>2, <2>1, <2>2, <2>3 DEF Sound, StateExact, StoredUpTo
<1>5. Initialised(state, variables)'
  BY <1>1, <1>2, <1>3 DEF Initialised, Initialises, Initializer
<1>6. AtEntry(state)'
  BY <1>1, <1>2, <1>3 DEF AtEntry
<1>7. ASSUME NEW b \in DOMAIN program, NEW k \in DOMAIN program[b]
      PROVE  HasVariable(Lift(program[b][k], abi).destination)'
  <2>1. Materialize => HasPlace(Ready, program[b][k])
    BY <1>3
  <2>2. NoRegister \notin Registers
    BY RegistersAssumption
  <2> QED BY <1>1, <2>1, <2>2 DEF HasPlace, HasVariable
<1>8. /\ blocks' = <<>> /\ Len(blocks') = 0 /\ blocks' \in Seq({})
      /\ Len(program') \in Nat
  BY <1>1, ProgramBlocks
<1>9. Len(blocks') <= Len(program')
  BY <1>8
<1>10. \A b : b \notin 1 .. Len(blocks')
  BY <1>8
<1> QED BY <1>1, <1>4, <1>5, <1>6, <1>7, <1>8, <1>9, <1>10 DEF HistoryInv

LEMMA SameHistory ==
  ASSUME HistoryInv, UNCHANGED <<program, abi, state, variables, blocks>>
  PROVE  HistoryInv'
<1>1. SameVariables
  BY DEF SameVariables
<1>2. /\ \A s, declared, c : Sound(s, declared, c)' <=> Sound(s, declared, c)
      /\ \A v : HasVariable(v)' <=> HasVariable(v)
      /\ \A s : AtEntry(s)' <=> AtEntry(s)
      /\ \A s, declared : Initialised(s, declared)' <=> Initialised(s, declared)
      /\ \A c, done, t, d : Recovers(c, done, t, d)' <=> Recovers(c, done, t, d)
  BY <1>1, SameExact, SameRecovers
<1>3. PICK s, declared, n : s = state /\ declared = variables /\ n = Len(blocks)
  OBVIOUS
<1>4. Initialised(s, declared)' /\ Sound(s, declared, n)' /\ (blocks = <<>> => AtEntry(s)')
  BY <1>2, <1>3 DEF HistoryInv
<1>5. Initialised(state, variables)' /\ Sound(state, variables, Len(blocks))'
      /\ (blocks' = <<>> => AtEntry(state)')
  <2>1. s = state' /\ declared = variables' /\ n = Len(blocks')
    BY <1>3
  <2> QED BY <1>4, <2>1 DEF Initialised, Sound, StateExact, VariablesExact, StoredUpTo, AtEntry
<1>6. \A b : HistoryOf(b) => HistoryOf(b)'
  <2> SUFFICES ASSUME NEW b, HistoryOf(b) PROVE HistoryOf(b)'
    OBVIOUS
  <2>1. PICK t, d : /\ Recovers(b, blocks[b], t, d)
                    /\ b = 1 => AtEntry(t[1])
                    /\ b = Len(blocks) => t[Len(blocks[b]) + 1] = state /\ d[Len(blocks[b]) + 1] = variables
    BY DEF HistoryOf
  <2>2. PICK done : done = blocks[b]
    OBVIOUS
  <2>3. Recovers(b, done, t, d)' /\ (b = 1 => AtEntry(t[1])')
    BY <1>2, <2>1, <2>2
  <2> QED BY <2>1, <2>2, <2>3 DEF HistoryOf
<1>7. \A b \in DOMAIN program : \A k \in DOMAIN program[b] : HasVariable(Lift(program[b][k], abi).destination)'
  BY <1>1 DEF HistoryInv, HasVariable, SameVariables, Materialize
<1> QED BY <1>5, <1>6, <1>7 DEF HistoryInv

LEMMA InitStage == ExecutionInit => StageInv
BY DEF ExecutionInit, DataFlowInit, StageInv

LEMMA StageStep == StageInv /\ [ExecutionNext]_executionVars => StageInv'
<1> SUFFICES ASSUME StageInv, [ExecutionNext]_executionVars PROVE StageInv'
  OBVIOUS
<1>1. CASE AnalyzeAbi
  <2>1. stage = "abi" /\ stage' = "prepare" /\ UNCHANGED <<program, blocks>> /\ abi' = AbiAnalysis(Instructions(program))
    BY <1>1 DEF AnalyzeAbi
  <2>2. AbiExact'
    BY <2>1, AnalyzedExact DEF AbiExact
  <2> QED BY <2>1, <2>2 DEF StageInv
<1>2. CASE Prepare
  <2>1. stage = "prepare" /\ stage' = "recover" /\ UNCHANGED <<program, abi, blocks>>
    BY <1>2 DEF Prepare
  <2>2. program \in Programs /\ AbiExact /\ blocks = <<>>
    BY <2>1 DEF StageInv
  <2>3. HistoryInv' /\ AbiExact'
    BY <1>2, <2>1, <2>2, PrepareHistory DEF AbiExact
  <2> QED BY <2>1, <2>2, <2>3 DEF StageInv
<1>3. CASE RecoverInstruction
  <2>1. stage = "recover" /\ stage' = "recover" /\ UNCHANGED <<program, abi>>
    BY <1>3 DEF RecoverInstruction
  <2>2. program \in Programs /\ AbiExact /\ HistoryInv
    BY <2>1 DEF StageInv
  <2>3. HistoryInv' /\ AbiExact'
    BY <1>3, <2>1, <2>2, RecoverHistory DEF AbiExact
  <2> QED BY <2>1, <2>2, <2>3 DEF StageInv
<1>4. CASE Start \/ Execute
  <2>1. /\ stage \in {"recover", "execute"} /\ stage' \in {"execute", "stopped"}
        /\ UNCHANGED <<program, abi, state, variables, blocks>>
    BY <1>4 DEF Start, Execute
  <2>2. program \in Programs /\ AbiExact /\ HistoryInv
    BY <2>1 DEF StageInv
  <2>3. HistoryInv' /\ AbiExact'
    BY <2>1, <2>2, SameHistory DEF AbiExact
  <2> QED BY <2>1, <2>2, <2>3 DEF StageInv
<1>5. CASE UNCHANGED executionVars
  <2>1. UNCHANGED <<program, stage, abi, state, variables, blocks>>
    BY <1>5 DEF executionVars, dataFlowVars
  <2>2. HistoryInv => HistoryInv'
    BY <2>1, SameHistory
  <2>3. AbiExact => AbiExact'
    BY <2>1 DEF AbiExact
  <2> QED BY <2>1, <2>2, <2>3 DEF StageInv
<1> QED BY <1>1, <1>2, <1>3, <1>4, <1>5 DEF ExecutionNext, RecoverStep, DataFlowNext

--------------------------------------------------------------------------------
(***************************************************************************)
(* The machine and the recovered code, step by step.                       *)
(***************************************************************************)

LEMMA RecoversSound ==
  ASSUME NEW b, NEW done, NEW t, NEW d, Recovers(b, done, t, d), Len(done) \in Nat
  PROVE  \A k \in 1 .. Len(done) + 1 : Sound(t[k], d[k], b)
<1> TAKE k \in 1 .. Len(done) + 1
<1>1. CASE k = Len(done) + 1
  BY <1>1 DEF Recovers
<1>2. CASE k # Len(done) + 1
  <2>1. k \in 1 .. Len(done)
    BY <1>2
  <2> QED BY <2>1 DEF Recovers, RecoversOne
<1> QED BY <1>1, <1>2

LEMMA SameMachine ==
  ASSUME UNCHANGED <<program, abi>>
  PROVE  /\ \A s, mu, r, w : RegisterExact(s, mu, r, w)' <=> RegisterExact(s, mu, r, w)
         /\ \A s, b, mu, d, w : SlotExact(s, b, mu, d, w)' <=> SlotExact(s, b, mu, d, w)
<1>1. \A s, r : Shadowed(s, r)' <=> Shadowed(s, r)
  BY SameValues
<1>2. \A d : SlotName(d)' = SlotName(d)
  BY DEF SlotName
<1> QED BY <1>1, <1>2 DEF RegisterExact, SlotExact

\* The machine has executed an instruction.
Moved(i) ==
  /\ UNCHANGED <<program, abi>>
  /\ register' = RegistersAfter(i) /\ slot' = SlotsAfter(i) /\ flags' = FlagsAfter(i)
  /\ stack' = StackAfter(i) /\ hidden' = HiddenAfter(i) /\ depth' = DepthAfter(i)

LEMMA NextMachine ==
  ASSUME NEW i, Moved(i), NEW t, NEW b, NEW nu, NextExact(t, b, nu, i), AllAlike(nu, values'), NamesExact(values')
  PROVE  MachineExact(t, b, nu)'
<1>1. /\ \A mu, r, w : RegisterExact(t, mu, r, w)' <=> RegisterExact(t, mu, r, w)
      /\ \A mu, d, w : SlotExact(t, b, mu, d, w)' <=> SlotExact(t, b, mu, d, w)
  BY SameMachine DEF Moved
<1>2. \A r \in Registers \ hidden' : RegisterExact(t, nu, r, register'[r])
  BY DEF Moved, NextExact
<1>3. \A d \in Offsets : SlotExact(t, b, nu, d, slot'[d])
  BY DEF Moved, NextExact
<1>4. \A r \in Registers \ hidden' : RegisterExact(t, nu, r, register[r])'
  <2> TAKE r \in Registers \ hidden'
  <2>1. PICK w : w = register'[r]
    OBVIOUS
  <2>2. RegisterExact(t, nu, r, w)'
    BY <1>1, <1>2, <2>1
  <2> QED BY <2>1, <2>2 DEF RegisterExact
<1>5. \A d \in Offsets : SlotExact(t, b, nu, d, slot[d])'
  <2> TAKE d \in Offsets
  <2>1. PICK w : w = slot'[d]
    OBVIOUS
  <2>2. SlotExact(t, b, nu, d, w)'
    BY <1>1, <1>3, <2>1
  <2> QED BY <2>1, <2>2 DEF SlotExact
<1>6. FlagsExact(t, nu, flags') /\ StackExact(nu, stack', depth') /\ NamesExact(nu)
  BY DEF Moved, NextExact
<1> QED BY <1>4, <1>5, <1>6 DEF MachineExact

\* What is known at the entry of a block is known at the end of every other.
LEMMA BlockEntered ==
  ASSUME Materialize, NEW b, NEW t, NEW d, Sound(t, d, b),
         NEW c \in Nat, NEW s, NEW e, Sound(s, e, c), StoredUpTo(s, c - 1), ~ s.comparison.known,
         NEW nu, NEW i, NextExact(t, b, nu, i)
  PROVE  NextExact(s, c, nu, i)
<1>1. VariablesExact(t) /\ VariablesExact(s)
  BY DEF Sound
<1>2. ASSUME NEW r \in Registers, NEW w, RegisterExact(t, nu, r, w) PROVE RegisterExact(s, nu, r, w)
  <2>1. ~ Shadowed(s, r) /\ ~ Shadowed(t, r)
    BY DEF Shadowed
  <2>2. CASE r \in DOMAIN state.registerVariables
    BY <1>1, <1>2, <2>1, <2>2 DEF VariablesExact, RegisterExact
  <2>3. CASE r \notin DOMAIN state.registerVariables
    <3>1. r \in DOMAIN s.registerValues <=> r \in DOMAIN t.registerValues
      BY <1>1, <2>3 DEF VariablesExact
    <3>2. r \in DOMAIN s.registerValues =>
            /\ s.registerValues[r] = t.registerValues[r] /\ <<"register", r>> \notin t.stale
      BY <1>1, <2>3 DEF VariablesExact
    <3> QED BY <1>1, <1>2, <2>3, <3>1, <3>2 DEF VariablesExact, RegisterExact
  <2> QED BY <2>2, <2>3
<1>3. ASSUME NEW x \in Offsets, NEW w, SlotExact(t, b, nu, x, w) PROVE SlotExact(s, c, nu, x, w)
  <2>1. x \in DOMAIN s.stackValues => s.storedIn[x] # c
    BY DEF StoredUpTo
  <2> QED BY <1>3, <2>1 DEF SlotExact
<1>4. FlagsExact(s, nu, FlagsAfter(i))
  BY DEF FlagsExact
<1> QED BY <1>2, <1>3, <1>4 DEF NextExact

\* What the variables of the recovered code hold at the start.
LEMMA DeclaredExact ==
  ASSUME AbiExact, Initialised(state, variables), StateExact(state, variables)
  PROVE  /\ NamesExact(Declared) /\ DOMAIN Declared \subseteq VariableNames
         /\ Materialize => \A r \in DOMAIN state.registerVariables \cap abi.registers :
              ValueOf(state.registerVariables[r], Declared) = <<"initial", ParameterIndex(r)>>
<1> DEFINE initialised == {k \in DOMAIN variables : variables[k].initializer # <<>>}
           Place1(name) == CHOOSE k \in initialised : variables[k].name = name
<1>1. variables \in Seq(VariableDeclarations) /\ DOMAIN variables = 1 .. Len(variables)
  BY DEF StateExact
<1>2. /\ DOMAIN Declared = {variables[k].name : k \in initialised}
      /\ \A name \in DOMAIN Declared : Declared[name] = InitialValue(variables[Place1(name)].initializer)
  BY DEF Declared
<1>3. DOMAIN Declared \subseteq VariableNames
  <2>1. \A k \in 1 .. Len(variables) : variables[k] \in VariableDeclarations
    BY <1>1
  <2>2. \A k \in 1 .. Len(variables) : variables[k].name \in VariableNames
    BY <2>1 DEF VariableDeclarations
  <2>3. \A k \in initialised : k \in 1 .. Len(variables)
    BY <1>1
  <2> HIDE DEF initialised
  <2> QED BY <1>2, <2>2, <2>3
<1>4. NamesExact(Declared)
  BY <1>3, NamesApart DEF NamesExact
<1>5. ASSUME Materialize, NEW r \in DOMAIN state.registerVariables \cap abi.registers
      PROVE  ValueOf(state.registerVariables[r], Declared) = <<"initial", ParameterIndex(r)>>
  <2>1. Unrepeated(variables) /\ Initialises(state.registerVariables, variables)
    BY <1>5 DEF Initialised
  <2>2. PICK k \in 1 .. Len(variables) :
          variables[k].name = state.registerVariables[r] /\ variables[k].initializer = Initializer(r)
    BY <1>5, <2>1 DEF Initialises
  <2>3. Initializer(r) = <<"arg", ParameterIndex(r)>>
    BY <1>5 DEF Initializer
  <2>4. PICK name : name = state.registerVariables[r]
    OBVIOUS
  <2>5. k \in initialised
    <3>1. \A x : Len(<<"arg", x>>) = 2 /\ Len(<<>>) = 0
      OBVIOUS
    <3>2. Initializer(r) # <<>>
      BY <2>3, <3>1
    <3> QED BY <1>1, <2>2, <3>2
  <2>6. Place1(name) = k
    <3> HIDE DEF initialised
    <3>1. \A j \in initialised : variables[j].name = name => j = k
      <4>1. \A j \in initialised : j \in 1 .. Len(variables)
        BY <1>1 DEF initialised
      <4> QED BY <2>1, <2>2, <2>4, <4>1 DEF Unrepeated
    <3>2. \E j \in initialised : variables[j].name = name
      BY <2>2, <2>4, <2>5
    <3> QED BY <3>1, <3>2
  <2>7. name \in DOMAIN Declared
    BY <1>2, <2>2, <2>4, <2>5
  <2> HIDE DEF Place1, initialised
  <2>8. Declared[name] = InitialValue(<<"arg", ParameterIndex(r)>>)
    BY <1>2, <2>2, <2>3, <2>6, <2>7
  <2>9. InitialValue(<<"arg", ParameterIndex(r)>>) = <<"initial", ParameterIndex(r)>>
    BY DEF InitialValue
  <2> QED BY <2>4, <2>7, <2>8, <2>9 DEF ValueOf
<1> QED BY <1>3, <1>4, <1>5

LEMMA StartExact ==
  ASSUME AbiExact, Initialised(state, variables), StateExact(state, variables),
         NEW s, NEW declared, Sound(s, declared, 1), StoredUpTo(s, 0), ~ s.comparison.known, AtEntry(s)
  PROVE  /\ NamesExact(Declared)
         /\ \A r \in Registers \ (ToSet(ParameterRegisters) \ abi.registers) :
              RegisterExact(s, Declared, r, InitialRegister(r))
         /\ \A d \in Offsets : SlotExact(s, 1, Declared, d, InitialSlot(d))
         /\ \A fl : FlagsExact(s, Declared, fl)
         /\ StackExact(Declared, <<>>, 0)
<1>1. PICK mu : mu = Declared
  OBVIOUS
<1>2. /\ NamesExact(mu) /\ DOMAIN mu \subseteq VariableNames
      /\ Materialize => \A r \in DOMAIN state.registerVariables \cap abi.registers :
           ValueOf(state.registerVariables[r], mu) = <<"initial", ParameterIndex(r)>>
  BY <1>1, DeclaredExact
<1>3. ASSUME NEW r \in Registers \ (ToSet(ParameterRegisters) \ abi.registers)
      PROVE  RegisterExact(s, mu, r, InitialRegister(r))
  <2> USE <1>3
  <2>1. CASE r \in DOMAIN s.registerVariables /\ r \in abi.registers
    <3>1. Materialize /\ ~ Shadowed(s, r)
      BY <2>1 DEF AtEntry, Shadowed
    <3>2. r \in DOMAIN state.registerVariables /\ s.registerVariables[r] = state.registerVariables[r]
      BY <2>1, <3>1 DEF Sound, VariablesExact
    <3>3. r \in ToSet(ParameterRegisters)
      BY <2>1 DEF AbiExact
    <3>4. Is(InitialRegister(r), ValueOf(s.registerVariables[r], mu))
      BY <1>2, <2>1, <3>1, <3>2, <3>3 DEF InitialRegister, Is
    <3> QED BY <2>1, <3>4 DEF RegisterExact
  <2>2. CASE r \notin DOMAIN s.registerVariables /\ r \in abi.registers
    <3>1. /\ r \in DOMAIN s.registerValues
          /\ s.registerValues[r] = Text(<<"arg", ParameterIndex(r)>>)
      BY <2>2 DEF AtEntry
    <3>2. ParameterIndex(r) \in 0 .. 5
      BY <2>2, ParameterIndices
    <3>3. PICK k \in 0 .. 5 : k = ParameterIndex(r)
      BY <3>2
    <3>4. ValueOf(<<"arg", k>>, mu) = <<"initial", k>>
      BY <1>2, FixedNames
    <3>5. \A name : Evaluate(Text(name), mu) = ValueOf(name, mu)
      BY NameText
    <3>6. r \in ToSet(ParameterRegisters)
      BY <2>2 DEF AbiExact
    <3>7. Evaluate(s.registerValues[r], mu) = InitialRegister(r)
      BY <3>1, <3>3, <3>4, <3>5, <3>6 DEF InitialRegister
    <3> QED BY <2>2, <3>1, <3>7 DEF RegisterExact, Is
  <2>3. CASE r \notin abi.registers
    <3>1. InitialRegister(r) = Unknown
      BY <2>3 DEF InitialRegister
    <3> QED BY <2>3, <3>1 DEF RegisterExact, Is
  <2> QED BY <2>1, <2>2, <2>3
<1>4. ASSUME NEW d \in Offsets PROVE SlotExact(s, 1, mu, d, InitialSlot(d))
  <2>1. SlotName(d) \notin DOMAIN mu
    BY <1>2, NamesApart
  <2>2. ValueOf(SlotName(d), mu) = InitialSlot(d)
    BY <2>1, SlotNames DEF ValueOf
  <2>3. d \in DOMAIN s.stackValues => s.storedIn[d] # 1
    BY DEF StoredUpTo
  <2> QED BY <2>2, <2>3 DEF SlotExact, Is
<1>5. \A fl : FlagsExact(s, mu, fl)
  BY DEF FlagsExact
<1>6. StackExact(mu, <<>>, 0)
  <2>1. <<>> \in Seq({}) /\ Len(<<>>) = 0
    OBVIOUS
  <2> QED BY <2>1 DEF StackExact
<1> QED BY <1>1, <1>2, <1>3, <1>4, <1>5, <1>6

\* The recovery of the block that the machine is in knows what the machine holds.
Follows ==
  \E t, d, mu : Recovers(at[1], blocks[at[1]], t, d) /\ MachineExact(t[at[2]], at[1], mu)

RunningInv ==
  /\ Len(blocks) = Len(program) /\ \A b \in 1 .. Len(program) : Len(blocks[b]) = Len(program[b])
  /\ at[1] \in 1 .. Len(program) /\ at[2] \in 1 .. Len(program[at[1]]) /\ steps \in Nat
  /\ lapses = {} /\ (Materialize \/ at[2] = steps + 1) => Follows

MachineInv ==
  /\ stage \in {"abi", "prepare", "recover"} =>
       /\ at = <<1, 1>> /\ steps = 0
       /\ slot = [d \in Offsets |-> InitialSlot(d)]
       /\ stack = <<>> /\ depth = 0
  /\ stage = "execute" => RunningInv
  /\ RecoveredCodeExact

LEMMA ExecutedExact ==
  ASSUME StageInv, stage = "execute", RunningInv, lapses = {},
         NEW i, i = program[at[1]][at[2]], NEW entry, entry = blocks[at[1]][at[2]],
         entry.lapses = {}, PathLapses(i, entry.statement) = {}
  PROVE  /\ \E t, d, nu : /\ Recovers(at[1], blocks[at[1]], t, d)
                          /\ AllAlike(nu, ValuesAfter(entry.statement))
                          /\ NextExact(t[at[2] + 1], at[1], nu, i)
         /\ NamesExact(ValuesAfter(entry.statement))
         /\ \A pair \in Shown(i, entry.statement) : Agree(pair)
<1>1. PICK b, k, statement : b = at[1] /\ k = at[2] /\ statement = entry.statement
  OBVIOUS
<1>2. /\ Len(blocks[b]) = Len(program[b]) /\ b \in 1 .. Len(program) /\ k \in 1 .. Len(program[b]) /\ steps \in Nat
  BY <1>1 DEF RunningInv
<1>3. Materialize \/ k = steps + 1
  BY <1>1, NoPathLapses
<1>4. PICK t, d, mu : Recovers(b, blocks[b], t, d) /\ MachineExact(t[k], b, mu)
  BY <1>1, <1>3 DEF RunningInv, Follows
<1>5. RecoversOne(b, k, entry, t, d)
  BY <1>1, <1>2, <1>4 DEF Recovers
<1>6. PICK s, declared, out : s = t[k] /\ declared = d[k] /\ out = Recover(s, declared, b, i)
  OBVIOUS
<1>7. /\ Sound(s, declared, b) /\ statement = out.statement /\ out.lapses = {}
      /\ t[k + 1] = FlagsWritten(out.state, i)
  BY <1>1, <1>5, <1>6 DEF RecoversOne
<1>8. MayRecover(s, declared, b, i)
  <2>1. program \in Programs /\ AbiExact /\ HistoryInv
    BY DEF StageInv
  <2>2. /\ DOMAIN program = 1 .. Len(program) /\ DOMAIN program[b] = 1 .. Len(program[b])
        /\ i \in DecodedInstructions /\ MemoryOperands(i) \subseteq Offsets
    BY <1>1, <1>2, <2>1, ProgramBlocks
  <2>3. HasVariable(Lift(i, abi).destination)
    BY <1>1, <1>2, <2>1, <2>2 DEF HistoryInv
  <2> QED BY <1>2, <1>7, <2>1, <2>2, <2>3 DEF MayRecover
<1>9. Steps(s, declared, b, i)
  BY <1>8, RecoverSteps
<1>10. StepExact(s, b, mu, i, out) /\ Assigns(statement)
  BY <1>6, <1>7, <1>9 DEF Steps, Recovered
<1>11. /\ \E nu : /\ AllAlike(nu, ValuesAfter(out.statement))
                  /\ NextExact(FlagsWritten(out.state, i), b, nu, i)
       /\ \A pair \in Shown(i, out.statement) : Agree(pair)
  BY <1>1, <1>4, <1>6, <1>7, <1>10 DEF StepExact
<1>12. NamesExact(values)
  BY <1>4 DEF MachineExact
<1>13. NamesExact(ValuesAfter(statement))
  BY <1>10, <1>12, ValuesNamed
<1> QED BY <1>1, <1>4, <1>7, <1>11, <1>12, <1>13

LEMMA StartRuns ==
  ASSUME StageInv, MachineInv, Start
  PROVE  MachineInv'
<1>1. /\ stage = "recover" /\ AtBlock \notin DOMAIN program /\ stage' = "execute"
      /\ register' = [r \in Registers |-> InitialRegister(r)]
      /\ hidden' = ToSet(ParameterRegisters) \ abi.registers
      /\ values' = Declared
      /\ UNCHANGED <<program, abi, state, variables, blocks, at, steps, slot, flags, stack, depth, lapses, observed>>
  BY DEF Start
<1>2. /\ at = <<1, 1>> /\ steps = 0 /\ slot = [d \in Offsets |-> InitialSlot(d)]
      /\ stack = <<>> /\ depth = 0 /\ RecoveredCodeExact
  BY <1>1 DEF MachineInv
<1>3. program \in Programs /\ AbiExact /\ HistoryInv
  BY <1>1 DEF StageInv
<1>4. /\ Len(program) \in Nat \ {0} /\ DOMAIN program = 1 .. Len(program)
      /\ \A b \in DOMAIN program : Len(program[b]) \in Nat \ {0}
  BY <1>3, ProgramBlocks
<1>5. /\ (\E S : blocks \in Seq(S)) /\ Len(blocks) <= Len(program)
      /\ \A b \in 1 .. Len(blocks) :
           /\ Len(blocks[b]) \in 1 .. Len(program[b])
           /\ b < Len(blocks) => Len(blocks[b]) = Len(program[b])
           /\ HistoryOf(b)
      /\ Sound(state, variables, Len(blocks)) /\ Initialised(state, variables)
  BY <1>3 DEF HistoryInv
<1>6. Len(blocks) \in Nat /\ (Len(blocks) = 0 <=> blocks = <<>>)
  BY <1>5
<1>7. AtBlock = Len(blocks) + 1 /\ Len(blocks) = Len(program)
  <2>1. AtBlock \in {Len(blocks), Len(blocks) + 1}
    BY DEF AtBlock
  <2>2. AtBlock = Len(blocks) => blocks # <<>>
    BY <1>6 DEF AtBlock
  <2>3. ASSUME AtBlock = Len(blocks) PROVE FALSE
    <3>1. Len(blocks) \in 1 .. Len(program)
      BY <1>4, <1>5, <1>6, <2>2, <2>3
    <3> QED BY <1>1, <1>4, <2>3, <3>1
  <2>4. AtBlock = Len(blocks) + 1
    BY <2>1, <2>3
  <2> QED BY <1>1, <1>4, <1>5, <1>6, <2>4
<1>8. \A b \in 1 .. Len(program) : Len(blocks[b]) = Len(program[b])
  <2> SUFFICES ASSUME NEW b \in 1 .. Len(program), ~ (b < Len(blocks)) PROVE Len(blocks[b]) = Len(program[b])
    BY <1>5, <1>7
  <2>1. b = Len(blocks) /\ blocks # <<>>
    <3>1. b \in 1 .. Len(blocks) /\ ~ (b < Len(blocks)) /\ Len(blocks) \in Nat
      BY <1>6, <1>7
    <3>2. b = Len(blocks) /\ Len(blocks) # 0
      BY ONLY <3>1
    <3> QED BY <1>6, <3>2
  <2>2. ~ (Len(blocks[b]) < Len(program[b]))
    BY <1>6, <1>7, <2>1 DEF AtBlock
  <2>3. Len(blocks[b]) \in 1 .. Len(program[b]) /\ Len(program[b]) \in Nat
    BY <1>4, <1>5, <1>7
  <2> QED BY <2>2, <2>3
<1>9. HistoryOf(1)
  BY <1>4, <1>5, <1>7
<1>10. PICK t, d : Recovers(1, blocks[1], t, d) /\ AtEntry(t[1])
  BY <1>9 DEF HistoryOf
<1>11. Sound(t[1], d[1], 1) /\ StoredUpTo(t[1], 0) /\ ~ t[1].comparison.known
  <2>1. Len(blocks[1]) \in Nat /\ 1 \in 1 .. Len(blocks[1]) + 1
    BY <1>4, <1>8
  <2>2. Sound(t[1], d[1], 1)
    BY <1>10, <2>1, RecoversSound
  <2>3. StoredUpTo(t[1], 1 - 1) /\ ~ t[1].comparison.known
    BY <1>10 DEF Recovers
  <2>4. 1 - 1 = 0
    OBVIOUS
  <2> QED BY <2>2, <2>3, <2>4
<1>12. PICK s, declared, mu : s = t[1] /\ declared = d[1] /\ mu = Declared
  OBVIOUS
<1>13. /\ NamesExact(mu)
       /\ \A r \in Registers \ hidden' : RegisterExact(s, mu, r, InitialRegister(r))
       /\ \A x \in Offsets : SlotExact(s, 1, mu, x, InitialSlot(x))
       /\ \A fl : FlagsExact(s, mu, fl)
       /\ StackExact(mu, <<>>, 0)
  <2>1. Sound(s, declared, 1) /\ StoredUpTo(s, 0) /\ ~ s.comparison.known /\ AtEntry(s)
    BY <1>10, <1>11, <1>12
  <2>2. StateExact(state, variables)
    BY <1>5 DEF Sound
  <2> QED BY <1>1, <1>3, <1>5, <1>12, <2>1, <2>2, StartExact
<1>14. /\ \A m, r, w : RegisterExact(s, m, r, w)' <=> RegisterExact(s, m, r, w)
       /\ \A m, x, w : SlotExact(s, 1, m, x, w)' <=> SlotExact(s, 1, m, x, w)
  BY <1>1, SameMachine
<1>15. MachineExact(s, 1, mu)'
  <2>1. \A r \in Registers \ hidden' : RegisterExact(s, mu, r, register[r])'
    <3> TAKE r \in Registers \ hidden'
    <3>1. PICK w : w = register'[r]
      OBVIOUS
    <3>2. RegisterExact(s, mu, r, w)'
      BY <1>1, <1>13, <1>14, <3>1
    <3> QED BY <3>1, <3>2 DEF RegisterExact
  <2>2. \A x \in Offsets : SlotExact(s, 1, mu, x, slot[x])'
    <3> TAKE x \in Offsets
    <3>1. PICK w : w = slot'[x]
      OBVIOUS
    <3>2. SlotExact(s, 1, mu, x, w)'
      BY <1>1, <1>2, <1>13, <1>14, <3>1
    <3> QED BY <3>1, <3>2 DEF SlotExact
  <2>3. NamesExact(values') /\ AllAlike(mu, values')
    BY <1>1, <1>12, <1>13 DEF AllAlike, Alike
  <2>4. FlagsExact(s, mu, flags') /\ StackExact(mu, stack', depth')
    BY <1>1, <1>2, <1>13
  <2> QED BY <1>13, <2>1, <2>2, <2>3, <2>4 DEF MachineExact
<1>16. Follows'
  <2>1. PICK done : done = blocks[1]
    OBVIOUS
  <2>2. SameVariables
    BY <1>1 DEF SameVariables
  <2>3. Recovers(1, done, t, d)'
    BY <1>10, <2>1, <2>2, SameRecovers
  <2>4. at'[1] = 1 /\ at'[2] = 1
    BY <1>1, <1>2
  <2> QED BY <1>1, <1>12, <1>15, <2>1, <2>3, <2>4 DEF Follows
<1>17. RunningInv'
  <2>1. at'[1] = 1 /\ at'[2] = 1 /\ 1 \in 1 .. Len(program) /\ 1 \in 1 .. Len(program[1]) /\ steps' \in Nat
    BY <1>1, <1>2, <1>4
  <2> QED BY <1>1, <1>7, <1>8, <1>16, <2>1 DEF RunningInv
<1>18. RecoveredCodeExact'
  BY <1>1, <1>2 DEF RecoveredCodeExact, Agree, Unknown
<1> QED BY <1>1, <1>17, <1>18 DEF MachineInv

LEMMA ExecuteRuns ==
  ASSUME StageInv, MachineInv, Execute
  PROVE  MachineInv'
<1>1. PICK i, entry, b, k : /\ i = program[at[1]][at[2]] /\ entry = blocks[at[1]][at[2]]
                            /\ b = at[1] /\ k = at[2]
  OBVIOUS
<1>2. /\ stage = "execute" /\ Moved(i) /\ values' = ValuesAfter(entry.statement)
      /\ lapses' = lapses \cup entry.lapses \cup PathLapses(i, entry.statement)
      /\ observed' = Shown(i, entry.statement)
      /\ at' \in Following(i)
      /\ stage' = IF i.code = "ret" \/ at'[1] \notin DOMAIN program THEN "stopped" ELSE stage
      /\ steps' = steps + 1
      /\ UNCHANGED <<program, abi, state, variables, blocks>>
  BY <1>1 DEF Execute, Moved, DepthAfter
<1>3. program \in Programs /\ AbiExact /\ HistoryInv
  BY <1>2 DEF StageInv
<1>4. /\ Len(program) \in Nat \ {0} /\ DOMAIN program = 1 .. Len(program)
      /\ \A c \in DOMAIN program : Len(program[c]) \in Nat \ {0}
  BY <1>3, ProgramBlocks
<1>5. /\ RunningInv /\ RecoveredCodeExact
      /\ Len(blocks) = Len(program) /\ \A c \in 1 .. Len(program) : Len(blocks[c]) = Len(program[c])
      /\ b \in 1 .. Len(program) /\ k \in 1 .. Len(program[b]) /\ steps \in Nat
  BY <1>1, <1>2 DEF MachineInv, RunningInv
<1>6. /\ at'[2] = 1 \/ (at'[1] = b /\ at'[2] = k + 1 /\ k + 1 \in 1 .. Len(program[b]))
  <2>1. CASE i.code = "jmp"
    BY <1>2, <2>1 DEF Following
  <2>2. CASE i.code = "jcc"
    <3>1. at' = <<i.target, 1>> \/ at' = <<at[1] + 1, 1>>
      BY <1>2, <2>2 DEF Following
    <3> QED BY <3>1
  <2>3. CASE i.code \notin {"jmp", "jcc"}
    <3>1. \/ at' = <<b, k + 1>> /\ k < Len(program[b])
          \/ at' = <<b + 1, 1>>
      BY <1>1, <1>2, <2>3 DEF Following
    <3>2. Len(program[b]) \in Nat
      BY <1>4, <1>5
    <3> QED BY <1>5, <3>1, <3>2
  <2> QED BY <2>1, <2>2, <2>3
<1>7. SameVariables
  BY <1>2 DEF SameVariables
<1>8. \A c, done, t, d : Recovers(c, done, t, d)' <=> Recovers(c, done, t, d)
  BY <1>7, SameRecovers
<1>9. ASSUME lapses' = {}
      PROVE  RecoveredCodeExact'
             /\ (at'[1] \in 1 .. Len(program) /\ (Materialize \/ at'[2] = steps' + 1) => Follows')
  <2>1. lapses = {} /\ entry.lapses = {} /\ PathLapses(i, entry.statement) = {}
    BY <1>2, <1>9
  <2>2. /\ \E t, d, nu : /\ Recovers(at[1], blocks[at[1]], t, d)
                         /\ AllAlike(nu, ValuesAfter(entry.statement))
                         /\ NextExact(t[at[2] + 1], at[1], nu, i)
        /\ NamesExact(ValuesAfter(entry.statement))
        /\ \A pair \in Shown(i, entry.statement) : Agree(pair)
    BY <1>1, <1>2, <1>5, <2>1, ExecutedExact
  <2>3. PICK t, d, nu : /\ Recovers(b, blocks[b], t, d)
                        /\ AllAlike(nu, values') /\ NextExact(t[k + 1], b, nu, i)
    BY <1>1, <1>2, <2>2
  <2>4. NamesExact(values')
    BY <1>2, <2>2
  <2>5. RecoveredCodeExact'
    BY <1>2, <2>2 DEF RecoveredCodeExact, Agree
  <2>6. ASSUME at'[1] \in 1 .. Len(program), Materialize \/ at'[2] = steps' + 1
        PROVE  Follows'
    <3>1. CASE at'[1] = b /\ at'[2] = k + 1
      <4>1. PICK s : s = t[k + 1]
        OBVIOUS
      <4>2. MachineExact(s, b, nu)'
        BY <1>2, <2>2, <2>3, <2>4, <4>1, NextMachine
      <4>3. PICK done : done = blocks[b]
        OBVIOUS
      <4>4. Recovers(b, done, t, d)'
        BY <1>8, <2>3, <4>3
      <4> QED BY <1>2, <3>1, <4>1, <4>2, <4>3, <4>4 DEF Follows
    <3>2. CASE at'[2] = 1
      <4>1. PICK c \in Nat : c = at'[1] /\ c \in 1 .. Len(program)
        BY <2>6
      <4>2. Materialize
        <5>1. steps' + 1 # 1
          BY <1>2, <1>5
        <5> QED BY <2>6, <3>2, <5>1
      <4>3. PICK u, e : Recovers(c, blocks[c], u, e)
        BY <1>3, <1>5, <4>1 DEF HistoryInv, HistoryOf
      <4>4. PICK s, t1, d1, declared : s = u[1] /\ t1 = t[k + 1] /\ d1 = d[k + 1] /\ declared = e[1]
        OBVIOUS
      <4>5. Sound(s, declared, c) /\ StoredUpTo(s, c - 1) /\ ~ s.comparison.known
        <5>1. Len(blocks[c]) \in Nat /\ 1 \in 1 .. Len(blocks[c]) + 1
          BY <1>4, <1>5, <4>1
        <5> QED BY <4>3, <4>4, <5>1, RecoversSound DEF Recovers
      <4>6. Sound(t1, d1, b)
        <5>1. Len(blocks[b]) \in Nat /\ k + 1 \in 1 .. Len(blocks[b]) + 1
          BY <1>4, <1>5
        <5> QED BY <2>3, <4>4, <5>1, RecoversSound
      <4>7. NextExact(s, c, nu, i)
        BY <2>3, <4>2, <4>4, <4>5, <4>6, BlockEntered
      <4>8. MachineExact(s, c, nu)'
        BY <1>2, <2>2, <2>3, <2>4, <4>7, NextMachine
      <4>9. PICK done : done = blocks[c]
        OBVIOUS
      <4>10. Recovers(c, done, u, e)'
        BY <1>8, <4>3, <4>9
      <4> QED BY <1>2, <3>2, <4>1, <4>4, <4>8, <4>9, <4>10 DEF Follows
    <3> QED BY <1>6, <3>1, <3>2
  <2> QED BY <2>5, <2>6
<1>10. RecoveredCodeExact'
  <2>1. lapses' # {} => RecoveredCodeExact'
    BY DEF RecoveredCodeExact
  <2> QED BY <1>9, <2>1
<1>11. ASSUME stage' = "execute"
       PROVE  RunningInv'
  <2>1. at'[1] \in 1 .. Len(program)
    BY <1>2, <1>4, <1>11
  <2>2. at'[2] \in 1 .. Len(program[at'[1]])
    BY <1>4, <1>6, <2>1
  <2>3. steps' \in Nat /\ (Materialize' <=> Materialize)
    BY <1>2, <1>5 DEF Materialize
  <2>4. lapses' = {} /\ (Materialize' \/ at'[2] = steps' + 1) => Follows'
    BY <1>9, <2>1, <2>3
  <2> QED BY <1>2, <1>5, <2>1, <2>2, <2>3, <2>4 DEF RunningInv
<1>12. stage' \in {"execute", "stopped"}
  BY <1>2
<1> QED BY <1>10, <1>11, <1>12 DEF MachineInv

LEMMA InitMachine == ExecutionInit => MachineInv
BY DEF ExecutionInit, DataFlowInit, MachineInv, RecoveredCodeExact

LEMMA MachineStep == StageInv /\ MachineInv /\ [ExecutionNext]_executionVars => MachineInv'
<1> SUFFICES ASSUME StageInv, MachineInv, [ExecutionNext]_executionVars PROVE MachineInv'
  OBVIOUS
<1>1. CASE RecoverStep
  <2>1. /\ stage \in {"abi", "prepare", "recover"} /\ stage' \in {"prepare", "recover"}
        /\ UNCHANGED <<at, steps, slot, stack, depth, hidden, lapses, observed>>
    BY <1>1 DEF RecoverStep, DataFlowNext, AnalyzeAbi, Prepare, RecoverInstruction, machineVars
  <2> QED BY <2>1 DEF MachineInv, RecoveredCodeExact, Agree, Unknown
<1>2. CASE Start
  BY <1>2, StartRuns
<1>3. CASE Execute
  BY <1>3, ExecuteRuns
<1>4. CASE UNCHANGED executionVars
  <2>1. /\ UNCHANGED <<program, stage, abi, state, variables, blocks>>
        /\ UNCHANGED <<at, steps, register, slot, flags, stack, hidden, depth>>
        /\ UNCHANGED <<values, lapses, observed>>
    BY <1>4 DEF executionVars, dataFlowVars, machineVars
  <2>2. Follows => Follows'
    <3> SUFFICES ASSUME Follows PROVE Follows'
      OBVIOUS
    <3>1. PICK t, d, mu : Recovers(at[1], blocks[at[1]], t, d) /\ MachineExact(t[at[2]], at[1], mu)
      BY DEF Follows
    <3>2. PICK b, done, s : b = at[1] /\ done = blocks[b] /\ s = t[at[2]]
      OBVIOUS
    <3>3. SameVariables
      BY <2>1 DEF SameVariables
    <3>4. Recovers(b, done, t, d)'
      BY <3>1, <3>2, <3>3, SameRecovers
    <3>5. /\ \A m, r, w : RegisterExact(s, m, r, w)' <=> RegisterExact(s, m, r, w)
          /\ \A m, x, w : SlotExact(s, b, m, x, w)' <=> SlotExact(s, b, m, x, w)
      BY <2>1, SameMachine
    <3>6. MachineExact(s, b, mu)
      BY <3>1, <3>2
    <3>7. \A r \in Registers \ hidden' : RegisterExact(s, mu, r, register[r])'
      <4> TAKE r \in Registers \ hidden'
      <4>1. PICK w : w = register'[r]
        OBVIOUS
      <4>2. RegisterExact(s, mu, r, w)'
        BY <2>1, <3>5, <3>6, <4>1 DEF MachineExact
      <4> QED BY <4>1, <4>2 DEF RegisterExact
    <3>8. \A x \in Offsets : SlotExact(s, b, mu, x, slot[x])'
      <4> TAKE x \in Offsets
      <4>1. PICK w : w = slot'[x]
        OBVIOUS
      <4>2. SlotExact(s, b, mu, x, w)'
        BY <2>1, <3>5, <3>6, <4>1 DEF MachineExact
      <4> QED BY <4>1, <4>2 DEF SlotExact
    <3>9. MachineExact(s, b, mu)'
      BY <2>1, <3>6, <3>7, <3>8 DEF MachineExact
    <3> QED BY <2>1, <3>2, <3>4, <3>9 DEF Follows
  <2>3. RunningInv => RunningInv'
    BY <2>1, <2>2 DEF RunningInv, Materialize
  <2> QED BY <2>1, <2>3 DEF MachineInv, RecoveredCodeExact, Agree, Unknown
<1> QED BY <1>1, <1>2, <1>3, <1>4 DEF ExecutionNext

\* For every function, lifted in full or not, whatever its blocks and however often they
\* are executed: as long as no text has been used that the lapses name, what the
\* recovered code gives a call, returns, branches on and keeps on the stack is what the
\* function computes (DataFlowAnalyzer::analyze).
THEOREM RecoveredCode == ExecutionSpec => []RecoveredCodeExact
<1>1. ExecutionInit => StageInv /\ MachineInv
  BY InitStage, InitMachine
<1>2. StageInv /\ MachineInv /\ [ExecutionNext]_executionVars => StageInv' /\ MachineInv'
  BY StageStep, MachineStep
<1>3. MachineInv => RecoveredCodeExact
  BY DEF MachineInv
<1> QED BY <1>1, <1>2, <1>3, PTL DEF ExecutionSpec

================================================================================
