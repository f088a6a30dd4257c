---------------------------- MODULE AnalysisSession ----------------------------
(***************************************************************************)
(* AnalysisSession: the phases of analyze and the six caches it fills, for *)
(* a session that analyses one binary after another, fails anywhere or is  *)
(* left by an exception.  The contents of a cache entry are abstracted to  *)
(* where they come from: the binary, and for pseudocode the prototypes     *)
(* that its calls are written with.                                        *)
(***************************************************************************)
EXTENDS Naturals, FiniteSets, SequencesExt

CONSTANTS
  Binaries,       \* the files analyze is called with
  NoBinary        \* no file, for elfLoader_ after a reset

(***************************************************************************)
(* A binary: whether ElfLoader accepts it, what FunctionDiscovery finds in *)
(* it, addresses in ascending order, and the functions that can not be     *)
(* disassembled.  FunctionDiscovery finds nothing without a .text section  *)
(* and nothing outside it, so analyze's own tests for both never fail.     *)
(***************************************************************************)
ASSUME BinariesAssumption ==
  \A b \in Binaries :
    /\ b.loads \in BOOLEAN
    /\ b.functions \in Seq(Nat)
    /\ \A i, j \in 1 .. Len(b.functions) : i < j => b.functions[i] < b.functions[j]
    /\ b.failing \subseteq ToSet(b.functions)

ASSUME NoBinaryAssumption == NoBinary \notin Binaries

VARIABLES
  available,    \* disassembler_.isAvailable(): whether Capstone could be opened
  phase,        \* where analyze is, or "idle"
  binary,       \* its argument
  loader,       \* the binary in elfLoader_
  functions,    \* functions_
  current,      \* index of the function that is analysed next
  caches,       \* the entries of the six caches
  prototypes,   \* the local vector of prototypes
  graph,        \* the functions callGraph_ was built from
  error,        \* errorMessage_
  valid         \* valid_

vars == <<available, phase, binary, loader, functions, current, caches, prototypes,
          graph, error, valid>>

\* The caches that the first loop fills, in its order.
FunctionCaches == <<"controlFlowGraph", "abi", "ir", "instructions">>

\* The caches that the second loop fills.
FlowCaches == <<"dataFlow", "pseudocode">>

CacheNames == ToSet(FunctionCaches) \cup ToSet(FlowCaches)

Entry(c, f, b, seen) == [cache |-> c, address |-> f, of |-> b, seen |-> seen]

Init ==
  /\ available \in BOOLEAN
  /\ phase = "idle"
  /\ binary = NoBinary /\ loader = NoBinary
  /\ functions = <<>>
  /\ current = 1
  /\ caches = {} /\ prototypes = {} /\ graph = <<>>
  /\ error = "none"
  /\ valid = FALSE

--------------------------------------------------------------------------------

Holds(c, f) == \E e \in caches : e.cache = c /\ e.address = f

\* at: the entry of a cache that holds one.
At(c, f) == CHOOSE e \in caches : e.cache = c /\ e.address = f

\* emplace: an entry that is there stays.
Emplaced(entries) == caches \cup {e \in entries : ~ Holds(e.cache, e.address)}

\* Mutation: the caches of the last binary stay.
ClearedKeepsCaches ==
  /\ functions' = <<>> /\ graph' = <<>>
  /\ valid' = FALSE
  /\ UNCHANGED caches

\* reset, but for the loader and the message
Cleared ==
  /\ functions' = <<>> /\ caches' = {} /\ graph' = <<>>
  /\ valid' = FALSE

\* reset
Reset ==
  /\ phase = "idle"
  /\ Cleared
  /\ loader' = NoBinary
  /\ error' = "none"
  /\ UNCHANGED <<available, phase, binary, current, prototypes>>

\* analyze is called, and resets the session first.
Analyze(b) ==
  /\ phase = "idle"
  /\ Cleared
  /\ loader' = NoBinary
  /\ error' = "none"
  /\ binary' = b
  /\ phase' = "loading"
  /\ current' = 1 /\ prototypes' = {}
  /\ UNCHANGED available

\* ElfLoader::load, which keeps nothing of a file it rejects, and the test whether
\* Capstone is there.
Load ==
  /\ phase = "loading"
  /\ loader' = IF binary.loads THEN binary ELSE NoBinary
  /\ error' = IF ~ binary.loads THEN "load" ELSE IF ~ available THEN "capstone" ELSE "none"
  /\ phase' = IF binary.loads /\ available THEN "discovering" ELSE "idle"
  /\ UNCHANGED <<available, binary, functions, current, caches, prototypes, graph, valid>>

Discover ==
  /\ phase = "discovering"
  /\ functions' = binary.functions
  /\ error' = IF binary.functions = <<>> THEN "functions" ELSE "none"
  /\ phase' = IF binary.functions = <<>> THEN "idle" ELSE "functions"
  /\ UNCHANGED <<available, binary, loader, current, caches, prototypes, graph, valid>>

Remaining == current <= Len(functions)

Function == functions[current]

FunctionEntries(n) == {Entry(FunctionCaches[i], Function, binary, {}) : i \in 1 .. n}

\* Mutation: the last of the four entries is forgotten.
AnalyseFunctionIncompletely ==
  /\ phase = "functions" /\ Remaining
  /\ Function \notin binary.failing
  /\ caches' = Emplaced(FunctionEntries(3))
  /\ current' = current + 1
  /\ UNCHANGED <<available, phase, binary, loader, functions, prototypes, graph, error, valid>>

\* Instructions, blocks, graph, ABI and IR of one function.
AnalyseFunction ==
  /\ phase = "functions" /\ Remaining
  /\ Function \notin binary.failing
  /\ caches' = Emplaced(FunctionEntries(4))
  /\ current' = current + 1
  /\ UNCHANGED <<available, phase, binary, loader, functions, prototypes, graph, error, valid>>

\* Mutation: the caches are not cleared.
FunctionFailsKeepingCaches ==
  /\ phase = "functions" /\ Remaining
  /\ Function \in binary.failing
  /\ functions' = <<>>
  /\ error' = "disassembly"
  /\ phase' = "idle"
  /\ UNCHANGED <<available, binary, loader, current, caches, prototypes, graph, valid>>

\* One function can not be disassembled: nothing of the others is kept.
FunctionFails ==
  /\ phase = "functions" /\ Remaining
  /\ Function \in binary.failing
  /\ functions' = <<>> /\ caches' = {}
  /\ error' = "disassembly"
  /\ phase' = "idle"
  /\ UNCHANGED <<available, binary, loader, current, prototypes, graph, valid>>

\* CallGraph::build accepts functions that differ and have instructions.
CanBuildGraph ==
  /\ \A i, j \in 1 .. Len(functions) : functions[i] = functions[j] => i = j
  /\ \A i \in 1 .. Len(functions) : Holds("instructions", functions[i])

BuildCallGraph ==
  /\ phase = "functions" /\ ~ Remaining
  /\ IF CanBuildGraph
       THEN /\ graph' = functions
            /\ phase' = "prototypes"
            /\ UNCHANGED <<loader, functions, caches, error, valid>>
       ELSE /\ Cleared
            /\ loader' = NoBinary
            /\ error' = "callGraph"
            /\ phase' = "idle"
  /\ UNCHANGED <<available, binary, current, prototypes>>

\* Mutation: the prototypes are those of the functions before the last.
CollectPrototypesButLast ==
  /\ phase = "prototypes"
  /\ prototypes' = {<<f, At("abi", f).of>> : f \in {functions[i] : i \in 1 .. Len(functions) - 1}}
  /\ current' = 1
  /\ phase' = "flow"
  /\ UNCHANGED <<available, binary, loader, functions, caches, graph, error, valid>>

\* One prototype per function, from its ABI analysis.
CollectPrototypes ==
  /\ phase = "prototypes"
  /\ prototypes' = {<<f, At("abi", f).of>> : f \in ToSet(functions)}
  /\ current' = 1
  /\ phase' = "flow"
  /\ UNCHANGED <<available, binary, loader, functions, caches, graph, error, valid>>

\* The entries are derived from the cached IR, with the prototypes for pseudocode.
FlowEntries(n) ==
  {Entry(FlowCaches[i], Function, At("ir", Function).of,
         IF FlowCaches[i] = "pseudocode" THEN prototypes ELSE {}) : i \in 1 .. n}

\* Data flow and pseudocode of one function.
RecoverFunction ==
  /\ phase = "flow" /\ Remaining
  /\ caches' = Emplaced(FlowEntries(2))
  /\ current' = current + 1
  /\ UNCHANGED <<available, phase, binary, loader, functions, prototypes, graph, error, valid>>

Succeed ==
  /\ phase = "flow" /\ ~ Remaining
  /\ valid' = TRUE
  /\ phase' = "idle"
  /\ UNCHANGED <<available, binary, loader, functions, current, caches, prototypes, graph, error>>

\* An exception (memory, the file system) leaves analyze where it is: what it was
\* working on is there in part, and valid_ is still false.
Throw ==
  /\ phase # "idle"
  /\ \/ /\ phase = "functions" /\ Remaining
        /\ \E n \in 0 .. 3 : caches' = Emplaced(FunctionEntries(n))
        /\ UNCHANGED graph
     \/ /\ phase = "functions" /\ ~ Remaining
        /\ \E n \in 0 .. Len(functions) : graph' = SubSeq(functions, 1, n)
        /\ UNCHANGED caches
     \/ /\ phase = "flow" /\ Remaining
        /\ \E n \in 0 .. 1 : caches' = Emplaced(FlowEntries(n))
        /\ UNCHANGED graph
     \/ UNCHANGED <<caches, graph>>
  /\ phase' = "idle"
  /\ UNCHANGED <<available, binary, loader, functions, current, prototypes, error, valid>>

Step ==
  \/ Load \/ Discover
  \/ AnalyseFunction \/ FunctionFails \/ BuildCallGraph
  \/ CollectPrototypes \/ RecoverFunction \/ Succeed

Next == (\E b \in Binaries : Analyze(b)) \/ Reset \/ Step \/ Throw

Spec == Init /\ [][Next]_vars

--------------------------------------------------------------------------------
(***************************************************************************)
(* functionAt, with std::lower_bound as it halves the range.               *)
(***************************************************************************)

\* Where a function is, or the end.
Places == 1 .. Len(functions) + 1

\* The middle of the range from r[1] to before r[2].
Middle(r) == (r[1] + r[2]) \div 2

\* Mutation: upper_bound.
LowerBoundAfter(a) ==
  LET search[r \in Places \X Places] ==
        IF r[1] >= r[2] THEN r[1]
        ELSE IF functions[Middle(r)] <= a
               THEN search[<<Middle(r) + 1, r[2]>>]
               ELSE search[<<r[1], Middle(r)>>]
  IN  search[<<1, Len(functions) + 1>>]

LowerBound(a) ==
  LET search[r \in Places \X Places] ==
        IF r[1] >= r[2] THEN r[1]
        ELSE IF functions[Middle(r)] < a
               THEN search[<<Middle(r) + 1, r[2]>>]
               ELSE search[<<r[1], Middle(r)>>]
  IN  search[<<1, Len(functions) + 1>>]

\* The index of the function, 0 if there is none.
FunctionAt(a) ==
  LET i == LowerBound(a)
  IN  IF i > Len(functions) \/ functions[i] # a THEN 0 ELSE i

--------------------------------------------------------------------------------
(***************************************************************************)
(* Properties.                                                             *)
(***************************************************************************)

(***************************************************************************)
(* Every cache entry comes from the binary that is being analysed, or was  *)
(* last: emplace keeps what is there, so an entry that outlives a reset    *)
(* would stay for good.                                                    *)
(***************************************************************************)
NoStaleEntries == \A e \in caches : e.of = binary

(***************************************************************************)
(* A valid session answers for its binary: the loader, the functions, the  *)
(* call graph and all six caches are of it and complete, with one entry    *)
(* per function and cache.  Readers look no further than isValid.          *)
(***************************************************************************)
ValidMeansComplete ==
  valid =>
    /\ loader = binary /\ functions = binary.functions /\ graph = functions
    /\ error = "none"
    /\ \A c \in CacheNames, f \in ToSet(functions) : Holds(c, f)
    /\ \A e \in caches : e.address \in ToSet(functions)
    /\ \A d, e \in caches : d.cache = e.cache /\ d.address = e.address => d = e

(***************************************************************************)
(* A failed analysis leaves no function and no entry behind: the functions *)
(* that were analysed before the one that failed are not shown.            *)
(***************************************************************************)
FailureLeavesNothing ==
  error # "none" => ~ valid /\ functions = <<>> /\ caches = {} /\ graph = <<>>

(***************************************************************************)
(* The call graph never rejects what the first loop has cached, and the    *)
(* second loop finds in the caches all that it takes with at.              *)
(***************************************************************************)
LoopsFitTogether ==
  /\ error # "callGraph"
  /\ phase \in {"prototypes", "flow"} =>
       \A c \in ToSet(FunctionCaches), f \in ToSet(functions) : Holds(c, f)

(***************************************************************************)
(* The session has all of its binary or says that it has not, and no       *)
(* analysis fails because one loop lacks what another should have cached.  *)
(***************************************************************************)
AllOrNothing == ValidMeansComplete /\ FailureLeavesNothing /\ LoopsFitTogether

(***************************************************************************)
(* Pseudocode is written with the prototypes of all functions, also those  *)
(* that come later in the binary, and of this binary.                      *)
(***************************************************************************)
PrototypesComplete ==
  \A e \in caches :
    e.cache = "pseudocode" => e.seen = ToSet(binary.functions) \X {binary}

(***************************************************************************)
(* functionAt finds every function by its address and nothing at another   *)
(* address, between two functions or beyond them.                          *)
(***************************************************************************)
FunctionAtFinds ==
  \A a \in {0} \cup UNION {{f, f + 1} : f \in ToSet(functions)} :
    IF a \in ToSet(functions)
      THEN FunctionAt(a) # 0 /\ functions[FunctionAt(a)] = a
      ELSE FunctionAt(a) = 0

================================================================================
