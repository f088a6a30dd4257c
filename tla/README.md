# A formal model of My-Kisah

My-Kisah is a decompiler for ELF64 x86-64 executables: a C++20 core library that
loads a file, discovers functions, builds control-flow graphs, lifts to an
intermediate representation, recovers values and control structures and prints
pseudocode, and a Qt window that browses the result and patches instructions. These
TLA+ modules model the parts of it whose correctness is a matter of order, state and
fixpoints; TLC checks them on small instances and TLAPS proves the main invariants
for every value of the constants.

Paths below are relative to the repository (`src/...` is the implementation,
`include/...` its headers).

## 1. Inventory

| Component | State it keeps | Operations | What is hard about it |
|---|---|---|---|
| `ElfLoader` | bytes, metadata, sections, segments, symbols, validity | `load`, `reset`, `findSection`, address ↔ offset translation, `bytesForSection` | unsigned 64-bit ranges; a failure must leave nothing |
| `Disassembler` | a Capstone handle | `disassemble` | linear sweep, one invalid byte at a time |
| `FunctionDiscovery` | candidates by address, worklist (local) | `discover` | four sources that overlap; ranges change while calls are followed |
| `BasicBlockBuilder` | none (local leaders) | `build` | targets in the middle of an instruction; saturating ends |
| `ControlFlowGraph` | blocks, edges, orders, dominators, back edges | `build`, `reset`, queries | worklists and a fixpoint over any graph |
| `AbiAnalyzer` | none | `analyze` | path-insensitive order of reads and writes |
| `IRLifter`, `Register` | none | `lift`, `normalize` | which operand is a source and which a destination |
| `DataFlowAnalyzer` | register and stack values, variable names (local) | `analyze` | one state for all blocks; calls clobber registers |
| `PseudocodeGenerator` | visited blocks, indentation (local) | `generate` | structuring of a graph with joins and loops |
| `CallGraph` | nodes, edges, index by address | `build`, `clear`, `nodeAt` | external callees; repeated builds; failure half-way |
| `AnalysisSession` | loader, functions, six caches, call graph, error, validity | `analyze`, `reset`, lookups | caches that must belong to one binary; exceptions |
| `BinaryPatcher` | none; the file system | `patchInstruction`, `parseHexBytes`, `nopBytes` | files that change between checks; failing writes |
| `MainWindow` | the session, selection, history, listing, actions | open, search, navigate, Back/Forward, patch | nested signals, a worker thread, modal dialogs |
| `CallGraphLayoutEngine` | none (local components, layers, positions) | `layout` | two searches with different distances; recursion that nothing calls |
| `CallGraphView`, `CallGraphPanel`, `IsolatedSubgraphTableModel` | a pointer to the graph, items, active and selected node, selected row | `setGraph`, `clearGraph`, `setActiveFunction`, `rebuildScene` | a pointer into a session that is replaced; node and row select each other |
| `AssemblyGraphTable` | rows, flow arrows and their lanes | `setFlowEdges`, `assignFlowLanes` | lanes run out |
| `PseudocodeView`, `PseudocodeHighlighter`, `GraphOverviewWidget` | links, colours, geometry | activation, painting | nothing beyond what they are given |

Interactions. `AnalysisSession::analyze` calls loader, discovery, disassembler,
builder, graph, ABI, lifter, call graph, data flow and generator in this order, all
on one thread. `MainWindow::loadBinary` runs it on a worker thread and waits in a
nested event loop that delivers no user input; it then replaces its session in one
assignment, so that every pointer the views hold into the old one is invalid. The
views report what the user does through signals; the slots select functions, which
emits further signals. `BinaryPatcher` reads the loader of the session and the file
system, and its success makes the window load the output.

There is no persistence and no messaging; concurrency is the worker thread, the
nested event loops, the re-entrant signals, and other programs that use the same
files. What must hold of each component is in the tables of section 3; the places in
the code where it could go wrong are listed in `PROJECT.json` under `hazards`.

## 2. Modules

| Module | Models | Composition |
|---|---|---|
| `ElfLoader` | `load` and `parse`, one header, table entry or symbol per step; the translations of addresses, `bytesForSection` | |
| `BasicBlocks` | instructions, blocks, terminators | extended by the next two |
| `BasicBlockBuilder` | both passes of `build`, one instruction per step | `BasicBlocks` |
| `ControlFlowGraph` | `build` with each iteration of its five loops, `reset`, `blockContaining` | `BasicBlocks` |
| `AssemblyGraphTable` | `assignFlowLanes`, one arrow per step | |
| `FunctionListing` | the listing of a function beside its blocks, with an arrow for every jump to a listed instruction | composes `BasicBlockBuilder` and `AssemblyGraphTable` |
| `TextSection` | bytes of `.text` and what they decode to at an address | extended by the next |
| `FunctionDiscovery` | `discover`: symbols, entry point, heuristic, worklist of calls, naming | `TextSection` |
| `CallGraph` | `build`, one function or instruction per step, `clear` | |
| `CallGraphLayoutEngine` | `layout`: components, roots and order, the two searches for layers, coordinates and rows | `CallGraph`, whose builds it lays out |
| `AnalysisSession` | phases of `analyze`, caches, failures, exceptions, `functionAt` | the components it calls are steps |
| `BrowserHistory` | abstract: places visited, Back, Forward | implemented by `MainWindow` |
| `MainWindow` | loading, search, navigation, history, listing, patch dialog | `INSTANCE BrowserHistory` |
| `CallGraphPanel` | the scene with its selected node and the table of subgraphs, beside the window | composes with `MainWindow` |
| `BinaryPatcher` | `patchInstruction` call by call, with a file system others change | |
| `Lifting` | `AbiAnalyzer::analyze` and what `IRLifter` makes of each instruction | extended by the next |
| `DataFlow` | `DataFlowAnalyzer::analyze`, one instruction per step | `Lifting` |
| `DataFlowExecution` | the function and the code recovered for it, side by side | `DataFlow` |
| `Pseudocode` | `PseudocodeGenerator::generate`, then the printed text and the machine side by side | |
| `*Proofs` | the theorems of the module they are named after; `MainWindowProofs` also those of `CallGraphPanel`, `FunctionViewsProofs` is about `FunctionListing`, with `BasicBlockBuilder` and `AssemblyGraphTable`, and about `Pseudocode`, `AnalysisProofs` about `AnalysisSession` and `DataFlowExecution` | extend it and `TLAPS` |
| `MC*` | the instances for TLC | extend the module |

The three compositions keep the parts as they are. A step of `FunctionListing` is one
of the builder or one of the table; a step of `CallGraphLayoutEngine` is one of the
layout or, between layouts, one of `CallGraph`; a step of `CallGraphPanel` is a step of
`MainWindow` that the pane follows, in the same event, or one of the pane on its own.
So what is proved of `BasicBlockBuilder`, `CallGraph` and `MainWindow` holds in the
compositions, which are what TLC runs.

State and actions keep the source's names. In the algorithms a variable of the
model is a variable of the function or a member of the class, and an action is one
iteration of a loop, with the loop's exit an action of its own; `phase` is the
position in the function. In `MainWindow` an action is a user event with all
signals and slots that run before the event loop is entered again: each slot is an
operator from a window (a record of widget states) to a window, and an action
composes them in the order the code does. The flags `restoringNavigation_` and
`suppressAssemblyFocus_` exist during such a call only and are arguments.

Abstractions that a reader should know of:

* Addresses are small naturals and `MaxAddress` stands for 2^64 - 1; the saturation
  of an instruction's end is kept. In `ElfLoader` a word has `WordValues` values and
  all sums and differences wrap, as those of 64 bits do; the bytes of a file are the
  fields and entries the parser finds in them.
* Decoding is a function from an address and a limit to an instruction (Capstone is
  external); a mark on it stands for what the prologue heuristic looks for.
* Names of functions are sequences, because the suffix of a duplicate matters.
* A cache entry is the binary it was made from; a prototype is a function and the
  binary of its ABI analysis.
* `SessionsAssumption` of `MainWindow` (a valid session has functions, all of them
  cached, with instructions) is what `AnalysisSession` guarantees (`AllOrNothing`)
  and `FunctionDiscovery` (a binary without functions is an error).
  `ListingAssumption` says what comes of the listing of such a session: the rows of a
  function are in one piece and no two functions share an address (`RangesExact`). The
  listing itself is computed with `FlattenSeq`, which recurses, so this is an
  assumption for the proofs; TLC evaluates it.
* `Subgraphs` of `CallGraphPanel` is what `layout` finds for a session. Its assumption
  (subgraphs are disjoint and hold every function) is part of `ComponentsExact`. A press
  on a node or a click into the table moves node or row alone and leaves the function
  of the window as it was; `activateNode` is the window's `NavigateTo`. A Qt view is
  taken to change no selection of its own after a handler. Zoom, scrolling and
  painting are left out.
* In `CallGraphLayoutEngine` lengths are counted in half pixels and computed exactly;
  the code computes them in `double`, which holds such numbers exactly.
* `AssemblyGraphTable` has `MaximumFlowLanes` lanes, twelve in the code. The order in
  which the sort leaves equal arrows is open.
* In `BinaryPatcher` a read and a partial write are one step each, and other
  programs write, remove and create files but do not move an existing file to
  another name.
* In the data flow a register is its family (`eax` and `al` are `rax`) and a value a
  term over the inputs, so that widths, signedness and overflow are left out.
  Multiplication, division, `cdq`, left shifts, `push` and `pop` are in; right shifts,
  pointers and rip-relative operands are not. An instruction that the lifter does not
  know (`not`, `inc`, `xchg`) is in with any operands: it leaves in the registers and
  slots that it writes values that nothing else has. Memory is the frame (`[rbp + d]`) and
  the stack of pushed values; that one is not found through another pointer, nor written by
  a call. `frame` stands for the `push`, `pop` and `mov` of `rbp` around a body, between
  which `rbp` does not move; where `rsp` moves otherwise, nothing pushed is known any
  more. The target of an indirect call or jump is read but not shown. A register that can
  carry an argument has a value at the start, whether or not the analysis finds that it is
  a parameter; every other one is unknown. A text is its expression in postfix order. `stale` and `lapses` are
  history: they say of each text whether the recovery still knew what it means, and no
  action reads them.
* In `Pseudocode` the statements of a block are one line. A block that ends the
  function without a branch is a call that does not return. Of equally near joins any
  may be taken, because the code takes the first of a hash table.
* The tests of `analyze` for a missing or empty `.text` after a successful load can
  never fail (`ElfLoader.cpp:427` refuses such files) and are left out.

## 3. Runs

Every run checks deadlock except the runs of functions that return and stop.

| Run | Distinct states | Bounds | Properties |
|---|---|---|---|
| `ElfLoader` | 90 535 | words of 8 values, files of up to 7 bytes in six families that each vary one part of a good file (`.text`, one segment, two, the tables, symbols, the header); loads repeat, changes by others | `LoadedOrEmpty`, `RangesInside`, `TranslationsAgree` |
| `BasicBlockBuilder` | 131 992 | every stream of up to 3 instructions of all kinds and targets, 4 with fewer kinds; a two-byte instruction; the last byte is the last address; two lanes | `BlocksPartitionPrefix`, `BlocksAreBasic`, `LanesDisjoint` |
| `ControlFlowGraph` | 100 335 | all graphs of 2 and 3 blocks with every terminator, 4 blocks with branches and returns, blocks of several instructions with and without gaps, malformed and unsorted inputs | `TypeOK`, `ReachabilityExact`, `OrdersListReachable`, `DominatorsExact`, `LoopsExact`, `BlockContainingFinds`, `DominatorsOnlyShrink`, `BuildTerminates` |
| `FunctionDiscovery` | 133 588 | `.text` of 4 to 6 bytes, all codes over 5 instructions, 5 symbol tables, stripped or not, limit of 3 functions | `RangesExact`, `KnownStartsKept`, `CallsOfIntactFunctionsFollowed`, `SymbolsDecide`, `HeuristicStartsExact` |
| `CallGraph` | 12 281 | two functions in both orders or one twice, up to 3 instructions, callees inside and outside, builds repeat; for the layout all graphs of three functions, with main (`Mains` = {20}) or without, and four larger ones | `GraphExact`, `ComponentsExact`, `LayersExact`, `NothingOverlaps` |
| `AnalysisSession` | 181 | 8 binaries that share addresses, failing at each function, without functions, rejected; analyses repeat | `NoStaleEntries`, `AllOrNothing`, `PrototypesComplete`, `FunctionAtFinds` |
| `MainWindow` | 35 507 | three valid sessions and a failed one, 5 searches, history of 6 (`MaxHistory`), the call-graph pane with its subgraphs | `HistoryFollowsSelection`, `PanesAgree`, `SelectionVisible`, `ViewsOfSession`, `ListingStays`, `ImplementsBrowserHistory`, `PanelFollows` |
| `BinaryPatcher` | 1 949 323 | file of 4 bytes, 2 names (also of one file), 4 layouts, 11 requests of which some are rejected at once, 2 changes by others | `OnlyConfirmedFilesChange`, `SuccessIsThePatch` |
| `DataFlowExecution` | 408 979 | one block of up to 3 instructions before the return, or of 2 that are executed again and again; three and four blocks (if, if/else, loop) of 1 or 2, with 6 registers and 3 slots; among them instructions that are not lifted; a family with products, quotients and the stack; 10 instructions executed | `RecoveredCodeExact`, `ArgumentsAreLive` |
| `Pseudocode` | 178 971 | all graphs of up to 3 blocks, of 4 with a conditional entry, forward graphs of 5 and 6; 7 blocks executed | `PrintedPathsReal`, `EveryBlockPrintedOnce` |

Why the bounds suffice. Irreducible graphs, nested and overlapping loops, dead
blocks and self-loops all exist with three or four blocks. An instruction that is
cut by a function found later needs three bytes and two calls. A stale cache entry
needs two analyses that share an address. A history that forgets or repeats an entry
needs three places, Back, and a new visit. A lost file needs one change by another
program at the right moment; two make a removal and a replacement. A text that is
wrong where it is used needs a definition, a change and a use; a value that is wrong
on one path needs a join or a loop. A block printed under the wrong condition needs
nested conditions with different joins, which six blocks have. Three bits are enough
for every sum of two fields to wrap, and two segments around `.text` for a file offset
with two addresses. A lane that is given away too early needs one more arrow than there
are lanes, and with two lanes four rows have three. The two searches of the layout
disagree in graphs of three functions; a cycle that nothing calls below a deeper layer,
and rows of subgraphs of different heights, are among the larger graphs.

The properties in words stand above each definition. The two runs that TLC must
find violated record where the documentation and the code disagree:

* `RecoveredAlways`: README line 438 lists `neg` + `cmovs` as recovered, but the sign
  condition is printed as that of `left & right` (`DataFlowAnalyzer.cpp:333`), which
  after `neg eax` is `((-arg0) & 0) < 0` and never holds. The recovered
  `absolute_value` returns `-arg0`.
* `GoesOn`: README line 375 says that the generator prints labels or a comment where it
  is not certain. A conditional jump out of the function leaves one successor in the
  graph, and `PseudocodeGenerator.cpp:286` and `:394` go on with it without the
  condition and without a comment.

What holds instead is checked as well: `SymbolsDecide` (names repeat only if some
symbol looks suffixed, symbols win over everything), `PrintedPathsReal` (the printed
paths are those of the machine but for such a jump), and `RecoveredCodeExact`: the
recovered code is exact unless one of nine lapses is met on the path. For each of them
`RecoveredAlways` has a function of its own that violates it.

| Lapse | What happens | Where |
|---|---|---|
| `shadowed` | after `setcc` or `cmov` a register of a one-block function has a variable; a later write goes to its expression, which is never read | `DataFlowAnalyzer.cpp:104`, `:239` |
| `loop` | a function of one block that jumps back to itself keeps its registers as expressions of their values before the first round (README lines 284 and 363 give variables to functions of several blocks only) | `DataFlowAnalyzer.cpp:693` |
| `overwritten` | a cached text mentions a stack variable or result that has been assigned since | `:220` |
| `other block` | what was stored to a stack parameter in one block is used in another (README line 284 rules that out for registers) | `:120` |
| `flags` | a comparison is paired with a condition although an instruction between them writes the flags | `:561` |
| `sign` | the sign condition after `cmp` or `neg`, as above | `:333` |
| `unnamed` | what a register holds has no name in the recovered code and is shown as something older: the remainder of a division (`mov eax, edx`), because division and multiplication name only `rax` and `cdq` is not lifted; what is written to a frame register (`mov rax, rsp`); what an instruction that is not lifted leaves in a register (`mov eax, edi; not eax; ret` gives `return arg0`); a parameter that is written on a path listed before the one that reads it, whose temporary has no initial value | `IRLifter.cpp:590`, `:710`, `DataFlowAnalyzer.cpp:228`, `:437`, `AbiAnalyzer.cpp:223` |
| `unlifted` | an instruction that is not lifted writes a variable on the stack, which keeps its older text | `IRLifter.cpp:710` |
| `stack` | `push` and `pop` all name the one slot `[rsp]`: a `pop` shows the last push, even when that has been popped already, `rsp` has moved, or nothing has been pushed | `IRLifter.cpp:661` |

README line 286 says that registers a call clobbers are invalidated after it. In a
function of one block they are (`ArgumentsAreLive`, as long as it runs for the first
time); in one of several, line 608
keeps them, and the values that are offered then are not defined by the calling
convention.

Three more places where `FunctionDiscovery` does less than README says, which no run
records. README line 205 says that duplicates get a suffix "so that they are always
unique"; `FunctionDiscovery.cpp:292` does not look the suffixed name up again, and a
symbol that is called so already makes two functions of one name (`SymbolsDecide` is
what holds). A function is swept once (line 241), so that one whose range is cut later
decodes differently in the end and its calls have not been followed (README line 202;
`CallsOfIntactFunctionsFollowed` is what holds). And a call target that the heuristic
has found is skipped (line 258) before the sources can be merged and stays
`Heuristic` (README line 205).

One more in the call graph: a test asks that Refresh Layout "should preserve selected
node" (`tests/call_graph_view_tests.cpp:252`). `CallGraphView.cpp:915` takes address 0 for
no selection, so that a node there, the callee of `call 0`, loses it when the scene is
built again. `PanelFollows` says what holds: the selection is kept where the address is
not 0.

### Fairness

Only `ControlFlowGraph` states any: weak fairness of the steps of `build`, which is
a function on one thread that is executed to its end once entered. Calls of `build`
are not fair. No other property is about progress.

## 4. Theorems

| Module | Theorem | Property |
|---|---|---|
| `ControlFlowGraphProofs` | `TypeCorrect`, `ReachabilityCorrect`, `OrdersCorrect`, `DominatorsKept`, `DominatorsCorrect`, `DominatorsComputed`, `DominatorsDescend`, `LoopsCorrect`, `BlocksFound` | `TypeOK`, `ReachabilityExact`, `OrdersListReachable`, `NoDominatorLost`, `DominatorsSound`, `DominatorsExact`, `DominatorsOnlyShrink`, `LoopsExact`, `BlockContainingFinds` |
| `FunctionDiscoveryProofs` | `FunctionRangesCorrect`, `StartsCorrect`, `SymbolsCorrect`, `HeuristicCorrect`, `CallsCorrect` | `RangesExact`, `KnownStartsKept`, `SymbolsDecide`, `HeuristicStartsExact`, `CallsOfIntactFunctionsFollowed` |
| `FunctionViewsProofs` | `BlocksPartition`, `BlocksBasic`, `LanesKeptApart`, `PrintedOnce`, `PathsReal` | `BlocksPartitionPrefix`, `BlocksAreBasic`, `LanesDisjoint`, `EveryBlockPrintedOnce`, `PrintedPathsReal` |
| `MainWindowProofs` | `HistoryCorrect`, `SelectionCorrect`, `GraphCorrect`, `PatchCorrect`, `ViewsCorrect`, `HistoryRefined`, `PanesCorrect`, `ListingCorrect`, `PanelCorrect` | `HistoryFollowsSelection`, `SelectionVisible`, `NoDanglingGraph`, `PatchNeedsInstruction`, `ViewsOfSession`, `ImplementsBrowserHistory`, `PanesAgree`, `ListingStays`, `PanelFollows` |
| `AnalysisProofs` | `EntriesFresh`, `ValidComplete`, `FailureEmpty`, `PrototypesSeen`, `LoopsFit`, `AnalysisComplete`, `FunctionFound`, `ArgumentsLive`, `RecoveredCode` | `NoStaleEntries`, `ValidMeansComplete`, `FailureLeavesNothing`, `PrototypesComplete`, `LoopsFitTogether`, `AllOrNothing`, `FunctionAtFinds`, `ArgumentsAreLive`, `RecoveredCodeExact` |
| `CallGraphProofs` | `NodesIndexed`, `ExternalCorrect`, `CallSiteCorrect`, `FailureEmpty`, `EdgesCorrect`, `GraphCorrect`, `ComponentsCorrect`, `LayersCorrect`, `PlacesApart` | `IndicesPointAtNodes`, `ExternalMeansNoFunction`, `CallSiteIsFirst`, `FailureLeavesNothing`, `EdgesAreTheCalls`, `GraphExact`, `ComponentsExact`, `LayersExact`, `NothingOverlaps` |
| `BinaryPatcherProofs` | `ConfirmedFiles`, `SuccessCorrect` | `OnlyConfirmedFilesChange`, `SuccessIsThePatch` |
| `ElfLoaderProofs` | `RangesCorrect`, `LoadCorrect`, `TranslationsCorrect` | `RangesInside`, `LoadedOrEmpty`, `TranslationsAgree` |

They hold for all values of the constants that satisfy the assumptions named in the
modules: any set of inputs, of any size, and any size of a word.

* Control-flow graph. The inductive invariant is the type invariant with one
  conjunct per phase. `ReachInv`: the visited blocks are in every closed set, and
  their successors are visited or on the stack; when the stack is empty the visited
  set is closed, hence least; `PreorderInv` and `PostorderInv` say the same of the other
  walks. `OrdersInv`: the frames on the stack are of different
  unfinished blocks, the lowest of them the entry's; a block is in the preorder when it
  is visited and in the postorder when its frame is gone, so that both orders end as
  lists of the reachable blocks without repetition, of one length because their
  elements are the same. `DominatorInv`: a dominator is never removed, because a block
  on every path to `b` is on every path to all reachable predecessors of `b`; and as
  long as no pass has changed a set, the blocks passed satisfy the data-flow equation,
  so at the end the blocks that `d` does not dominate are closed under the edges that
  avoid `d`. `LoopsInv`: the stack of the postorder walk is a path from the entry, and
  it avoids the finished blocks; so a block finishes before all blocks it lies on every
  path to only if it is the same one. Hence a back edge retreats; and of a cycle the
  block that finishes first has a successor in the cycle that finishes no earlier, to
  which the edge retreats, so it is a header unless the graph is irreducible.
  `BlocksFound` is about accepted inputs that are as the builder makes them (`FromBuilder`):
  the last instruction of a block starts before its end, or at a saturated one, and before
  the next block.
* Function discovery. `CandidatesInv`: candidates lie in `.text`, and a size other than 0
  is one that a symbol declares there, because `Merge` only passes sizes on. `EmitInv`: what
  is returned so far are the candidates below the current address that have a range, each
  ending before the next candidate. `KnownInv`, `SourceInv` and `NameInv` speak of the
  symbols looked at so far and make each step of `AddSymbol` a step of a maximum, which is
  why the order of the symbols does not matter; what the sweeps add later has a lower
  priority than all of them and no name (`LaterAdd`). `OutputInv`: names differ unless some
  symbol has a name of two parts, because the suffix is the address and so is the second
  part of a fallback name.
* Sweeps. The addresses of a sweep are those of a function whose value at an address
  is either that of the next address or of the end of the instruction there, so no
  instruction of a sweep starts inside another one (`SweepGap`), and the sweep of a
  range that ends between two instructions is a part of every longer one
  (`IntactSweep`). `HeuristicInv`: the loop knows in `boundary` whether the instruction it
  is at follows a boundary, and has found those below that look like a function.
  `WorklistInv`: each candidate waits in the queue, or its range is being swept, or it was
  swept when the range was no shorter than it is now (`Met`). New candidates only cut
  ranges (`RangeShrinks`), provided the end of `.text` is an address; so what is left of a
  function at the end has been swept, and if it ends between two instructions, then as
  the instructions it is returned with.
* Blocks. `LeadersInv`: the leaders found are those of the instructions met, and all of
  them before the first cut. `PartsInv` and `BlockInv`: the finished blocks are the parts
  of the stream before the current instruction, each from a leader to the instruction
  before the next one. These are stated of the composed `ListingSpec`; every step of it is
  a step of the builder or leaves its variables alone (`ListingBuilds`).
* Lanes. The arrows come in the order of their first rows, so an arrow is free of all
  lanes whose last arrow ended above it; were none free, each lane would hold an arrow
  that passes the first row, one more than `EnoughLanes` allows. The theorem is about
  `TableSpec`, the table with any arrows at all: the listing collects its arrows with
  `SelectSeq`, which the prover cannot expand.
* Pseudocode. What is printed so far, followed by the paths and lines still in hand, is
  one text. `Fits` says that each of its lines has a block that the machine is about to
  execute whenever the line is reached, and that the text hands this block on as
  control flow does: into the arm that a condition selects, over the other arm, behind a
  loop. A path may be replaced by any lines that fit, begin with the path's block, end
  with the block the path stops at, and are indented no less (`FitsReplaced`); each shape
  that `emitStructuredPath` prints for a block does (`ExpansionFits`), and so do the
  chunks of `emitFallbackControlFlow`. So the text fits from the entry to the end of the
  function, and the machine follows it line by line (`Followed`). This leaves out only the
  condition that leads out of the function. `Open` says why nothing is missing: whatever a
  visited block leads to is visited or a path in hand comes for it, and a path
  is only cut at a block that is visited or that a later path comes for; when no path is
  left, the visited blocks are closed under the edges. The proof needs a graph that has
  an entry (`GraphsAssumption`, which is when `generate` prints any block), and of the
  join only that the target's arm can reach it or that there is none: any such join gives
  a right text, so that its being the nearest only decides how much is nested.
* Window. The invariant `Good` relates the fields of a window, and each slot is
  shown to preserve it; an action is a composition of slots, so its proof is a chain
  of lemmas. `GraphInv` and `LoadingInv` say when the call-graph view may have a
  graph. Without the invariant on the rows of the listing (`RowsInv`), `ClickRow` could
  select a function that is not in the list, and the history would lead nowhere. For the
  refinement each event must visit one place or none: `ActivateSymbol` selects twice,
  and only because the function of its row is the one selected first is the second
  selection no visit, which needs `ListingAssumption`.
* Panes. `PanesInv`: pseudocode and active node are the selected function's, no request
  to leave the listing where it is (`preserveAssemblyScroll_`) is pending, and the
  current row is of the selected function. Every selection keeps this except the one a
  click on a row makes, which keeps it because the row it leaves current is of the
  function it selects (`CellChangedAgrees`). The rows of a function are in one piece, so
  that the row is inside the range `navigateFromAssembly` tests. The second part of
  `ListingStays` falls out of the same lemma.
* Call-graph pane. `PaneInv`: outside a load of a valid session view and table hold its
  subgraphs, otherwise nothing, and the selected node is one of theirs or none. Each
  handler is shown to keep it (`UpdatedFits`, `GraphSetFits`, `ActiveFits`, `KeptFits`;
  a node at address 0 is given up by a rebuild and not kept), and each that changes the node brings the row along, because a node is in one subgraph
  exactly. It is inductive together with the window's invariants: a function that is
  displayed has a node only because it is in the list of the session that is shown.
* Session. `CachesInv` says that each entry is of the current binary and that there
  is one per cache and function; `PhaseInv` which entries each phase has already
  made; `ResultInv` what validity and errors mean. They are inductive together only:
  the second loop takes its inputs from the entries of the first. `FunctionFound` is
  about the binary search of `functionAt`: were its result not the number of functions that
  start at the address or below, a smallest interval would give a wrong result, and the
  halves of that interval are smaller.
* Arguments. `Destroyed` are the registers that a call among the first instructions of
  the block has destroyed and nothing has written since; `RecoveryInv` says that none of
  them is on offer and that no recovered call was given one. A call leaves only `rax` on
  offer (`CallOffers`), and every other instruction adds at most the destination of its
  IR (`RecoverOffers`), which is a register that it writes (`DestinationWritten`).
  `ExecutionInv`: while the block runs for the first time, the machine's `clobbered` are
  `Destroyed`. The proof needs instructions that have their operands
  (`ProgramsAssumption`, which the decoder guarantees).
* Recovered code. A text means a value once its names do, and a name means the value
  that the recovered code gives it, or any value where that one is unknown (`Alike`).
  `MachineExact` is stated under such a meaning `mu` of the names and says what the state
  of the recovery knows of the machine: a register without a variable holds what its text
  means and one with a variable what its variable means (`RegisterExact`), a slot what its
  name means and, in the block that stored to it, what its text means (`SlotExact`), and
  the flags are those of the comparison (`FlagsExact`), always except where the text is
  stale or shadowed. `RecoverSteps`: recovering an instruction and executing it keep this,
  with a lemma for each kind of instruction, and the statement gives `values` what it gives
  the names. A lapse is what separates a text from what it meant when it was written, so
  that without one, what is used is what the machine has. The recovery is over when the
  execution begins. `MachineExact` leaves out the registers in `hidden`, whose contents no
  name stands for: at the start those that can carry an argument and were not found to,
  later what products, unlifted instructions and writes to frame registers leave behind;
  using one is the lapse `unnamed` (`NoPathLapses`). Therefore `HistoryInv` keeps, for every block, that there are states
  from which the recovery made its statements one after the other (`Recovers`), and
  `MachineInv` says that the machine stands where one of these states is exact
  (`Follows`). Between blocks only the variables of the registers carry over, and they
  are those of the preparation in every block; all else that a block begins with says
  nothing (`BlockEntered`). In a function of one block the states are followed once, and
  any further round is the lapse `loop`. The proof needs that slots do not overlap
  (`OffsetsAssumption`: a stack parameter has eight bytes), that a call keeps the frame
  registers and has six parameter registers at most (`RegistersAssumption`), and that
  nothing is written to an immediate (`DecodedInstructions`). The paths are all
  those of the graph, because a conditional jump may go either way, and of any length.
* Call graph. `NodesInv` (nodes and index are inverse), `PhaseInv` (the nodes are
  the functions added so far and the callees met so far) and `EdgesInv` (the edges
  are the calls met so far, each with its first site) give the properties when all
  instructions have been met.
* Layout. `LayoutInv` has one conjunct per phase, stated of a graph that does not change
  during it. Components: the finished ones, the current one, the pending nodes and the
  remaining ones cover all nodes; what is finished is closed under calls in both
  directions, and all of the current component is connected to its least address, so that
  the pending list is empty only when it is a connected set. Layers: the pending
  list of a breadth-first walk is sorted by depth, its last depth exceeds its first by one
  at most, and all neighbours of a node that has left it have a depth; so each depth is a
  distance (`Searching`, `BreadthFirst`). The walk over calls comes first, the one over
  calls in both directions keeps its depths. Places: what is in earlier rows lies above the
  corner of the current row, by the largest height in that row; what is in the row
  lies to the left of the corner (`PlacedInv`); in a component each layer lies below the
  one before it, and in a layer each node right of the one before it. The sums of
  widths and heights are sums over sequences of any length (`Above`).
* Patcher. Behind the test for existence, the name of an output that may not be
  overwritten names none of the files that were there at the test; other programs
  can only give it a new one. Nothing has been changed before the output is opened.
  A success is the patch: `StreamInv` says that, as long as nobody else has changed a
  file since the request began, the image is what the source held when it was compared
  with the analysed instruction, the output is the file that the open emptied, and once
  written it holds the image with the replacement at the offset of the address.
* Loader. `BytesInv`, `TablesInv`, `CountsInv` and `TextInv` say what each phase has
  already checked: an entry is added only behind the tests that its range lies in the
  file and does not end above the largest word, and those tests compare differences that
  do not wrap because of the test before them. `CopyInv` and `SymbolsInv` say what each
  loop has taken so far: a prefix of the file's table, and the symbols of the entries that
  it has passed, each once; a loop ends when it has passed all. The translations need that
  an offset is a word, which `SizeInv` takes from the test against `streamsize`
  (`SizesAssumption` has its largest value below 2^w). An address then lies in one
  segment and in one section at most, and where it lies in both, `Consistent` gives both
  the same difference between offset and address.

Recursive functions (the binary search, the sweeps, `Within`, `Above`, `Evaluate`,
`PrepareVariables`) are proved about by their
equation, which follows from the finiteness of their domain, and by the least argument at
which a claim fails.

Only model-checked: `BuildTerminates`, liveness under fairness, which the prover does
not do. Every other property of the passing runs is the statement of a theorem.

## 5. Plan

In this order; the first seven are done.

1. `BasicBlockBuilder`, `ControlFlowGraph` and its proofs: every later analysis
   reads the graph.
2. `FunctionDiscovery`.
3. `MainWindow` over `BrowserHistory`, with proofs.
4. `AnalysisSession`, `CallGraph`, `BinaryPatcher`, with proofs.
5. `DataFlow` against an execution of the instructions, `Pseudocode` against the paths
   of the machine.
6. `ElfLoader`: ranges modulo 2^w and both translations of addresses.
7. `CallGraphLayoutEngine`, the lanes of the assembly table, the call-graph pane; the
   proofs of blocks, orders, loops, discovered functions, panes, the patch and the
   refinement of `BrowserHistory`.
8. Composition of `AnalysisSession` and `MainWindow` in place of
   `SessionsAssumption`.
9. Proofs of the layout of the call graph, of `functionAt`, of the sweeps, of
   `Pseudocode` and of the recovered code (done); that `DataFlow` declares no name twice.

## 6. Not modelled

`Register` is a table from names to data, and `main` passes its argument on to
`loadBinary`. `PseudocodeHighlighter`, `GraphOverviewWidget` and the painting, zooming and
scrolling of the other widgets show what they are given. Of the modelled components these
parts are left out: the paths of arrows in the call graph, the text in the cells of the
subgraph table, the string literals that `AnalysisSession::annotate` puts beside
instructions, the symbol tree's own current item, and `parseHexBytes` and `nopBytes` of
the patcher (a conversion of text, and a constant). Capstone, Qt and the file system are
outside the repository; what the code relies on of them is in the models (decoding, which
signals are emitted, which calls fail). `PROJECT.json` lists every component with its
status and reason.
