----------------------------- MODULE FunctionListing -----------------------------
(***************************************************************************)
(* The listing of a function beside its blocks: what disassembles to the   *)
(* blocks of BasicBlockBuilder is also listed in the rows of an            *)
(* AssemblyGraphTable, where MainWindow::populateAssemblyListing gives     *)
(* every jump to a listed instruction an arrow.                            *)
(***************************************************************************)
EXTENDS BasicBlockBuilder, AssemblyGraphTable

listingVars == <<vars, tableVars>>

ListingInit == Init /\ TableInit

\* The instructions are in the rows in their order, from row 0.
InstructionRow(a) == (CHOOSE i \in 1 .. Len(instructions) : instructions[i].address = a) - 1

\* A jump of which the target is known and listed.
HasArrow(i) ==
  IsDirectBranch(i.kind) /\ i.directTarget \in InstructionAddresses

\* pendingFlowEdges, without those that lead nowhere.
FlowEdges ==
  LET jumps == SelectSeq(instructions, HasArrow)
  IN  [k \in 1 .. Len(jumps) |-> [sourceRow |-> InstructionRow(jumps[k].address),
                                  targetRow |-> InstructionRow(jumps[k].directTarget)]]

\* populateAssemblyListing, when the analysis is complete.
PopulateListing ==
  /\ phase = "done"
  /\ flowEdges = <<>> /\ FlowEdges # <<>>
  /\ SetFlowEdges(FlowEdges)
  /\ UNCHANGED vars

\* The listing is cleared for another binary.
ClearListing == flowEdges # <<>> /\ ClearFlowEdges /\ UNCHANGED vars

ListingNext ==
  \/ Next /\ UNCHANGED tableVars
  \/ PopulateListing
  \/ AssignFlowLane /\ UNCHANGED vars
  \/ ClearListing

ListingSpec == ListingInit /\ [][ListingNext]_listingVars

================================================================================
