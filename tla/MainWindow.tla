------------------------------- MODULE MainWindow -------------------------------
(***************************************************************************)
(* MainWindow: opening a binary with the analysis on a worker thread, the  *)
(* function list and its search, the assembly table, the pseudocode and    *)
(* the call-graph pane that follow the selection, the shared Back/Forward  *)
(* history, and patching.                                                  *)
(*                                                                         *)
(* Every user event is one action: it holds all the signals and slots that *)
(* run before the event loop is entered again.  The slots call each other, *)
(* so each is an operator from a window to a window (a record, "w"), and   *)
(* an action is the composition the code makes.  restoringNavigation_ and  *)
(* suppressAssemblyFocus_ are set only during such a call; they are the    *)
(* last argument of the slots that look at them.                           *)
(***************************************************************************)
EXTENDS Naturals, FiniteSets, SequencesExt

CONSTANTS
  Sessions,     \* what AnalysisSession::analyze can leave behind
  Queries,      \* texts of the search field, each given by the functions it matches
  NoFunction,   \* no list item, no pseudocode, no active node
  MaxHistory    \* bound of the model: entries of the history

Functions == UNION {ToSet(s.functions) : s \in Sessions}

Row == [function : Functions, address : Nat, kind : {"Normal", "Call", "Jump"},
        target : Nat \cup {NoFunction}]

(***************************************************************************)
(* A session: whether it is valid, its functions in address order, the one *)
(* named main, the entry point, the instructions of each function and the  *)
(* functions that are in every cache.  A session with no function is never *)
(* valid (FunctionDiscovery), every function of a valid one has            *)
(* instructions and is in every cache.                                     *)
(***************************************************************************)
ASSUME SessionsAssumption ==
  \A s \in Sessions :
    /\ s.valid \in BOOLEAN
    /\ s.functions \in Seq(Nat)
    /\ s.entry \in Nat
    /\ s.main \in ToSet(s.functions) \cup {NoFunction}
    /\ s.code \in [ToSet(s.functions) -> Seq(Row)]
    /\ s.cached \subseteq ToSet(s.functions)
    /\ s.valid =>
         /\ s.functions # <<>> /\ s.cached = ToSet(s.functions)
         /\ \A f \in ToSet(s.functions) :
              /\ s.code[f] # <<>>
              /\ \A i \in 1 .. Len(s.code[f]) : s.code[f][i].function = f

ASSUME NoFunctionAssumption == NoFunction \notin Nat

ASSUME BoundAssumption == MaxHistory \in Nat

ASSUME QueriesAssumption == Queries \subseteq SUBSET Functions

\* The empty search text: everything matches.
Everything == Functions

VARIABLES
  session,   \* analysisSession_
  phase,     \* "idle", "loading" or "dialog" (a modal patch dialog is open)
  worker,    \* the session the worker has finished, or NoResult
  window     \* the widgets and the history

vars == <<session, phase, worker, window>>

NoResult  == [finished |-> FALSE]
Result(s) == [finished |-> TRUE, session |-> s]

\* The session a MainWindow starts with, and the one after an exception.
FreshSession ==
  [valid |-> FALSE, functions |-> <<>>, main |-> NoFunction, entry |-> 0, code |-> <<>>,
   cached |-> {}]

\* The widgets after clearAnalysisViews and resetNavigation.
Blank ==
  [list |-> <<>>, query |-> Everything, current |-> NoFunction,
   rows |-> <<>>, row |-> 0, preserve |-> FALSE, patchEnabled |-> FALSE,
   shown |-> NoFunction, active |-> NoFunction, graph |-> "none",
   history |-> <<>>, index |-> 0]

Init ==
  /\ session = FreshSession
  /\ phase = "idle"
  /\ worker = NoResult
  /\ window = Blank

--------------------------------------------------------------------------------
(***************************************************************************)
(* The assembly listing: the functions in address order, but the entry     *)
(* function first.                                                         *)
(***************************************************************************)

ListingOrder(s) ==
  IF s.entry \in ToSet(s.functions)
    THEN <<s.entry>> \o SelectSeq(s.functions, LAMBDA f : f # s.entry)
    ELSE s.functions

Listing(s) ==
  LET order == ListingOrder(s)
  IN  FlattenSeq([i \in 1 .. Len(order) |-> s.code[order[i]]])

\* What comes of the listing of a valid session: each function has its rows, in one
\* piece, and no two functions share an address (RangesExact of FunctionDiscovery).
ASSUME ListingAssumption ==
  \A s \in Sessions :
    s.valid =>
      /\ Listing(s) \in Seq(Row)
      /\ \A i \in 1 .. Len(Listing(s)) : Listing(s)[i].function \in ToSet(s.functions)
      /\ \A f \in ToSet(s.functions) :
           \E first, last \in 1 .. Len(Listing(s)) :
             /\ first <= last
             /\ \A i \in 1 .. Len(Listing(s)) :
                  Listing(s)[i].function = f <=> i \in first .. last
      /\ \A i, j \in 1 .. Len(Listing(s)) :
           Listing(s)[i].address = Listing(s)[j].address
             => Listing(s)[i].function = Listing(s)[j].function

\* assemblyFunctionRows_ and assemblyFunctionInstructionCounts_
RowsOf(w, f) == {r \in 1 .. Len(w.rows) : w.rows[r].function = f}

FirstOf(S) == CHOOSE r \in S : \A q \in S : r <= q

--------------------------------------------------------------------------------
(***************************************************************************)
(* The slots.  An index of 0 is -1 in the code.                            *)
(***************************************************************************)

\* Mutation: what Forward leads to is kept when another function is shown.
RecordedKeepsForward(w, f, restoring) ==
  IF restoring \/ (w.index > 0 /\ w.history[w.index] = f)
    THEN w
    ELSE [w EXCEPT !.history = Append(w.history, f), !.index = Len(w.history) + 1]

\* Mutation: the function is compared with the last entry, not the current one.
RecordedAfterLast(w, f, restoring) ==
  IF restoring \/ (w.index > 0 /\ Last(w.history) = f)
    THEN w
    ELSE [w EXCEPT !.history = Append(SubSeq(w.history, 1, w.index), f),
                   !.index = w.index + 1]

\* recordNavigation
Recorded(w, f, restoring) ==
  IF restoring \/ (w.index > 0 /\ w.history[w.index] = f)
    THEN w
    ELSE [w EXCEPT !.history = Append(SubSeq(w.history, 1, w.index), f),
                   !.index = w.index + 1]

\* patchInstructionAction_ as the currentCellChanged slot sets it.
AtRow(s, w, r) == [w EXCEPT !.row = r, !.patchEnabled = s.valid /\ r > 0]

\* focusAssemblyFunction: the slot of the new cell finds the selected function in
\* it and selects nothing.
Focused(s, w, f) == IF RowsOf(w, f) = {} THEN w ELSE AtRow(s, w, FirstOf(RowsOf(w, f)))

\* functionAt, instructionsFor and pseudocodeFor all find something.
IsCached(s, f) == f \in s.cached

\* Mutation: the suppressAssemblyFocus_ is not looked at.
DisplayedAlwaysFocused(s, w, f, restoring, suppress) ==
  IF ~ IsCached(s, f)
    THEN [w EXCEPT !.shown = NoFunction]
    ELSE Focused(s, [Recorded(w, f, restoring) EXCEPT !.active = f, !.shown = f], f)

\* displayFunction
Displayed(s, w, f, restoring, suppress) ==
  LET shown == [Recorded(w, f, restoring) EXCEPT !.active = f, !.shown = f]
  IN  IF ~ IsCached(s, f) THEN [w EXCEPT !.shown = NoFunction]
      ELSE IF w.preserve THEN [shown EXCEPT !.preserve = FALSE]
      ELSE IF suppress THEN shown
      ELSE Focused(s, shown, f)

\* functionList_->setCurrentItem; the signal comes only when the item changes.
CurrentItem(s, w, f, restoring, suppress) ==
  IF w.current = f
    THEN w
    ELSE Displayed(s, [w EXCEPT !.current = f], f, restoring, suppress)

IsHidden(w, f) == f \notin w.query

\* The items of the list that the search does not hide.
VisibleItems(w) == {i \in 1 .. Len(w.list) : w.list[i] \in w.query}

\* filterFunctions, for the text of the search field
Filtered(s, w, q) ==
  LET filtered == [w EXCEPT !.query = q]
  IN  IF /\ w.current # NoFunction
         /\ IsHidden(filtered, w.current)
         /\ VisibleItems(filtered) # {}
        THEN CurrentItem(s, filtered, w.list[FirstOf(VisibleItems(filtered))], FALSE, FALSE)
        ELSE filtered

\* selectFunction finds the address in the list.
CanSelect(w, a) == a \in ToSet(w.list)

\* Mutation: the search text stays when the function it hides is selected.
SelectedHidden(s, w, f, restoring, suppress) == CurrentItem(s, w, f, restoring, suppress)

\* selectFunction: a function the search hides is shown by clearing the search.
Selected(s, w, f, restoring, suppress) ==
  CurrentItem(s, IF IsHidden(w, f) THEN Filtered(s, w, Everything) ELSE w,
              f, restoring, suppress)

\* Mutation: the selection does not follow the row.
CellChangedOnly(s, w, r) == AtRow(s, w, r)

\* The currentCellChanged slot of the assembly table.
CellChanged(s, w, r) ==
  LET moved == AtRow(s, w, r)
      owner == w.rows[r].function
  IN  IF r = w.row THEN w
      ELSE IF w.current # NoFunction /\ owner # w.current /\ CanSelect(w, owner)
             THEN Selected(s, moved, owner, FALSE, TRUE)
             ELSE moved

--------------------------------------------------------------------------------
(***************************************************************************)
(* loadBinary.  While the worker runs only non-input events are processed, *)
(* so no user action happens in the "loading" phase.                       *)
(***************************************************************************)

\* Mutation: the call-graph view keeps its pointer.
WindowWhileLoadingKeepsGraph(w) == [Blank EXCEPT !.graph = w.graph]

\* resetNavigation and clearAnalysisViews
WindowWhileLoading(w) == Blank

\* loadBinary up to the loop that waits for the worker.
StartLoading ==
  /\ phase' = "loading"
  /\ worker' = NoResult
  /\ window' = WindowWhileLoading(window)
  /\ UNCHANGED session

OpenBinary == phase = "idle" /\ StartLoading

\* analyze returns on the worker thread, with a session that is valid or not; an
\* exception leaves an invalid one too.
AnalysisReturns ==
  /\ phase = "loading"
  /\ worker = NoResult
  /\ \E s \in Sessions \cup {FreshSession} : worker' = Result(s)
  /\ UNCHANGED <<session, phase, window>>

\* The call graph of the session that is destroyed is no longer there.
GraphAfter(w) == IF w.graph = "none" THEN "none" ELSE "dangling"

\* populateFunctionList, populateAssemblyListing and setGraph
Populated(s, w) ==
  [w EXCEPT !.list = s.functions, !.rows = Listing(s), !.preserve = TRUE,
            !.graph = "live"]

FirstSelection(s) ==
  IF s.main # NoFunction THEN s.main
  ELSE IF s.entry \in ToSet(s.functions) THEN s.entry
  ELSE s.functions[1]

\* loadBinary after the worker: install the session and fill the views.
FinishLoading ==
  /\ phase = "loading"
  /\ worker # NoResult
  /\ LET s == worker.session
         w == [window EXCEPT !.graph = GraphAfter(window)]
     IN  /\ session' = s
         /\ window' = IF s.valid
                        THEN Selected(s, Populated(s, w), FirstSelection(s), FALSE, FALSE)
                        ELSE w
  /\ phase' = "idle"
  /\ worker' = NoResult

--------------------------------------------------------------------------------
(***************************************************************************)
(* User actions.                                                           *)
(***************************************************************************)

\* Text is typed into the search field.
SearchFunctions(q) ==
  /\ phase = "idle"
  /\ window' = Filtered(session, window, q)
  /\ UNCHANGED <<session, phase, worker>>

\* A click in the function list, on a function of the symbol tree, on a call in the
\* pseudocode or on a node of the call graph; an address the list does not hold
\* (an external function) leaves everything as it is.
NavigateTo(a) ==
  /\ phase = "idle"
  /\ CanSelect(window, a)
  /\ window' = Selected(session, window, a, FALSE, FALSE)
  /\ UNCHANGED <<session, phase, worker>>

RowsAt(w, a) == {r \in 1 .. Len(w.rows) : w.rows[r].address = a}

\* activateSymbolItem for a symbol at the address of row r: the function of the
\* session that holds it is selected, then its row.
ActivateSymbol(r) ==
  /\ phase = "idle"
  /\ r \in 1 .. Len(window.rows)
  /\ CanSelect(window, window.rows[r].function)
  /\ LET w == Selected(session, window, window.rows[r].function, FALSE, FALSE)
     IN  window' = CellChanged(session, w, FirstOf(RowsAt(w, window.rows[r].address)))
  /\ UNCHANGED <<session, phase, worker>>

\* A click on a row, or the cursor keys.
ClickRow(r) ==
  /\ phase = "idle"
  /\ r \in 1 .. Len(window.rows)
  /\ window' = CellChanged(session, window, r)
  /\ UNCHANGED <<session, phase, worker>>

\* navigateFromAssembly takes a row that is not of the selected function for an
\* offset into that function.
ResolvedRow(w, r) ==
  LET own   == RowsOf(w, w.current)
      start == FirstOf(own)
  IN  IF /\ w.current # NoFunction
         /\ own # {}
         /\ ~ (start <= r /\ r < start + Cardinality(own))
         /\ r - 1 < Cardinality(own)
        THEN start + r - 1
        ELSE r

\* A double click, whose first click made the row the current one.
ActivateRow ==
  /\ phase = "idle"
  /\ window.row > 0
  /\ LET i == window.rows[ResolvedRow(window, window.row)]
     IN  \/ /\ i.kind = "Call" /\ i.target # NoFunction
            /\ CanSelect(window, i.target)
            /\ window' = Selected(session, window, i.target, FALSE, FALSE)
         \/ /\ i.kind = "Jump" /\ i.target # NoFunction
            /\ RowsAt(window, i.target) # {}
            /\ window' = CellChanged(session, window, FirstOf(RowsAt(window, i.target)))
  /\ UNCHANGED <<session, phase, worker>>

\* navigateBack and navigateForward, to entry i of the history.
Restored(s, w, i) ==
  IF CanSelect(w, w.history[i])
    THEN Selected(s, [w EXCEPT !.index = i], w.history[i], TRUE, FALSE)
    ELSE [w EXCEPT !.history = <<>>, !.index = 0]

NavigateBack ==
  /\ phase = "idle"
  /\ window.index > 1
  /\ window' = Restored(session, window, window.index - 1)
  /\ UNCHANGED <<session, phase, worker>>

NavigateForward ==
  /\ phase = "idle"
  /\ window.index > 0
  /\ window.index < Len(window.history)
  /\ window' = Restored(session, window, window.index + 1)
  /\ UNCHANGED <<session, phase, worker>>

\* patchSelectedInstruction: a modal dialog for the instruction of the current row.
OpenPatchDialog ==
  /\ phase = "idle"
  /\ window.patchEnabled
  /\ phase' = "dialog"
  /\ UNCHANGED <<session, worker, window>>

\* The dialog is cancelled, or the bytes, the overwrite or BinaryPatcher reject.
RejectPatch ==
  /\ phase = "dialog"
  /\ phase' = "idle"
  /\ UNCHANGED <<session, worker, window>>

\* BinaryPatcher has written the output, which is loaded in place of the binary.
SavePatch == phase = "dialog" /\ StartLoading

Navigate ==
  \/ \E q \in Queries : SearchFunctions(q)
  \/ \E f \in Functions : NavigateTo(f)
  \/ \E r \in 1 .. Len(window.rows) : ClickRow(r) \/ ActivateSymbol(r)
  \/ ActivateRow
  \/ NavigateBack
  \/ NavigateForward

Load == OpenBinary \/ AnalysisReturns \/ FinishLoading

Patch == OpenPatchDialog \/ RejectPatch \/ SavePatch

Next == (Navigate /\ Len(window'.history) <= MaxHistory) \/ Load \/ Patch

Spec == Init /\ [][Next]_vars

--------------------------------------------------------------------------------
(***************************************************************************)
(* Properties.                                                             *)
(***************************************************************************)

(***************************************************************************)
(* The entry of the history that Back and Forward count from is the        *)
(* selected function, there is one exactly when a function is selected, no *)
(* entry repeats the one before it (a step of Back that seems to do        *)
(* nothing) and every entry is a function of the list.                     *)
(***************************************************************************)
HistoryFollows(w) ==
  /\ IF w.current = NoFunction
       THEN w.history = <<>> /\ w.index = 0
       ELSE w.index \in 1 .. Len(w.history) /\ w.history[w.index] = w.current
  /\ \A i \in 1 .. Len(w.history) - 1 : w.history[i] # w.history[i + 1]
  /\ \A i \in 1 .. Len(w.history) : w.history[i] \in ToSet(w.list)

HistoryFollowsSelection == HistoryFollows(window)

(***************************************************************************)
(* The panes agree: the pseudocode and the active node of the call graph   *)
(* are those of the selected function, and so is the current row of the    *)
(* assembly table when there is one, whichever pane the user acted in; so  *)
(* navigateFromAssembly's guess, a row as an offset into the selected      *)
(* function, never redirects a double click on the current row.            *)
(***************************************************************************)
PanesAgree ==
  /\ window.shown = window.current /\ window.active = window.current
  /\ window.row > 0 =>
       /\ window.rows[window.row].function = window.current
       /\ ResolvedRow(window, window.row) = window.row

(***************************************************************************)
(* The selected function is visible in the list, or the search matches     *)
(* none: Back, Forward and links to a hidden function clear the search.    *)
(***************************************************************************)
SelectionVisible ==
  window.current # NoFunction =>
    window.current \in window.query \/ VisibleItems(window) = {}

(***************************************************************************)
(* The call-graph view never keeps a pointer into a destroyed session, and *)
(* outside a load it has a graph exactly when the session is valid.        *)
(***************************************************************************)
NoDanglingGraph ==
  /\ window.graph # "dangling"
  /\ phase # "loading" => (window.graph = "live" <=> session.valid)

(***************************************************************************)
(* Patching is offered exactly when an instruction of a valid session is   *)
(* current, and while the patch dialog is open, which holds a pointer to   *)
(* that instruction, it stays so.                                          *)
(***************************************************************************)
PatchNeedsInstruction ==
  /\ window.patchEnabled <=> (session.valid /\ window.row > 0)
  /\ phase = "dialog" => window.patchEnabled

(***************************************************************************)
(* What the views keep of a session is of the session there is: the graph  *)
(* and the instruction that can be patched.                                *)
(***************************************************************************)
ViewsOfSession == NoDanglingGraph /\ PatchNeedsInstruction

(***************************************************************************)
(* Loading leaves the listing at its top: the first function is selected   *)
(* without moving to its row, so that the entry point stays in view; later *)
(* selections do move.                                                     *)
(***************************************************************************)
EntryStaysInView ==
  [][session' # session \/ phase = "loading" => window'.row = 0]_vars

(***************************************************************************)
(* A click on a row leaves that row current, also when it selects another  *)
(* function, whose selection otherwise moves to its first row: that is     *)
(* what suppressAssemblyFocus_ is for.                                     *)
(***************************************************************************)
ClickKeepsRow ==
  [][\A r \in 1 .. Len(window.rows) : ClickRow(r) => window'.row = r]_vars

(***************************************************************************)
(* The two flags that keep a selection from moving the listing are set for *)
(* exactly those selections: the first one of a load, and clicks on rows.  *)
(***************************************************************************)
ListingStays == EntryStaysInView /\ ClickKeepsRow

\* The history as the browser history that Back and Forward promise.
History ==
  INSTANCE BrowserHistory WITH
    Places  <- Functions,
    Nowhere <- NoFunction,
    past    <- SubSeq(window.history, 1, window.index - 1),
    here    <- IF window.index = 0 THEN NoFunction ELSE window.history[window.index],
    future  <- SubSeq(window.history, window.index + 1, Len(window.history))

(***************************************************************************)
(* The window implements the browser history: whatever selects a function  *)
(* (search, list, links, rows, a load), it visits one place or none, and   *)
(* Back and Forward move between the places visited.                       *)
(***************************************************************************)
ImplementsBrowserHistory == History!Spec

================================================================================
