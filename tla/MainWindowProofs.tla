---------------------------- MODULE MainWindowProofs ----------------------------
(***************************************************************************)
(* The history, the search, the patch action, the panes and the call-graph *)
(* pointer of the main window, and its call-graph pane, for every set of   *)
(* sessions and searches.  Each slot has a lemma that says what it does to *)
(* a good window; an action is then a chain of these lemmas, as it is a    *)
(* chain of calls.                                                         *)
(***************************************************************************)
EXTENDS CallGraphPanel, SequenceTheorems, FiniteSetTheorems, WellFoundedInduction, TLAPS

--------------------------------------------------------------------------------
(***************************************************************************)
(* The elements of a sequence.                                             *)
(***************************************************************************)

\* The elements by index.
LEMMA ToSetIndexed ==
  ASSUME NEW S, NEW s \in Seq(S)
  PROVE  ToSet(s) = {s[i] : i \in 1 .. Len(s)}
BY DEF ToSet

LEMMA ToSetEmpty == ToSet(<<>>) = {}
BY DEF ToSet

LEMMA ToSetSubset ==
  ASSUME NEW S, NEW s \in Seq(S)
  PROVE  ToSet(s) \subseteq S
BY ToSetIndexed

\* Every non-empty set of natural numbers has a least element.
LEMMA LeastElement ==
  ASSUME NEW S \in SUBSET Nat, S # {}
  PROVE  \E m \in S : \A n \in S : m <= n
<1> DEFINE Less == {ss \in Nat \X Nat : ss[1] < ss[2]}
<1>1. IsWellFoundedOn(Less, Nat)
  BY NatLessThanWellFounded, Zenon DEF OpToRel
<1>2. \E m \in S : \A n \in S : ~ (<<n, m>> \in Less)
  <2> HIDE DEF Less
  <2> QED BY <1>1, WFMin
<1>3. \A n, m \in Nat : ~ (<<n, m>> \in Less) => m <= n
  OBVIOUS
<1> QED BY <1>2, <1>3

--------------------------------------------------------------------------------

(***************************************************************************)
(* The inductive invariant.                                                *)
(***************************************************************************)

\* The widgets a window has.
HasFields(w) ==
  w = [list |-> w.list, query |-> w.query, current |-> w.current,
       rows |-> w.rows, row |-> w.row, preserve |-> w.preserve,
       patchEnabled |-> w.patchEnabled, shown |-> w.shown, active |-> w.active,
       graph |-> w.graph, history |-> w.history, index |-> w.index]

WindowType(w) ==
  /\ HasFields(w)
  /\ w.list \in Seq(Functions)
  /\ w.current \in Functions \cup {NoFunction}
  /\ w.history \in Seq(Functions)
  /\ w.index \in Nat

PatchInv(s, w) == w.patchEnabled <=> (s.valid /\ w.row > 0)

\* A window that a function can be selected in, for the session s it shows.
Ready(s, w) ==
  /\ WindowType(w)
  /\ ToSet(w.list) \subseteq s.cached
  /\ PatchInv(s, w)

SelectionShown(w) ==
  w.current # NoFunction => w.current \in w.query \/ VisibleItems(w) = {}

\* What every slot that the user reaches keeps.
Good(s, w) == Ready(s, w) /\ HistoryFollows(w) /\ SelectionShown(w)

--------------------------------------------------------------------------------
(***************************************************************************)
(* The history.                                                            *)
(***************************************************************************)

LEMMA FunctionsNat == Functions \subseteq Nat /\ NoFunction \notin Functions
<1>1. \A s \in Sessions : ToSet(s.functions) \subseteq Nat
  <2> TAKE s \in Sessions
  <2>1. s.functions \in Seq(Nat)
    BY SessionsAssumption
  <2> QED BY <2>1, ToSetSubset
<1> QED BY <1>1, NoFunctionAssumption DEF Functions

\* The history after a function was pushed behind entry i.
LEMMA Pushed ==
  ASSUME NEW S, NEW h \in Seq(S), NEW i \in 0 .. Len(h), NEW f \in S,
         NEW g, g = Append(SubSeq(h, 1, i), f)
  PROVE  /\ g \in Seq(S) /\ Len(g) = i + 1 /\ g[i + 1] = f
         /\ \A k \in 1 .. i : g[k] = h[k]
<1> DEFINE p == SubSeq(h, 1, i)
<1>1. p \in Seq(S) /\ Len(p) = i /\ \A k \in 1 .. i : p[k] = h[k]
  OBVIOUS
<1>2. g = Append(p, f)
  OBVIOUS
<1> HIDE DEF p
<1> QED BY <1>1, <1>2

\* The result of recordNavigation for a newly selected function.
RecordsVisit(w, v, f) ==
  /\ v.history = Append(SubSeq(w.history, 1, w.index), f)
  /\ v.index = w.index + 1

KeepsHistory(w, v) == v.history = w.history /\ v.index = w.index

\* The current entry of the history is f, or Back and Forward are under way.
NotNews(w, f, restoring) == restoring \/ (w.index > 0 /\ w.history[w.index] = f)

\* What selecting f does to the list, the table, the history and the patch action.
Selects(s, w, v, f, restoring) ==
  /\ HasFields(v)
  /\ v.list = w.list /\ v.query = w.query /\ v.rows = w.rows /\ v.graph = w.graph
  /\ v.current = f
  /\ PatchInv(s, v)
  /\ IF NotNews(w, f, restoring) THEN KeepsHistory(w, v) ELSE RecordsVisit(w, v, f)

\* v differs from w in the assembly table only.
SameButRow(w, v) ==
  /\ HasFields(v)
  /\ v.list = w.list /\ v.query = w.query /\ v.rows = w.rows /\ v.graph = w.graph
  /\ v.current = w.current /\ v.history = w.history /\ v.index = w.index

LEMMA AtRowKeeps ==
  ASSUME NEW s, NEW w, HasFields(w), NEW r
  PROVE  SameButRow(w, AtRow(s, w, r)) /\ PatchInv(s, AtRow(s, w, r))
<1> DEFINE enabled == s.valid /\ r > 0
<1>1. PICK e : e = enabled
  OBVIOUS
<1> DEFINE v == [w EXCEPT !.row = r, !.patchEnabled = e]
<1>2. AtRow(s, w, r) = v
  BY <1>1 DEF AtRow
<1>3. HasFields(w) /\ v = [w EXCEPT !.row = r, !.patchEnabled = e]
  OBVIOUS
<1> HIDE DEF enabled, v
<1>4. SameButRow(w, v) /\ v.row = r /\ v.patchEnabled = e
  BY ONLY <1>3 DEF HasFields, SameButRow
<1>5. PatchInv(s, v)
  BY <1>1, <1>4, Zenon DEF PatchInv, enabled
<1> QED BY <1>2, <1>4, <1>5

LEMMA PreserveKeeps ==
  ASSUME NEW s, NEW w, HasFields(w), NEW b
  PROVE  /\ SameButRow(w, [w EXCEPT !.preserve = b])
         /\ PatchInv(s, w) => PatchInv(s, [w EXCEPT !.preserve = b])
<1> DEFINE v == [w EXCEPT !.preserve = b]
<1>1. SameButRow(w, v) /\ v.row = w.row /\ v.patchEnabled = w.patchEnabled
  BY DEF HasFields, SameButRow
<1> HIDE DEF v
<1>2. PatchInv(s, w) => PatchInv(s, v)
  BY <1>1, Zenon DEF PatchInv
<1> QED BY <1>1, <1>2, Zenon DEF v

\* v differs from w in the history only.
SameButHistory(w, v) ==
  /\ HasFields(v)
  /\ v.list = w.list /\ v.query = w.query /\ v.current = w.current
  /\ v.rows = w.rows /\ v.row = w.row /\ v.graph = w.graph
  /\ v.patchEnabled = w.patchEnabled

LEMMA HistoryUpdated ==
  ASSUME NEW w, HasFields(w), NEW h, NEW i, NEW v,
         v = [w EXCEPT !.history = h, !.index = i]
  PROVE  SameButHistory(w, v) /\ v.history = h /\ v.index = i
BY DEF HasFields, SameButHistory

LEMMA ShownUpdated ==
  ASSUME NEW w, HasFields(w), NEW f, NEW v, v = [w EXCEPT !.active = f, !.shown = f]
  PROVE  SameButRow(w, v) /\ v.row = w.row /\ v.patchEnabled = w.patchEnabled
BY DEF HasFields, SameButRow

LEMMA DisplayedSelects ==
  ASSUME NEW s, NEW w, Ready(s, w), NEW f \in ToSet(w.list),
         NEW restoring \in BOOLEAN, NEW suppress \in BOOLEAN,
         NEW v, v = Displayed(s, [w EXCEPT !.current = f], f, restoring, suppress)
  PROVE  Selects(s, w, v, f, restoring)
<1> DEFINE c == [w EXCEPT !.current = f]
           r == Recorded(c, f, restoring)
           a == [r EXCEPT !.active = f, !.shown = f]
<1>1. /\ HasFields(c) /\ c.current = f /\ c.list = w.list /\ c.query = w.query
      /\ c.rows = w.rows /\ c.graph = w.graph /\ c.history = w.history
      /\ c.index = w.index /\ c.row = w.row /\ c.patchEnabled = w.patchEnabled
  BY DEF Ready, WindowType, HasFields
<1> HIDE DEF c
<1>2. /\ SameButHistory(c, r)
      /\ IF NotNews(w, f, restoring) THEN KeepsHistory(w, r) ELSE RecordsVisit(w, r, f)
  <2>1. CASE NotNews(w, f, restoring)
    <3>1. r = c
      BY <1>1, <2>1 DEF Recorded, NotNews
    <3> HIDE DEF r
    <3> QED BY <1>1, <2>1, <3>1 DEF SameButHistory, KeepsHistory
  <2>2. CASE ~ NotNews(w, f, restoring)
    <3> DEFINE h == Append(SubSeq(c.history, 1, c.index), f)
               i == c.index + 1
    <3>1. r = [c EXCEPT !.history = h, !.index = i]
      BY <1>1, <2>2 DEF Recorded, NotNews
    <3>2. h = Append(SubSeq(w.history, 1, w.index), f) /\ i = w.index + 1
      BY <1>1
    <3> HIDE DEF h, i, r
    <3>3. SameButHistory(c, r) /\ r.history = h /\ r.index = i
      BY ONLY <1>1, <3>1 DEF HasFields, SameButHistory
    <3> QED BY <2>2, <3>2, <3>3 DEF RecordsVisit
  <2> QED BY <2>1, <2>2
<1> HIDE DEF r
<1>3. HasFields(r)
  BY <1>2 DEF SameButHistory
<1>4. a = [r EXCEPT !.active = f, !.shown = f]
  OBVIOUS
<1> HIDE DEF a
<1>5. /\ SameButRow(r, a) /\ a.row = r.row /\ a.patchEnabled = r.patchEnabled
  BY ONLY <1>3, <1>4 DEF HasFields, SameButRow
<1>6. Selects(s, w, a, f, restoring)
  <2>1. PatchInv(s, a)
    <3>1. a.row = w.row /\ a.patchEnabled = w.patchEnabled
      BY <1>1, <1>2, <1>5 DEF SameButHistory
    <3> QED BY <3>1, Zenon DEF Ready, PatchInv
  <2> HIDE DEF PatchInv
  <2> QED BY <1>1, <1>2, <1>5, <2>1
          DEF SameButRow, SameButHistory, Selects, KeepsHistory, RecordsVisit
<1>7. Selects(s, w, [a EXCEPT !.preserve = FALSE], f, restoring)
  <2> DEFINE p == [a EXCEPT !.preserve = FALSE]
  <2>1. HasFields(a)
    BY <1>6 DEF Selects
  <2>2. SameButRow(a, p) /\ (PatchInv(s, a) => PatchInv(s, p))
    BY <2>1, PreserveKeeps
  <2> HIDE DEF p
  <2>3. Selects(s, w, p, f, restoring)
    BY <1>6, <2>2 DEF Selects, SameButRow, KeepsHistory, RecordsVisit
  <2> QED BY <2>3, Zenon DEF p
<1>8. ASSUME NEW q PROVE Selects(s, w, AtRow(s, a, q), f, restoring)
  <2> HIDE DEF AtRow
  <2>1. SameButRow(a, AtRow(s, a, q)) /\ PatchInv(s, AtRow(s, a, q))
    BY <1>6, AtRowKeeps DEF Selects
  <2> QED BY <1>6, <2>1 DEF Selects, SameButRow, KeepsHistory, RecordsVisit
<1>9. Selects(s, w, Focused(s, a, f), f, restoring)
  BY <1>6, <1>8 DEF Focused
<1>10. IsCached(s, f)
  BY DEF Ready, IsCached
<1>11. v \in {[a EXCEPT !.preserve = FALSE], a, Focused(s, a, f)}
  BY <1>10 DEF Displayed, a, r, c
<1> QED BY <1>6, <1>7, <1>9, <1>11

--------------------------------------------------------------------------------
(***************************************************************************)
(* The slots keep a good window.                                           *)
(***************************************************************************)

\* What a click, a link or a search may change.
Steps(s, w, v) ==
  Good(s, v) /\ v.list = w.list /\ v.graph = w.graph /\ v.rows = w.rows

\* At most one function is visited, and it is not the one that is shown.
Visits(w, v) ==
  KeepsHistory(w, v) \/ \E f \in Functions : f # w.current /\ RecordsVisit(w, v, f)

\* f is selected, and visited if it was not.
SelectsOnce(w, v, f) ==
  /\ v.current = f
  /\ IF w.current = f THEN KeepsHistory(w, v) ELSE RecordsVisit(w, v, f)

LEMMA RecordedFollows ==
  ASSUME NEW s, NEW w, Ready(s, w), HistoryFollows(w), NEW f \in ToSet(w.list),
         f # w.current, NEW v, Selects(s, w, v, f, FALSE)
  PROVE  Ready(s, v) /\ HistoryFollows(v) /\ RecordsVisit(w, v, f)
<1>1. /\ f \in Functions /\ f # NoFunction /\ w.list \in Seq(Functions)
      /\ w.history \in Seq(Functions) /\ w.index \in Nat
  <2>1. ToSet(w.list) \subseteq Functions
    BY ToSetSubset DEF Ready, WindowType
  <2> QED BY <2>1, FunctionsNat DEF Ready, WindowType
<1>2. w.index \in 0 .. Len(w.history) /\ (w.index > 0 => w.history[w.index] = w.current)
  <2>1. Len(<<>>) = 0
    OBVIOUS
  <2> QED BY <1>1, <2>1 DEF HistoryFollows
<1>3. ~ NotNews(w, f, FALSE)
  BY <1>2 DEF NotNews
<1>4. RecordsVisit(w, v, f) /\ v.list = w.list /\ v.current = f
  BY <1>3 DEF Selects
<1>5. /\ v.history \in Seq(Functions) /\ Len(v.history) = w.index + 1
      /\ v.index = w.index + 1 /\ v.history[w.index + 1] = f
      /\ \A k \in 1 .. w.index : v.history[k] = w.history[k]
  <2>1. v.history = Append(SubSeq(w.history, 1, w.index), f)
    BY <1>4 DEF RecordsVisit
  <2>2. /\ v.history \in Seq(Functions) /\ Len(v.history) = w.index + 1
        /\ v.history[w.index + 1] = f
        /\ \A k \in 1 .. w.index : v.history[k] = w.history[k]
    BY ONLY <1>1, <1>2, <2>1, Pushed
  <2> QED BY <1>4, <2>2 DEF RecordsVisit
<1>6. Ready(s, v)
  <2> HIDE DEF PatchInv
  <2> QED BY <1>1, <1>2, <1>4, <1>5 DEF Ready, WindowType, Selects
<1>7. HistoryFollows(v)
  <2>1. v.index \in 1 .. Len(v.history) /\ v.history[v.index] = v.current
    BY <1>2, <1>4, <1>5
  <2>2. \A i \in 1 .. Len(v.history) - 1 : v.history[i] # v.history[i + 1]
    <3> TAKE i \in 1 .. Len(v.history) - 1
    <3>1. CASE i = w.index
      BY <1>2, <1>5, <3>1
    <3>2. CASE i # w.index
      <4>1. i \in 1 .. Len(w.history) - 1 /\ i \in 1 .. w.index /\ i + 1 \in 1 .. w.index
        BY <1>2, <1>5, <3>2
      <4> QED BY <1>5, <4>1 DEF HistoryFollows
    <3> QED BY <3>1, <3>2
  <2>3. \A i \in 1 .. Len(v.history) : v.history[i] \in ToSet(v.list)
    <3> TAKE i \in 1 .. Len(v.history)
    <3>1. CASE i = w.index + 1
      BY <1>4, <1>5, <3>1
    <3>2. CASE i # w.index + 1
      <4>1. i \in 1 .. Len(w.history) /\ i \in 1 .. w.index
        BY <1>2, <1>5, <3>2
      <4> QED BY <1>4, <1>5, <4>1 DEF HistoryFollows
    <3> QED BY <3>1, <3>2
  <2> QED BY <1>1, <1>4, <2>1, <2>2, <2>3 DEF HistoryFollows
<1> QED BY <1>4, <1>6, <1>7

\* VisibleItems is a function of the list and the search.
LEMMA SameVisible ==
  ASSUME NEW w, NEW v, v.list = w.list, v.query = w.query
  PROVE  VisibleItems(v) = VisibleItems(w)
BY DEF VisibleItems

LEMMA QueryUpdated ==
  ASSUME NEW s, NEW w, Ready(s, w), NEW q, NEW v, v = [w EXCEPT !.query = q]
  PROVE  /\ Ready(s, v) /\ (HistoryFollows(w) => HistoryFollows(v))
         /\ v.query = q /\ v.list = w.list /\ v.current = w.current
         /\ v.rows = w.rows /\ v.graph = w.graph /\ KeepsHistory(w, v)
<1>1. /\ HasFields(v) /\ v.query = q /\ v.list = w.list /\ v.current = w.current
      /\ v.rows = w.rows /\ v.row = w.row /\ v.patchEnabled = w.patchEnabled
      /\ v.graph = w.graph /\ KeepsHistory(w, v)
  BY DEF Ready, WindowType, HasFields, KeepsHistory
<1>2. PatchInv(s, v)
  BY <1>1, Zenon DEF Ready, PatchInv
<1> HIDE DEF PatchInv
<1>3. Ready(s, v)
  BY <1>1, <1>2 DEF Ready, WindowType, KeepsHistory
<1>4. HistoryFollows(w) => HistoryFollows(v)
  BY <1>1 DEF HistoryFollows, KeepsHistory
<1> QED BY <1>1, <1>3, <1>4

LEMMA FirstOfVisible ==
  ASSUME NEW w, VisibleItems(w) # {}
  PROVE  FirstOf(VisibleItems(w)) \in VisibleItems(w)
<1> DEFINE S == VisibleItems(w)
<1>1. S \in SUBSET Nat /\ S # {}
  BY DEF VisibleItems
<1> HIDE DEF S
<1>2. \E r \in S : \A q \in S : r <= q
  BY <1>1, LeastElement
<1>3. FirstOf(S) \in S
  BY <1>2 DEF FirstOf
<1> QED BY <1>3 DEF S

LEMMA FilteredGood ==
  ASSUME NEW s, NEW w, Good(s, w), NEW q
  PROVE  Steps(s, w, Filtered(s, w, q)) /\ Visits(w, Filtered(s, w, q))
<1> DEFINE d == [w EXCEPT !.query = q]
<1>1. /\ Ready(s, d) /\ HistoryFollows(d) /\ d.query = q /\ d.list = w.list
      /\ d.current = w.current /\ d.graph = w.graph /\ d.rows = w.rows /\ KeepsHistory(w, d)
  BY QueryUpdated DEF Good
<1>2. Filtered(s, w, q) =
        IF d.current # NoFunction /\ IsHidden(d, d.current) /\ VisibleItems(d) # {}
          THEN CurrentItem(s, d, d.list[FirstOf(VisibleItems(d))], FALSE, FALSE)
          ELSE d
  BY <1>1 DEF Filtered
<1> HIDE DEF d
<1>3. CASE d.current # NoFunction /\ IsHidden(d, d.current) /\ VisibleItems(d) # {}
  <2> DEFINE f == d.list[FirstOf(VisibleItems(d))]
             v == CurrentItem(s, d, f, FALSE, FALSE)
  <2>1. f \in d.query /\ f \in ToSet(d.list)
    <3>1. FirstOf(VisibleItems(d)) \in VisibleItems(d)
      BY <1>3, FirstOfVisible
    <3>2. d.list \in Seq(Functions)
      BY <1>1 DEF Ready, WindowType
    <3>3. ToSet(d.list) = {d.list[i] : i \in 1 .. Len(d.list)}
      BY <3>2, ToSetIndexed
    <3> HIDE DEF f
    <3> QED BY <3>1, <3>3 DEF VisibleItems, f
  <2>2. f # d.current
    BY <1>3, <2>1 DEF IsHidden
  <2>3. v = Displayed(s, [d EXCEPT !.current = f], f, FALSE, FALSE)
    BY <2>2 DEF CurrentItem
  <2>4. Filtered(s, w, q) = v
    BY <1>2, <1>3
  <2> HIDE DEF f, v
  <2>5. Selects(s, d, v, f, FALSE)
    BY <1>1, <2>1, <2>3, DisplayedSelects
  <2>6. Ready(s, v) /\ HistoryFollows(v) /\ RecordsVisit(d, v, f)
    BY <1>1, <2>1, <2>2, <2>5, RecordedFollows
  <2>7. SelectionShown(v)
    BY <2>1, <2>5 DEF Selects, SelectionShown
  <2>8. Steps(s, w, v)
    BY <1>1, <2>5, <2>6, <2>7 DEF Steps, Good, Selects
  <2>9. Visits(w, v)
    <3>1. f \in Functions
      BY <1>1, <2>1, ToSetSubset DEF Ready, WindowType
    <3> QED BY <1>1, <2>2, <2>6, <3>1 DEF Visits, RecordsVisit, KeepsHistory
  <2> QED BY <2>4, <2>8, <2>9
<1>4. CASE ~ (d.current # NoFunction /\ IsHidden(d, d.current) /\ VisibleItems(d) # {})
  <2>1. SelectionShown(d)
    BY <1>4 DEF SelectionShown, IsHidden
  <2>2. Filtered(s, w, q) = d
    BY <1>2, <1>4
  <2> QED BY <1>1, <2>1, <2>2 DEF Steps, Good, Visits
<1> QED BY <1>3, <1>4
\* A search that matches everything hides nothing: it selects nothing.
Cleared(w, f) == IF IsHidden(w, f) THEN [w EXCEPT !.query = Everything] ELSE w

LEMMA SelectedClears ==
  ASSUME NEW s, NEW w, Ready(s, w), NEW f, NEW restoring, NEW suppress
  PROVE  Selected(s, w, f, restoring, suppress) =
           CurrentItem(s, Cleared(w, f), f, restoring, suppress)
<1> DEFINE d == [w EXCEPT !.query = Everything]
<1>1. d.query = Functions /\ d.current \in Functions \cup {NoFunction}
  BY QueryUpdated DEF Ready, WindowType, Everything
<1>2. Filtered(s, w, Everything) = d
  <2> HIDE DEF d
  <2>1. ~ (d.current # NoFunction /\ IsHidden(d, d.current) /\ VisibleItems(d) # {})
    BY <1>1 DEF IsHidden
  <2> USE DEF d
  <2>2. w.current = d.current
    BY QueryUpdated
  <2> QED BY <2>1, <2>2 DEF Filtered
<1> QED BY <1>2 DEF Selected, Cleared

LEMMA ClearedReady ==
  ASSUME NEW s, NEW w, Ready(s, w), NEW f \in Functions, NEW d, d = Cleared(w, f)
  PROVE  /\ Ready(s, d) /\ (HistoryFollows(w) => HistoryFollows(d))
         /\ f \in d.query /\ d.list = w.list /\ d.current = w.current
         /\ d.rows = w.rows /\ d.graph = w.graph /\ KeepsHistory(w, d)
<1>1. CASE IsHidden(w, f)
  BY <1>1, QueryUpdated DEF Cleared, Everything
<1>2. CASE ~ IsHidden(w, f)
  BY <1>2 DEF Cleared, IsHidden, KeepsHistory
<1> QED BY <1>1, <1>2
\* selectFunction with a good window: a click, a link, the first selection.
LEMMA SelectedGood ==
  ASSUME NEW s, NEW w, Ready(s, w), HistoryFollows(w), NEW f \in ToSet(w.list),
         NEW suppress \in BOOLEAN
  PROVE  /\ Steps(s, w, Selected(s, w, f, FALSE, suppress))
         /\ SelectsOnce(w, Selected(s, w, f, FALSE, suppress), f)
<1> DEFINE d == Cleared(w, f)
           v == CurrentItem(s, d, f, FALSE, suppress)
<1>1. f \in Functions
  BY ToSetSubset DEF Ready, WindowType
<1>2. /\ Ready(s, d) /\ HistoryFollows(d) /\ f \in d.query /\ d.list = w.list
      /\ d.graph = w.graph /\ d.rows = w.rows /\ d.current = w.current /\ KeepsHistory(w, d)
  BY <1>1, ClearedReady
<1>3. Selected(s, w, f, FALSE, suppress) = v
  BY SelectedClears
<1> HIDE DEF d
<1>4. CASE d.current = f
  <2>1. v = d
    BY <1>4 DEF CurrentItem
  <2>2. Steps(s, w, d)
    BY <1>2, <1>4 DEF Steps, Good, SelectionShown
  <2> QED BY <1>2, <1>3, <1>4, <2>1, <2>2 DEF SelectsOnce
<1>5. CASE d.current # f
  <2>1. v = Displayed(s, [d EXCEPT !.current = f], f, FALSE, suppress)
    BY <1>5 DEF CurrentItem
  <2> HIDE DEF v
  <2>2. Selects(s, d, v, f, FALSE)
    BY <1>2, <2>1, DisplayedSelects
  <2>3. Ready(s, v) /\ HistoryFollows(v) /\ RecordsVisit(d, v, f)
    BY <1>2, <1>5, <2>2, RecordedFollows
  <2>4. Steps(s, w, v)
    BY <1>2, <2>2, <2>3 DEF Steps, Good, Selects, SelectionShown
  <2>5. SelectsOnce(w, v, f)
    BY <1>2, <1>5, <2>2, <2>3 DEF SelectsOnce, Selects, RecordsVisit, KeepsHistory
  <2> QED BY <1>3, <2>4, <2>5
<1> QED BY <1>4, <1>5

LEMMA CellChangedGood ==
  ASSUME NEW s, NEW w, Good(s, w), NEW r
  PROVE  /\ Steps(s, w, CellChanged(s, w, r)) /\ Visits(w, CellChanged(s, w, r))
         /\ w.rows[r].function = w.current => KeepsHistory(w, CellChanged(s, w, r))
<1> DEFINE moved == AtRow(s, w, r)
           owner == w.rows[r].function
<1>1. SameButRow(w, moved) /\ PatchInv(s, moved)
  BY AtRowKeeps DEF Good, Ready, WindowType
<1> HIDE DEF moved
<1>2. Ready(s, moved)
  <2> HIDE DEF PatchInv
  <2> QED BY <1>1 DEF Good, Ready, WindowType, SameButRow
<1>3. HistoryFollows(moved)
  BY <1>1 DEF Good, HistoryFollows, SameButRow
<1>4. SelectionShown(moved)
  BY <1>1, SameVisible DEF Good, SelectionShown, SameButRow
<1>5. /\ Steps(s, w, w) /\ Steps(s, w, moved)
      /\ KeepsHistory(w, w) /\ KeepsHistory(w, moved) /\ Visits(w, w) /\ Visits(w, moved)
  BY <1>1, <1>2, <1>3, <1>4 DEF Steps, Good, SameButRow, KeepsHistory, Visits
<1>6. ASSUME CanSelect(w, owner)
      PROVE  /\ Steps(s, w, Selected(s, moved, owner, FALSE, TRUE))
             /\ Visits(w, Selected(s, moved, owner, FALSE, TRUE))
  <2> DEFINE v == Selected(s, moved, owner, FALSE, TRUE)
  <2>1. owner \in ToSet(moved.list) /\ owner \in Functions
    <3>1. owner \in ToSet(w.list) /\ ToSet(w.list) \subseteq Functions
      BY <1>6, ToSetSubset DEF CanSelect, Good, Ready, WindowType
    <3> QED BY <1>1, <3>1 DEF SameButRow
  <2>2. Steps(s, moved, v) /\ SelectsOnce(moved, v, owner)
    BY <1>2, <1>3, <2>1, SelectedGood
  <2> HIDE DEF v, owner
  <2>3. Steps(s, w, v)
    BY <1>1, <2>2 DEF Steps, SameButRow
  <2>4. Visits(w, v)
    BY <1>1, <2>1, <2>2 DEF Visits, SelectsOnce, SameButRow, KeepsHistory, RecordsVisit
  <2> QED BY <2>3, <2>4 DEF v
<1>7. CellChanged(s, w, r) \in {w, moved}
      \/ /\ CanSelect(w, owner) /\ owner # w.current
         /\ CellChanged(s, w, r) = Selected(s, moved, owner, FALSE, TRUE)
  <2> USE DEF moved
  <2>1. moved.current = w.current /\ moved.list = w.list
    BY <1>1 DEF SameButRow
  <2> QED BY <2>1 DEF CellChanged
<1> QED BY <1>5, <1>6, <1>7

\* Back and Forward, to an entry next to the current one.
LEMMA RestoredGood ==
  ASSUME NEW s, NEW w, Good(s, w), NEW i \in 1 .. Len(w.history),
         i = w.index + 1 \/ i + 1 = w.index, w.index > 0
  PROVE  /\ Steps(s, w, Restored(s, w, i))
         /\ Restored(s, w, i).history = w.history /\ Restored(s, w, i).index = i
<1> DEFINE f == w.history[i]
           e == [w EXCEPT !.index = i]
           d == Cleared(e, f)
           v == CurrentItem(s, d, f, TRUE, FALSE)
<1>1. /\ w.history \in Seq(Functions) /\ w.index \in 1 .. Len(w.history)
      /\ w.history[w.index] = w.current /\ f \in ToSet(w.list) /\ f \in Functions
  <2>1. w.history \in Seq(Functions) /\ w.index \in Nat
    BY DEF Good, Ready, WindowType
  <2>2. w.index # 0
    BY <2>1
  <2> QED BY <2>1, <2>2 DEF Good, HistoryFollows
<1>2. f # w.current
  <2>1. CASE i = w.index + 1
    <3>1. w.index \in 1 .. Len(w.history) - 1
      BY <1>1, <2>1
    <3> QED BY <1>1, <2>1, <3>1 DEF Good, HistoryFollows
  <2>2. CASE i + 1 = w.index
    <3>1. i \in 1 .. Len(w.history) - 1
      BY <1>1, <2>2
    <3> QED BY <1>1, <2>2, <3>1 DEF Good, HistoryFollows
  <2> QED BY <2>1, <2>2
<1>3. /\ Ready(s, e) /\ e.list = w.list /\ e.current = w.current /\ e.graph = w.graph
      /\ e.history = w.history /\ e.index = i /\ e.rows = w.rows
  <2>0. HasFields(w) /\ e = [w EXCEPT !.index = i]
    BY DEF Good, Ready, WindowType
  <2> HIDE DEF e
  <2>1. /\ HasFields(e) /\ e.list = w.list /\ e.current = w.current /\ e.graph = w.graph
        /\ e.history = w.history /\ e.index = i /\ e.row = w.row
        /\ e.patchEnabled = w.patchEnabled /\ e.rows = w.rows
    BY ONLY <2>0 DEF HasFields
  <2>2. PatchInv(s, e)
    BY <2>1, Zenon DEF Good, Ready, PatchInv
  <2> HIDE DEF PatchInv
  <2> QED BY <2>1, <2>2 DEF Good, Ready, WindowType
<1>4. Restored(s, w, i) = Selected(s, e, f, TRUE, FALSE)
  BY <1>1 DEF Restored, CanSelect
<1> HIDE DEF e, f
<1>5. /\ Ready(s, d) /\ f \in d.query /\ d.list = w.list /\ d.current = w.current
      /\ d.graph = w.graph /\ d.history = w.history /\ d.index = i /\ d.rows = w.rows
  <2>1. f \in Functions /\ d = Cleared(e, f)
    BY <1>1
  <2> HIDE DEF d
  <2>2. /\ Ready(s, d) /\ f \in d.query /\ d.list = e.list /\ d.current = e.current
        /\ d.graph = e.graph /\ d.rows = e.rows /\ KeepsHistory(e, d)
    BY ONLY <1>3, <2>1, ClearedReady
  <2> QED BY <1>3, <2>2 DEF KeepsHistory
<1>6. Restored(s, w, i) = v
  BY <1>3, <1>4, SelectedClears
<1> HIDE DEF d
<1>7. v = Displayed(s, [d EXCEPT !.current = f], f, TRUE, FALSE)
  BY <1>2, <1>5 DEF CurrentItem
<1> HIDE DEF v
<1>8. Selects(s, d, v, f, TRUE)
  BY <1>1, <1>5, <1>7, DisplayedSelects
<1>9. /\ HasFields(v) /\ v.list = w.list /\ v.current = f /\ v.graph = w.graph
      /\ v.history = w.history /\ v.index = i /\ f \in v.query /\ PatchInv(s, v)
      /\ v.rows = w.rows
  BY <1>5, <1>8 DEF Selects, NotNews, KeepsHistory
<1> HIDE DEF PatchInv
<1>10. Ready(s, v)
  BY <1>1, <1>9 DEF Good, Ready, WindowType
<1>11. HistoryFollows(v)
  BY <1>1, <1>9, FunctionsNat DEF Good, HistoryFollows, f
<1>12. SelectionShown(v)
  BY <1>9 DEF SelectionShown
<1> QED BY <1>6, <1>9, <1>10, <1>11, <1>12 DEF Steps, Good

--------------------------------------------------------------------------------
(***************************************************************************)
(* The invariant.                                                          *)
(***************************************************************************)

Analysed == Sessions \cup {FreshSession}

GraphInv ==
  /\ window.graph \in {"none", "live"}
  /\ phase # "loading" => (window.graph = "live" <=> session.valid)

\* The assembly table has the listing of the session there is, or nothing.
RowsInv ==
  window.rows = <<>>
    \/ (session \in Sessions /\ session.valid /\ window.rows = Listing(session))

LoadingInv ==
  /\ worker = NoResult \/ \E s \in Analysed : worker = Result(s)
  /\ phase = "loading" => window = Blank

IInv ==
  /\ Good(session, window)
  /\ GraphInv
  /\ RowsInv
  /\ LoadingInv
  /\ phase = "dialog" => window.patchEnabled

LEMMA BlankGood == ASSUME NEW s PROVE Good(s, Blank)
<1> DEFINE w == Blank
<1>1. /\ HasFields(w) /\ w.list = <<>> /\ w.current = NoFunction /\ w.row = 0
      /\ w.patchEnabled = FALSE /\ w.history = <<>> /\ w.index = 0
  BY DEF HasFields, Blank
<1> HIDE DEF w
<1>2. PatchInv(s, w)
  BY <1>1 DEF PatchInv
<1>3. <<>> \in Seq(Functions) /\ ToSet(<<>>) = {} /\ Len(<<>>) = 0
  BY ToSetEmpty
<1> HIDE DEF PatchInv
<1>4. Ready(s, w)
  BY <1>1, <1>2, <1>3 DEF Ready, WindowType
<1>5. HistoryFollows(w) /\ SelectionShown(w)
  BY <1>1, <1>3 DEF HistoryFollows, SelectionShown
<1> QED BY <1>4, <1>5 DEF Good, w

LEMMA InitHolds == Init => IInv
<1> SUFFICES ASSUME Init PROVE IInv
  OBVIOUS
<1>1. Good(session, window)
  BY BlankGood DEF Init
<1>2. window.graph = "none" /\ session.valid = FALSE /\ window.rows = <<>>
  BY DEF Init, Blank, FreshSession
<1> QED BY <1>1, <1>2 DEF Init, IInv, GraphInv, RowsInv, LoadingInv

\* A slot that ran in the window of the session.
LEMMA StepsHold ==
  ASSUME IInv, phase = "idle", phase' = "idle", UNCHANGED <<session, worker>>,
         Steps(session, window, window')
  PROVE  IInv'
BY DEF IInv, GraphInv, RowsInv, LoadingInv, Steps

LEMMA StartLoadingHolds ==
  ASSUME IInv, StartLoading
  PROVE  IInv'
<1>1. window' = Blank /\ phase' = "loading" /\ worker' = NoResult
  BY DEF StartLoading, WindowWhileLoading
<1>2. window'.graph = "none" /\ window'.rows = <<>>
  BY <1>1 DEF Blank
<1>3. Good(session', window')
  BY <1>1, BlankGood
<1> QED BY <1>1, <1>2, <1>3 DEF IInv, GraphInv, RowsInv, LoadingInv

\* The views of a valid session before its first selection.
LEMMA PopulatedReady ==
  ASSUME NEW s \in Sessions, s.valid, NEW v, v = Populated(s, Blank)
  PROVE  /\ Ready(s, v) /\ HistoryFollows(v) /\ v.list = s.functions /\ v.graph = "live"
         /\ v.rows = Listing(s) /\ v.history = <<>> /\ v.index = 0 /\ v.current = NoFunction
<1>1. /\ HasFields(v) /\ v.list = s.functions /\ v.current = NoFunction /\ v.row = 0
      /\ v.patchEnabled = FALSE /\ v.history = <<>> /\ v.index = 0 /\ v.graph = "live"
      /\ v.rows = Listing(s)
  <2> HIDE DEF Listing
  <2> QED BY DEF Populated, Blank, HasFields
<1>2. s.functions \in Seq(Functions) /\ ToSet(s.functions) \subseteq s.cached
  <2>1. ToSet(s.functions) \subseteq Functions
    BY DEF Functions
  <2>2. s.functions \in Seq(Nat) /\ s.cached = ToSet(s.functions)
    BY SessionsAssumption
  <2>3. \A i \in 1 .. Len(s.functions) : s.functions[i] \in Functions
    BY <2>1, <2>2, ToSetIndexed
  <2> QED BY <2>2, <2>3
<1>3. PatchInv(s, v)
  BY <1>1 DEF PatchInv
<1>4. <<>> \in Seq(Functions) /\ Len(<<>>) = 0
  OBVIOUS
<1> HIDE DEF PatchInv
<1>5. Ready(s, v)
  BY <1>1, <1>2, <1>3, <1>4 DEF Ready, WindowType
<1>6. HistoryFollows(v)
  BY <1>1, <1>4 DEF HistoryFollows
<1> QED BY <1>1, <1>5, <1>6

LEMMA FirstSelectionListed ==
  ASSUME NEW s \in Sessions, s.valid
  PROVE  FirstSelection(s) \in ToSet(s.functions)
<1>1. s.functions \in Seq(Nat) /\ s.functions # <<>>
      /\ s.main \in ToSet(s.functions) \cup {NoFunction}
  BY SessionsAssumption
<1>2. s.functions[1] \in ToSet(s.functions)
  <2>1. 1 \in 1 .. Len(s.functions)
    BY <1>1
  <2> QED BY <1>1, <2>1, ToSetIndexed
<1> QED BY <1>1, <1>2 DEF FirstSelection

\* What a load leaves in the window, which was blank while the worker ran.
LEMMA LoadedWindow ==
  ASSUME IInv, FinishLoading
  PROVE  /\ worker.session \in Analysed /\ session' = worker.session
         /\ window = Blank
         /\ window' = IF worker.session.valid
                        THEN Selected(worker.session, Populated(worker.session, Blank),
                                      FirstSelection(worker.session), FALSE, FALSE)
                        ELSE Blank
<1> DEFINE w == [window EXCEPT !.graph = GraphAfter(window)]
<1>1. worker.session \in Analysed
  <2>1. PICK q \in Analysed : worker = Result(q)
    BY DEF FinishLoading, IInv, LoadingInv
  <2> QED BY <2>1 DEF Result
<1>2. window = Blank
  BY DEF FinishLoading, IInv, LoadingInv
<1>3. w = Blank
  <2>1. Blank.graph = "none" /\ HasFields(Blank)
    BY DEF Blank, HasFields
  <2>2. w = [window EXCEPT !.graph = "none"]
    BY <1>2, <2>1 DEF GraphAfter
  <2> HIDE DEF w
  <2> QED BY <1>2, <2>1, <2>2 DEF HasFields
<1>4. /\ session' = worker.session
      /\ window' = IF worker.session.valid
                     THEN Selected(worker.session, Populated(worker.session, w),
                                   FirstSelection(worker.session), FALSE, FALSE)
                     ELSE w
  BY DEF FinishLoading
<1> HIDE DEF w
<1> QED BY <1>1, <1>2, <1>3, <1>4

LEMMA FinishLoadingHolds ==
  ASSUME IInv, FinishLoading
  PROVE  IInv'
<1> DEFINE s == worker.session
<1>1. s \in Analysed /\ session' = s /\ phase' = "idle" /\ worker' = NoResult
  BY LoadedWindow DEF FinishLoading
<1>2. Blank.graph = "none" /\ Blank.rows = <<>>
  BY DEF Blank
<1>3. window' = IF s.valid
                  THEN Selected(s, Populated(s, Blank), FirstSelection(s), FALSE, FALSE)
                  ELSE Blank
  BY LoadedWindow
<1> HIDE DEF s
<1>4. CASE s.valid
  <2>1. s \in Sessions
    BY <1>1, <1>4 DEF Analysed, FreshSession
  <2> DEFINE p == Populated(s, Blank)
  <2>2. /\ Ready(s, p) /\ HistoryFollows(p) /\ p.list = s.functions /\ p.graph = "live"
        /\ p.rows = Listing(s) /\ FirstSelection(s) \in ToSet(s.functions)
    BY <1>4, <2>1, PopulatedReady, FirstSelectionListed
  <2> HIDE DEF p
  <2>3. Steps(s, p, Selected(s, p, FirstSelection(s), FALSE, FALSE))
    BY <2>2, SelectedGood
  <2>4. window' = Selected(s, p, FirstSelection(s), FALSE, FALSE)
    BY <1>2, <1>3, <1>4 DEF p
  <2>5. Good(s, window') /\ window'.graph = "live" /\ window'.rows = Listing(s)
    BY <2>2, <2>3, <2>4 DEF Steps
  <2> QED BY <1>1, <1>4, <2>1, <2>5 DEF IInv, GraphInv, RowsInv, LoadingInv
<1>5. CASE ~ s.valid
  <2>1. Good(s, window') /\ window'.graph = "none" /\ window'.rows = <<>>
    BY <1>2, <1>3, <1>5, BlankGood
  <2> QED BY <1>1, <1>5, <2>1 DEF IInv, GraphInv, RowsInv, LoadingInv
<1> QED BY <1>4, <1>5

\* No user event touches the list, the rows or the graph.
LEMMA NavigateStays ==
  ASSUME IInv, Navigate
  PROVE  Steps(session, window, window')
<1>0. Good(session, window) /\ Ready(session, window) /\ HistoryFollows(window)
  BY DEF IInv, Good
<1>1. ASSUME NEW q \in Queries, SearchFunctions(q) PROVE Steps(session, window, window')
  BY <1>0, <1>1, FilteredGood DEF SearchFunctions
<1>2. ASSUME NEW f \in Functions, NavigateTo(f) PROVE Steps(session, window, window')
  BY <1>0, <1>2, SelectedGood DEF NavigateTo, CanSelect
<1>3. ASSUME NEW r \in 1 .. Len(window.rows), ClickRow(r)
      PROVE  Steps(session, window, window')
  BY <1>0, <1>3, CellChangedGood DEF ClickRow
<1>4. ASSUME NEW r \in 1 .. Len(window.rows), ActivateSymbol(r)
      PROVE  Steps(session, window, window')
  <2> DEFINE w == Selected(session, window, window.rows[r].function, FALSE, FALSE)
  <2>1. Steps(session, window, w)
    BY <1>0, <1>4, SelectedGood DEF ActivateSymbol, CanSelect
  <2>2. PICK q : window' = CellChanged(session, w, q)
    BY <1>4 DEF ActivateSymbol
  <2> HIDE DEF w
  <2>3. Steps(session, w, window')
    BY <2>1, <2>2, CellChangedGood DEF Steps
  <2> QED BY <2>1, <2>3 DEF Steps
<1>5. ASSUME ActivateRow PROVE Steps(session, window, window')
  <2> DEFINE i == window.rows[ResolvedRow(window, window.row)]
  <2>1. CASE CanSelect(window, i.target)
             /\ window' = Selected(session, window, i.target, FALSE, FALSE)
    BY <1>0, <2>1, SelectedGood DEF CanSelect
  <2>2. CASE window' = CellChanged(session, window, FirstOf(RowsAt(window, i.target)))
    BY <1>0, <2>2, CellChangedGood
  <2> QED BY <1>5, <2>1, <2>2 DEF ActivateRow
<1>6. ASSUME NavigateBack PROVE Steps(session, window, window')
  <2>1. window.index - 1 \in 1 .. Len(window.history)
    <3>1. window.history \in Seq(Functions) /\ window.index \in Nat /\ window.index > 1
      BY <1>0, <1>6 DEF NavigateBack, Ready, WindowType
    <3>2. window.index \in 1 .. Len(window.history)
      BY <1>0, <3>1 DEF HistoryFollows
    <3> QED BY <3>1, <3>2
  <2>2. window.index > 1 /\ window.index \in Nat
    BY <1>0, <1>6 DEF NavigateBack, Ready, WindowType
  <2> QED BY <1>0, <1>6, <2>1, <2>2, RestoredGood DEF NavigateBack
<1>7. ASSUME NavigateForward PROVE Steps(session, window, window')
  <2>1. window.index \in Nat /\ window.history \in Seq(Functions)
    BY <1>0 DEF Ready, WindowType
  <2>2. window.index > 0 /\ window.index + 1 \in 1 .. Len(window.history)
    BY <1>7, <2>1 DEF NavigateForward
  <2> QED BY <1>0, <1>7, <2>1, <2>2, RestoredGood DEF NavigateForward
<1> QED BY <1>1, <1>2, <1>3, <1>4, <1>5, <1>6, <1>7 DEF Navigate

LEMMA NavigateHolds ==
  ASSUME IInv, Navigate
  PROVE  IInv'
BY StepsHold, NavigateStays
   DEF Navigate, SearchFunctions, NavigateTo, ClickRow, ActivateSymbol, ActivateRow,
       NavigateBack, NavigateForward

LEMMA StepHolds == IInv /\ [Next]_vars => IInv'
<1> SUFFICES ASSUME IInv, [Next]_vars PROVE IInv'
  OBVIOUS
<1>1. CASE Navigate
  BY <1>1, NavigateHolds
<1>2. CASE OpenBinary
  BY <1>2, StartLoadingHolds DEF OpenBinary
<1>3. CASE AnalysisReturns
  BY <1>3 DEF AnalysisReturns, IInv, GraphInv, RowsInv, LoadingInv, Analysed
<1>4. CASE FinishLoading
  BY <1>4, FinishLoadingHolds
<1>5. CASE OpenPatchDialog
  BY <1>5 DEF OpenPatchDialog, IInv, GraphInv, RowsInv, LoadingInv
<1>6. CASE RejectPatch
  BY <1>6 DEF RejectPatch, IInv, GraphInv, RowsInv, LoadingInv
<1>7. CASE SavePatch
  BY <1>7, StartLoadingHolds DEF SavePatch
<1>8. CASE UNCHANGED vars
  BY <1>8 DEF vars, IInv, GraphInv, RowsInv, LoadingInv
<1> QED BY <1>1, <1>2, <1>3, <1>4, <1>5, <1>6, <1>7, <1>8 DEF Next, Load, Patch

LEMMA InvariantHolds == Spec => []IInv
BY InitHolds, StepHolds, PTL DEF Spec

--------------------------------------------------------------------------------
(***************************************************************************)
(* What a step does to the history: it visits at most one function, moves  *)
(* to the entry before or after the current one, or forgets everything.    *)
(***************************************************************************)

Moves(w, v) ==
  /\ v.history = w.history /\ v.index \in 1 .. Len(w.history)
  /\ w.index > 0 /\ (v.index = w.index + 1 \/ v.index + 1 = w.index)

Forgets(v) == v.history = <<>> /\ v.index = 0

LEMMA SelectsVisits ==
  ASSUME NEW w, NEW v, NEW f \in Functions, SelectsOnce(w, v, f)
  PROVE  Visits(w, v)
BY DEF SelectsOnce, Visits

\* The row of a symbol belongs to the function that was selected for it.
LEMMA RowsAtFunction ==
  ASSUME RowsInv, NEW r \in 1 .. Len(window.rows), NEW w, w.rows = window.rows
  PROVE  w.rows[FirstOf(RowsAt(w, window.rows[r].address))].function = window.rows[r].function
<1> DEFINE a == window.rows[r].address
           S == RowsAt(w, a)
<1>1. S \in SUBSET Nat /\ r \in S
  BY DEF RowsAt
<1>2. FirstOf(S) \in S
  <2> HIDE DEF S
  <2>1. \E q \in S : \A p \in S : q <= p
    BY <1>1, LeastElement
  <2> QED BY <2>1 DEF FirstOf
<1>3. PICK q \in 1 .. Len(window.rows) : q = FirstOf(S) /\ window.rows[q].address = a
  BY <1>2 DEF RowsAt
<1>4. window.rows[q].function = window.rows[r].function
  <2>1. session \in Sessions /\ session.valid /\ window.rows = Listing(session)
    <3>1. window.rows # <<>>
      <4>1. Len(<<>>) = 0
        OBVIOUS
      <4> QED BY <4>1
    <3> QED BY <3>1 DEF RowsInv
  <2> HIDE DEF Listing
  <2> QED BY <1>3, <2>1, ListingAssumption
<1> QED BY <1>3, <1>4

LEMMA NavigateSteps ==
  ASSUME IInv, Navigate
  PROVE  Visits(window, window') \/ Moves(window, window')
<1>0. Good(session, window) /\ Ready(session, window) /\ HistoryFollows(window) /\ RowsInv
  BY DEF IInv, Good
<1>1. ToSet(window.list) \subseteq Functions
  BY <1>0, ToSetSubset DEF Ready, WindowType
<1>2. window.history \in Seq(Functions) /\ window.index \in Nat
  BY <1>0 DEF Ready, WindowType
<1>3. ASSUME NEW q \in Queries, SearchFunctions(q) PROVE Visits(window, window')
  BY <1>0, <1>3, FilteredGood DEF SearchFunctions
<1>4. ASSUME NEW f \in Functions, NavigateTo(f) PROVE Visits(window, window')
  <2>1. SelectsOnce(window, window', f)
    BY <1>0, <1>4, SelectedGood DEF NavigateTo, CanSelect
  <2> QED BY <2>1, SelectsVisits
<1>5. ASSUME NEW r \in 1 .. Len(window.rows), ClickRow(r) PROVE Visits(window, window')
  BY <1>0, <1>5, CellChangedGood DEF ClickRow
<1>6. ASSUME NEW r \in 1 .. Len(window.rows), ActivateSymbol(r) PROVE Visits(window, window')
  <2> DEFINE f == window.rows[r].function
             w == Selected(session, window, f, FALSE, FALSE)
             q == FirstOf(RowsAt(w, window.rows[r].address))
  <2>1. f \in ToSet(window.list) /\ f \in Functions
    BY <1>1, <1>6 DEF ActivateSymbol, CanSelect
  <2>2. Steps(session, window, w) /\ SelectsOnce(window, w, f)
    BY <1>0, <2>1, SelectedGood
  <2>3. window' = CellChanged(session, w, q)
    BY <1>6 DEF ActivateSymbol
  <2> HIDE DEF w
  <2>4. w.rows = window.rows /\ Good(session, w) /\ w.current = f
    BY <2>2 DEF Steps, SelectsOnce
  <2>5. w.rows[q].function = w.current
    BY <1>0, <2>4, RowsAtFunction
  <2> HIDE DEF f, q
  <2>6. KeepsHistory(w, window')
    BY <2>3, <2>4, <2>5, CellChangedGood
  <2>7. Visits(window, w)
    BY <2>1, <2>2, SelectsVisits
  <2> QED BY <2>6, <2>7 DEF Visits, KeepsHistory, RecordsVisit
<1>7. ASSUME ActivateRow PROVE Visits(window, window')
  <2> DEFINE i == window.rows[ResolvedRow(window, window.row)]
  <2>1. CASE CanSelect(window, i.target)
             /\ window' = Selected(session, window, i.target, FALSE, FALSE)
    <3> HIDE DEF i
    <3>1. i.target \in ToSet(window.list) /\ i.target \in Functions
      BY <1>1, <2>1 DEF CanSelect
    <3>2. SelectsOnce(window, window', i.target)
      BY <1>0, <2>1, <3>1, SelectedGood
    <3> QED BY <3>1, <3>2, SelectsVisits
  <2>2. CASE window' = CellChanged(session, window, FirstOf(RowsAt(window, i.target)))
    BY <1>0, <2>2, CellChangedGood
  <2> QED BY <1>7, <2>1, <2>2 DEF ActivateRow
<1>8. ASSUME NavigateBack PROVE Moves(window, window')
  <2>1. window.index > 1 /\ window.index - 1 \in 1 .. Len(window.history)
    <3>1. window.index > 1
      BY <1>8 DEF NavigateBack
    <3>2. window.index \in 1 .. Len(window.history)
      BY <1>0, <1>2, <3>1 DEF HistoryFollows
    <3> QED BY <1>2, <3>1, <3>2
  <2>2. window'.history = window.history /\ window'.index = window.index - 1
    BY <1>0, <1>2, <1>8, <2>1, RestoredGood DEF NavigateBack
  <2> QED BY <1>2, <2>1, <2>2 DEF Moves
<1>9. ASSUME NavigateForward PROVE Moves(window, window')
  <2>1. window.index > 0 /\ window.index + 1 \in 1 .. Len(window.history)
    BY <1>2, <1>9 DEF NavigateForward
  <2>2. window'.history = window.history /\ window'.index = window.index + 1
    BY <1>0, <1>2, <1>9, <2>1, RestoredGood DEF NavigateForward
  <2> QED BY <1>2, <2>1, <2>2 DEF Moves
<1> QED BY <1>3, <1>4, <1>5, <1>6, <1>7, <1>8, <1>9 DEF Navigate

LEMMA FinishLoadingSteps ==
  ASSUME IInv, FinishLoading
  PROVE  Visits(window, window')
<1> DEFINE s == worker.session
<1>1. s \in Analysed
  BY LoadedWindow
<1>2. window = Blank /\ Blank.history = <<>> /\ Blank.index = 0 /\ Blank.current = NoFunction
  BY LoadedWindow DEF Blank
<1>3. window' = IF s.valid
                  THEN Selected(s, Populated(s, Blank), FirstSelection(s), FALSE, FALSE)
                  ELSE Blank
  BY LoadedWindow
<1> HIDE DEF s
<1>4. CASE s.valid
  <2>1. s \in Sessions
    BY <1>1, <1>4 DEF Analysed, FreshSession
  <2> DEFINE p == Populated(s, Blank)
             f == FirstSelection(s)
  <2>2. /\ Ready(s, p) /\ HistoryFollows(p) /\ p.list = s.functions /\ p.history = <<>>
        /\ p.index = 0 /\ p.current = NoFunction /\ f \in ToSet(s.functions)
    BY <1>4, <2>1, PopulatedReady, FirstSelectionListed
  <2>3. window' = Selected(s, p, f, FALSE, FALSE)
    BY <1>2, <1>3, <1>4
  <2>4. f \in Functions
    BY <2>1, <2>2 DEF Functions
  <2> HIDE DEF p, f
  <2>5. SelectsOnce(p, window', f)
    BY <2>2, <2>3, SelectedGood
  <2>6. Visits(p, window')
    BY <2>4, <2>5, SelectsVisits
  <2> QED BY <1>2, <2>2, <2>6 DEF Visits, KeepsHistory, RecordsVisit
<1>5. CASE ~ s.valid
  BY <1>2, <1>3, <1>5 DEF Visits, KeepsHistory
<1> QED BY <1>4, <1>5

LEMMA HistorySteps ==
  ASSUME IInv, [Next]_vars
  PROVE  Visits(window, window') \/ Moves(window, window') \/ Forgets(window')
<1>1. CASE UNCHANGED window
  BY <1>1 DEF Visits, KeepsHistory
<1>2. CASE StartLoading
  BY <1>2 DEF StartLoading, WindowWhileLoading, Blank, Forgets
<1>3. CASE Navigate
  BY <1>3, NavigateSteps
<1>4. CASE FinishLoading
  BY <1>4, FinishLoadingSteps
<1> QED BY <1>1, <1>2, <1>3, <1>4
        DEF Next, Load, Patch, OpenBinary, SavePatch, AnalysisReturns, OpenPatchDialog,
            RejectPatch, vars

--------------------------------------------------------------------------------
(***************************************************************************)
(* The history as the places behind, at and ahead of the current entry.    *)
(***************************************************************************)

Past(h, i)   == SubSeq(h, 1, i - 1)
Here(h, i)   == IF i = 0 THEN NoFunction ELSE h[i]
Future(h, i) == SubSeq(h, i + 1, Len(h))

LEMMA PrefixElements ==
  ASSUME NEW S, NEW h \in Seq(S), NEW n \in 0 .. Len(h)
  PROVE  /\ SubSeq(h, 1, n) \in Seq(S) /\ Len(SubSeq(h, 1, n)) = n
         /\ \A k \in 1 .. n : SubSeq(h, 1, n)[k] = h[k]
BY SubSeqProperties

LEMMA SamePrefix ==
  ASSUME NEW S, NEW h \in Seq(S), NEW g \in Seq(S), NEW n \in 0 .. Len(h), n <= Len(g),
         \A k \in 1 .. n : g[k] = h[k]
  PROVE  SubSeq(g, 1, n) = SubSeq(h, 1, n)
<1>1. n \in 0 .. Len(g)
  OBVIOUS
<1> DEFINE p == SubSeq(g, 1, n)
           q == SubSeq(h, 1, n)
<1>2. p \in Seq(S) /\ Len(p) = n /\ \A k \in 1 .. n : p[k] = g[k]
  BY <1>1, PrefixElements
<1>3. q \in Seq(S) /\ Len(q) = n /\ \A k \in 1 .. n : q[k] = h[k]
  BY PrefixElements
<1> HIDE DEF p, q
<1>4. p = q
  BY <1>2, <1>3, SeqEqual
<1> QED BY <1>4 DEF p, q

\* The places up to entry i are those before it, and the entry.
LEMMA PrefixGrows ==
  ASSUME NEW S, NEW h \in Seq(S), NEW i \in 1 .. Len(h)
  PROVE  SubSeq(h, 1, i) = Append(SubSeq(h, 1, i - 1), h[i])
<1> DEFINE p == SubSeq(h, 1, i - 1)
           g == Append(p, h[i])
           q == SubSeq(h, 1, i)
<1>1. i - 1 \in 0 .. Len(h) /\ i \in 0 .. Len(h) /\ h[i] \in S
  OBVIOUS
<1>2. p \in Seq(S) /\ Len(p) = i - 1 /\ \A k \in 1 .. i - 1 : p[k] = h[k]
  BY <1>1, PrefixElements
<1>3. q \in Seq(S) /\ Len(q) = i /\ \A k \in 1 .. i : q[k] = h[k]
  BY <1>1, PrefixElements
<1> HIDE DEF p, q
<1>4. g \in Seq(S) /\ Len(g) = i /\ \A k \in 1 .. i : g[k] = h[k]
  BY <1>1, <1>2
<1> HIDE DEF g
<1>5. q = g
  BY <1>3, <1>4, SeqEqual
<1> QED BY <1>5 DEF p, q, g

LEMMA VisitMaps ==
  ASSUME NEW h \in Seq(Functions), NEW i \in 0 .. Len(h), NEW f \in Functions,
         NEW g, g = Append(SubSeq(h, 1, i), f), NEW j, j = i + 1
  PROVE  /\ Here(h, i) = NoFunction => Past(g, j) = <<>>
         /\ Here(h, i) # NoFunction => Past(g, j) = Append(Past(h, i), Here(h, i))
         /\ Future(g, j) = <<>>
<1>1. /\ g \in Seq(Functions) /\ Len(g) = i + 1 /\ g[i + 1] = f
      /\ \A k \in 1 .. i : g[k] = h[k]
  BY Pushed
<1>2. Here(g, i + 1) = f
  BY <1>1 DEF Here
<1>3. Future(g, i + 1) = <<>>
  BY <1>1, SubSeqEmpty DEF Future
<1>4. Past(g, i + 1) = SubSeq(h, 1, i)
  <2>1. SubSeq(g, 1, i) = SubSeq(h, 1, i)
    BY <1>1, SamePrefix
  <2>2. i + 1 - 1 = i
    OBVIOUS
  <2> QED BY <2>1, <2>2 DEF Past
<1>5. CASE i = 0
  <2>1. SubSeq(h, 1, 0) = <<>>
    BY SubSeqEmpty
  <2> QED BY <1>2, <1>3, <1>4, <1>5, <2>1 DEF Here
<1>6. CASE i # 0
  <2>1. Here(h, i) = h[i] /\ h[i] # NoFunction
    BY <1>6, FunctionsNat DEF Here
  <2>2. SubSeq(h, 1, i) = Append(SubSeq(h, 1, i - 1), h[i])
    BY <1>6, PrefixGrows
  <2> QED BY <1>2, <1>3, <1>4, <2>1, <2>2 DEF Past
<1> QED BY <1>1, <1>5, <1>6

LEMMA BackMaps ==
  ASSUME NEW h \in Seq(Functions), NEW i \in 1 .. Len(h), i > 1
  PROVE  /\ Past(h, i) # <<>>
         /\ Past(h, i - 1) = SubSeq(Past(h, i), 1, Len(Past(h, i)) - 1)
         /\ Here(h, i - 1) = Past(h, i)[Len(Past(h, i))]
         /\ Future(h, i - 1) = <<Here(h, i)>> \o Future(h, i)
<1> DEFINE p == Past(h, i)
<1>1. i - 1 \in 0 .. Len(h) /\ i - 1 \in 1 .. i - 1 /\ i - 2 \in 0 .. Len(h)
  OBVIOUS
<1>2. p \in Seq(Functions) /\ Len(p) = i - 1 /\ \A k \in 1 .. i - 1 : p[k] = h[k]
  BY <1>1, PrefixElements DEF Past
<1> HIDE DEF p
<1>3. p # <<>> /\ p[Len(p)] = h[i - 1]
  <2>1. p[Len(p)] = h[i - 1]
    BY <1>1, <1>2
  <2>2. Len(<<>>) = 0 /\ Len(p) # 0
    BY <1>2
  <2> QED BY <2>1, <2>2
<1>4. SubSeq(p, 1, i - 2) = SubSeq(h, 1, i - 2)
  <2>1. i - 2 <= Len(p) /\ \A k \in 1 .. i - 2 : p[k] = h[k]
    BY <1>2
  <2> QED BY <1>1, <1>2, <2>1, SamePrefix
<1>5. Past(h, i - 1) = SubSeq(p, 1, Len(p) - 1)
  <2>1. (i - 1) - 1 = i - 2 /\ Len(p) - 1 = i - 2
    BY <1>2
  <2> QED BY <1>4, <2>1 DEF Past
<1>6. Here(h, i - 1) = p[Len(p)]
  BY <1>3 DEF Here
<1>7. Future(h, i - 1) = <<Here(h, i)>> \o Future(h, i)
  <2>1. SubSeq(h, i, Len(h)) = <<h[i]>> \o SubSeq(h, i + 1, Len(h))
    <3>1. Len(h) \in i .. Len(h)
      OBVIOUS
    <3> QED BY <3>1, SubSeqRecursiveFirst
  <2>2. (i - 1) + 1 = i /\ i # 0
    OBVIOUS
  <2> QED BY <2>1, <2>2 DEF Here, Future
<1> QED BY <1>3, <1>5, <1>6, <1>7 DEF p

LEMMA ForwardMaps ==
  ASSUME NEW h \in Seq(Functions), NEW i \in 1 .. Len(h), i + 1 \in 1 .. Len(h)
  PROVE  /\ Future(h, i) # <<>>
         /\ Past(h, i + 1) = Append(Past(h, i), Here(h, i))
         /\ Here(h, i + 1) = Head(Future(h, i))
         /\ Future(h, i + 1) = Tail(Future(h, i))
<1>1. Len(h) \in i + 1 .. Len(h) /\ i # 0 /\ i + 1 # 0 /\ (i + 1) - 1 = i
  OBVIOUS
<1>2. Head(Future(h, i)) = h[i + 1] /\ Tail(Future(h, i)) = SubSeq(h, (i + 1) + 1, Len(h))
  BY <1>1, HeadTailOfSubSeq DEF Future
<1>3. Future(h, i) # <<>>
  <2>1. \A k \in i + 1 .. Len(h) : h[k] \in Functions
    OBVIOUS
  <2>2. Len(Future(h, i)) = Len(h) - (i + 1) + 1
    BY <1>1, <2>1, SubSeqProperties DEF Future
  <2>3. Len(<<>>) = 0 /\ Len(Future(h, i)) # 0
    BY <1>1, <2>2
  <2> QED BY <2>3
<1>4. Past(h, i + 1) = Append(Past(h, i), Here(h, i))
  BY <1>1, PrefixGrows DEF Past, Here
<1> QED BY <1>1, <1>2, <1>3, <1>4 DEF Here, Future

--------------------------------------------------------------------------------
(***************************************************************************)
(* The theorems.                                                           *)
(***************************************************************************)

(***************************************************************************)
(* The entry of the shared history that Back and Forward count from is the *)
(* selected function, no entry repeats the one before it and all are in    *)
(* the list, whichever of the slots selected it (recordNavigation).        *)
(***************************************************************************)
THEOREM HistoryCorrect == Spec => []HistoryFollowsSelection
<1>1. IInv => HistoryFollowsSelection
  BY DEF IInv, Good, HistoryFollowsSelection
<1> QED BY <1>1, InvariantHolds, PTL

(***************************************************************************)
(* The search never hides the selected function when it matches another    *)
(* one, and no link selects a function that stays hidden (filterFunctions, *)
(* selectFunction).                                                        *)
(***************************************************************************)
THEOREM SelectionCorrect == Spec => []SelectionVisible
<1>1. IInv => SelectionVisible
  BY DEF IInv, Good, SelectionShown, SelectionVisible
<1> QED BY <1>1, InvariantHolds, PTL

(***************************************************************************)
(* The call-graph view never keeps a pointer into a session that loadBinary*)
(* replaced, and has the graph of every valid session.                     *)
(***************************************************************************)
THEOREM GraphCorrect == Spec => []NoDanglingGraph
<1>1. IInv => NoDanglingGraph
  BY DEF IInv, GraphInv, NoDanglingGraph
<1> QED BY <1>1, InvariantHolds, PTL

(***************************************************************************)
(* The patch action is enabled exactly when the session is valid and an    *)
(* instruction is current, in the modal patch dialog too.                  *)
(***************************************************************************)
THEOREM PatchCorrect == Spec => []PatchNeedsInstruction
<1>1. IInv => PatchNeedsInstruction
  BY DEF IInv, Good, Ready, PatchInv, PatchNeedsInstruction
<1> QED BY <1>1, InvariantHolds, PTL

(***************************************************************************)
(* The views keep nothing of a session that is gone.                       *)
(***************************************************************************)
THEOREM ViewsCorrect == Spec => []ViewsOfSession
<1>1. NoDanglingGraph /\ PatchNeedsInstruction => ViewsOfSession
  BY DEF ViewsOfSession
<1> QED BY <1>1, GraphCorrect, PatchCorrect, PTL

(***************************************************************************)
(* For every set of sessions and searches the window implements the        *)
(* history of a browser: every event visits one function or none, moves    *)
(* back or forward to the function next to the current one, or forgets the *)
(* history because another binary is loaded.                               *)
(***************************************************************************)
THEOREM HistoryRefined == Spec => ImplementsBrowserHistory
<1>1. Init => History!Init
  <2> SUFFICES ASSUME Init PROVE History!Init
    OBVIOUS
  <2>1. window.history = <<>> /\ window.index = 0
    BY DEF Init, Blank
  <2>2. SubSeq(<<>>, 1, 0 - 1) = <<>> /\ SubSeq(<<>>, 0 + 1, Len(<<>>)) = <<>>
    <3>1. Len(<<>>) = 0 /\ 0 - 1 \in Int /\ 0 - 1 < 1
      OBVIOUS
    <3> QED BY <3>1, SubSeqEmpty
  <2> QED BY <2>1, <2>2 DEF History!Init
<1>2. IInv /\ [Next]_vars => [History!Next]_(History!vars)
  <2> SUFFICES ASSUME IInv, [Next]_vars PROVE [History!Next]_(History!vars)
    OBVIOUS
  <2> DEFINE h == window.history
             i == window.index
             g == window'.history
             j == window'.index
  <2>1. /\ h \in Seq(Functions) /\ i \in 0 .. Len(h) /\ (i = 0 => h = <<>>)
        /\ Here(h, i) = window.current
    <3>1. HistoryFollows(window) /\ h \in Seq(Functions) /\ i \in Nat
          /\ window.current \in Functions \cup {NoFunction}
      BY DEF IInv, Good, Ready, WindowType
    <3>2. Len(<<>>) = 0
      OBVIOUS
    <3> QED BY <3>1, <3>2 DEF HistoryFollows, Here
  <2>2. CASE KeepsHistory(window, window')
    BY <2>2 DEF KeepsHistory, History!vars
  <2>3. ASSUME NEW f \in Functions, f # window.current, RecordsVisit(window, window', f)
        PROVE  History!Visit(f)
    <3>1. g = Append(SubSeq(h, 1, i), f) /\ j = i + 1
      BY <2>3 DEF RecordsVisit
    <3>2. /\ Past(g, j) = IF Here(h, i) = NoFunction THEN <<>>
                           ELSE Append(Past(h, i), Here(h, i))
          /\ Here(g, j) = f /\ Future(g, j) = <<>>
      <4> HIDE DEF h, i, g, j
      <4>1. h \in Seq(Functions) /\ i \in 0 .. Len(h)
        BY <2>1
      <4>2. /\ Here(h, i) = NoFunction => Past(g, j) = <<>>
            /\ Here(h, i) # NoFunction => Past(g, j) = Append(Past(h, i), Here(h, i))
            /\ Future(g, j) = <<>>
        BY <3>1, <4>1, VisitMaps
      <4>3. g[i + 1] = f
        BY <3>1, <4>1, Pushed
      <4>4. Here(g, j) = f
        BY <3>1, <4>1, <4>3 DEF Here
      <4> QED BY <4>2, <4>4
    <3>3. f # Here(h, i)
      BY <2>1, <2>3
    <3> QED BY <3>2, <3>3 DEF History!Visit, Past, Here, Future
  <2>4. ASSUME Moves(window, window') PROVE History!Back \/ History!Forward
    <3>1. g = h /\ j \in 1 .. Len(h) /\ i \in 1 .. Len(h)
      BY <2>1, <2>4 DEF Moves
    <3>2. CASE j = i + 1
      <4>1. /\ Future(h, i) # <<>> /\ Past(g, j) = Append(Past(h, i), Here(h, i))
            /\ Here(g, j) = Head(Future(h, i)) /\ Future(g, j) = Tail(Future(h, i))
        <5> HIDE DEF h, i, g, j
        <5>1. h \in Seq(Functions) /\ i \in 1 .. Len(h) /\ i + 1 \in 1 .. Len(h)
          BY <2>1, <3>1, <3>2
        <5>2. /\ Future(h, i) # <<>> /\ Past(h, i + 1) = Append(Past(h, i), Here(h, i))
              /\ Here(h, i + 1) = Head(Future(h, i)) /\ Future(h, i + 1) = Tail(Future(h, i))
          BY <5>1, ForwardMaps
        <5> QED BY <3>1, <3>2, <5>2
      <4>2. History!Forward
        BY <4>1 DEF History!Forward, Past, Here, Future
      <4> QED BY <4>2
    <3>3. CASE j + 1 = i
      <4>1. i > 1 /\ j = i - 1
        BY <3>1, <3>3
      <4>2. /\ Past(h, i) # <<>>
            /\ Past(g, j) = SubSeq(Past(h, i), 1, Len(Past(h, i)) - 1)
            /\ Here(g, j) = Past(h, i)[Len(Past(h, i))]
            /\ Future(g, j) = <<Here(h, i)>> \o Future(h, i)
        <5> HIDE DEF h, i, g, j
        <5>1. h \in Seq(Functions) /\ i \in 1 .. Len(h) /\ i > 1
          BY <2>1, <3>1, <4>1
        <5>2. /\ Past(h, i) # <<>>
              /\ Past(h, i - 1) = SubSeq(Past(h, i), 1, Len(Past(h, i)) - 1)
              /\ Here(h, i - 1) = Past(h, i)[Len(Past(h, i))]
              /\ Future(h, i - 1) = <<Here(h, i)>> \o Future(h, i)
          BY <5>1, BackMaps
        <5> QED BY <3>1, <4>1, <5>2
      <4>3. History!Back
        BY <4>2 DEF History!Back, Past, Here, Future
      <4> QED BY <4>3
    <3> QED BY <2>4, <3>2, <3>3 DEF Moves
  <2>5. ASSUME Forgets(window') PROVE History!Forget
    <3>1. g = <<>> /\ j = 0
      BY <2>5 DEF Forgets
    <3>2. SubSeq(<<>>, 1, 0 - 1) = <<>> /\ SubSeq(<<>>, 0 + 1, Len(<<>>)) = <<>>
      <4>1. Len(<<>>) = 0 /\ 0 - 1 \in Int /\ 0 - 1 < 1
        OBVIOUS
      <4> QED BY <4>1, SubSeqEmpty
    <3> QED BY <3>1, <3>2 DEF History!Forget
  <2>6. Visits(window, window') \/ Moves(window, window') \/ Forgets(window')
    BY HistorySteps
  <2> QED BY <2>2, <2>3, <2>4, <2>5, <2>6 DEF Visits, History!Next
<1> QED BY <1>1, <1>2, InvariantHolds, PTL DEF Spec, ImplementsBrowserHistory, History!Spec
--------------------------------------------------------------------------------
(***************************************************************************)
(* The panes: what a slot does to the pseudocode, the active node and the  *)
(* current row.                                                            *)
(***************************************************************************)

\* Nothing has been left for a later selection, and the panes show one function.
PanesInv(w) ==
  /\ w.preserve = FALSE
  /\ w.shown = w.current /\ w.active = w.current
  /\ \/ w.row = 0
     \/ w.row \in 1 .. Len(w.rows) /\ w.rows[w.row].function = w.current

\* The table has rows of exactly the functions in the list.
RowsListed(w) ==
  /\ \A r \in 1 .. Len(w.rows) : w.rows[r].function \in ToSet(w.list)
  /\ \A f \in ToSet(w.list) : RowsOf(w, f) # {}

\* The row that is current once f is selected in w.
RowAfter(w, f, suppress) ==
  IF w.preserve = TRUE \/ suppress = TRUE \/ RowsOf(w, f) = {} THEN w.row ELSE FirstOf(RowsOf(w, f))

\* What a selection of another function does to the panes.
Shows(w, v, f, suppress) ==
  /\ v.current = f /\ v.shown = f /\ v.active = f
  /\ v.preserve = FALSE
  /\ v.rows = w.rows
  /\ v.row = RowAfter(w, f, suppress)

SamePanes(w, v) ==
  /\ v.current = w.current /\ v.shown = w.shown /\ v.active = w.active
  /\ v.preserve = w.preserve /\ v.row = w.row /\ v.rows = w.rows

\* A new current row moves no other pane.
LEMMA AtRowPanes ==
  ASSUME NEW s, NEW w, HasFields(w), NEW r, NEW v, v = AtRow(s, w, r)
  PROVE  /\ v.current = w.current /\ v.shown = w.shown /\ v.active = w.active
         /\ v.preserve = w.preserve /\ v.rows = w.rows /\ v.row = r /\ v.list = w.list
<1> DEFINE enabled == s.valid /\ r > 0
<1>1. PICK e : e = enabled
  OBVIOUS
<1>2. HasFields(w) /\ v = [w EXCEPT !.row = r, !.patchEnabled = e]
  BY <1>1 DEF AtRow
<1> QED BY ONLY <1>2 DEF HasFields

\* Nor does recordNavigation.
LEMMA RecordedPanes ==
  ASSUME NEW w, HasFields(w), NEW f, NEW restoring, NEW v, v = Recorded(w, f, restoring)
  PROVE  HasFields(v) /\ SamePanes(w, v)
<1>1. CASE v = w
  BY <1>1 DEF SamePanes
<1>2. CASE v # w
  <2> DEFINE h == Append(SubSeq(w.history, 1, w.index), f)
             i == w.index + 1
  <2>1. HasFields(w) /\ v = [w EXCEPT !.history = h, !.index = i]
    BY <1>2 DEF Recorded
  <2> HIDE DEF h, i
  <2> QED BY ONLY <2>1 DEF HasFields, SamePanes
<1> QED BY <1>1, <1>2

\* displayFunction shows the function in every pane.
LEMMA DisplayedShows ==
  ASSUME NEW s, NEW w, HasFields(w), NEW f, IsCached(s, f), w.preserve \in BOOLEAN,
         NEW restoring, NEW suppress \in BOOLEAN,
         NEW v, v = Displayed(s, [w EXCEPT !.current = f], f, restoring, suppress)
  PROVE  Shows(w, v, f, suppress)
<1> DEFINE c == [w EXCEPT !.current = f]
           r == Recorded(c, f, restoring)
           a == [r EXCEPT !.active = f, !.shown = f]
<1>1. /\ HasFields(c) /\ c.current = f /\ c.preserve = w.preserve /\ c.row = w.row
      /\ c.rows = w.rows
  BY DEF HasFields
<1>2. v = IF c.preserve THEN [a EXCEPT !.preserve = FALSE]
          ELSE IF suppress THEN a ELSE Focused(s, a, f)
  BY DEF Displayed
<1> HIDE DEF c
<1>3. HasFields(r) /\ SamePanes(c, r)
  BY <1>1, RecordedPanes
<1> HIDE DEF r
<1>4. a = [r EXCEPT !.active = f, !.shown = f]
  OBVIOUS
<1> HIDE DEF a
<1>5. /\ HasFields(a) /\ a.active = f /\ a.shown = f /\ a.current = r.current
      /\ a.preserve = r.preserve /\ a.row = r.row /\ a.rows = r.rows
  BY ONLY <1>3, <1>4 DEF HasFields
<1>6. /\ a.active = f /\ a.shown = f /\ a.current = f /\ a.preserve = w.preserve
      /\ a.row = w.row /\ a.rows = w.rows
  BY <1>1, <1>3, <1>5 DEF SamePanes
<1>7. RowsOf(a, f) = RowsOf(w, f)
  BY <1>6 DEF RowsOf
<1>8. CASE w.preserve = TRUE
  <2>1. v = [a EXCEPT !.preserve = FALSE]
    BY <1>1, <1>2, <1>8
  <2>2. /\ v.active = f /\ v.shown = f /\ v.current = f /\ v.preserve = FALSE
        /\ v.row = w.row /\ v.rows = w.rows
    BY <1>5, <1>6, <2>1 DEF HasFields
  <2> QED BY <1>8, <2>2 DEF Shows, RowAfter
<1>9. CASE w.preserve = FALSE /\ suppress = TRUE
  <2>1. v = a
    BY <1>1, <1>2, <1>9
  <2> QED BY <1>6, <1>9, <2>1 DEF Shows, RowAfter
<1>10. CASE w.preserve = FALSE /\ suppress = FALSE
  <2>1. v = Focused(s, a, f)
    BY <1>1, <1>2, <1>10
  <2>2. CASE RowsOf(w, f) = {}
    <3>1. v = a
      BY <1>7, <2>1, <2>2 DEF Focused
    <3> QED BY <1>6, <1>10, <2>2, <3>1 DEF Shows, RowAfter
  <2>3. CASE RowsOf(w, f) # {}
    <3>1. v = AtRow(s, a, FirstOf(RowsOf(w, f)))
      BY <1>7, <2>1, <2>3 DEF Focused
    <3>2. /\ v.current = a.current /\ v.shown = a.shown /\ v.active = a.active
          /\ v.preserve = a.preserve /\ v.rows = a.rows /\ v.row = FirstOf(RowsOf(w, f))
      BY <1>5, <3>1, AtRowPanes
    <3> QED BY <1>6, <1>10, <2>3, <3>2 DEF Shows, RowAfter
  <2> QED BY <2>2, <2>3
<1> QED BY <1>8, <1>9, <1>10

\* The first of some rows is one of them.
LEMMA FirstRow ==
  ASSUME NEW S \in SUBSET Nat, S # {}
  PROVE  FirstOf(S) \in S
<1>1. \E r \in S : \A q \in S : r <= q
  BY LeastElement
<1> QED BY <1>1 DEF FirstOf

\* After any selection of a listed function but that of a click the panes agree.
LEMMA ShowsAgree ==
  ASSUME NEW w, RowsListed(w), PanesInv(w), NEW f \in ToSet(w.list),
         NEW v, Shows(w, v, f, FALSE)
  PROVE  PanesInv(v)
<1>1. RowsOf(w, f) # {} /\ RowsOf(w, f) \in SUBSET Nat
  BY DEF RowsListed, RowsOf
<1>2. FirstOf(RowsOf(w, f)) \in RowsOf(w, f)
  BY <1>1, FirstRow
<1>3. v.row = FirstOf(RowsOf(w, f))
  BY <1>1 DEF Shows, RowAfter, PanesInv
<1>4. v.row \in 1 .. Len(v.rows) /\ v.rows[v.row].function = f
  BY <1>2, <1>3 DEF Shows, RowsOf
<1> QED BY <1>4 DEF Shows, PanesInv

\* Clearing the search moves no pane.
LEMMA ClearedPanes ==
  ASSUME NEW s, NEW w, Ready(s, w), NEW q, NEW v, v = [w EXCEPT !.query = q]
  PROVE  SamePanes(w, v)
BY DEF Ready, WindowType, HasFields, SamePanes

\* selectFunction.
LEMMA SelectedShows ==
  ASSUME NEW s, NEW w, Ready(s, w), w.preserve \in BOOLEAN, NEW f \in ToSet(w.list),
         NEW restoring, NEW suppress \in BOOLEAN,
         NEW v, v = Selected(s, w, f, restoring, suppress)
  PROVE  IF w.current = f THEN SamePanes(w, v) ELSE Shows(w, v, f, suppress)
<1> DEFINE d == Cleared(w, f)
<1>1. f \in Functions /\ IsCached(s, f)
  BY ToSetSubset DEF Ready, WindowType, IsCached
<1>2. /\ Ready(s, d) /\ d.list = w.list
  BY <1>1, ClearedReady
<1>3. SamePanes(w, d)
  <2>1. CASE IsHidden(w, f)
    BY <2>1, ClearedPanes DEF Cleared
  <2>2. CASE ~ IsHidden(w, f)
    BY <2>2 DEF Cleared, SamePanes
  <2> QED BY <2>1, <2>2
<1>4. v = CurrentItem(s, d, f, restoring, suppress)
  BY SelectedClears
<1> HIDE DEF d
<1>5. CASE w.current = f
  <2>1. v = d
    BY <1>3, <1>4, <1>5 DEF CurrentItem, SamePanes
  <2> QED BY <1>3, <1>5, <2>1
<1>6. CASE w.current # f
  <2>1. v = Displayed(s, [d EXCEPT !.current = f], f, restoring, suppress)
    BY <1>3, <1>4, <1>6 DEF CurrentItem, SamePanes
  <2>2. Shows(d, v, f, suppress)
    <3>1. HasFields(d) /\ d.preserve \in BOOLEAN
      BY <1>2, <1>3 DEF Ready, WindowType, SamePanes
    <3> QED BY <1>1, <2>1, <3>1, DisplayedShows
  <2>3. RowAfter(d, f, suppress) = RowAfter(w, f, suppress) /\ d.rows = w.rows
    BY <1>3 DEF RowAfter, RowsOf, SamePanes
  <2> QED BY <1>6, <2>2, <2>3 DEF Shows
<1> QED BY <1>5, <1>6

\* So the panes agree once a listed function has been selected.
LEMMA SelectedAgrees ==
  ASSUME NEW s, NEW w, Ready(s, w), RowsListed(w), PanesInv(w), NEW f \in ToSet(w.list),
         NEW restoring
  PROVE  PanesInv(Selected(s, w, f, restoring, FALSE))
<1> DEFINE v == Selected(s, w, f, restoring, FALSE)
<1> SUFFICES PanesInv(v)
  OBVIOUS
<1>1. w.preserve \in BOOLEAN
  BY DEF PanesInv
<1>2. IF w.current = f THEN SamePanes(w, v) ELSE Shows(w, v, f, FALSE)
  BY <1>1, SelectedShows
<1> HIDE DEF v
<1>3. CASE SamePanes(w, v)
  BY <1>3 DEF SamePanes, PanesInv
<1>4. CASE Shows(w, v, f, FALSE)
  BY <1>4, ShowsAgree
<1> QED BY <1>2, <1>3, <1>4

\* The search.
LEMMA FilteredAgrees ==
  ASSUME NEW s, NEW w, Good(s, w), RowsListed(w), PanesInv(w), NEW q
  PROVE  PanesInv(Filtered(s, w, q))
<1> DEFINE d == [w EXCEPT !.query = q]
           f == d.list[FirstOf(VisibleItems(d))]
           v == Filtered(s, w, q)
<1>1. /\ Ready(s, d) /\ d.list = w.list /\ d.current = w.current /\ SamePanes(w, d)
  BY QueryUpdated, ClearedPanes DEF Good
<1>2. v = IF d.current # NoFunction /\ IsHidden(d, d.current) /\ VisibleItems(d) # {}
            THEN CurrentItem(s, d, f, FALSE, FALSE) ELSE d
  BY <1>1 DEF Filtered
<1> HIDE DEF d
<1>3. CASE d.current # NoFunction /\ IsHidden(d, d.current) /\ VisibleItems(d) # {}
  <2>1. f \in d.query /\ f \in ToSet(d.list)
    <3>1. FirstOf(VisibleItems(d)) \in VisibleItems(d)
      BY <1>3, FirstOfVisible
    <3>2. d.list \in Seq(Functions)
      BY <1>1 DEF Ready, WindowType
    <3>3. ToSet(d.list) = {d.list[i] : i \in 1 .. Len(d.list)}
      BY <3>2, ToSetIndexed
    <3> HIDE DEF f
    <3> QED BY <3>1, <3>3 DEF VisibleItems, f
  <2>2. v = Displayed(s, [d EXCEPT !.current = f], f, FALSE, FALSE)
    BY <1>2, <1>3, <2>1 DEF CurrentItem, IsHidden
  <2> HIDE DEF f, v
  <2>3. Shows(d, v, f, FALSE)
    <3>1. HasFields(d) /\ d.preserve \in BOOLEAN /\ IsCached(s, f)
      BY <1>1, <2>1 DEF Ready, WindowType, SamePanes, PanesInv, IsCached
    <3> QED BY <2>2, <3>1, DisplayedShows
  <2>4. RowsListed(d) /\ PanesInv(d)
    BY <1>1 DEF RowsListed, RowsOf, SamePanes, PanesInv
  <2>5. PanesInv(v)
    BY <2>1, <2>3, <2>4, ShowsAgree
  <2> QED BY <2>5 DEF v
<1>4. CASE ~ (d.current # NoFunction /\ IsHidden(d, d.current) /\ VisibleItems(d) # {})
  BY <1>1, <1>2, <1>4 DEF SamePanes, PanesInv
<1> QED BY <1>3, <1>4

\* The slot of the current cell: the row stays where it was clicked, and its function
\* is selected.
LEMMA CellChangedAgrees ==
  ASSUME NEW s, NEW w, Good(s, w), RowsListed(w), PanesInv(w), w.current # NoFunction,
         NEW r \in 1 .. Len(w.rows)
  PROVE  PanesInv(CellChanged(s, w, r)) /\ CellChanged(s, w, r).row = r
<1> DEFINE moved == AtRow(s, w, r)
           owner == w.rows[r].function
           v == Selected(s, moved, owner, FALSE, TRUE)
<1>1. /\ SameButRow(w, moved) /\ PatchInv(s, moved)
      /\ moved.current = w.current /\ moved.shown = w.shown /\ moved.active = w.active
      /\ moved.preserve = w.preserve /\ moved.rows = w.rows /\ moved.row = r
      /\ moved.list = w.list
  BY AtRowKeeps, AtRowPanes DEF Good, Ready, WindowType
<1>2. CellChanged(s, w, r) =
        IF r = w.row THEN w
        ELSE IF owner # w.current THEN v ELSE moved
  <2>1. owner \in ToSet(w.list)
    BY DEF RowsListed
  <2> QED BY <1>1, <2>1 DEF CellChanged, CanSelect
<1> HIDE DEF moved
<1>3. Ready(s, moved)
  <2> HIDE DEF PatchInv
  <2> QED BY <1>1 DEF Good, Ready, WindowType, SameButRow
<1>4. CASE r = w.row
  BY <1>2, <1>4
<1>5. CASE r # w.row /\ owner = w.current
  <2>1. CellChanged(s, w, r) = moved
    BY <1>2, <1>5
  <2> QED BY <1>1, <1>5, <2>1 DEF PanesInv
<1>6. CASE r # w.row /\ owner # w.current
  <2>1. CellChanged(s, w, r) = v
    BY <1>2, <1>6
  <2>2. owner \in ToSet(moved.list) /\ moved.preserve = FALSE
    BY <1>1 DEF RowsListed, PanesInv
  <2> HIDE DEF v
  <2>3. Shows(moved, v, owner, TRUE)
    BY <1>1, <1>3, <1>6, <2>2, SelectedShows DEF v
  <2>4. v.row = r /\ v.rows = w.rows /\ v.current = owner /\ v.shown = owner
        /\ v.active = owner /\ v.preserve = FALSE
    BY <1>1, <2>3 DEF Shows, RowAfter
  <2> QED BY <2>1, <2>4 DEF PanesInv
<1> QED BY <1>4, <1>5, <1>6

--------------------------------------------------------------------------------
(***************************************************************************)
(* The panes, over the steps of the window.                                *)
(***************************************************************************)

\* The list and the table are of the session there is, or empty.
ShownInv ==
  \/ window.list = <<>> /\ window.rows = <<>>
  \/ /\ session \in Sessions /\ session.valid
     /\ window.list = session.functions /\ window.rows = Listing(session)
     /\ window.current # NoFunction

PanesIInv == ShownInv /\ PanesInv(window)

\* Every row of the table is of a listed function, and each of those has rows.
LEMMA ShownRows ==
  ASSUME ShownInv
  PROVE  RowsListed(window)
<1>1. CASE window.list = <<>> /\ window.rows = <<>>
  <2>1. ToSet(window.list) = {} /\ Len(window.rows) = 0
    BY <1>1, ToSetEmpty
  <2> QED BY <2>1 DEF RowsListed
<1>2. CASE /\ session \in Sessions /\ session.valid
           /\ window.list = session.functions /\ window.rows = Listing(session)
  <2> HIDE DEF Listing
  <2>1. \A r \in 1 .. Len(window.rows) : window.rows[r].function \in ToSet(window.list)
    BY <1>2, ListingAssumption
  <2>2. ASSUME NEW f \in ToSet(window.list) PROVE RowsOf(window, f) # {}
    <3>1. PICK first, last \in 1 .. Len(Listing(session)) :
            /\ first <= last
            /\ \A i \in 1 .. Len(Listing(session)) :
                 Listing(session)[i].function = f <=> i \in first .. last
      BY <1>2, <2>2, ListingAssumption
    <3>2. Listing(session)[first].function = f
      BY <3>1
    <3> QED BY <1>2, <3>1, <3>2 DEF RowsOf
  <2> QED BY <2>1, <2>2 DEF RowsListed
<1> QED BY <1>1, <1>2 DEF ShownInv

\* The current row of a function is one of its own, and its rows are in one piece.
LEMMA RowNotRedirected ==
  ASSUME ShownInv, PanesInv(window), window.row > 0
  PROVE  ResolvedRow(window, window.row) = window.row
<1> DEFINE own == RowsOf(window, window.current)
           start == FirstOf(own)
<1>1. /\ window.row \in 1 .. Len(window.rows)
      /\ window.rows[window.row].function = window.current
  BY DEF PanesInv
<1>2. /\ session \in Sessions /\ session.valid
      /\ window.list = session.functions /\ window.rows = Listing(session)
  BY <1>1 DEF ShownInv
<1> HIDE DEF Listing
<1>3. window.current \in ToSet(session.functions) /\ Listing(session) \in Seq(Row)
  BY <1>1, <1>2, ListingAssumption
<1> DEFINE rows == Listing(session)
<1> HIDE DEF rows
<1>4. \A f \in ToSet(session.functions) :
         \E first, last \in 1 .. Len(rows) :
           first <= last /\ \A i \in 1 .. Len(rows) : rows[i].function = f <=> i \in first .. last
  BY <1>2, ListingAssumption DEF rows
<1>5. PICK first, last \in 1 .. Len(rows) :
        /\ first <= last
        /\ \A i \in 1 .. Len(rows) : rows[i].function = window.current <=> i \in first .. last
  BY <1>3, <1>4
<1> USE DEF rows
<1>6. Len(rows) \in Nat /\ first \in Nat \ {0} /\ last \in Nat /\ first <= last /\ last <= Len(rows)
  BY <1>3, <1>5
<1>7. own = first .. last
  <2> HIDE DEF rows
  <2>1. \A i : i \in 1 .. Len(rows) /\ i \in first .. last <=> i \in first .. last
    BY ONLY <1>6
  <2> USE DEF rows
  <2>2. own = {i \in 1 .. Len(rows) : rows[i].function = window.current}
    BY <1>2 DEF RowsOf
  <2> HIDE DEF rows, own
  <2> QED BY <1>5, <2>1, <2>2
<1>8. window.row \in first .. last
  BY <1>1, <1>2, <1>5
<1>9. Cardinality(own) = last - first + 1
  <2>1. first \in Int /\ last \in Int
    BY <1>6
  <2>2. Cardinality(first .. last) = IF first > last THEN 0 ELSE last - first + 1
    BY <2>1, FS_Interval
  <2> QED BY <1>6, <1>7, <2>2
<1>10. start = first
  <2>1. own \in SUBSET Nat /\ own # {} /\ first \in own
    <3> HIDE DEF own
    <3>1. first .. last \in SUBSET Nat /\ first \in first .. last
      BY ONLY <1>6
    <3> QED BY <1>7, <3>1
  <2>2. FirstOf(own) \in own /\ \A q \in own : FirstOf(own) <= q
    <3>1. \E r \in own : \A q \in own : r <= q
      BY <2>1, LeastElement
    <3> QED BY <3>1 DEF FirstOf
  <2> HIDE DEF own, start
  <2>3. FirstOf(own) \in first .. last /\ FirstOf(own) <= first
    BY <1>7, <2>1, <2>2
  <2>4. FirstOf(own) = first
    BY ONLY <1>6, <2>3
  <2> QED BY <2>4 DEF start
<1>11. start <= window.row /\ window.row < start + Cardinality(own)
  <2> HIDE DEF own, start
  <2> QED BY <1>6, <1>8, <1>9, <1>10
<1> QED BY <1>11 DEF ResolvedRow

\* A window that shows nothing has nothing to disagree about.
LEMMA PanesInit == Init => PanesIInv
BY DEF Init, Blank, PanesIInv, ShownInv, PanesInv

\* Once a function is selected, one stays selected until the next load.
LEMMA StaysSelected ==
  ASSUME HistoryFollows(window), HistoryFollows(window'),
         window.index \in Nat, window'.index \in Nat,
         Visits(window, window') \/ Moves(window, window'), window.current # NoFunction
  PROVE  window'.current # NoFunction
<1>1. window.index > 0
  <2>1. window.index \in 1 .. Len(window.history)
    BY DEF HistoryFollows
  <2> QED BY <2>1
<1>2. window'.index > 0
  <2>1. CASE Visits(window, window')
    BY <1>1, <2>1 DEF Visits, KeepsHistory, RecordsVisit
  <2>2. CASE Moves(window, window')
    BY <1>1, <2>2 DEF Moves
  <2> QED BY <2>1, <2>2
<1>3. window'.index # 0
  BY <1>2
<1> QED BY <1>3 DEF HistoryFollows

\* No user event leaves the window without a selected function.
LEMMA NavigateKeepsSelection ==
  ASSUME IInv, Navigate, window.current # NoFunction
  PROVE  window'.current # NoFunction
<1>1. Steps(session, window, window')
  BY NavigateStays
<1>2. Visits(window, window') \/ Moves(window, window')
  BY NavigateSteps
<1>3. /\ HistoryFollows(window) /\ HistoryFollows(window')
      /\ window.index \in Nat /\ window'.index \in Nat
  BY <1>1 DEF IInv, Steps, Good, Ready, WindowType
<1> QED BY <1>1, <1>2, <1>3, StaysSelected

\* A slot that leaves the list and the table as they are.
LEMMA PanesStep ==
  ASSUME PanesIInv, session' = session, Steps(session, window, window'), PanesInv(window'),
         window.current # NoFunction => window'.current # NoFunction
  PROVE  PanesIInv'
<1>1. ShownInv'
  BY DEF PanesIInv, ShownInv, Steps
<1> QED BY <1>1 DEF PanesIInv

\* No user event leaves the panes apart.
LEMMA NavigatePanes ==
  ASSUME IInv, PanesIInv, Navigate
  PROVE  PanesIInv' /\ (\A r \in 1 .. Len(window.rows) : ClickRow(r) => window'.row = r)
<1>0. /\ Good(session, window) /\ Ready(session, window) /\ HistoryFollows(window)
      /\ ShownInv /\ PanesInv(window) /\ RowsListed(window)
  BY ShownRows DEF IInv, Good, PanesIInv
<1>1. session' = session
  BY DEF Navigate, SearchFunctions, NavigateTo, ClickRow, ActivateSymbol,
         ActivateRow, NavigateBack, NavigateForward
<1>2. /\ Good(session', window') /\ window'.list = window.list /\ window'.rows = window.rows
      /\ window'.graph = window.graph
      /\ window.current # NoFunction => window'.current # NoFunction
  BY <1>1, NavigateStays, NavigateKeepsSelection DEF Steps
<1>3. \A r \in 1 .. Len(window.rows) : window.current # NoFunction
  <2>1. ASSUME window.rows = <<>> PROVE Len(window.rows) = 0
    BY <2>1
  <2> QED BY <1>0, <2>1 DEF ShownInv
<1>4. ASSUME NEW r \in 1 .. Len(window.rows), window' = CellChanged(session, window, r)
      PROVE  PanesInv(window') /\ window'.row = r
  BY <1>0, <1>3, <1>4, CellChangedAgrees
<1>5. ASSUME NEW f \in ToSet(window.list), NEW restoring,
             window' = Selected(session, window, f, restoring, FALSE)
      PROVE  PanesInv(window')
  BY <1>0, <1>5, SelectedAgrees
<1>6. ASSUME NEW q \in Queries, SearchFunctions(q) PROVE PanesInv(window')
  BY <1>0, <1>6, FilteredAgrees DEF SearchFunctions
<1>7. ASSUME NEW f \in Functions, NavigateTo(f) PROVE PanesInv(window')
  BY <1>5, <1>7 DEF NavigateTo, CanSelect
<1>8. ASSUME NEW r \in 1 .. Len(window.rows), ClickRow(r)
      PROVE  PanesInv(window') /\ window'.row = r
  BY <1>4, <1>8 DEF ClickRow
<1>9. ASSUME NEW r \in 1 .. Len(window.rows), ActivateSymbol(r) PROVE PanesInv(window')
  <2> DEFINE f == window.rows[r].function
             w == Selected(session, window, f, FALSE, FALSE)
             q == FirstOf(RowsAt(w, window.rows[r].address))
  <2>1. f \in ToSet(window.list)
    BY <1>0 DEF RowsListed
  <2>2. PanesInv(w)
    BY <1>0, <2>1, SelectedAgrees
  <2>3. Steps(session, window, w) /\ SelectsOnce(window, w, f)
    BY <1>0, <2>1, SelectedGood
  <2>4. window' = CellChanged(session, w, q)
    BY <1>9 DEF ActivateSymbol
  <2> HIDE DEF w
  <2>5. Good(session, w) /\ w.rows = window.rows /\ w.list = window.list /\ w.current = f
    BY <2>3 DEF Steps, SelectsOnce
  <2>6. RowsListed(w)
    BY <1>0, <2>5 DEF RowsListed, RowsOf
  <2>7. q \in 1 .. Len(w.rows)
    <3> DEFINE S == RowsAt(w, window.rows[r].address)
    <3>1. S \in SUBSET Nat /\ S # {}
      BY <2>5 DEF RowsAt
    <3> HIDE DEF S
    <3>2. FirstOf(S) \in S
      BY <3>1, FirstRow
    <3> QED BY <3>2 DEF S, RowsAt
  <2>8. w.current # NoFunction
    <3>1. f \in Functions
      BY <1>0, <2>1, ToSetSubset DEF Ready, WindowType
    <3> QED BY <2>5, <3>1, FunctionsNat
  <2> HIDE DEF q
  <2> QED BY <2>2, <2>4, <2>5, <2>6, <2>7, <2>8, CellChangedAgrees
<1>10. ASSUME ActivateRow PROVE PanesInv(window')
  <2> DEFINE i == window.rows[ResolvedRow(window, window.row)]
             S == RowsAt(window, i.target)
  <2>1. CASE CanSelect(window, i.target)
             /\ window' = Selected(session, window, i.target, FALSE, FALSE)
    <3> HIDE DEF i
    <3> QED BY <1>5, <2>1 DEF CanSelect
  <2>2. CASE S # {} /\ window' = CellChanged(session, window, FirstOf(S))
    <3>1. S \in SUBSET Nat /\ S \subseteq 1 .. Len(window.rows)
      BY DEF RowsAt
    <3> HIDE DEF S, i
    <3>2. FirstOf(S) \in S
      BY <2>2, <3>1, FirstRow
    <3> QED BY <1>4, <2>2, <3>1, <3>2
  <2> QED BY <1>10, <2>1, <2>2 DEF ActivateRow
<1>11. ASSUME NEW i \in 1 .. Len(window.history), window' = Restored(session, window, i)
       PROVE  PanesInv(window')
  <2> DEFINE f == window.history[i]
             e == [window EXCEPT !.index = i]
  <2>1. f \in ToSet(window.list)
    BY <1>0 DEF HistoryFollows
  <2>2. window' = Selected(session, e, f, TRUE, FALSE)
    BY <1>11, <2>1 DEF Restored, CanSelect
  <2>3. /\ HasFields(window) /\ window.list \in Seq(Functions)
        /\ window.current \in Functions \cup {NoFunction}
        /\ window.history \in Seq(Functions) /\ PatchInv(session, window)
        /\ ToSet(window.list) \subseteq session.cached
    BY <1>0 DEF Ready, WindowType
  <2>4. e = [window EXCEPT !.index = i]
    OBVIOUS
  <2> HIDE DEF e
  <2>5. /\ HasFields(e) /\ SamePanes(window, e) /\ e.list = window.list /\ e.index = i
        /\ e.history = window.history /\ e.patchEnabled = window.patchEnabled
    BY ONLY <2>3, <2>4 DEF HasFields, SamePanes
  <2>6. PatchInv(session, e)
    BY <2>3, <2>5, Zenon DEF PatchInv, SamePanes
  <2>7. i \in Nat
    OBVIOUS
  <2>8. Ready(session, e)
    <3> HIDE DEF PatchInv
    <3> QED BY <2>3, <2>5, <2>6, <2>7 DEF Ready, WindowType, SamePanes
  <2>9. RowsListed(e) /\ PanesInv(e)
    BY <1>0, <2>5 DEF RowsListed, RowsOf, SamePanes, PanesInv
  <2> HIDE DEF f
  <2> QED BY <2>1, <2>2, <2>5, <2>8, <2>9, SelectedAgrees
<1>12. ASSUME NavigateBack \/ NavigateForward PROVE PanesInv(window')
  <2>1. window.history \in Seq(Functions) /\ window.index \in Nat
    BY <1>0 DEF Ready, WindowType
  <2>2. CASE NavigateBack
    <3>1. window.index > 1
      BY <2>2 DEF NavigateBack
    <3>2. window.index \in 1 .. Len(window.history)
      BY <1>0, <2>1, <3>1 DEF HistoryFollows
    <3>3. window.index - 1 \in 1 .. Len(window.history)
      BY <2>1, <3>1, <3>2
    <3> QED BY <1>11, <2>2, <3>3 DEF NavigateBack
  <2>3. CASE NavigateForward
    <3>1. window.index + 1 \in 1 .. Len(window.history)
      BY <2>1, <2>3 DEF NavigateForward
    <3> QED BY <1>11, <2>3, <3>1 DEF NavigateForward
  <2> QED BY <1>12, <2>2, <2>3
<1>13. PanesInv(window')
  BY <1>6, <1>7, <1>8, <1>9, <1>10, <1>12 DEF Navigate
<1>14. Steps(session, window, window')
  BY <1>1, <1>2 DEF Steps
<1> QED BY <1>1, <1>2, <1>8, <1>13, <1>14, PanesStep

\* A load shows its first function in every pane but the table.
LEMMA FinishLoadingPanes ==
  ASSUME IInv, FinishLoading
  PROVE  /\ PanesIInv' /\ window'.row = 0
         /\ session'.valid => window'.current # NoFunction
<1> DEFINE s == worker.session
<1>1. s \in Analysed /\ session' = s
  BY LoadedWindow
<1>2. window' = IF s.valid
                  THEN Selected(s, Populated(s, Blank), FirstSelection(s), FALSE, FALSE)
                  ELSE Blank
  BY LoadedWindow
<1> HIDE DEF s
<1>3. CASE s.valid
  <2>1. s \in Sessions
    BY <1>1, <1>3 DEF Analysed, FreshSession
  <2> DEFINE p == Populated(s, Blank)
             f == FirstSelection(s)
  <2>2. /\ Ready(s, p) /\ HistoryFollows(p) /\ p.list = s.functions /\ p.current = NoFunction
        /\ p.rows = Listing(s) /\ f \in ToSet(s.functions)
    BY <1>3, <2>1, PopulatedReady, FirstSelectionListed
  <2>3. p.preserve = TRUE /\ p.row = 0
    <3> HIDE DEF Listing
    <3> QED BY DEF Populated, Blank
  <2>4. window' = Selected(s, p, f, FALSE, FALSE)
    BY <1>2, <1>3
  <2> HIDE DEF p, f
  <2>5. f # NoFunction
    <3>1. f \in Functions
      BY <2>1, <2>2 DEF Functions
    <3> QED BY <3>1, FunctionsNat
  <2>6. Shows(p, window', f, FALSE)
    <3>1. f \in ToSet(p.list) /\ p.preserve \in BOOLEAN /\ p.current # f
      BY <2>2, <2>3, <2>5
    <3> QED BY <2>2, <2>4, <3>1, SelectedShows
  <2>7. Steps(s, p, window')
    BY <2>2, <2>4, SelectedGood
  <2>8. /\ window'.row = 0 /\ window'.current = f /\ window'.shown = f /\ window'.active = f
        /\ window'.preserve = FALSE
    BY <2>3, <2>6 DEF Shows, RowAfter
  <2>9. window'.list = s.functions /\ window'.rows = Listing(s)
    BY <2>2, <2>7 DEF Steps
  <2> QED BY <1>1, <1>3, <2>1, <2>5, <2>8, <2>9 DEF PanesIInv, ShownInv, PanesInv
<1>4. CASE ~ s.valid
  <2>1. window' = Blank
    BY <1>2, <1>4
  <2> QED BY <1>1, <1>4, <2>1 DEF Blank, PanesIInv, ShownInv, PanesInv
<1> QED BY <1>3, <1>4

\* No step leaves the panes apart, moves the table during a load or away from a click.
LEMMA PanesStepHolds ==
  ASSUME IInv, PanesIInv, [Next]_vars
  PROVE  /\ PanesIInv'
         /\ session' # session \/ phase = "loading" => window'.row = 0
         /\ \A r \in 1 .. Len(window.rows) : ClickRow(r) => window'.row = r
<1>1. CASE Navigate
  <2>1. phase = "idle" /\ session' = session
    BY <1>1 DEF Navigate, SearchFunctions, NavigateTo, ClickRow, ActivateSymbol,
                ActivateRow, NavigateBack, NavigateForward
  <2> QED BY <1>1, <2>1, NavigatePanes
<1>2. ASSUME NEW r \in 1 .. Len(window.rows), ClickRow(r) PROVE Navigate
  BY <1>2 DEF Navigate
<1>3. CASE StartLoading
  BY <1>1, <1>2, <1>3, NavigatePanes
     DEF StartLoading, WindowWhileLoading, Blank, PanesIInv, ShownInv, PanesInv
<1>4. CASE FinishLoading
  BY <1>1, <1>2, <1>4, FinishLoadingPanes
<1>5. CASE UNCHANGED <<session, window>>
  <2>1. phase = "loading" => window'.row = 0
    BY <1>5 DEF IInv, LoadingInv, Blank
  <2>2. PanesIInv'
    BY <1>5 DEF PanesIInv, ShownInv, PanesInv
  <2> QED BY <1>1, <1>2, <1>5, <2>1, <2>2
<1> QED BY <1>1, <1>3, <1>4, <1>5
        DEF Next, Load, Patch, OpenBinary, SavePatch, AnalysisReturns, OpenPatchDialog,
            RejectPatch, vars

(***************************************************************************)
(* Whichever pane the user acts in, the pseudocode, the active node and    *)
(* the current row are those of the selected function (displayFunction,    *)
(* focusAssemblyFunction and the currentCellChanged slot), and             *)
(* navigateFromAssembly redirects no double click.                         *)
(***************************************************************************)
THEOREM PanesCorrect == Spec => []PanesAgree
<1>1. Init => IInv /\ PanesIInv
  BY InitHolds, PanesInit
<1>2. IInv /\ PanesIInv /\ [Next]_vars => (IInv /\ PanesIInv)'
  BY StepHolds, PanesStepHolds
<1>3. IInv /\ PanesIInv => PanesAgree
  <2> SUFFICES ASSUME IInv, PanesIInv PROVE PanesAgree
    OBVIOUS
  <2>1. window.row > 0 => window.row # 0
    BY DEF IInv, Good, Ready, WindowType
  <2> QED BY <2>1, RowNotRedirected DEF PanesAgree, PanesIInv, PanesInv
<1> QED BY <1>1, <1>2, <1>3, PTL DEF Spec

(***************************************************************************)
(* The first selection of a load does not move the listing                 *)
(* (preserveAssemblyScroll_) and a click on a row leaves that row current  *)
(* (suppressAssemblyFocus_).                                               *)
(***************************************************************************)
THEOREM ListingCorrect == Spec => ListingStays
<1>1. Init => IInv /\ PanesIInv
  BY InitHolds, PanesInit
<1>2. IInv /\ PanesIInv /\ [Next]_vars => (IInv /\ PanesIInv)'
  BY StepHolds, PanesStepHolds
<1>3. IInv /\ PanesIInv /\ [Next]_vars
        => [session' # session \/ phase = "loading" => window'.row = 0]_vars
  BY PanesStepHolds
<1>4. IInv /\ PanesIInv /\ [Next]_vars
        => [\A r \in 1 .. Len(window.rows) : ClickRow(r) => window'.row = r]_vars
  BY PanesStepHolds
<1>5. Spec => EntryStaysInView
  BY <1>1, <1>2, <1>3, PTL DEF Spec, EntryStaysInView
<1>6. Spec => ClickKeepsRow
  BY <1>1, <1>2, <1>4, PTL DEF Spec, ClickKeepsRow
<1> QED BY <1>5, <1>6 DEF ListingStays

--------------------------------------------------------------------------------
(***************************************************************************)
(* The call-graph pane.                                                    *)
(***************************************************************************)

HasPane(p) ==
  p = [components |-> p.components, rows |-> p.rows, selected |-> p.selected, row |-> p.row]

\* p and q differ in the selected row at most.
SameNodes(p, q) ==
  /\ HasPane(q)
  /\ q.components = p.components /\ q.rows = p.rows /\ q.selected = p.selected

\* The pane shows the subgraphs of s, and the selected node is one of theirs.
Fits(p, s) ==
  /\ HasPane(p)
  /\ p.components = Subgraphs[s] /\ p.rows = Subgraphs[s]
  /\ p.selected = NoFunction \/ p.selected \in NodesOf(Subgraphs[s])

PaneEmpty(p) ==
  HasPane(p) /\ p.components = <<>> /\ p.rows = <<>> /\ p.selected = NoFunction /\ p.row = 0

\* Every node of the graph is in one subgraph.
LEMMA OneSubgraph ==
  ASSUME NEW s \in DOMAIN Subgraphs, NEW a \in NodesOf(Subgraphs[s])
  PROVE  /\ a # NoFunction
         /\ \E i \in 1 .. Len(Subgraphs[s]) :
              {j \in 1 .. Len(Subgraphs[s]) : a \in Subgraphs[s][j]} = {i}
<1> DEFINE g == Subgraphs[s]
<1>1. /\ g \in Seq(SUBSET Nat)
      /\ \A i, j \in 1 .. Len(g) : i # j => g[i] \cap g[j] = {}
  BY SubgraphsAssumption
<1>2. a \in UNION ToSet(g)
  BY DEF NodesOf
<1> HIDE DEF g
<1>3. PICK i \in 1 .. Len(g) : a \in g[i]
  BY <1>1, <1>2, ToSetIndexed
<1>4. g[i] \subseteq Nat
  BY <1>1
<1>5. a # NoFunction
  BY <1>3, <1>4, NoFunctionAssumption
<1>6. {j \in 1 .. Len(g) : a \in g[j]} = {i}
  BY <1>1, <1>3
<1> QED BY <1>5, <1>6 DEF g

\* No subgraph holds the node that stands for none.
LEMMA NoNode ==
  ASSUME NEW s \in DOMAIN Subgraphs
  PROVE  NoFunction \notin NodesOf(Subgraphs[s])
BY OneSubgraph

\* Every function has a node.
LEMMA FunctionsAreNodes ==
  ASSUME NEW s \in DOMAIN Subgraphs, NEW f \in ToSet(s.functions)
  PROVE  f \in NodesOf(Subgraphs[s])
BY SubgraphsAssumption DEF NodesOf

\* selectComponentForAddress moves nothing but the row.
LEMMA ComponentSelected ==
  ASSUME NEW p, HasPane(p), NEW a
  PROVE  SameNodes(p, SelectedComponent(p, a))
<1>1. \A i : SameNodes(p, [p EXCEPT !.row = i])
  BY DEF HasPane, SameNodes
<1> QED BY <1>1 DEF SelectedComponent, SameNodes

\* The row of the selected node's subgraph.
LEMMA ComponentFollows ==
  ASSUME NEW s \in DOMAIN Subgraphs, NEW p, Fits(p, s), p.selected # NoFunction
  PROVE  RowFollows(SelectedComponent(p, p.selected))
<1> DEFINE a == p.selected
           I == ComponentIndex(p, a)
           v == SelectedComponent(p, a)
<1>1. a \in NodesOf(Subgraphs[s]) /\ p.components = Subgraphs[s] /\ p.rows = Subgraphs[s]
  BY DEF Fits
<1>2. PICK i \in 1 .. Len(Subgraphs[s]) :
        {j \in 1 .. Len(Subgraphs[s]) : a \in Subgraphs[s][j]} = {i}
  BY <1>1, OneSubgraph
<1>3. I = {i} /\ i \in 1 .. Len(p.rows)
  BY <1>1, <1>2 DEF ComponentIndex
<1>4. v = [p EXCEPT !.row = CHOOSE j \in I : TRUE]
  <2>1. I \cap (1 .. Len(p.rows)) # {}
    BY <1>3
  <2> QED BY <2>1 DEF SelectedComponent
<1>5. (CHOOSE j \in I : TRUE) = i
  BY <1>3
<1>6. v = [p EXCEPT !.row = i]
  BY <1>4, <1>5
<1> HIDE DEF v, I
<1>7. v.row = i /\ v.selected = a /\ v.components = p.components
  BY <1>6 DEF Fits, HasPane
<1>8. ComponentIndex(v, a) = {i}
  BY <1>3, <1>7 DEF ComponentIndex, I
<1>9. RowFollows(v)
  BY <1>7, <1>8 DEF RowFollows
<1> QED BY <1>9 DEF v

\* updateSelectionState brings the row to the selected node.
LEMMA UpdatedFits ==
  ASSUME NEW s \in DOMAIN Subgraphs, NEW p, Fits(p, s)
  PROVE  /\ Fits(SelectionUpdated(p), s) /\ RowFollows(SelectionUpdated(p))
         /\ SelectionUpdated(p).selected = p.selected
<1>1. CASE p.selected = NoFunction
  <2>1. SelectionUpdated(p) = [p EXCEPT !.row = 0]
    BY <1>1 DEF SelectionUpdated
  <2> QED BY <1>1, <2>1 DEF Fits, HasPane, RowFollows
<1>2. CASE p.selected # NoFunction
  <2>1. SelectionUpdated(p) = SelectedComponent(p, p.selected)
    BY <1>2 DEF SelectionUpdated
  <2>2. SameNodes(p, SelectionUpdated(p))
    BY <2>1, ComponentSelected DEF Fits
  <2>3. RowFollows(SelectionUpdated(p))
    BY <1>2, <2>1, ComponentFollows
  <2> QED BY <2>2, <2>3 DEF Fits, SameNodes
<1> QED BY <1>1, <1>2

\* The scene is built for s, with node a selected if there is one, and given to the table.
LEMMA RebuiltFits ==
  ASSUME NEW s \in DOMAIN Subgraphs, NEW q, HasPane(q), q.components = Subgraphs[s],
         q.selected = NoFunction \/ q.selected \in NodesOf(Subgraphs[s]),
         NEW v, v = ComponentsSet(SelectionUpdated(q))
  PROVE  Fits(v, s) /\ v.row = 0 /\ v.selected = q.selected
<1> DEFINE u == SelectionUpdated(q)
<1>1. v = [u EXCEPT !.rows = u.components, !.row = 0]
  BY DEF ComponentsSet
<1>2. SameNodes(q, u)
  <2>1. SameNodes(q, [q EXCEPT !.row = 0])
    BY DEF HasPane, SameNodes
  <2> QED BY <2>1, ComponentSelected DEF SelectionUpdated
<1> HIDE DEF u
<1>3. HasPane(u) /\ u.components = Subgraphs[s] /\ u.selected = q.selected
  BY <1>2 DEF SameNodes
<1>4. HasPane(v) /\ v.components = Subgraphs[s] /\ v.rows = Subgraphs[s] /\ v.row = 0
      /\ v.selected = q.selected
  BY <1>1, <1>3 DEF HasPane
<1> QED BY <1>4 DEF Fits

\* A new layout keeps the selected node unless it is at the address that stands for none.
LaidOut(p, s, active) == ComponentsSet(Rebuilt(p, Subgraphs[s], active, TRUE))

LEMMA KeptFits ==
  ASSUME NEW s \in DOMAIN Subgraphs, NEW p, Fits(p, s), NEW active,
         NEW v, v = LaidOut(p, s, active)
  PROVE  /\ Fits(v, s) /\ v.row = 0
         /\ p.selected \notin {NoFunction, NoAddress} => v.selected = p.selected
         /\ p.selected = NoAddress /\ p.selected # NoFunction => v.selected = NoFunction
<1> DEFINE a == IF p.selected # NoFunction THEN p.selected ELSE active
           node == IF a \in NodesOf(Subgraphs[s]) \ {NoAddress} THEN a ELSE NoFunction
           q == [p EXCEPT !.components = Subgraphs[s], !.selected = node]
<1>1. v = ComponentsSet(SelectionUpdated(q))
  BY DEF LaidOut, Rebuilt
<1>2. /\ node = NoFunction \/ node \in NodesOf(Subgraphs[s])
      /\ p.selected \notin {NoFunction, NoAddress} => node = p.selected
      /\ p.selected = NoAddress /\ p.selected # NoFunction => node = NoFunction
  BY DEF Fits
<1>3. q = [p EXCEPT !.components = Subgraphs[s], !.selected = node]
  OBVIOUS
<1>4. HasPane(p)
  BY DEF Fits
<1> HIDE DEF node, q
<1>5. HasPane(q) /\ q.components = Subgraphs[s] /\ q.selected = node
  BY ONLY <1>3, <1>4 DEF HasPane
<1>6. Fits(v, s) /\ v.row = 0 /\ v.selected = node
  BY ONLY <1>1, <1>2, <1>5, s \in DOMAIN Subgraphs, RebuiltFits
<1> QED BY <1>2, <1>6

\* setGraph shows the subgraphs of the new session.
LEMMA GraphSetFits ==
  ASSUME NEW s \in DOMAIN Subgraphs, NEW p, HasPane(p)
  PROVE  Fits(GraphSet(p, s), s)
<1> DEFINE v == ComponentsSet(Rebuilt(p, Subgraphs[s], NoFunction, FALSE))
<1>1. Fits(v, s)
  <2> DEFINE node == IF NoFunction \in NodesOf(Subgraphs[s]) \ {NoAddress}
                       THEN NoFunction ELSE NoFunction
             q == [p EXCEPT !.components = Subgraphs[s], !.selected = node]
  <2>1. v = ComponentsSet(SelectionUpdated(q))
    BY DEF Rebuilt
  <2>2. node = NoFunction
    OBVIOUS
  <2>3. q = [p EXCEPT !.components = Subgraphs[s], !.selected = node]
    OBVIOUS
  <2> HIDE DEF node, q, v
  <2>4. HasPane(q) /\ q.components = Subgraphs[s] /\ q.selected = node
    BY <2>3 DEF HasPane
  <2> QED BY <2>1, <2>2, <2>4, RebuiltFits
<1>2. GraphSet(p, s) = IF v.rows = <<>> THEN v ELSE [v EXCEPT !.row = 1]
  BY DEF GraphSet
<1> HIDE DEF v
<1>3. Fits([v EXCEPT !.row = 1], s)
  BY <1>1 DEF Fits, HasPane
<1> QED BY <1>1, <1>2, <1>3

\* displayFunction makes the function the selected node and marks its subgraph.
LEMMA ActiveFits ==
  ASSUME NEW s \in DOMAIN Subgraphs, NEW p, Fits(p, s), NEW f \in ToSet(s.functions)
  PROVE  /\ Fits(ActiveFunctionSet(p, f), s) /\ ActiveFunctionSet(p, f).selected = f
         /\ RowFollows(ActiveFunctionSet(p, f))
<1> DEFINE q == [p EXCEPT !.selected = f]
           u == SelectionUpdated(q)
<1>1. f \in NodesOf(Subgraphs[s]) /\ f # NoFunction
  BY FunctionsAreNodes, OneSubgraph
<1>2. ActiveFunctionSet(p, f) = SelectedComponent(u, f)
  BY <1>1 DEF ActiveFunctionSet, Fits
<1>3. Fits(q, s) /\ q.selected = f
  BY <1>1 DEF Fits, HasPane
<1> HIDE DEF q
<1>4. Fits(u, s) /\ u.selected = f
  BY <1>3, UpdatedFits
<1> HIDE DEF u
<1>5. SameNodes(u, SelectedComponent(u, f)) /\ RowFollows(SelectedComponent(u, f))
  BY <1>1, <1>4, ComponentSelected, ComponentFollows DEF Fits
<1> QED BY <1>2, <1>4, <1>5 DEF Fits, SameNodes

\* clearGraph leaves nothing in the pane.
LEMMA ClearedEmpty ==
  ASSUME NEW p, HasPane(p)
  PROVE  PaneEmpty(GraphCleared(p)) /\ RowFollows(GraphCleared(p))
<1> DEFINE q == [p EXCEPT !.components = <<>>, !.selected = NoFunction]
<1>1. q = [p EXCEPT !.components = <<>>, !.selected = NoFunction]
  OBVIOUS
<1>2. GraphCleared(p) = [q EXCEPT !.rows = q.components, !.row = 0]
  BY DEF GraphCleared, ComponentsSet
<1> HIDE DEF q
<1>3. HasPane(q) /\ q.components = <<>> /\ q.selected = NoFunction
  BY <1>1 DEF HasPane
<1>4. PaneEmpty(GraphCleared(p))
  BY <1>3, <1>2 DEF HasPane, PaneEmpty
<1> QED BY <1>4 DEF PaneEmpty, RowFollows

--------------------------------------------------------------------------------
(***************************************************************************)
(* The pane, over the steps of the window and its own.                     *)
(***************************************************************************)

PaneInv ==
  /\ session \in Analysed
  /\ IF phase # "loading" /\ session.valid THEN Fits(panel, session)
     ELSE /\ HasPane(panel) /\ panel.components = <<>> /\ panel.rows = <<>>
          /\ panel.selected = NoFunction

AllInv == IInv /\ PanesIInv /\ PaneInv

\* What PanelFollows says of a step.
Follows ==
  /\ window'.current # window.current => panel'.selected = window'.current
  /\ panel'.selected # panel.selected \/ window'.current # window.current => RowFollows(panel')
  /\ RefreshLayout =>
       /\ panel.selected = NoAddress => panel'.selected = NoFunction
       /\ panel.selected \notin {NoFunction, NoAddress} => panel'.selected = panel.selected
       /\ RowFollows(panel')

\* A valid session is one that has been analysed, and its functions are shown.
LEMMA SessionShown ==
  ASSUME AllInv
  PROVE  /\ HasPane(panel)
         /\ session.valid => session \in DOMAIN Subgraphs
         /\ window.active = window.current
         /\ window.current # NoFunction =>
              session.valid /\ window.current \in ToSet(session.functions)
<1>1. HasPane(panel)
  BY DEF AllInv, PaneInv, Fits
<1>2. session.valid => session \in DOMAIN Subgraphs
  BY SubgraphsAssumption DEF AllInv, PaneInv, Analysed, FreshSession
<1>3. ASSUME window.current # NoFunction
      PROVE  window.current \in ToSet(window.list)
  <2>1. HistoryFollows(window)
    BY DEF AllInv, IInv, Good
  <2> QED BY <1>3, <2>1 DEF HistoryFollows
<1>4. ASSUME window.current # NoFunction
      PROVE  session.valid /\ window.current \in ToSet(session.functions)
  <2>1. window.list # <<>>
    BY <1>3, <1>4, ToSetEmpty
  <2>2. session.valid /\ window.list = session.functions
    BY <2>1 DEF AllInv, PanesIInv, ShownInv
  <2> QED BY <1>3, <1>4, <2>2
<1>5. window.active = window.current
  BY DEF AllInv, PanesIInv, PanesInv
<1> QED BY <1>1, <1>2, <1>4, <1>5

\* A step starts a load, ends one, or leaves the session and the phase of loading alone.
LEMMA StepKinds ==
  ASSUME AllInv, [Next]_vars
  PROVE  \/ phase # "loading" /\ phase' = "loading" /\ window' = Blank /\ session' = session
         \/ FinishLoading
         \/ /\ session' = session
            /\ phase = "loading" => phase' = "loading" /\ window' = window
            /\ phase # "loading" => phase' # "loading"
            /\ window.current # NoFunction => window'.current # NoFunction
<1>1. CASE Navigate
  <2>1. phase = "idle" /\ phase' = "idle" /\ session' = session
    BY <1>1 DEF Navigate, SearchFunctions, NavigateTo, ClickRow, ActivateSymbol,
                ActivateRow, NavigateBack, NavigateForward
  <2>2. window.current # NoFunction => window'.current # NoFunction
    BY <1>1, NavigateKeepsSelection DEF AllInv
  <2> QED BY <2>1, <2>2
<1>2. CASE OpenBinary \/ SavePatch
  BY <1>2 DEF OpenBinary, SavePatch, StartLoading, WindowWhileLoading
<1>3. CASE AnalysisReturns \/ OpenPatchDialog \/ RejectPatch \/ UNCHANGED vars
  BY <1>3 DEF AnalysisReturns, OpenPatchDialog, RejectPatch, vars
<1> QED BY <1>1, <1>2, <1>3 DEF Next, Load, Patch

\* The same at the end of a step, of the session that a step may have installed.
LEMMA WindowSteps ==
  ASSUME AllInv, [Next]_vars
  PROVE  /\ IInv' /\ PanesIInv'
         /\ session' \in Analysed
         /\ session'.valid => session' \in DOMAIN Subgraphs
         /\ window'.active = window'.current
         /\ window'.current # NoFunction =>
              session'.valid /\ window'.current \in ToSet(session'.functions)
<1>1. IInv' /\ PanesIInv'
  BY StepHolds, PanesStepHolds DEF AllInv
<1>2. session' \in Analysed
  BY StepKinds, LoadedWindow DEF AllInv, PaneInv
<1>3. session'.valid => session' \in DOMAIN Subgraphs
  BY <1>2, SubgraphsAssumption DEF Analysed, FreshSession
<1>4. ASSUME window'.current # NoFunction
      PROVE  window'.current \in ToSet(window'.list)
  <2>1. HistoryFollows(window')
    BY <1>1 DEF IInv, Good
  <2> QED BY <1>4, <2>1 DEF HistoryFollows
<1>5. ASSUME window'.current # NoFunction
      PROVE  session'.valid /\ window'.current \in ToSet(session'.functions)
  <2>1. window'.list # <<>>
    BY <1>4, <1>5, ToSetEmpty
  <2>2. session'.valid /\ window'.list = session'.functions
    BY <1>1, <2>1 DEF PanesIInv, ShownInv
  <2> QED BY <1>4, <1>5, <2>2
<1>6. window'.active = window'.current
  BY <1>1 DEF PanesIInv, PanesInv
<1> QED BY <1>1, <1>2, <1>3, <1>5, <1>6

\* A step of the window that the pane follows.
LEMMA FollowingHolds ==
  ASSUME AllInv, [Next]_vars, Following, vars' # vars
  PROVE  PaneInv' /\ Follows
<1>1. /\ session' \in Analysed
      /\ session'.valid => session' \in DOMAIN Subgraphs
      /\ window'.active = window'.current /\ window.active = window.current
      /\ window'.current # NoFunction =>
           session'.valid /\ window'.current \in ToSet(session'.functions)
      /\ HasPane(panel)
  BY WindowSteps, SessionShown
<1>2. ~ RefreshLayout
  BY DEF RefreshLayout
<1>3. CASE phase # "loading" /\ phase' = "loading" /\ window' = Blank /\ session' = session
  <2>1. panel' = GraphCleared(panel)
    BY <1>3 DEF Following
  <2>2. PaneEmpty(panel') /\ RowFollows(panel')
    BY <1>1, <2>1, ClearedEmpty
  <2>3. window'.current = NoFunction
    BY <1>3 DEF Blank
  <2> QED BY <1>1, <1>2, <1>3, <2>2, <2>3 DEF PaneInv, PaneEmpty, Follows
<1>4. CASE FinishLoading /\ session'.valid
  <2> DEFINE p == GraphSet(panel, session')
  <2>1. /\ phase = "loading" /\ phase' = "idle"
    BY <1>4 DEF FinishLoading
  <2>2. Fits(p, session')
    BY <1>1, <1>4, GraphSetFits
  <2>3. window.current = NoFunction /\ window'.current # NoFunction
    <3>1. window = Blank
      BY <1>4, LoadedWindow DEF AllInv
    <3>2. window'.current # NoFunction
      BY <1>4, FinishLoadingPanes DEF AllInv
    <3> QED BY <3>1, <3>2 DEF Blank
  <2>4. panel' = ActiveFunctionSet(p, window'.current)
    BY <1>1, <1>4, <2>1, <2>3 DEF Following
  <2> HIDE DEF p
  <2>5. Fits(panel', session') /\ panel'.selected = window'.current /\ RowFollows(panel')
    BY <1>1, <1>4, <2>2, <2>3, <2>4, ActiveFits
  <2> QED BY <1>1, <1>2, <1>4, <2>1, <2>5 DEF PaneInv, Follows
<1>5. CASE FinishLoading /\ ~ session'.valid
  <2>1. phase = "loading" /\ phase' = "idle" /\ window = Blank /\ window' = Blank
    BY <1>5, LoadedWindow DEF AllInv, FinishLoading
  <2>2. panel' = panel
    BY <1>5, <2>1 DEF Following
  <2> QED BY <1>1, <1>2, <1>5, <2>1, <2>2 DEF AllInv, PaneInv, Follows
<1>6. CASE /\ session' = session
           /\ phase = "loading" => phase' = "loading" /\ window' = window
           /\ phase # "loading" => phase' # "loading"
           /\ window.current # NoFunction => window'.current # NoFunction
  <2>1. CASE window'.current = window.current
    <3>1. panel' = panel
      BY <1>1, <1>6, <2>1 DEF Following
    <3> QED BY <1>1, <1>2, <1>6, <2>1, <3>1 DEF AllInv, PaneInv, Follows
  <2>2. CASE window'.current # window.current
    <3>1. phase # "loading" /\ phase' # "loading" /\ window'.current # NoFunction
      BY <1>6, <2>2
    <3>2. panel' = ActiveFunctionSet(panel, window'.current)
      BY <1>1, <2>2, <3>1 DEF Following
    <3>3. Fits(panel, session')
      BY <1>1, <1>6, <3>1 DEF AllInv, PaneInv
    <3>4. Fits(panel', session') /\ panel'.selected = window'.current /\ RowFollows(panel')
      BY <1>1, <3>1, <3>2, <3>3, ActiveFits
    <3> QED BY <1>1, <1>2, <3>1, <3>4 DEF PaneInv, Follows
  <2> QED BY <2>1, <2>2
<1> QED BY <1>3, <1>4, <1>5, <1>6, StepKinds

\* There are nodes only while a session is shown.
LEMMA NoSelectedNode ==
  ASSUME AllInv, panel.selected # NoFunction \/ NodesOf(panel.components) # {}
  PROVE  phase # "loading" /\ session.valid /\ Fits(panel, session)
<1>1. NodesOf(<<>>) = {}
  BY ToSetEmpty DEF NodesOf
<1> QED BY <1>1 DEF AllInv, PaneInv

\* The scene's selection is cleared, which the table follows.
LEMMA ClearedFits ==
  ASSUME AllInv, NEW v, v = SelectionCleared(panel)
  PROVE  /\ v.selected = NoFunction
         /\ panel.selected = NoFunction => v = panel
         /\ panel.selected # NoFunction => RowFollows(v) /\ Fits(v, session)
<1>1. CASE panel.selected # NoFunction
  <2> DEFINE q == [panel EXCEPT !.selected = NoFunction]
  <2>1. Fits(panel, session) /\ session \in DOMAIN Subgraphs
    BY <1>1, NoSelectedNode, SessionShown
  <2>2. Fits(q, session) /\ q.selected = NoFunction
    BY <2>1 DEF Fits, HasPane
  <2>3. v = SelectionUpdated(q)
    BY <1>1 DEF SelectionCleared
  <2> HIDE DEF q
  <2> QED BY <1>1, <2>1, <2>2, <2>3, UpdatedFits
<1>2. CASE panel.selected = NoFunction
  BY <1>2 DEF SelectionCleared
<1> QED BY <1>1, <1>2

\* A press on a node selects it and moves the row.
LEMMA PressNodeHolds ==
  ASSUME AllInv, NEW a \in NodesOf(panel.components), PressNode(a)
  PROVE  PaneInv' /\ RowFollows(panel')
<1> DEFINE c == SelectionCleared(panel)
           q == [c EXCEPT !.selected = a]
<1>1. /\ phase # "loading" /\ session.valid /\ Fits(panel, session)
      /\ session \in DOMAIN Subgraphs
  BY NoSelectedNode, SessionShown
<1>2. Fits(c, session)
  BY <1>1, ClearedFits
<1>3. a \in NodesOf(Subgraphs[session])
  BY <1>1 DEF Fits
<1>4. panel' = SelectionUpdated(q) /\ session' = session /\ phase' = phase
  BY DEF PressNode, vars
<1> HIDE DEF c
<1>5. Fits(q, session)
  BY <1>2, <1>3 DEF Fits, HasPane
<1> HIDE DEF q
<1>6. Fits(panel', session) /\ RowFollows(panel')
  BY <1>1, <1>4, <1>5, UpdatedFits
<1> QED BY <1>1, <1>4, <1>6 DEF AllInv, PaneInv

\* A new layout keeps the selected node, unless it is at the address that stands for
\* none, and finds its row again.
LEMMA RefreshHolds ==
  ASSUME AllInv, RefreshLayout
  PROVE  /\ PaneInv' /\ RowFollows(panel')
         /\ panel.selected = NoAddress => panel'.selected = NoFunction
         /\ panel.selected \notin {NoFunction, NoAddress} => panel'.selected = panel.selected
<1>0. NoFunction # NoAddress
  BY NoFunctionAssumption DEF NoAddress
<1>1. phase = "idle" /\ phase' = phase /\ session' = session
  BY DEF RefreshLayout, vars
<1>2. window.graph = "none" <=> ~ session.valid
  BY <1>1 DEF AllInv, IInv, GraphInv
<1>3. HasPane(panel)
  BY SessionShown
<1>4. CASE ~ session.valid
  <2>1. panel' = GraphCleared(panel)
    BY <1>2, <1>4 DEF RefreshLayout
  <2>2. PaneEmpty(panel') /\ RowFollows(panel')
    BY <1>3, <2>1, ClearedEmpty
  <2>3. panel.selected = NoFunction /\ panel'.selected = NoFunction
    BY <1>4, <2>2 DEF AllInv, PaneInv, PaneEmpty
  <2> QED BY <1>0, <1>1, <1>4, <2>2, <2>3 DEF AllInv, PaneInv, PaneEmpty
<1>5. CASE session.valid
  <2> DEFINE p == LaidOut(panel, session, window.active)
  <2>1. session \in DOMAIN Subgraphs /\ Fits(panel, session)
    BY <1>1, <1>5, SessionShown DEF AllInv, PaneInv
  <2>2. /\ Fits(p, session) /\ p.row = 0
        /\ panel.selected = NoAddress => p.selected = NoFunction
        /\ panel.selected \notin {NoFunction, NoAddress} => p.selected = panel.selected
    BY <1>0, <2>1, KeptFits
  <2>3. panel' = IF p.selected = NoFunction THEN p ELSE SelectedComponent(p, p.selected)
    BY <1>2, <1>5 DEF RefreshLayout, LaidOut
  <2> HIDE DEF p
  <2>4. CASE p.selected = NoFunction
    BY <1>1, <1>5, <2>2, <2>3, <2>4 DEF AllInv, PaneInv, RowFollows
  <2>5. CASE p.selected # NoFunction
    <3>1. SameNodes(p, panel')
      BY <2>2, <2>3, <2>5, ComponentSelected DEF Fits
    <3>2. RowFollows(panel')
      BY <2>1, <2>2, <2>3, <2>5, ComponentFollows
    <3>3. Fits(panel', session) /\ panel'.selected = p.selected
      BY <2>2, <3>1 DEF Fits, SameNodes
    <3> QED BY <1>1, <1>5, <2>2, <3>2, <3>3 DEF AllInv, PaneInv
  <2> QED BY <2>4, <2>5
<1> QED BY <1>4, <1>5

\* A step that leaves the window alone.
LEMMA StillHolds ==
  ASSUME AllInv, UNCHANGED vars, Following \/ PanelStep \/ UNCHANGED panel
  PROVE  PaneInv' /\ Follows
<1>1. window'.current = window.current /\ session' = session /\ phase' = phase
  BY DEF vars
<1>2. ASSUME RefreshLayout
      PROVE  /\ PaneInv' /\ RowFollows(panel')
             /\ panel.selected = NoAddress => panel'.selected = NoFunction
             /\ panel.selected \notin {NoFunction, NoAddress} => panel'.selected = panel.selected
  BY <1>2, RefreshHolds
<1>3. CASE panel' = panel
  BY <1>1, <1>2, <1>3 DEF AllInv, PaneInv, Follows
<1>4. CASE Following
  <2>1. panel' = panel
    BY <1>4 DEF Following, vars
  <2> QED BY <1>3, <2>1
<1>5. CASE \E a \in NodesOf(panel.components) : PressNode(a)
  BY <1>1, <1>2, <1>5, PressNodeHolds DEF Follows
<1>6. CASE PressBackground
  <2>1. panel' = SelectionCleared(panel)
    BY <1>6 DEF PressBackground
  <2>2. CASE panel.selected = NoFunction
    BY <1>3, <2>1, <2>2, ClearedFits
  <2>3. CASE panel.selected # NoFunction
    <3>1. RowFollows(panel') /\ Fits(panel', session)
      BY <2>1, <2>3, ClearedFits
    <3>2. phase # "loading" /\ session.valid
      BY <2>3, NoSelectedNode
    <3> QED BY <1>1, <1>2, <3>1, <3>2 DEF AllInv, PaneInv, Follows
  <2> QED BY <2>2, <2>3
<1>7. CASE \E i \in 1 .. Len(panel.rows) : ClickComponent(i)
  <2>1. PICK i : panel' = [panel EXCEPT !.row = i]
    BY <1>7 DEF ClickComponent
  <2>2. HasPane(panel)
    BY SessionShown
  <2>3. /\ HasPane(panel') /\ panel'.components = panel.components
        /\ panel'.rows = panel.rows /\ panel'.selected = panel.selected
    BY <2>1, <2>2 DEF HasPane
  <2> QED BY <1>1, <1>2, <2>3 DEF AllInv, PaneInv, Fits, Follows
<1>8. CASE RefreshLayout
  BY <1>1, <1>2, <1>8 DEF Follows
<1> QED BY <1>3, <1>4, <1>5, <1>6, <1>7, <1>8 DEF PanelStep

\* Every step of the pane, followed or its own.
LEMMA PanelStepHolds ==
  ASSUME AllInv, [(Next /\ Following) \/ PanelStep]_<<vars, panel>>
  PROVE  AllInv' /\ Follows
<1>1. [Next]_vars
  BY DEF PanelStep, PressNode, PressBackground, ClickComponent, RefreshLayout
<1>2. IInv' /\ PanesIInv'
  BY <1>1, WindowSteps
<1>3. PaneInv' /\ Follows
  <2>1. CASE vars' = vars
    BY <2>1, StillHolds
  <2>2. CASE vars' # vars
    <3>1. Following
      BY <2>2 DEF PanelStep, PressNode, PressBackground, ClickComponent, RefreshLayout
    <3> QED BY <1>1, <2>2, <3>1, FollowingHolds
  <2> QED BY <2>1, <2>2
<1> QED BY <1>2, <1>3 DEF AllInv

\* At first there is no session and no graph.
LEMMA PanelInitHolds == PanelInit => AllInv
<1> SUFFICES ASSUME PanelInit PROVE AllInv
  OBVIOUS
<1>1. IInv /\ PanesIInv
  BY InitHolds, PanesInit DEF PanelInit
<1>2. PaneInv
  <2>1. FreshSession.valid = FALSE
    BY DEF FreshSession
  <2> QED BY <2>1 DEF PanelInit, Init, EmptyPanel, PaneInv, HasPane, Analysed
<1> QED BY <1>1, <1>2 DEF AllInv

(***************************************************************************)
(* The call-graph pane shows the session there is, makes the function that *)
(* is shown its selected node, moves the row of the table with the node,   *)
(* and keeps a node that is not at address 0 over a new layout, whatever   *)
(* the user has selected in between (setGraph, setActiveFunction,          *)
(* rebuildScene, refreshLayout).                                           *)
(***************************************************************************)
THEOREM PanelCorrect == PanelSpec => PanelFollows
<1>1. PanelInit => AllInv
  BY PanelInitHolds
<1>2. AllInv /\ [(Next /\ Following) \/ PanelStep]_<<vars, panel>> => AllInv'
  BY PanelStepHolds
<1>3. AllInv => ShowsSession
  BY DEF AllInv, PaneInv, Fits, ShowsSession
<1>4. AllInv /\ [(Next /\ Following) \/ PanelStep]_<<vars, panel>>
        => [/\ window'.current # window.current => panel'.selected = window'.current
            /\ panel'.selected # panel.selected \/ window'.current # window.current
                 => RowFollows(panel')
            /\ RefreshLayout =>
                 /\ panel.selected = NoAddress => panel'.selected = NoFunction
                 /\ panel.selected \notin {NoFunction, NoAddress} => panel'.selected = panel.selected
                 /\ RowFollows(panel')]_<<vars, panel>>
  BY PanelStepHolds DEF Follows
<1> QED BY <1>1, <1>2, <1>3, <1>4, PTL DEF PanelSpec, PanelFollows

================================================================================
