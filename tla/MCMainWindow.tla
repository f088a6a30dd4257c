------------------------------- MODULE MCMainWindow -------------------------------
(***************************************************************************)
(* A failed session and three valid ones: one whose entry function is not  *)
(* the first in the listing and is not main, with calls, a tail jump, a    *)
(* jump out of the listing and a call of an external function; one without *)
(* main; and one whose entry point is no function and that calls address   *)
(* 0.  They share functions 10 and 20, so that state of one could be       *)
(* mistaken for state of another.                                          *)
(***************************************************************************)
EXTENDS CallGraphPanel

Line(f, a, kind, target) == [function |-> f, address |-> a, kind |-> kind, target |-> target]

Plain(f, a) == Line(f, a, "Normal", NoFunction)

WithMain ==
  [valid |-> TRUE, functions |-> <<10, 20, 30>>, main |-> 20, entry |-> 30,
   code |-> 10 :> <<Line(10, 10, "Call", 20), Line(10, 11, "Jump", 30)>>
         @@ 20 :> <<Plain(20, 20), Line(20, 21, "Jump", 20), Line(20, 22, "Call", 99)>>
         @@ 30 :> <<Line(30, 30, "Call", 10), Line(30, 31, "Jump", 77)>>,
   cached |-> {10, 20, 30}]

WithoutMain ==
  [valid |-> TRUE, functions |-> <<10, 20>>, main |-> NoFunction, entry |-> 20,
   code |-> 10 :> <<Line(10, 10, "Call", 20)>> @@ 20 :> <<Plain(20, 20), Plain(20, 21)>>,
   cached |-> {10, 20}]

EntryOutside ==
  [valid |-> TRUE, functions |-> <<20, 40>>, main |-> NoFunction, entry |-> 5,
   code |-> 20 :> <<Plain(20, 20)>> @@ 40 :> <<Line(40, 40, "Call", 0)>>,
   cached |-> {20, 40}]

\* An analysis that failed while it disassembled its second function.
Partial ==
  [valid |-> FALSE, functions |-> <<10, 20>>, main |-> NoFunction, entry |-> 10,
   code |-> 10 :> <<Plain(10, 10)>> @@ 20 :> <<>>, cached |-> {}]

MCSessions == {WithMain, WithoutMain, EntryOutside, Partial}

\* "nothing matches", two texts that match one function, one that matches two, and
\* the empty text.
MCQueries == {{}, {10}, {20}, {20, 30}, Everything}

\* The subgraphs that direct calls connect, the one of the root that comes first first.
MCSubgraphs ==
  WithMain :> <<{10, 20, 30, 99}>> @@ WithoutMain :> <<{10, 20}>>
    @@ EntryOutside :> <<{20}, {40, 0}>>
=================================================================================
