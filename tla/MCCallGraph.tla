------------------------------ MODULE MCCallGraph ------------------------------
(***************************************************************************)
(* Two functions in both orders, or one twice, with up to three            *)
(* instructions that call either, an address that is no function, or       *)
(* something that is not known; the second may have no cached              *)
(* instructions.  For the layout: graphs of three functions, with and      *)
(* without a main, and larger ones for what those cannot show.             *)
(***************************************************************************)
EXTENDS CallGraphLayoutEngine

Op(a, c, t) == [address |-> a, isCall |-> c, directTarget |-> t]

\* Two calls of 9, a call of the other function, a jump and a call of a register.
MCFirst ==
  {<<Op(10, TRUE, 9), Op(11, TRUE, t), Op(12, TRUE, 9)>> : t \in {10, 20, NoTarget}}
    \cup {<<>>, <<Op(10, TRUE, 20), Op(11, FALSE, 5), Op(12, TRUE, 10)>>}

MCSecond ==
  {<<Op(20, TRUE, 9), Op(21, k, t)>> : k \in BOOLEAN, t \in {5, 10, 20}}

MCPairs ==
  {[functions |-> fs, code |-> (10 :> c) @@ (20 :> d)] :
     fs \in {<<10, 20>>, <<20, 10>>}, c \in MCFirst, d \in MCSecond}
  \cup {[functions |-> fs, code |-> 10 :> c] :
          fs \in {<<10>>, <<10, 20>>, <<10, 10>>}, c \in MCFirst}

\* The program of a set of calls, padded to n instructions per function.
MCProgram(functions_, calls, n) ==
  [functions |-> functions_,
   code |-> [f \in ToSet(functions_) |->
     LET targets == SetToSortSeq({c[2] : c \in {d \in calls : d[1] = f}}, <)
     IN  [i \in 1 .. Max({n, Len(targets)}) |->
            IF i <= Len(targets) THEN Op(f + i, TRUE, targets[i]) ELSE Op(f + i, FALSE, NoTarget)]]]

\* All calls between three functions, and of others.
MCGraphs(a, b, c, others) ==
  {MCProgram(<<a, b, c>>, calls, 0) :
     calls \in SUBSET ({<<a, b>>, <<a, c>>, <<b, a>>, <<b, c>>, <<c, a>>, <<c, b>>} \cup others)}

MCLarge ==
  {\* Components of different heights in two rows.
   MCProgram(<<100, 200, 300, 400, 500, 600, 700>>, {<<100, 200>>}, 2),
   \* Long functions beside short ones.
   MCProgram(<<100, 20, 300>>, {<<100, 20>>, <<100, 300>>, <<300, 9>>}, 9),
   \* A cycle that is reached from nowhere, below two layers without nodes.
   MCProgram(<<20, 30, 50, 60, 70, 80>>,
             {<<20, 30>>, <<50, 30>>, <<50, 60>>, <<70, 60>>, <<70, 80>>, <<80, 70>>}, 1),
   \* Two ways of different lengths.
   MCProgram(<<20, 30, 40, 50, 60>>,
             {<<20, 30>>, <<20, 40>>, <<30, 50>>, <<50, 60>>, <<40, 60>>}, 1)}

MCPrograms == UNION {MCPairs, MCGraphs(10, 20, 30, {<<30, 30>>, <<30, 9>>}), MCGraphs(10, 30, 40, {}), MCLarge}

================================================================================
