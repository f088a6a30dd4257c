---------------------------- MODULE BrowserHistory ----------------------------
(***************************************************************************)
(* What the Back and Forward actions of the main window promise: the       *)
(* history of a browser, with the function that is shown between those     *)
(* that Back leads to and those that Forward leads to.                     *)
(***************************************************************************)
EXTENDS Sequences, Naturals

CONSTANTS
  Places,    \* what can be shown
  Nowhere    \* nothing is shown

VARIABLES past, here, future

vars == <<past, here, future>>

Init == past = <<>> /\ here = Nowhere /\ future = <<>>

\* Showing another place forgets what Forward would lead to.
Visit(p) ==
  /\ p # here
  /\ past' = IF here = Nowhere THEN <<>> ELSE Append(past, here)
  /\ here' = p
  /\ future' = <<>>

Back ==
  /\ past # <<>>
  /\ past' = SubSeq(past, 1, Len(past) - 1)
  /\ here' = past[Len(past)]
  /\ future' = <<here>> \o future

Forward ==
  /\ future # <<>>
  /\ past' = Append(past, here)
  /\ here' = Head(future)
  /\ future' = Tail(future)

Forget == past' = <<>> /\ here' = Nowhere /\ future' = <<>>

Next == (\E p \in Places : Visit(p)) \/ Back \/ Forward \/ Forget

Spec == Init /\ [][Next]_vars

================================================================================
