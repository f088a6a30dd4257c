--------------------------- MODULE MCAnalysisSession ---------------------------
(***************************************************************************)
(* Binaries that share addresses, so that an entry of one could be taken   *)
(* for an entry of another; one that fails at each function, one without   *)
(* functions and one that is rejected.                                     *)
(***************************************************************************)
EXTENDS AnalysisSession

Binary(loads, fs, failing) == [loads |-> loads, functions |-> fs, failing |-> failing]

MCBinaries ==
  {Binary(TRUE, <<4, 6, 9>>, {}), Binary(TRUE, <<4, 6>>, {}), Binary(TRUE, <<6>>, {}),
   Binary(TRUE, <<>>, {}), Binary(FALSE, <<>>, {})}
    \cup {Binary(TRUE, <<4, 6, 9>>, {f}) : f \in {4, 6, 9}}

================================================================================
