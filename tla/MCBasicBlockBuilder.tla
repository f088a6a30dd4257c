-------------------------- MODULE MCBasicBlockBuilder --------------------------
(***************************************************************************)
(* Streams of up to four instructions for BasicBlockBuilder.  The third    *)
(* instruction has two bytes, so that a branch can target the middle of an *)
(* instruction, and the last one ends at the largest address.  The listing *)
(* has two lanes, so that some streams have too many jumps for them.       *)
(***************************************************************************)
EXTENDS FunctionListing, TLC

MCAddresses == <<1, 2, 3, 5>>
MCSizes     == <<1, 1, 2, 1>>

\* Where a branch may point: every instruction, the middle of the third one, an
\* address outside the function, or nowhere known.
MCTargets == {1, 2, 3, 4, 5, 0, NoAddress}

MCBodies ==
  ([kind : {"Normal", "Return", "IndirectJump", "Invalid"}, directTarget : {NoAddress}]
     \cup [kind : {"ConditionalJump"}, directTarget : MCTargets]
     \cup [kind : {"UnconditionalJump", "Call"}, directTarget : {2, 4, 5}])

MCStream(f) ==
  [i \in DOMAIN f |-> [address |-> MCAddresses[i], size |-> MCSizes[i],
                       kind |-> f[i].kind, directTarget |-> f[i].directTarget]]

MCShort == UNION {[1 .. n -> MCBodies] : n \in 0 .. 3}

MCLong == [1 .. 4 -> {b \in MCBodies : b.kind \in {"Normal", "Return", "ConditionalJump"}}]

MCStreams == {MCStream(f) : f \in MCShort} \cup {MCStream(f) : f \in MCLong}

================================================================================
