---------------------------- MODULE MCBinaryPatcher ----------------------------
(***************************************************************************)
(* A binary of four bytes with an executable section of three, mapped by a *)
(* segment, by one with other offsets, or by none; its output is free,     *)
(* taken by another file, or a second name of the binary itself.           *)
(***************************************************************************)
EXTENDS BinaryPatcher, TLC

SegmentAt(address, offset, size) == [address |-> address, offset |-> offset, size |-> size]

SectionAt(address, offset, size, executable, allocated) ==
  [address |-> address, offset |-> offset, size |-> size,
   executable |-> executable, allocated |-> allocated]

MCSections ==
  <<SectionAt(10, 1, 3, TRUE, TRUE), SectionAt(13, 0, 1, FALSE, TRUE), SectionAt(14, 0, 1, TRUE, FALSE)>>

MCLayouts ==
  {[sections |-> MCSections, segments |-> segments] :
     segments \in {<<SegmentAt(9, 0, 4)>>, <<SegmentAt(10, 2, 2)>>, <<SegmentAt(9, 0, 2), SegmentAt(20, 0, 1)>>,
                   <<>>}}

MCBytes == <<1, 2, 2, 2>>

\* The binary once patched by somebody else, one with another instruction, and one
\* that is shorter.
MCContents == {<<1, 5, 5, 2>>, <<1, 2, 2, 4>>, <<1, 2, 2>>}

MCInodes == 1 .. 7

MCDisks ==
  {[directory |-> d, content |-> [i \in MCInodes |-> IF i = 1 THEN MCBytes ELSE <<7>>],
    mode |-> [i \in MCInodes |-> IF i = 1 THEN "executable" ELSE "default"]] :
     d \in {[app |-> 1, out |-> NoFile], [app |-> 1, out |-> 2], [app |-> 1, out |-> 1]}}

Request(address, size, replacement, out, allow) ==
  [address |-> address, size |-> size, replacement |-> replacement, output |-> out,
   allow |-> allow]

MCRequests ==
  {Request(10, 2, <<5, 5>>, out, allow) : out \in {"app", "out"}, allow \in BOOLEAN}
    \cup {Request(11, 2, <<5, 5>>, "out", TRUE), Request(12, 2, <<5, 5>>, "out", TRUE),
          Request(12, 1, <<5, 5>>, "out", TRUE), Request(12, 1, <<6>>, "out", TRUE),
          Request(13, 1, <<5>>, "out", TRUE), Request(14, 1, <<5>>, "out", TRUE),
          Request(12, 0, <<>>, "out", TRUE)}

MCDecodable == {<<5, 5>>, <<5>>}

================================================================================
