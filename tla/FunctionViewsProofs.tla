------------------------- MODULE FunctionViewsProofs ---------------------------
(***************************************************************************)
(* The blocks of every stream of instructions: they partition it, and they *)
(* are basic.  The lanes of every list of arrows: where no row is passed   *)
(* by more arrows than there are lanes, no two arrows on one lane share a  *)
(* row.  The pseudocode of every graph: it prints each block that can be   *)
(* reached, once, and goes where the machine goes.                         *)
(***************************************************************************)
EXTENDS FunctionListing, Pseudocode, FiniteSetTheorems, FunctionTheorems, SequenceTheorems,
        WellFoundedInduction, TLAPS

\* Every non-empty set of natural numbers has a least element.
LEMMA LeastElement ==
  ASSUME NEW S \in SUBSET Nat, S # {}
  PROVE  \E m \in S : \A n \in S : m <= n
<1> DEFINE Less == {ss \in Nat \X Nat : ss[1] < ss[2]}
<1>1. IsWellFoundedOn(Less, Nat)
  BY NatLessThanWellFounded, Zenon DEF OpToRel
<1>2. \E m \in S : \A n \in S : ~ (<<n, m>> \in Less)
  <2> HIDE DEF Less
  <2> QED BY <1>1, WFMin
<1>3. \A n, m \in Nat : ~ (<<n, m>> \in Less) => m <= n
  OBVIOUS
<1> QED BY <1>2, <1>3

--------------------------------------------------------------------------------
(***************************************************************************)
(* The blocks of the builder.  Reached is the ghost that relates the       *)
(* blocks to the loop: each of them is a part of the stream before it, and *)
(* they cover all of that part.                                            *)
(***************************************************************************)

\* The first instruction that is in no finished block.
Reached == IF phase = "done" THEN Len(instructions) + 1
           ELSE IF from = 0 THEN 1 ELSE from

PositionInv ==
  /\ instructions \in Streams
  /\ phase \in {"scan", "cut", "done"}
  /\ index \in 1 .. Len(instructions) + 1
  /\ phase = "scan" => index <= Len(instructions) /\ from = 0 /\ blocks = <<>>
  /\ phase = "cut"  => /\ instructions # <<>> /\ from \in 0 .. index - 1
                       /\ from = 0 <=> index = 1
  /\ phase = "done" => index = Len(instructions) + 1 /\ from = 0

\* A block is a part of the stream that has been passed.
IsPart(b) ==
  \E i, j \in 1 .. Len(instructions) :
    i <= j /\ j < Reached /\ b = BlockOf(instructions, i, j)

PartsInv ==
  /\ blocks \in Seq(Block)
  /\ \A k \in 1 .. Len(blocks) : IsPart(blocks[k])
  /\ \A k \in 1 .. Len(blocks) - 1 : blocks[k].last < blocks[k + 1].start
  /\ blocks = <<>> => Reached = 1
  /\ blocks # <<>> => /\ Reached > 1
                      /\ blocks[Len(blocks)].last = instructions[Reached - 1].address
                      /\ blocks[Len(blocks)].kind = instructions[Reached - 1].kind
  /\ \A i \in 1 .. Len(instructions) :
       (\E k \in 1 .. Len(blocks) : Covers(blocks[k], i)) <=> i < Reached

\* The leaders of the first n instructions.
LeadersOf(n) ==
  {instructions[1].address} \cup UNION {TargetLeader(i) \cup FollowingLeader(i) : i \in 1 .. n}

LeadersFound ==
  instructions # <<>> =>
    leaders = LeadersOf(IF phase = "scan" THEN index - 1 ELSE Len(instructions))

\* No leader is inside a block ...
NoneInside ==
  \A k \in 1 .. Len(blocks), i \in 1 .. Len(instructions) :
    Covers(blocks[k], i) /\ instructions[i].address # blocks[k].start
      => instructions[i].address \notin leaders

\* ... and every block but the first starts with one.
StartsLead ==
  \A k \in 2 .. Len(blocks) :
    \E i \in 2 .. Len(instructions) :
      /\ instructions[i].address \in leaders
      /\ blocks[k].start = instructions[i].address
      /\ blocks[k - 1].kind = instructions[i - 1].kind

\* The same of the block that is open.
OpenInv ==
  phase = "cut" /\ from # 0 =>
    /\ \A i \in from + 1 .. index - 1 : instructions[i].address \notin leaders
    /\ from > 1 => instructions[from].address \in leaders

LeadersInv == LeadersFound /\ NoneInside /\ StartsLead /\ OpenInv

BlockInv == PositionInv /\ PartsInv /\ LeadersInv

\* The addresses of a stream increase.
LEMMA StreamType ==
  ASSUME NEW is \in Streams
  PROVE  /\ is \in Seq(Instruction) /\ Len(is) \in Nat
         /\ \A i \in 1 .. Len(is) :
              /\ is[i] \in Instruction /\ is[i].address \in Address
              /\ is[i].address \in Nat /\ is[i].size \in Nat /\ is[i].size > 0
              /\ is[i].kind \in InstructionKind
              /\ is[i].directTarget \in Address \cup {NoAddress}
         /\ \A i, j \in 1 .. Len(is) : i < j => is[i].address < is[j].address
<1>1. is \in Seq(Instruction) /\ IsInstructionStream(is)
  BY StreamsAssumption
<1>2. Len(is) \in Nat
  BY <1>1
<1>3. ASSUME NEW i \in 1 .. Len(is)
      PROVE  /\ is[i] \in Instruction /\ is[i].address \in Address
             /\ is[i].address \in Nat /\ is[i].size \in Nat /\ is[i].size > 0
             /\ is[i].kind \in InstructionKind
             /\ is[i].directTarget \in Address \cup {NoAddress}
  <2>1. is[i] \in Instruction
    BY <1>1
  <2>2. /\ is[i].address \in Address /\ is[i].size \in Nat /\ is[i].kind \in InstructionKind
        /\ is[i].directTarget \in Address \cup {NoAddress}
    BY <2>1 DEF Instruction
  <2>3. is[i].address \in Nat
    BY <2>2, MaxAddressAssumption DEF Address
  <2>4. is[i].size > 0
    BY <1>1 DEF IsInstructionStream
  <2> QED BY <2>1, <2>2, <2>3, <2>4
<1>4. ASSUME NEW i \in 1 .. Len(is), NEW j \in 1 .. Len(is), i < j
      PROVE  is[i].address < is[j].address
  <2>1. i \in 1 .. j - 1
    BY <1>2, <1>4
  <2>2. is[i].address + is[i].size <= is[j].address
    BY <1>1, <2>1 DEF IsInstructionStream
  <2> QED BY <1>3, <2>2
<1> QED BY <1>1, <1>2, <1>3, <1>4

\* What the blocks of the stream are.
LEMMA BlockType ==
  ASSUME NEW is \in Streams, NEW i \in 1 .. Len(is), NEW j \in 1 .. Len(is), i <= j
  PROVE  /\ BlockOf(is, i, j) \in Block
         /\ BlockOf(is, i, j).start = is[i].address
         /\ BlockOf(is, i, j).last = is[j].address
         /\ BlockOf(is, i, j).kind = is[j].kind
<1>1. /\ is[i].address \in Address /\ is[j].address \in Address /\ is[j].kind \in InstructionKind
      /\ is[j].directTarget \in Address \cup {NoAddress}
      /\ is[j].address \in Nat /\ is[j].size \in Nat
  BY StreamType
<1>2. InstructionEnd(is[j]) \in Address
  BY <1>1, MaxAddressAssumption DEF InstructionEnd, Address
<1> QED BY <1>1, <1>2 DEF BlockOf, Block

\* The block from i to j covers the instructions from i to j.
LEMMA CoversExactly ==
  ASSUME instructions \in Streams,
         NEW i \in 1 .. Len(instructions), NEW j \in 1 .. Len(instructions), i <= j,
         NEW m \in 1 .. Len(instructions)
  PROVE  Covers(BlockOf(instructions, i, j), m) <=> i <= m /\ m <= j
<1>1. /\ BlockOf(instructions, i, j).start = instructions[i].address
      /\ BlockOf(instructions, i, j).last = instructions[j].address
  BY BlockType
<1>2. /\ instructions[i].address \in Nat /\ instructions[j].address \in Nat
      /\ instructions[m].address \in Nat
      /\ i \in Nat /\ j \in Nat /\ m \in Nat
  BY StreamType
<1>3. /\ i < m => instructions[i].address < instructions[m].address
      /\ m < i => instructions[m].address < instructions[i].address
      /\ m < j => instructions[m].address < instructions[j].address
      /\ j < m => instructions[j].address < instructions[m].address
  BY StreamType
<1>4. Covers(BlockOf(instructions, i, j), m) <=>
        instructions[i].address <= instructions[m].address
          /\ instructions[m].address <= instructions[j].address
  BY <1>1 DEF Covers
<1>5. i < m \/ i = m \/ m < i
  BY ONLY <1>2
<1>6. j < m \/ j = m \/ m < j
  BY ONLY <1>2
<1> QED BY ONLY <1>2, <1>3, <1>4, <1>5, <1>6

LEMMA InitHolds == Init => BlockInv
<1> SUFFICES ASSUME Init PROVE BlockInv
  OBVIOUS
<1> USE DEF Init
<1>1. instructions \in Streams /\ blocks = <<>> /\ from = 0 /\ index = 1
      /\ Len(instructions) \in Nat /\ Len(blocks) = 0
      /\ instructions \in Seq(Instruction)
  BY StreamType
<1>2. PositionInv
  BY <1>1 DEF PositionInv
<1>3. Reached = 1
  BY <1>1, <1>2 DEF Reached, PositionInv
<1>4. PartsInv
  BY <1>1, <1>3 DEF PartsInv
<1>5. instructions # <<>> => leaders = LeadersOf(0)
  BY <1>1 DEF LeadersOf
<1>6. LeadersFound
  BY <1>1, <1>5 DEF LeadersFound
<1>7. NoneInside /\ StartsLead
  BY <1>1 DEF NoneInside, StartsLead
<1>8. OpenInv
  BY <1>1 DEF OpenInv
<1> QED BY <1>2, <1>4, <1>6, <1>7, <1>8 DEF BlockInv, LeadersInv

\* Collecting leaders touches no block.
LEMMA ScanStep ==
  ASSUME BlockInv, ScanInstruction
  PROVE  BlockInv'
<1>1. /\ instructions \in Streams /\ Len(instructions) \in Nat /\ instructions # <<>>
      /\ phase = "scan" /\ blocks = <<>> /\ from = 0 /\ Len(blocks) = 0
      /\ index \in 1 .. Len(instructions)
  BY StreamType DEF BlockInv, PositionInv, ScanInstruction
<1>2. /\ instructions' = instructions /\ blocks' = blocks /\ from' = from
      /\ leaders' = leaders \cup TargetLeader(index) \cup FollowingLeader(index)
      /\ \/ phase' = "cut" /\ index' = 1 /\ index = Len(instructions)
         \/ phase' = "scan" /\ index' = index + 1 /\ index # Len(instructions)
  BY <1>1 DEF ScanInstruction
<1>3. PositionInv'
  BY <1>1, <1>2 DEF PositionInv
<1>4. Reached' = 1 /\ Reached = 1
  BY <1>1, <1>2 DEF Reached
<1>5. PartsInv'
  BY <1>1, <1>2, <1>4 DEF PartsInv
<1>6. LeadersFound'
  <2>1. leaders = LeadersOf(index - 1)
    BY <1>1 DEF BlockInv, LeadersInv, LeadersFound
  <2>2. 1 .. index = (1 .. index - 1) \cup {index}
    BY <1>1
  <2>3. leaders' = LeadersOf(index)
    BY <1>2, <2>1, <2>2 DEF LeadersOf
  <2>5. \A n : LeadersOf(n)' = LeadersOf(n)
    BY <1>2 DEF LeadersOf, TargetLeader, FollowingLeader, InstructionAddresses
  <2> QED BY <1>1, <1>2, <2>3, <2>5 DEF LeadersFound
<1>7. LeadersInv'
  BY <1>1, <1>2, <1>6 DEF LeadersInv, NoneInside, StartsLead, OpenInv
<1> QED BY <1>3, <1>5, <1>7 DEF BlockInv

\* The block that a leader or the end of the stream finishes.
LEMMA FinishStep ==
  ASSUME BlockInv, phase = "cut", from # 0, blocks' = FinishBlock(index), Reached' = index,
         instructions' = instructions, leaders' = leaders
  PROVE  PartsInv' /\ NoneInside' /\ StartsLead'
<1> DEFINE new == BlockOf(instructions, from, index - 1)
<1>1. /\ instructions \in Streams /\ Len(instructions) \in Nat /\ from \in 1 .. index - 1
      /\ index \in 2 .. Len(instructions) + 1
      /\ from \in 1 .. Len(instructions) /\ index - 1 \in 1 .. Len(instructions)
      /\ from <= index - 1
  BY StreamType DEF BlockInv, PositionInv
<1>2. /\ new \in Block /\ new.start = instructions[from].address
      /\ new.last = instructions[index - 1].address /\ new.kind = instructions[index - 1].kind
  BY <1>1, BlockType
<1>3. blocks \in Seq(Block) /\ Len(blocks) \in Nat /\ Reached = from
  BY DEF BlockInv, PartsInv, Reached
<1>4. blocks' = Append(blocks, new)
  BY DEF FinishBlock
<1> HIDE DEF new
<1>5. /\ blocks' \in Seq(Block) /\ Len(blocks') = Len(blocks) + 1
      /\ blocks'[Len(blocks) + 1] = new
      /\ \A k \in 1 .. Len(blocks) : blocks'[k] = blocks[k]
  BY ONLY <1>2, <1>3, <1>4
<1>6. \A m \in 1 .. Len(instructions) : Covers(new, m) <=> from <= m /\ m <= index - 1
  BY <1>1, CoversExactly DEF new
<1>7. \A b, m : Covers(b, m)' <=> Covers(b, m)
  BY DEF Covers
<1>8. Len(blocks) + 1 \in 1 .. Len(blocks') /\ 1 .. Len(blocks') = 1 .. Len(blocks) \cup {Len(blocks) + 1}
  BY ONLY <1>3, <1>5
<1>9. \A k \in 1 .. Len(blocks') : IsPart(blocks[k])'
  <2>1. ASSUME NEW k \in 1 .. Len(blocks)
        PROVE  IsPart(blocks[k])'
    <3>1. PICK i, j \in 1 .. Len(instructions) :
            i <= j /\ j < Reached /\ blocks[k] = BlockOf(instructions, i, j)
      BY DEF BlockInv, PartsInv, IsPart
    <3>2. j < index
      BY <1>1, <1>3, <3>1
    <3>3. blocks'[k] = BlockOf(instructions', i, j)
      BY <1>5, <3>1
    <3> QED BY <3>1, <3>2, <3>3 DEF IsPart
  <2>2. ASSUME NEW k \in {Len(blocks) + 1}
        PROVE  IsPart(blocks[k])'
    <3>1. blocks'[k] = BlockOf(instructions', from, index - 1)
      BY <1>5, <2>2 DEF new
    <3>2. index - 1 < index
      BY <1>1
    <3> QED BY <1>1, <3>1, <3>2 DEF IsPart
  <2> QED BY <1>8, <2>1, <2>2
<1>10. \A k \in 1 .. Len(blocks') - 1 : blocks'[k].last < blocks'[k + 1].start
  <2>1. ASSUME NEW k \in 1 .. Len(blocks), k < Len(blocks)
        PROVE  blocks'[k].last < blocks'[k + 1].start
    <3>1. k \in 1 .. Len(blocks) - 1 /\ k + 1 \in 1 .. Len(blocks)
      BY <1>3, <2>1
    <3> QED BY <1>5, <3>1 DEF BlockInv, PartsInv
  <2>2. ASSUME blocks # <<>>
        PROVE  blocks'[Len(blocks)].last < blocks'[Len(blocks) + 1].start
    <3>1. /\ blocks[Len(blocks)].last = instructions[from - 1].address /\ from > 1
          /\ Len(blocks) \in 1 .. Len(blocks)
      BY <1>3, <2>2 DEF BlockInv, PartsInv
    <3>2. instructions[from - 1].address < instructions[from].address
      BY <1>1, <3>1, StreamType
    <3> QED BY <1>2, <1>5, <3>1, <3>2
  <2> QED BY <1>3, <1>5, <2>1, <2>2
<1>11. \A i \in 1 .. Len(instructions) :
         (\E k \in 1 .. Len(blocks') : Covers(blocks'[k], i)) <=> i < index
  <2> SUFFICES ASSUME NEW i \in 1 .. Len(instructions)
               PROVE  (\E k \in 1 .. Len(blocks') : Covers(blocks'[k], i)) <=> i < index
    OBVIOUS
  <2>1. (\E k \in 1 .. Len(blocks) : Covers(blocks[k], i)) <=> i < from
    BY <1>3 DEF BlockInv, PartsInv
  <2>2. Covers(new, i) <=> from <= i /\ i <= index - 1
    BY <1>6
  <2>3. (\E k \in 1 .. Len(blocks') : Covers(blocks'[k], i))
          <=> (\E k \in 1 .. Len(blocks) : Covers(blocks[k], i)) \/ Covers(new, i)
    BY <1>5, <1>8
  <2> QED BY <1>1, <2>1, <2>2, <2>3
<1>12. PartsInv'
  <2>1. blocks' # <<>> /\ Reached' > 1 /\ blocks'[Len(blocks')].last = instructions[Reached' - 1].address
        /\ blocks'[Len(blocks')].kind = instructions[Reached' - 1].kind
    BY <1>1, <1>2, <1>5
  <2>2. \A i \in 1 .. Len(instructions') :
          (\E k \in 1 .. Len(blocks') : Covers(blocks[k], i)') <=> i < Reached'
    BY <1>7, <1>11
  <2> QED BY <1>5, <1>9, <1>10, <2>1, <2>2 DEF PartsInv
<1>13. NoneInside'
  <2>1. ASSUME NEW k \in 1 .. Len(blocks'), NEW i \in 1 .. Len(instructions),
               Covers(blocks'[k], i), instructions[i].address # blocks'[k].start
        PROVE  instructions[i].address \notin leaders
    <3>1. CASE k \in 1 .. Len(blocks)
      BY <1>5, <2>1, <3>1 DEF BlockInv, LeadersInv, NoneInside
    <3>2. CASE k = Len(blocks) + 1
      <4>1. i \in from + 1 .. index - 1
        BY <1>1, <1>2, <1>5, <1>6, <2>1, <3>2
      <4> QED BY <4>1 DEF BlockInv, LeadersInv, OpenInv
    <3> QED BY <1>8, <2>1, <3>1, <3>2
  <2> QED BY <1>7, <2>1 DEF NoneInside
<1>14. StartsLead'
  <2>1. ASSUME NEW k \in 2 .. Len(blocks')
        PROVE  \E i \in 2 .. Len(instructions) :
                 /\ instructions[i].address \in leaders
                 /\ blocks'[k].start = instructions[i].address
                 /\ blocks'[k - 1].kind = instructions[i - 1].kind
    <3>1. CASE k \in 2 .. Len(blocks)
      <4>1. k \in 1 .. Len(blocks) /\ k - 1 \in 1 .. Len(blocks)
        BY <1>3, <3>1
      <4> QED BY <1>5, <3>1, <4>1 DEF BlockInv, LeadersInv, StartsLead
    <3>2. CASE k = Len(blocks) + 1
      <4>1. blocks # <<>> /\ Len(blocks) \in 1 .. Len(blocks)
        BY <1>3, <2>1, <3>2
      <4>2. from > 1 /\ blocks[Len(blocks)].kind = instructions[from - 1].kind
        BY <1>3, <4>1 DEF BlockInv, PartsInv
      <4>3. instructions[from].address \in leaders /\ from \in 2 .. Len(instructions)
        BY <1>1, <4>2 DEF BlockInv, LeadersInv, OpenInv
      <4>4. blocks'[k].start = instructions[from].address /\ k - 1 = Len(blocks)
        BY <1>2, <1>3, <1>5, <3>2
      <4>5. blocks'[k - 1].kind = instructions[from - 1].kind
        BY <1>5, <4>1, <4>2, <4>4
      <4> QED BY <4>3, <4>4, <4>5
    <3> QED BY <1>3, <1>5, <2>1, <3>1, <3>2
  <2> QED BY <2>1 DEF StartsLead
<1> QED BY <1>12, <1>13, <1>14

\* Cutting: a leader finishes the open block, then the instruction joins it.
LEMMA CutStep ==
  ASSUME BlockInv, CutInstruction
  PROVE  BlockInv'
<1>1. /\ instructions \in Streams /\ Len(instructions) \in Nat /\ instructions # <<>>
      /\ phase = "cut" /\ from \in 0 .. index - 1 /\ (from = 0 <=> index = 1)
      /\ index \in 1 .. Len(instructions)
  BY StreamType DEF BlockInv, PositionInv, CutInstruction
<1>2. /\ instructions' = instructions /\ leaders' = leaders /\ phase' = "cut"
      /\ index' = index + 1
      /\ blocks' = IF StartsBlock(index) THEN FinishBlock(index) ELSE blocks
      /\ from' = IF from = 0 \/ StartsBlock(index) THEN index ELSE from
  BY <1>1 DEF CutInstruction
<1>3. PositionInv'
  BY <1>1, <1>2 DEF PositionInv
<1>4. LeadersFound'
  <2>1. \A n : LeadersOf(n)' = LeadersOf(n)
    BY <1>2 DEF LeadersOf, TargetLeader, FollowingLeader, InstructionAddresses
  <2>2. leaders = LeadersOf(Len(instructions))
    BY <1>1 DEF BlockInv, LeadersInv, LeadersFound
  <2> QED BY <1>2, <2>1, <2>2 DEF LeadersFound
<1>5. CASE StartsBlock(index)
  <2>1. from # 0 /\ instructions[index].address \in leaders
    BY <1>5 DEF StartsBlock
  <2>2. blocks' = FinishBlock(index) /\ from' = index /\ Reached' = index
    BY <1>1, <1>2, <1>5 DEF Reached
  <2>3. PartsInv' /\ NoneInside' /\ StartsLead'
    BY <1>1, <1>2, <2>1, <2>2, FinishStep
  <2>4. OpenInv'
    BY <1>1, <1>2, <2>1, <2>2 DEF OpenInv
  <2> QED BY <1>3, <1>4, <2>3, <2>4 DEF BlockInv, LeadersInv
<1>6. CASE ~ StartsBlock(index)
  <2>1. blocks' = blocks /\ from' = IF from = 0 THEN index ELSE from
    BY <1>2, <1>6
  <2>2. Reached' = Reached
    BY <1>1, <1>2, <2>1 DEF Reached
  <2>3. \A b, m : Covers(b, m)' <=> Covers(b, m)
    BY <1>2 DEF Covers
  <2>4. \A b : IsPart(b)' <=> IsPart(b)
    BY <1>2, <2>2 DEF IsPart
  <2>5. PartsInv'
    BY <1>2, <2>1, <2>2, <2>3, <2>4 DEF BlockInv, PartsInv
  <2>6. NoneInside' /\ StartsLead'
    BY <1>2, <2>1, <2>3 DEF BlockInv, LeadersInv, NoneInside, StartsLead
  <2>7. OpenInv'
    <3>1. CASE from = 0
      BY <1>1, <1>2, <2>1, <3>1 DEF OpenInv
    <3>2. CASE from # 0
      <4>1. instructions[index].address \notin leaders /\ from' = from
        BY <1>6, <2>1, <3>2 DEF StartsBlock
      <4>2. \A i \in from + 1 .. index : i \in from + 1 .. index - 1 \/ i = index
        BY <1>1
      <4>3. index' - 1 = index
        BY <1>1, <1>2
      <4> QED BY <1>1, <1>2, <3>2, <4>1, <4>2, <4>3 DEF BlockInv, LeadersInv, OpenInv
    <3> QED BY <3>1, <3>2
  <2> QED BY <1>3, <1>4, <2>5, <2>6, <2>7 DEF BlockInv, LeadersInv
<1> QED BY <1>5, <1>6

\* The end of the stream finishes the last block.
LEMMA FinishLastStep ==
  ASSUME BlockInv, FinishLastBlock
  PROVE  BlockInv'
<1>1. /\ instructions \in Streams /\ Len(instructions) \in Nat /\ instructions # <<>>
      /\ instructions \in Seq(Instruction)
      /\ phase = "cut" /\ (from = 0 <=> index = 1) /\ index = Len(instructions) + 1
  BY StreamType DEF BlockInv, PositionInv, FinishLastBlock
<1>2. from # 0
  BY <1>1
<1>3. /\ instructions' = instructions /\ leaders' = leaders /\ index' = index
      /\ phase' = "done" /\ from' = 0 /\ blocks' = FinishBlock(index)
  BY DEF FinishLastBlock
<1>4. PositionInv'
  BY <1>1, <1>3 DEF PositionInv
<1>5. Reached' = index
  BY <1>1, <1>3 DEF Reached
<1>6. PartsInv' /\ NoneInside' /\ StartsLead'
  BY <1>1, <1>2, <1>3, <1>5, FinishStep
<1>7. LeadersFound' /\ OpenInv'
  <2>1. \A n : LeadersOf(n)' = LeadersOf(n)
    BY <1>3 DEF LeadersOf, TargetLeader, FollowingLeader, InstructionAddresses
  <2>2. leaders = LeadersOf(Len(instructions))
    BY <1>1 DEF BlockInv, LeadersInv, LeadersFound
  <2> QED BY <1>3, <2>1, <2>2 DEF LeadersFound, OpenInv
<1> QED BY <1>4, <1>6, <1>7 DEF BlockInv, LeadersInv

\* The invariant of build: Init makes it true and every step keeps it.
THEOREM BlocksInductive == BlockInv /\ [Next]_vars => BlockInv'
<1> SUFFICES ASSUME BlockInv, [Next]_vars PROVE BlockInv'
  OBVIOUS
<1>1. CASE UNCHANGED vars
  BY <1>1 DEF BlockInv, PositionInv, PartsInv, LeadersInv, LeadersFound, NoneInside, StartsLead, OpenInv,
              Reached, IsPart, LeadersOf, TargetLeader, FollowingLeader, InstructionAddresses,
              Covers, vars
<1> QED BY <1>1, ScanStep, CutStep, FinishLastStep DEF Next

LEMMA PartitionHolds ==
  ASSUME BlockInv
  PROVE  BlocksPartitionPrefix
<1>1. \A i \in 1 .. Len(instructions) :
        (phase # "scan" /\ i < index /\ (from = 0 \/ i < from)) <=> i < Reached
  BY StreamType DEF BlockInv, PositionInv, Reached
<1> QED BY <1>1 DEF BlockInv, PartsInv, BlocksPartitionPrefix

\* What is a leader: the first instruction, a target, or what follows a terminator.
LEMMA LeaderReason ==
  ASSUME BlockInv, instructions # <<>>, NEW m \in 2 .. Len(instructions),
         instructions[m].address \in leaders
  PROVE  \/ TerminatesBasicBlock(instructions[m - 1].kind)
         \/ \E i \in 1 .. Len(instructions) :
              /\ IsDirectBranch(instructions[i].kind)
              /\ instructions[i].directTarget = instructions[m].address
<1>1. /\ instructions \in Streams /\ Len(instructions) \in Nat
      /\ index \in 1 .. Len(instructions) + 1
      /\ m \in 1 .. Len(instructions) /\ 1 \in 1 .. Len(instructions)
  BY StreamType DEF BlockInv, PositionInv
<1>2. PICK n \in 0 .. Len(instructions) : leaders = LeadersOf(n)
  BY <1>1 DEF BlockInv, LeadersInv, LeadersFound
<1>3. instructions[m].address # instructions[1].address
  BY <1>1, StreamType
<1>4. PICK i \in 1 .. n : instructions[m].address \in TargetLeader(i) \cup FollowingLeader(i)
  BY <1>2, <1>3 DEF LeadersOf
<1>5. i \in 1 .. Len(instructions)
  BY <1>1, <1>2
<1>6. CASE instructions[m].address \in TargetLeader(i)
  BY <1>5, <1>6 DEF TargetLeader
<1>7. CASE instructions[m].address \in FollowingLeader(i)
  <2>1. /\ TerminatesBasicBlock(instructions[i].kind) /\ i + 1 \in 1 .. Len(instructions)
        /\ instructions[m].address = instructions[i + 1].address
    BY <1>1, <1>5, <1>7 DEF FollowingLeader
  <2>2. ~ (m < i + 1) /\ ~ (i + 1 < m)
    BY <1>1, <2>1, StreamType
  <2>3. m - 1 = i
    BY <1>1, <1>5, <2>2
  <2> QED BY <2>1, <2>3
<1> QED BY <1>4, <1>6, <1>7

\* When there are blocks, all leaders have been found.
LEMMA LeadersComplete ==
  ASSUME BlockInv, blocks # <<>>
  PROVE  /\ \A i \in 1 .. Len(instructions) :
              TerminatesBasicBlock(instructions[i].kind) /\ i < Len(instructions)
                => instructions[i + 1].address \in leaders
         /\ \A i, j \in 1 .. Len(instructions) :
              /\ IsDirectBranch(instructions[i].kind)
              /\ instructions[i].directTarget = instructions[j].address
              => instructions[j].address \in leaders
<1>1. phase # "scan"
  BY DEF BlockInv, PositionInv
<1>2. instructions # <<>> => leaders = LeadersOf(Len(instructions))
  BY <1>1 DEF BlockInv, LeadersInv, LeadersFound
<1>3. ASSUME NEW i \in 1 .. Len(instructions)
      PROVE  TargetLeader(i) \cup FollowingLeader(i) \subseteq leaders
  <2>1. instructions # <<>>
    BY StreamType DEF BlockInv, PositionInv
  <2> QED BY <1>2, <2>1 DEF LeadersOf
<1> QED BY <1>3 DEF TargetLeader, FollowingLeader, InstructionAddresses

LEMMA BasicHolds ==
  ASSUME BlockInv
  PROVE  BlocksAreBasic
<1>1. instructions \in Streams /\ Len(instructions) \in Nat
      /\ blocks \in Seq(Block) /\ Len(blocks) \in Nat
  BY StreamType DEF BlockInv, PositionInv, PartsInv
<1>2. SingleEntrySingleExit
  <2> SUFFICES ASSUME NEW k \in 1 .. Len(blocks),
                      NEW i \in 1 .. Len(instructions), NEW j \in 1 .. Len(instructions),
                      Covers(blocks[k], j)
               PROVE  /\ TerminatesBasicBlock(instructions[j].kind) =>
                           instructions[j].address = blocks[k].last
                      /\ (/\ IsDirectBranch(instructions[i].kind)
                          /\ instructions[i].directTarget = instructions[j].address) =>
                           instructions[j].address = blocks[k].start
    BY DEF SingleEntrySingleExit
  <2>1. blocks # <<>>
    BY <1>1
  <2>2. PICK f, l \in 1 .. Len(instructions) :
          f <= l /\ blocks[k] = BlockOf(instructions, f, l)
    BY DEF BlockInv, PartsInv, IsPart
  <2>3. /\ f <= j /\ j <= l
        /\ \A m \in 1 .. Len(instructions) : Covers(blocks[k], m) <=> f <= m /\ m <= l
    BY <1>1, <2>2, CoversExactly
  <2>4. blocks[k].start = instructions[f].address /\ blocks[k].last = instructions[l].address
    BY <1>1, <2>2, BlockType
  <2>5. ASSUME TerminatesBasicBlock(instructions[j].kind)
        PROVE  instructions[j].address = blocks[k].last
    <3> SUFFICES ASSUME j < l PROVE FALSE
      BY <1>1, <2>3, <2>4
    <3>1. j + 1 \in 1 .. Len(instructions) /\ f < j + 1 /\ j + 1 <= l /\ j < Len(instructions)
      BY <1>1, <2>3
    <3>2. instructions[j + 1].address \in leaders
      BY <2>1, <2>5, <3>1, LeadersComplete
    <3>3. Covers(blocks[k], j + 1) /\ instructions[j + 1].address # blocks[k].start
      <4>1. instructions[f].address < instructions[j + 1].address
        BY <1>1, <3>1, StreamType
      <4>2. instructions[f].address \in Nat /\ instructions[j + 1].address \in Nat
        BY <1>1, <3>1, StreamType
      <4> QED BY <2>3, <2>4, <3>1, <4>1, <4>2
    <3> QED BY <3>1, <3>2, <3>3 DEF BlockInv, LeadersInv, NoneInside
  <2>6. ASSUME IsDirectBranch(instructions[i].kind),
               instructions[i].directTarget = instructions[j].address
        PROVE  instructions[j].address = blocks[k].start
    <3>1. instructions[j].address \in leaders
      BY <2>1, <2>6, LeadersComplete
    <3> QED BY <3>1 DEF BlockInv, LeadersInv, NoneInside
  <2> QED BY <2>5, <2>6
<1>3. MaximalBlocks
  <2> SUFFICES ASSUME phase = "done", NEW k \in 2 .. Len(blocks)
               PROVE  \/ TerminatesBasicBlock(blocks[k - 1].kind)
                      \/ \E i \in 1 .. Len(instructions) :
                           /\ IsDirectBranch(instructions[i].kind)
                           /\ instructions[i].directTarget = blocks[k].start
    BY DEF MaximalBlocks
  <2>1. PICK m \in 2 .. Len(instructions) :
          /\ instructions[m].address \in leaders
          /\ blocks[k].start = instructions[m].address
          /\ blocks[k - 1].kind = instructions[m - 1].kind
    BY DEF BlockInv, LeadersInv, StartsLead
  <2>2. instructions # <<>>
    BY <1>1, <2>1
  <2> QED BY <2>1, <2>2, LeaderReason
<1> QED BY <1>2, <1>3 DEF BlocksAreBasic

(***************************************************************************)
(* A listing does not interfere with the build of its blocks.              *)
(***************************************************************************)
LEMMA ListingBuilds == ListingSpec => Spec
<1>1. ListingInit => Init
  BY DEF ListingInit
<1>2. [ListingNext]_listingVars => [Next]_vars
  BY DEF ListingNext, PopulateListing, ClearListing, listingVars
<1> QED BY <1>1, <1>2, PTL DEF Spec, ListingSpec

\* BlockInv is an invariant of BasicBlockBuilder::build.
LEMMA BlocksInvariant == Spec => []BlockInv
<1>1. Init => BlockInv
  BY InitHolds
<1>2. BlockInv /\ [Next]_vars => BlockInv'
  BY BlocksInductive
<1> QED BY <1>1, <1>2, PTL DEF Spec

(***************************************************************************)
(* For streams of every length, the blocks that BasicBlockBuilder::build   *)
(* has finished hold exactly the instructions it has passed, each in one   *)
(* block, in address order.                                                *)
(***************************************************************************)
THEOREM BlocksPartition == ListingSpec => []BlocksPartitionPrefix
<1>1. BlockInv => BlocksPartitionPrefix
  BY PartitionHolds
<1> QED BY <1>1, ListingBuilds, BlocksInvariant, PTL

(***************************************************************************)
(* For streams of every length, no direct branch leads into the middle of  *)
(* a finished block, no terminator stands before its end, and the build    *)
(* cuts nowhere else: the second pass of build relies on the first having  *)
(* met all leaders, also those in front of the jump to them.               *)
(***************************************************************************)
THEOREM BlocksBasic == ListingSpec => []BlocksAreBasic
<1>1. BlockInv => BlocksAreBasic
  BY BasicHolds
<1> QED BY <1>1, ListingBuilds, BlocksInvariant, PTL

--------------------------------------------------------------------------------
(***************************************************************************)
(* The lanes of the arrows.                                                *)
(***************************************************************************)

TypeInv ==
  /\ flowEdges \in Seq(FlowEdge)
  /\ DOMAIN lane \subseteq DOMAIN flowEdges
  /\ lane \in [DOMAIN lane -> Lanes]
  /\ laneEndRows \in [Lanes -> Int]

\* The arrows are placed in the order of their first rows.
PlacedInOrder ==
  \A d \in DOMAIN lane, e \in Unplaced : IntervalStart(d) <= IntervalStart(e)

\* Unless two arrows already share a lane, the row recorded for a lane is the last of
\* all the arrows on it, and the last row of one of them.
EndsRecorded ==
  /\ \A d \in DOMAIN lane : IntervalEnd(d) <= laneEndRows[lane[d]]
  /\ \A l \in Lanes :
       \/ laneEndRows[l] = NoRow
       \/ \E d \in DOMAIN lane : lane[d] = l /\ IntervalEnd(d) = laneEndRows[l]

PlacedDisjoint ==
  \A d, e \in DOMAIN lane :
    d # e /\ lane[d] = lane[e] =>
      IntervalEnd(d) < IntervalStart(e) \/ IntervalEnd(e) < IntervalStart(d)

LaneInv ==
  /\ TypeInv
  /\ PlacedInOrder
  /\ EnoughLanes => EndsRecorded /\ PlacedDisjoint

\* The interval of an arrow consists of rows.
LEMMA IntervalType ==
  ASSUME TypeInv, NEW e \in DOMAIN flowEdges
  PROVE  IntervalStart(e) \in Nat /\ IntervalEnd(e) \in Nat /\ IntervalStart(e) <= IntervalEnd(e)
<1>1. flowEdges[e] \in FlowEdge
  BY DEF TypeInv
<1> QED
  BY <1>1 DEF FlowEdge, IntervalStart, IntervalEnd

\* A lane is free for the next arrow: were there none, as many arrows as there are
\* lanes would pass its first row beside the arrow itself.
LEMMA ALaneIsFree ==
  ASSUME LaneInv, EnoughLanes, NEW e \in Unplaced
  PROVE  FreeLanes(e) # {}
<1> DEFINE row == IntervalStart(e)
           P   == {d \in DOMAIN lane : Passes(d, row)}
           f   == [d \in P |-> lane[d]]
<1>1. e \in DOMAIN flowEdges /\ e \notin DOMAIN lane /\ DOMAIN lane \subseteq DOMAIN flowEdges
  BY DEF Unplaced, LaneInv, TypeInv
<1>2. row \in Nat /\ Passes(e, row)
  BY <1>1, IntervalType DEF LaneInv, Passes
<1>3. IsFiniteSet(Passing(row)) /\ Cardinality(Passing(row)) \in Nat
  <2>1. flowEdges \in Seq(FlowEdge)
    BY DEF LaneInv, TypeInv
  <2>2. DOMAIN flowEdges = 1 .. Len(flowEdges) /\ Len(flowEdges) \in Nat
    BY <2>1
  <2>3. IsFiniteSet(DOMAIN flowEdges)
    BY <2>2, FS_Interval
  <2>4. Passing(row) \subseteq DOMAIN flowEdges
    BY DEF Passing
  <2> QED
    BY <2>3, <2>4, FS_Subset, FS_CardinalityType
<1>4. Cardinality(Passing(row)) <= MaximumFlowLanes
  BY <1>1 DEF EnoughLanes
<1>5. P \subseteq Passing(row) \ {e}
  BY <1>1 DEF Passing
<1>6. e \in Passing(row)
  BY <1>1, <1>2 DEF Passing
<1>7. /\ IsFiniteSet(Passing(row) \ {e})
      /\ Cardinality(Passing(row) \ {e}) = Cardinality(Passing(row)) - 1
  BY <1>3, <1>6, FS_RemoveElement
<1>8. IsFiniteSet(P) /\ Cardinality(P) <= Cardinality(Passing(row)) - 1
  BY <1>5, <1>7, FS_Subset
<1>9. IsFiniteSet(Lanes) /\ Cardinality(Lanes) = MaximumFlowLanes
  BY FS_Interval, LanesAssumption DEF Lanes
<1>10. SUFFICES ASSUME FreeLanes(e) = {} PROVE FALSE
  OBVIOUS
<1>11. \A l \in Lanes : \E d \in P : f[d] = l
  <2> SUFFICES ASSUME NEW l \in Lanes PROVE \E d \in P : f[d] = l
    OBVIOUS
  <2>1. laneEndRows[l] \in Int /\ ~ (laneEndRows[l] < row)
    BY <1>10 DEF FreeLanes, LaneInv, TypeInv
  <2>2. laneEndRows[l] # NoRow
    BY <2>1, <1>2 DEF NoRow
  <2>3. PICK d \in DOMAIN lane : lane[d] = l /\ IntervalEnd(d) = laneEndRows[l]
    BY <2>2 DEF LaneInv, EndsRecorded
  <2>4. IntervalStart(d) <= row
    BY <2>3 DEF LaneInv, PlacedInOrder
  <2>5. d \in P
    BY <2>1, <2>3, <2>4, <1>2 DEF Passes
  <2> QED
    BY <2>3, <2>5
<1>12. f \in Surjection(P, Lanes)
  <2>1. f \in [P -> Lanes]
    BY DEF LaneInv, TypeInv
  <2> QED
    BY <2>1, <1>11 DEF Surjection
<1>13. Cardinality(Lanes) <= Cardinality(P)
  BY <1>8, <1>12, FS_Surjection
<1>14. Cardinality(P) \in Nat
  BY <1>8, FS_CardinalityType
<1> QED
  BY <1>3, <1>4, <1>8, <1>9, <1>13, <1>14, LanesAssumption

\* The lane of an arrow is one of the lanes, and the first free one if there is one.
LEMMA SelectedLaneFree ==
  ASSUME LaneInv, NEW e \in Unplaced
  PROVE  /\ SelectedLane(e) \in Lanes
         /\ FreeLanes(e) # {} => SelectedLane(e) \in FreeLanes(e)
<1>1. e \in DOMAIN flowEdges
  BY DEF Unplaced
<1>2. IntervalStart(e) \in Nat
  BY <1>1, IntervalType DEF LaneInv
<1>3. CASE FreeLanes(e) = {}
  BY <1>2, <1>3, LanesAssumption DEF SelectedLane, Lanes
<1>4. CASE FreeLanes(e) # {}
  <2>1. FreeLanes(e) \subseteq Nat /\ FreeLanes(e) \subseteq Lanes
    BY LanesAssumption DEF FreeLanes, Lanes
  <2>2. PICK m \in Lanes : m \in FreeLanes(e)
    BY <1>4, <2>1
  <2>3. \E l \in FreeLanes(e) : \A k \in FreeLanes(e) : l <= k
    BY <1>4, <2>1, LeastElement
  <2> QED
    BY <1>4, <2>1, <2>3 DEF SelectedLane
<1> QED
  BY <1>3, <1>4

\* Nothing but the placed arrows changes when one is placed.
LEMMA SameArrows ==
  ASSUME flowEdges' = flowEdges
  PROVE  /\ \A e : IntervalStart(e)' = IntervalStart(e) /\ IntervalEnd(e)' = IntervalEnd(e)
         /\ EnoughLanes' = EnoughLanes
BY DEF IntervalStart, IntervalEnd, EnoughLanes, Passing, Passes

\* LaneInv holds before the first arrow is placed, whatever the arrows are.
LEMMA Unassigned ==
  ASSUME flowEdges' \in Seq(FlowEdge), lane' = <<>>, laneEndRows' = Unused
  PROVE  LaneInv'
<1>1. DOMAIN lane' = {}
  OBVIOUS
<1>2. TypeInv'
  BY <1>1 DEF TypeInv, Unused, NoRow
<1>3. PlacedInOrder' /\ PlacedDisjoint'
  BY <1>1 DEF PlacedInOrder, PlacedDisjoint
<1>4. EndsRecorded'
  BY <1>1 DEF EndsRecorded, Unused
<1> QED
  BY <1>2, <1>3, <1>4 DEF LaneInv

LEMMA PlaceEdgeKeeps ==
  ASSUME LaneInv, NEW e \in Unplaced, PlaceEdge(e)
  PROVE  LaneInv'
<1> DEFINE m == SelectedLane(e)
<1>0. /\ \A d : IntervalStart(d)' = IntervalStart(d) /\ IntervalEnd(d)' = IntervalEnd(d)
      /\ EnoughLanes' = EnoughLanes
      /\ flowEdges' = flowEdges
  BY SameArrows DEF PlaceEdge
<1>1. e \in DOMAIN flowEdges /\ e \notin DOMAIN lane /\ TypeInv
  BY DEF Unplaced, LaneInv
<1>2. m \in Lanes /\ (FreeLanes(e) # {} => m \in FreeLanes(e))
  BY SelectedLaneFree
<1>3. /\ DOMAIN lane' = DOMAIN lane \cup {e}
      /\ lane'[e] = m
      /\ \A d \in DOMAIN lane : lane'[d] = lane[d]
      /\ lane' \in [DOMAIN lane' -> Lanes]
  BY <1>1, <1>2 DEF PlaceEdge, TypeInv
<1>4. /\ laneEndRows' \in [Lanes -> Int]
      /\ laneEndRows'[m] = IntervalEnd(e)
      /\ \A l \in Lanes : l # m => laneEndRows'[l] = laneEndRows[l]
  BY <1>1, <1>2, IntervalType DEF PlaceEdge, TypeInv
<1>5. TypeInv'
  BY <1>0, <1>1, <1>3, <1>4 DEF TypeInv
<1>6. \A d \in Unplaced : IntervalStart(e) <= IntervalStart(d)
  <2> SUFFICES ASSUME NEW d \in Unplaced PROVE IntervalStart(e) <= IntervalStart(d)
    OBVIOUS
  <2>1. IntervalStart(d) \in Nat /\ IntervalStart(e) \in Nat
    BY <1>1, IntervalType DEF Unplaced
  <2> QED
    BY <2>1 DEF PlaceEdge, ComesFirst
<1>7. PlacedInOrder'
  <2> SUFFICES ASSUME NEW c \in DOMAIN lane', NEW d \in Unplaced'
               PROVE  IntervalStart(c) <= IntervalStart(d)
    BY <1>0 DEF PlacedInOrder
  <2>1. d \in Unplaced
    BY <1>0, <1>3 DEF Unplaced
  <2> QED
    BY <2>1, <1>3, <1>6 DEF LaneInv, PlacedInOrder
<1>8. ASSUME EnoughLanes PROVE EndsRecorded' /\ PlacedDisjoint'
  <2>1. EndsRecorded /\ PlacedDisjoint
    BY <1>8 DEF LaneInv
  <2>2. m \in FreeLanes(e)
    BY <1>2, <1>8, ALaneIsFree
  <2>3. laneEndRows[m] < IntervalStart(e)
    BY <2>2 DEF FreeLanes
  <2>4. \A d \in DOMAIN lane :
          /\ d \in DOMAIN flowEdges /\ lane[d] \in Lanes
          /\ IntervalStart(d) \in Nat /\ IntervalEnd(d) \in Nat
    BY <1>1, IntervalType DEF TypeInv
  <2>5. /\ IntervalStart(e) \in Nat /\ IntervalEnd(e) \in Nat
        /\ IntervalStart(e) <= IntervalEnd(e)
        /\ laneEndRows[m] \in Int
    BY <1>1, <1>2, IntervalType DEF TypeInv
  <2>6. \A d \in DOMAIN lane : lane[d] = m => IntervalEnd(d) < IntervalStart(e)
    BY <2>1, <2>3, <2>4, <2>5 DEF EndsRecorded
  <2>7. \A d \in DOMAIN lane' : IntervalEnd(d) <= laneEndRows'[lane'[d]]
    <3> SUFFICES ASSUME NEW d \in DOMAIN lane'
                 PROVE  IntervalEnd(d) <= laneEndRows'[lane'[d]]
      OBVIOUS
    <3>1. CASE d = e
      BY <3>1, <1>3, <1>4, <2>5
    <3>2. CASE d \in DOMAIN lane /\ lane[d] = m
      BY <3>2, <1>3, <1>4, <2>4, <2>5, <2>6
    <3>3. CASE d \in DOMAIN lane /\ lane[d] # m
      BY <3>3, <1>3, <1>4, <2>1, <2>4 DEF EndsRecorded
    <3> QED
      BY <3>1, <3>2, <3>3, <1>3
  <2>8. ASSUME NEW l \in Lanes
        PROVE  \/ laneEndRows'[l] = NoRow
               \/ \E d \in DOMAIN lane' : lane'[d] = l /\ IntervalEnd(d) = laneEndRows'[l]
    <3>1. CASE l = m
      BY <3>1, <1>3, <1>4
    <3>2. CASE l # m
      BY <3>2, <2>1, <1>3, <1>4 DEF EndsRecorded
    <3> QED
      BY <3>1, <3>2
  <2>9. EndsRecorded'
    BY <1>0, <2>7, <2>8 DEF EndsRecorded
  <2>10. ASSUME NEW c \in DOMAIN lane', NEW d \in DOMAIN lane', c # d, lane'[c] = lane'[d]
         PROVE  IntervalEnd(c) < IntervalStart(d) \/ IntervalEnd(d) < IntervalStart(c)
    <3>1. CASE c = e \/ d = e
      BY <3>1, <2>10, <1>3, <2>6
    <3>2. CASE c # e /\ d # e
      BY <3>2, <2>10, <1>3, <2>1 DEF PlacedDisjoint
    <3> QED
      BY <3>1, <3>2
  <2>11. PlacedDisjoint'
    BY <1>0, <2>10 DEF PlacedDisjoint
  <2> QED
    BY <2>9, <2>11
<1> QED
  BY <1>0, <1>5, <1>7, <1>8 DEF LaneInv

\* The strengthened invariant is inductive.
THEOREM LanesInductive == LaneInv /\ [TableNext]_tableVars => LaneInv'
<1> SUFFICES ASSUME LaneInv, [TableNext]_tableVars PROVE LaneInv'
  OBVIOUS
<1>1. ASSUME NEW edges \in Seq(FlowEdge), SetFlowEdges(edges) PROVE LaneInv'
  BY <1>1, Unassigned DEF SetFlowEdges
<1>2. ASSUME NEW e \in Unplaced, PlaceEdge(e) PROVE LaneInv'
  BY <1>2, PlaceEdgeKeeps
<1>3. CASE ClearFlowEdges
  <2>1. flowEdges' \in Seq(FlowEdge)
    BY <1>3 DEF ClearFlowEdges
  <2> QED
    BY <2>1, <1>3, Unassigned DEF ClearFlowEdges
<1>4. CASE UNCHANGED tableVars
  BY <1>4 DEF tableVars, LaneInv, TypeInv, PlacedInOrder, Unplaced, EnoughLanes, Passing, Passes,
              EndsRecorded, PlacedDisjoint, IntervalStart, IntervalEnd
<1> QED
  BY <1>1, <1>2, <1>3, <1>4 DEF TableNext, AssignFlowLane

(***************************************************************************)
(* The arrows of AssemblyGraphTable keep apart wherever there are as many  *)
(* lanes as arrows that pass a row, for every number of lanes and every    *)
(* list of arrows.  (The longer of two arrows that start in one row need   *)
(* not come first for this; the order of the first rows is what counts.)   *)
(***************************************************************************)
THEOREM LanesKeptApart == TableSpec => []LanesDisjoint
<1>1. TableInit => LaneInv
  <2> SUFFICES ASSUME TableInit PROVE LaneInv
    OBVIOUS
  <2>1. DOMAIN lane = {} /\ flowEdges = <<>> /\ laneEndRows = Unused /\ lane = <<>>
    BY DEF TableInit
  <2>2. TypeInv
    BY <2>1 DEF TypeInv, Unused, NoRow
  <2> QED
    BY <2>1, <2>2 DEF LaneInv, PlacedInOrder, EndsRecorded, PlacedDisjoint, Unused
<1>2. LaneInv => LanesDisjoint
  BY DEF LaneInv, PlacedDisjoint, LanesDisjoint
<1> QED
  BY <1>1, <1>2, LanesInductive, PTL DEF TableSpec

--------------------------------------------------------------------------------
(***************************************************************************)
(* The graph.                                                              *)
(***************************************************************************)

\* The graph that was picked at first: generate is called with a block at least.
GraphInv ==
  /\ graph \in Seq([kind : Kinds, target : Nat \cup {NoTarget}])
  /\ graph # <<>>

LEMMA BlocksFacts ==
  ASSUME GraphInv
  PROVE  /\ Len(graph) \in Nat \ {0} /\ Blocks = 1 .. Len(graph) /\ 1 \in Blocks
         /\ \A b \in Blocks : graph[b].kind \in Kinds
         /\ Blocks \in SUBSET Nat /\ NoBlock \notin Blocks
<1>1. Len(graph) \in Nat /\ Blocks = 1 .. Len(graph)
  BY DEF GraphInv, Blocks
<1>2. Len(graph) # 0
  BY EmptySeq DEF GraphInv
<1>3. \A b \in Blocks : graph[b].kind \in Kinds
  <2> TAKE b \in Blocks
  <2>1. graph[b] \in [kind : Kinds, target : Nat \cup {NoTarget}]
    BY <1>1, ElementOfSeq DEF GraphInv
  <2> QED BY <2>1
<1> QED BY <1>1, <1>2, <1>3, NoBlockAssumption

\* Sequences put together, element by element.
LEMMA Pair ==
  ASSUME NEW x, NEW y
  PROVE  <<x>> \o <<y>> = <<x, y>>
<1> DEFINE S == {x, y}
           s == <<x>>
           t == <<y>>
           u == <<x, y>>
<1>1. s \in Seq(S) /\ t \in Seq(S) /\ u \in Seq(S) /\ Len(s) = 1 /\ Len(t) = 1 /\ Len(u) = 2
      /\ s[1] = x /\ t[1] = y /\ u[1] = x /\ u[2] = y
  OBVIOUS
<1> HIDE DEF S, s, t, u
<1>2. /\ s \o t \in Seq(S) /\ Len(s \o t) = 2
      /\ \A i \in 1 .. 2 : (s \o t)[i] = IF i <= 1 THEN s[i] ELSE t[i - 1]
  BY <1>1, ConcatProperties
<1>3. s \o t = u
  BY <1>1, <1>2, SeqEqual
<1> QED BY <1>3 DEF s, t, u

\* Where a block leads.
LEMMA SuccessorFacts ==
  ASSUME GraphInv, NEW b \in Blocks
  PROVE  /\ Successors(b) \in Seq(Blocks)
         /\ \/ Successors(b) = <<>> /\ \A branch \in BOOLEAN : Goes(b, branch) = NoBlock
            \/ \E c \in Blocks :
                 /\ Successors(b) = <<c>> /\ ~ Ends(b)
                 /\ \A branch \in BOOLEAN :
                      \/ Goes(b, branch) = c
                      \/ Goes(b, branch) = NoBlock /\ graph[b].kind = "ConditionalJump"
            \/ /\ Successors(b) = <<graph[b].target, b + 1>>
               /\ graph[b].target \in Blocks /\ b + 1 \in Blocks /\ graph[b].target # b + 1
               /\ graph[b].kind = "ConditionalJump" /\ ~ Ends(b)
               /\ Goes(b, TRUE) = graph[b].target /\ Goes(b, FALSE) = b + 1
         /\ Successors(b) = <<>> => HasUnresolvedSuccessor(b) \/ Ends(b)
<1>1. /\ Len(graph) \in Nat \ {0} /\ Blocks = 1 .. Len(graph) /\ b \in Nat
      /\ graph[b].kind \in Kinds
  BY BlocksFacts
<1>2. CASE graph[b].kind = "ConditionalJump"
  <2>1. CASE graph[b].target \in Blocks /\ b + 1 \in Blocks /\ graph[b].target # b + 1
    <3>1. TargetOf(b) = <<graph[b].target>> /\ FallthroughOf(b) = <<b + 1>>
      BY <2>1 DEF TargetOf, FallthroughOf
    <3>2. TargetOf(b) # FallthroughOf(b)
      <4>1. <<graph[b].target>>[1] # <<b + 1>>[1]
        BY <2>1
      <4> QED BY <3>1, <4>1
    <3>3. Successors(b) = <<graph[b].target>> \o <<b + 1>>
      BY <1>2, <3>1, <3>2 DEF Successors
    <3>4. Successors(b) = <<graph[b].target, b + 1>>
      BY <3>3, Pair
    <3>5. Successors(b) \in Seq(Blocks) /\ Successors(b) # <<>>
      BY <2>1, <3>4
    <3> QED BY <1>1, <1>2, <2>1, <3>4, <3>5 DEF Goes, BlockOrOutside, Ends
  <2>2. CASE graph[b].target \in Blocks /\ graph[b].target = b + 1
    <3>1. Successors(b) = <<b + 1>> /\ b + 1 \in Blocks
      BY <1>1, <1>2, <2>2 DEF Successors, TargetOf, FallthroughOf
    <3> QED BY <1>1, <1>2, <2>2, <3>1 DEF Goes, BlockOrOutside, Ends
  <2>3. CASE graph[b].target \in Blocks /\ b + 1 \notin Blocks
    <3>1. Successors(b) = <<graph[b].target>>
      <4>1. TargetOf(b) = <<graph[b].target>> /\ FallthroughOf(b) = <<>>
        BY <2>3 DEF TargetOf, FallthroughOf
      <4>2. TargetOf(b) # FallthroughOf(b) /\ TargetOf(b) \o FallthroughOf(b) = TargetOf(b)
        BY <4>1
      <4> QED BY <1>2, <4>1, <4>2 DEF Successors
    <3> QED BY <1>1, <1>2, <2>3, <3>1 DEF Goes, BlockOrOutside, Ends
  <2>4. CASE graph[b].target \notin Blocks /\ b + 1 \in Blocks
    <3>1. Successors(b) = <<b + 1>>
      <4>1. TargetOf(b) = <<>> /\ FallthroughOf(b) = <<b + 1>>
        BY <2>4 DEF TargetOf, FallthroughOf
      <4>2. TargetOf(b) # FallthroughOf(b) /\ TargetOf(b) \o FallthroughOf(b) = FallthroughOf(b)
        BY <4>1
      <4> QED BY <1>2, <4>1, <4>2 DEF Successors
    <3> QED BY <1>1, <1>2, <2>4, <3>1 DEF Goes, BlockOrOutside, Ends
  <2>5. CASE graph[b].target \notin Blocks /\ b + 1 \notin Blocks
    <3>1. Successors(b) = <<>>
      BY <1>1, <1>2, <2>5 DEF Successors, TargetOf, FallthroughOf
    <3> QED BY <1>1, <1>2, <2>5, <3>1 DEF Goes, BlockOrOutside, HasUnresolvedSuccessor
  <2> QED BY <2>1, <2>2, <2>3, <2>4, <2>5
<1>3. CASE graph[b].kind = "UnconditionalJump"
  <2>1. CASE graph[b].target \in Blocks
    <3>1. Successors(b) = <<graph[b].target>> /\ Successors(b) # <<>>
      BY <1>3, <2>1 DEF Successors, TargetOf
    <3> QED BY <1>1, <1>3, <2>1, <3>1 DEF Goes, BlockOrOutside, Ends
  <2>2. CASE graph[b].target \notin Blocks
    <3>1. Successors(b) = <<>>
      BY <1>3, <2>2 DEF Successors, TargetOf
    <3> QED BY <1>1, <1>3, <2>2, <3>1 DEF Goes, BlockOrOutside, HasUnresolvedSuccessor
  <2> QED BY <2>1, <2>2
<1>4. CASE graph[b].kind \in {"Return", "IndirectJump"}
  BY <1>1, <1>4 DEF Successors, Goes, Ends, HasUnresolvedSuccessor
<1>5. CASE graph[b].kind = "Normal"
  <2>1. CASE b + 1 \in Blocks
    <3>1. Successors(b) = <<b + 1>> /\ Successors(b) # <<>>
      BY <1>5, <2>1 DEF Successors, FallthroughOf
    <3>2. b # Len(graph)
      BY <1>1, <2>1
    <3> QED BY <1>1, <1>5, <2>1, <3>1, <3>2 DEF Goes, BlockOrOutside, Ends
  <2>2. CASE b + 1 \notin Blocks
    <3>1. Successors(b) = <<>>
      BY <1>5, <2>2 DEF Successors, FallthroughOf
    <3>2. b = Len(graph)
      BY <1>1, <2>2
    <3> QED BY <1>1, <1>5, <2>2, <3>1, <3>2 DEF Goes, BlockOrOutside, Ends
  <2> QED BY <2>1, <2>2
<1> QED BY <1>1, <1>2, <1>3, <1>4, <1>5 DEF Kinds

--------------------------------------------------------------------------------
(***************************************************************************)
(* What can be reached.                                                    *)
(***************************************************************************)

\* The blocks that follow one of W, and W.
Onward(W, without) == W \cup (UNION {ToSet(Successors(b)) : b \in W} \ without)

\* One unfolding of Within, for n edges at most and any function w in its place.
Walked(w, start, without, n) ==
  [k \in 0 .. n |-> IF k = 0 THEN {start} ELSE Onward(w[k - 1], without)]

\* reachableDistances, one level of the search after the other: the blocks within n
\* edges are well defined for every n.
LEMMA WalkedExists ==
  ASSUME NEW start, NEW without, NEW N \in Nat
  PROVE  \E w : w = Walked(w, start, without, N)
<1> DEFINE Good(n) == \E w : w = Walked(w, start, without, n)
           Bad == {n \in Nat : ~ Good(n)}
<1>1. SUFFICES ASSUME Bad # {} PROVE FALSE
  OBVIOUS
<1>2. PICK m \in Bad : \A n \in Bad : m <= n
  BY <1>1, LeastElement
<1>3. CASE m = 0
  <2> DEFINE w == [k \in 0 .. 0 |-> {start}]
  <2>1. w = Walked(w, start, without, 0)
    BY DEF Walked
  <2>2. Good(0)
    BY <2>1
  <2> QED BY <2>2, <1>2, <1>3
<1>4. CASE m # 0
  <2>1. m - 1 \in Nat /\ ~ (m <= m - 1)
    BY <1>2, <1>4
  <2>2. Good(m - 1)
    BY <2>1, <1>2
  <2>3. PICK u : u = Walked(u, start, without, m - 1)
    BY <2>2
  <2> DEFINE w == [k \in 0 .. m |-> IF k = m THEN Onward(u[m - 1], without) ELSE u[k]]
  <2>4. \A k \in 0 .. m - 1 : u[k] = IF k = 0 THEN {start} ELSE Onward(u[k - 1], without)
    BY <2>3 DEF Walked
  <2>5. \A k \in 0 .. m : w[k] = IF k = 0 THEN {start} ELSE Onward(w[k - 1], without)
    <3> TAKE k \in 0 .. m
    <3>1. CASE k = m
      BY <3>1, <2>1, <1>4
    <3>2. CASE k # m
      <4>1. k \in 0 .. m - 1 /\ w[k] = u[k] /\ (k # 0 => w[k - 1] = u[k - 1])
        BY <3>2, <2>1
      <4> HIDE DEF w
      <4> QED BY <4>1, <2>4
    <3> QED BY <3>1, <3>2
  <2>6. w = [k \in 0 .. m |-> w[k]]
    OBVIOUS
  <2> HIDE DEF w
  <2>7. w = Walked(w, start, without, m)
    BY <2>5, <2>6 DEF Walked
  <2>8. Good(m)
    BY <2>7
  <2> QED BY <2>8, <1>2
<1> QED BY <1>3, <1>4

\* The blocks within n edges are those within n - 1 edges and one edge on.
LEMMA WithinWalks ==
  ASSUME Len(graph) \in Nat, NEW start, NEW without
  PROVE  /\ Within(start, without)[0] = {start}
         /\ \A n \in 1 .. Len(graph) :
              Within(start, without)[n] = Onward(Within(start, without)[n - 1], without)
<1> DEFINE w == CHOOSE f : f = Walked(f, start, without, Len(graph))
<1>1. w = Walked(w, start, without, Len(graph))
  BY WalkedExists, Zenon
<1>2. Within(start, without) = w
  BY Zenon DEF Within, Walked, Onward
<1> HIDE DEF w
<1>3. \A n \in 0 .. Len(graph) :
        w[n] = IF n = 0 THEN {start} ELSE Onward(w[n - 1], without)
  BY <1>1 DEF Walked
<1> QED BY <1>2, <1>3

\* A set of blocks that no edge leaves.
ClosedBlocks(W) == \A b \in W : \A c \in Blocks : c \in ToSet(Successors(b)) => c \in W

LEMMA ToSetOfBlocks ==
  ASSUME GraphInv, NEW b \in Blocks
  PROVE  ToSet(Successors(b)) \in SUBSET Blocks
<1>1. Successors(b) \in Seq(Blocks)
  BY SuccessorFacts
<1>2. \A i \in 1 .. Len(Successors(b)) : Successors(b)[i] \in Blocks
  BY <1>1, ElementOfSeq
<1>3. ToSet(Successors(b)) = {Successors(b)[i] : i \in 1 .. Len(Successors(b))}
  BY <1>1 DEF ToSet
<1> QED BY <1>2, <1>3

\* The search stays in every set of blocks that holds its start and that no edge leaves.
LEMMA WithinBounded ==
  ASSUME GraphInv, NEW start \in Blocks
  PROVE  /\ \A n \in 0 .. Len(graph) :
              Within(start, {})[n] \in SUBSET Blocks /\ start \in Within(start, {})[n]
         /\ \A T : start \in T /\ T \subseteq Blocks /\ ClosedBlocks(T) =>
              \A n \in 0 .. Len(graph) : Within(start, {})[n] \subseteq T
<1>1. PICK w : w = Within(start, {})
  OBVIOUS
<1>2. Len(graph) \in Nat /\ w[0] = {start}
      /\ \A n \in 1 .. Len(graph) : w[n] = Onward(w[n - 1], {})
  BY <1>1, WithinWalks, BlocksFacts
<1>3. ASSUME NEW T, start \in T, T \subseteq Blocks, ClosedBlocks(T)
      PROVE  \A n \in 0 .. Len(graph) : w[n] \subseteq T
  <2> DEFINE Bad == {n \in 0 .. Len(graph) : ~ (w[n] \subseteq T)}
  <2>1. SUFFICES ASSUME Bad # {} PROVE FALSE
    OBVIOUS
  <2>2. PICK m \in Bad : \A n \in Bad : m <= n
    <3>1. Bad \in SUBSET Nat
      OBVIOUS
    <3> QED BY <2>1, <3>1, LeastElement
  <2>3. m # 0
    BY <2>2, <1>2, <1>3
  <2>4. m \in 1 .. Len(graph) /\ m - 1 \in 0 .. Len(graph) /\ ~ (m <= m - 1)
    BY <2>2, <2>3, <1>2
  <2>5. w[m - 1] \subseteq T
    BY <2>2, <2>4
  <2>6. w[m] = Onward(w[m - 1], {})
    BY <1>2, <2>4
  <2>7. \A b \in w[m - 1] : ToSet(Successors(b)) \in SUBSET T
    BY <2>5, <1>3, ToSetOfBlocks DEF ClosedBlocks
  <2>8. w[m] \subseteq T
    BY <2>5, <2>6, <2>7 DEF Onward
  <2> QED BY <2>2, <2>8
<1>4. ClosedBlocks(Blocks)
  BY DEF ClosedBlocks
<1>5. \A n \in 0 .. Len(graph) : w[n] \in SUBSET Blocks
  BY <1>3, <1>4
<1>6. \A n \in 0 .. Len(graph) : start \in w[n]
  <2> DEFINE Bad == {n \in 0 .. Len(graph) : start \notin w[n]}
  <2>1. SUFFICES ASSUME Bad # {} PROVE FALSE
    OBVIOUS
  <2>2. PICK m \in Bad : \A n \in Bad : m <= n
    <3>1. Bad \in SUBSET Nat
      OBVIOUS
    <3> QED BY <2>1, <3>1, LeastElement
  <2>3. m # 0
    BY <2>2, <1>2
  <2>4. m \in 1 .. Len(graph) /\ m - 1 \in 0 .. Len(graph) /\ ~ (m <= m - 1)
    BY <2>2, <2>3, <1>2
  <2>5. start \in w[m - 1] /\ w[m] = Onward(w[m - 1], {})
    BY <2>2, <2>4, <1>2
  <2>6. start \in w[m]
    BY <2>5 DEF Onward
  <2> QED BY <2>2, <2>6
<1> QED BY <1>1, <1>3, <1>5, <1>6

\* Over as many edges as there are blocks everything is reached.
LEMMA WithinClosed ==
  ASSUME GraphInv, NEW start \in Blocks
  PROVE  ClosedBlocks(Within(start, {})[Len(graph)])
<1>1. PICK w : w = Within(start, {})
  OBVIOUS
<1>2. Len(graph) \in Nat /\ w[0] = {start} /\ Blocks = 1 .. Len(graph)
      /\ \A n \in 1 .. Len(graph) : w[n] = Onward(w[n - 1], {})
  BY <1>1, WithinWalks, BlocksFacts
<1>3. \A n \in 0 .. Len(graph) : w[n] \in SUBSET Blocks
  BY <1>1, WithinBounded
<1>4. IsFiniteSet(Blocks) /\ Cardinality(Blocks) = Len(graph)
  <2>1. 1 \in Int /\ Len(graph) \in Int
    BY <1>2
  <2>2. IsFiniteSet(1 .. Len(graph))
        /\ Cardinality(1 .. Len(graph)) = IF 1 > Len(graph) THEN 0 ELSE Len(graph) - 1 + 1
    BY <2>1, FS_Interval
  <2> QED BY <2>2, <1>2, BlocksFacts
<1>5. \A n \in 0 .. Len(graph) : /\ IsFiniteSet(w[n]) /\ Cardinality(w[n]) \in Nat
                                 /\ Cardinality(w[n]) <= Len(graph)
  <2> TAKE n \in 0 .. Len(graph)
  <2>1. IsFiniteSet(w[n]) /\ Cardinality(w[n]) <= Cardinality(Blocks)
    BY <1>3, <1>4, FS_Subset
  <2>2. Cardinality(w[n]) \in Nat
    BY <2>1, FS_CardinalityType
  <2> QED BY <2>1, <2>2, <1>4
<1>6. \A n \in 0 .. Len(graph) : ClosedBlocks(w[n]) <=> Onward(w[n], {}) = w[n]
  <2> TAKE n \in 0 .. Len(graph)
  <2>1. \A b \in w[n] : ToSet(Successors(b)) \in SUBSET Blocks
    BY <1>3, ToSetOfBlocks
  <2> QED BY <2>1, <1>3 DEF ClosedBlocks, Onward
<1> DEFINE Done(n) == Onward(w[n], {}) = w[n]
           Bad == {n \in 0 .. Len(graph) : ~ (Done(n) \/ Cardinality(w[n]) > n)}
<1>7. Bad = {}
  <2>1. SUFFICES ASSUME Bad # {} PROVE FALSE
    OBVIOUS
  <2>2. PICK m \in Bad : \A n \in Bad : m <= n
    <3>1. Bad \in SUBSET Nat
      OBVIOUS
    <3> QED BY <2>1, <3>1, LeastElement
  <2>3. m # 0
    <3>1. ASSUME m = 0 PROVE FALSE
      <4>1. ~ (Cardinality(w[0]) > 0) /\ 0 \in 0 .. Len(graph)
        BY <2>2, <3>1, <1>2
      <4>2. Cardinality(w[0]) = 0 /\ IsFiniteSet(w[0])
        BY <4>1, <1>5
      <4>3. w[0] = {}
        BY <4>2, FS_EmptySet
      <4> QED BY <4>3, <1>2
    <3> QED BY <3>1
  <2>4. m \in 1 .. Len(graph) /\ m - 1 \in 0 .. Len(graph) /\ m \in 0 .. Len(graph)
        /\ ~ (m <= m - 1)
    BY <2>2, <2>3, <1>2
  <2>5. (Done(m - 1) \/ Cardinality(w[m - 1]) > m - 1)
        /\ ~ Done(m) /\ ~ (Cardinality(w[m]) > m)
    BY <2>2, <2>4
  <2>6. w[m] = Onward(w[m - 1], {})
    BY <1>2, <2>4
  <2>7. ~ Done(m - 1) /\ w[m] # w[m - 1]
    BY <2>5, <2>6
  <2>8. w[m - 1] \in SUBSET w[m]
    BY <2>6 DEF Onward
  <2>9. /\ IsFiniteSet(w[m]) /\ Cardinality(w[m]) \in Nat /\ Cardinality(w[m - 1]) \in Nat
    BY <1>5, <2>4
  <2>10. Cardinality(w[m - 1]) <= Cardinality(w[m]) /\ Cardinality(w[m - 1]) # Cardinality(w[m])
    BY <2>7, <2>8, <2>9, FS_Subset
  <2> QED BY <2>5, <2>7, <2>9, <2>10, <2>4, <1>2
<1>8. Len(graph) \in 0 .. Len(graph)
  BY <1>2
<1>9. Done(Len(graph)) \/ Cardinality(w[Len(graph)]) > Len(graph)
  BY <1>7, <1>8
<1>10. Done(Len(graph))
  <2>1. Cardinality(w[Len(graph)]) \in Nat /\ Cardinality(w[Len(graph)]) <= Len(graph)
    BY <1>5, <1>8
  <2>2. ~ (Cardinality(w[Len(graph)]) > Len(graph))
    BY <2>1, <1>2
  <2> QED BY <1>9, <2>2
<1> QED BY <1>1, <1>6, <1>8, <1>10

\* What can be reached from a block is the least closed set that holds it.
LEMMA ReachableFacts ==
  ASSUME GraphInv, NEW a \in Blocks
  PROVE  /\ a \in Reachable(a, {}) /\ Reachable(a, {}) \in SUBSET Blocks
         /\ ClosedBlocks(Reachable(a, {}))
         /\ \A T \in SUBSET Blocks : a \in T /\ ClosedBlocks(T) => Reachable(a, {}) \subseteq T
<1>1. Len(graph) \in 0 .. Len(graph)
  BY BlocksFacts
<1>2. /\ \A n \in 0 .. Len(graph) :
              Within(a, {})[n] \in SUBSET Blocks /\ a \in Within(a, {})[n]
      /\ \A T : a \in T /\ T \subseteq Blocks /\ ClosedBlocks(T) =>
           \A n \in 0 .. Len(graph) : Within(a, {})[n] \subseteq T
  BY ONLY GraphInv, a \in Blocks, WithinBounded
<1> QED BY <1>1, <1>2, WithinClosed DEF Reachable

\* A join can be reached from the first successor.
LEMMA JoinFacts ==
  ASSUME GraphInv, NEW b \in Blocks, NEW join \in Joins(b)
  PROVE  \/ join = NoBlock
         \/ /\ Len(Successors(b)) = 2 /\ join \in Blocks
            /\ join \in Reachable(Successors(b)[1], {})
<1>1. CASE Len(Successors(b)) = 2
  <2>1. Successors(b)[1] \in Blocks
    <3>1. Successors(b) \in Seq(Blocks)
      BY SuccessorFacts
    <3> QED BY <1>1, <3>1, ElementOfSeq
  <2>2. Joins(b) = NearestJoin(Successors(b)[1], Successors(b)[2])
    BY <1>1 DEF Joins
  <2>3. join = NoBlock \/ join \in Reachable(Successors(b)[1], {})
    BY <2>2 DEF NearestJoin
  <2> QED BY <1>1, <2>1, <2>3, ReachableFacts
<1>2. CASE Len(Successors(b)) # 2
  BY <1>2 DEF Joins
<1> QED BY <1>1, <1>2

--------------------------------------------------------------------------------
(***************************************************************************)
(* Lines and paths, and what replaces a path.                              *)
(***************************************************************************)

\* The kinds of lines that generate prints.
LineKinds ==
  {"block", "rejoin", "unresolved", "if", "if not", "else", "end", "label", "do", "while",
   "while not", "goto"}

Lines == [kind : LineKinds, block : Blocks, depth : Nat]

\* A path that emitStructuredPath still has to follow.
Paths == [kind : {"path"}, block : Blocks, stop : Blocks \cup {NoBlock}, depth : Nat]

Items == Lines \cup Paths

LEMMA ItemFacts ==
  ASSUME NEW i \in Items
  PROVE  /\ i.kind \in LineKinds \cup {"path"} /\ i.block \in Blocks /\ i.depth \in Nat
         /\ i.kind = "path" <=> i \in Paths
         /\ i.kind = "path" => i.stop \in Blocks \cup {NoBlock}
         /\ i.kind # "path" => i \in Lines
BY DEF Items, Lines, Paths, LineKinds

\* V is W with s in place of the path at p.
Replaces(W, V, p, s) ==
  /\ W \in Seq(Items) /\ V \in Seq(Items) /\ s \in Seq(Items)
  /\ p \in 1 .. Len(W) /\ W[p].kind = "path"
  /\ Len(V) = Len(W) + Len(s) - 1
  /\ \A i \in 1 .. Len(V) :
       V[i] = IF i < p THEN W[i] ELSE IF i < p + Len(s) THEN s[i - p + 1] ELSE W[i - Len(s) + 1]

--------------------------------------------------------------------------------
(***************************************************************************)
(* Line m is the one that ends the arm that starts at line k.              *)
(***************************************************************************)
Closes(W, k, m, kinds) ==
  /\ m \in k + 1 .. Len(W)
  /\ W[m].depth = W[k].depth /\ W[m].kind \in kinds
  /\ \A n \in k + 1 .. m - 1 : W[n].depth > W[k].depth

\* The lines behind which the other arm of an if may begin.
ElseEnd == {"else", "end"}

\* The lines whose condition decides where the text goes on.
Turning == {"if", "if not", "while", "while not"}

\* The line before line k holds the statements of the same block.
BehindBlock(W, k) == k > 1 /\ W[k - 1].kind = "block" /\ W[k - 1].block = W[k].block

--------------------------------------------------------------------------------
(***************************************************************************)
(* T[k] is the block the machine is about to execute whenever line k is    *)
(* reached, and NoBlock if the line is never reached; at the lines that    *)
(* turn, it is the block before them that decides.                         *)
(***************************************************************************)
FitsStraight(W, T, k) ==
  LET b == W[k].block IN
  /\ W[k].kind \in {"block", "rejoin", "path", "label", "do", "goto"} => T[k] = b
  /\ W[k].kind \in {"label", "do"} => T[k + 1] = b
  /\ W[k].kind = "block" =>
       \/ Ends(b)
       \/ Successors(b) = <<T[k + 1]>>
       \/ /\ k < Len(W) /\ W[k + 1].block = b
          /\ W[k + 1].kind \in Turning \cup {"unresolved"}
  /\ W[k].kind = "end" /\ T[k] # NoBlock => T[k + 1] = T[k]
  /\ W[k].kind = "path" /\ W[k].stop # NoBlock => T[k + 1] = W[k].stop

\* What line k prints of a condition stands behind its block, and says where the block
\* goes.
FitsTurn(W, T, k) ==
  LET b == W[k].block IN
  /\ W[k].kind \in Turning => BehindBlock(W, k) /\ Len(Successors(b)) = 2
  /\ W[k].kind = "unresolved" => BehindBlock(W, k) /\ Successors(b) = <<>>
  /\ W[k].kind \in {"while", "while not"} =>
       k > 2 /\ W[k - 2].kind = "do" /\ W[k - 2].block = b
  /\ W[k].kind = "while" => T[k + 1] = Goes(b, FALSE) /\ Goes(b, TRUE) = b
  /\ W[k].kind = "while not" => T[k + 1] = Goes(b, TRUE) /\ Goes(b, FALSE) = b

\* The first line of an arm stands for where the block goes when the condition sends it
\* there, and so does what stands behind the arm.
FitsArm(W, T, k) ==
  LET b == W[k].block IN
  /\ W[k].kind = "if" =>
       /\ T[k + 1] = Goes(b, TRUE)
       /\ \E m : Closes(W, k, m, ElseEnd) /\ T[m + 1] = Goes(b, FALSE)
  /\ W[k].kind = "if not" =>
       /\ T[k + 1] = Goes(b, FALSE)
       /\ \E m : Closes(W, k, m, ElseEnd) /\ T[m + 1] = Goes(b, TRUE)
  /\ W[k].kind = "else" =>
       \E m : Closes(W, k, m, {"end"}) /\ (T[k] # NoBlock => T[m + 1] = T[k])

\* The text W, path by path and line by line, fits the blocks of T.  T has one element more
\* than W, for the end of the text.
Fits(W, T) ==
  /\ W \in Seq(Items) /\ T \in Seq(Blocks \cup {NoBlock}) /\ Len(T) = Len(W) + 1
  /\ \A k \in 1 .. Len(W) : FitsStraight(W, T, k) /\ FitsTurn(W, T, k) /\ FitsArm(W, T, k)

\* What is said of a line holds of it at another place, among the same lines.
LEMMA FitsMoves ==
  ASSUME NEW W \in Seq(Items), NEW V \in Seq(Items), NEW T, NEW U,
         NEW k \in 1 .. Len(W), NEW j \in 1 .. Len(V),
         V[j] = W[k], U[j] = T[k], U[j + 1] = T[k + 1],
         k > 1 /\ W[k - 1].kind # "path" => j > 1 /\ V[j - 1] = W[k - 1],
         k > 2 /\ W[k - 1].kind # "path" /\ W[k - 2].kind # "path" => j > 2 /\ V[j - 2] = W[k - 2],
         k < Len(W) /\ W[k + 1].kind # "path" => j < Len(V) /\ V[j + 1] = W[k + 1],
         \A kinds \in {ElseEnd, {"end"}} : \A m : Closes(W, k, m, kinds) =>
           \E n : Closes(V, j, n, kinds) /\ U[n + 1] = T[m + 1]
  PROVE  /\ FitsStraight(W, T, k) => FitsStraight(V, U, j)
         /\ FitsTurn(W, T, k) => FitsTurn(V, U, j)
         /\ FitsArm(W, T, k) => FitsArm(V, U, j)
<1>1. ASSUME FitsStraight(W, T, k) PROVE FitsStraight(V, U, j)
  <2>1. k < Len(W) /\ W[k + 1].kind \in Turning \cup {"unresolved"} => j < Len(V) /\ V[j + 1] = W[k + 1]
    BY DEF Turning
  <2> QED BY <1>1, <2>1 DEF FitsStraight
<1>2. ASSUME FitsTurn(W, T, k) PROVE FitsTurn(V, U, j)
  <2>1. BehindBlock(W, k) => BehindBlock(V, j)
    BY DEF BehindBlock
  <2>2. BehindBlock(W, k) /\ k > 2 /\ W[k - 2].kind = "do" => j > 2 /\ V[j - 2] = W[k - 2]
    BY DEF BehindBlock
  <2>3. {"while", "while not"} \subseteq Turning
    BY DEF Turning
  <2> QED BY <1>2, <2>1, <2>2, <2>3 DEF FitsTurn
<1>3. ASSUME FitsArm(W, T, k) PROVE FitsArm(V, U, j)
  <2> DEFINE b == W[k].block
  <2>1. ASSUME W[k].kind = "if"
        PROVE  U[j + 1] = Goes(b, TRUE)
               /\ \E n : Closes(V, j, n, ElseEnd) /\ U[n + 1] = Goes(b, FALSE)
    <3>1. PICK m : Closes(W, k, m, ElseEnd) /\ T[m + 1] = Goes(b, FALSE)
      BY <1>3, <2>1 DEF FitsArm
    <3>2. T[k + 1] = Goes(b, TRUE)
      BY <1>3, <2>1 DEF FitsArm
    <3>3. PICK n : Closes(V, j, n, ElseEnd) /\ U[n + 1] = T[m + 1]
      BY <3>1
    <3> QED BY <3>1, <3>2, <3>3
  <2>2. ASSUME W[k].kind = "if not"
        PROVE  U[j + 1] = Goes(b, FALSE)
               /\ \E n : Closes(V, j, n, ElseEnd) /\ U[n + 1] = Goes(b, TRUE)
    <3>1. PICK m : Closes(W, k, m, ElseEnd) /\ T[m + 1] = Goes(b, TRUE)
      BY <1>3, <2>2 DEF FitsArm
    <3>2. T[k + 1] = Goes(b, FALSE)
      BY <1>3, <2>2 DEF FitsArm
    <3>3. PICK n : Closes(V, j, n, ElseEnd) /\ U[n + 1] = T[m + 1]
      BY <3>1
    <3> QED BY <3>1, <3>2, <3>3
  <2>3. ASSUME W[k].kind = "else"
        PROVE  \E n : Closes(V, j, n, {"end"}) /\ (U[j] # NoBlock => U[n + 1] = U[j])
    <3>1. PICK m : Closes(W, k, m, {"end"}) /\ (T[k] # NoBlock => T[m + 1] = T[k])
      BY <1>3, <2>3 DEF FitsArm
    <3> QED BY <3>1
  <2> QED BY <2>1, <2>2, <2>3 DEF FitsArm
<1> QED BY <1>1, <1>2, <1>3

\* A path can be replaced by lines and paths that fit, are at least as deep and lead
\* from where it leads to where it leads.
LEMMA FitsReplaced ==
  ASSUME NEW W, NEW V, NEW p, NEW s, NEW T, NEW u, Replaces(W, V, p, s), Fits(W, T), Fits(s, u),
         u[1] = T[p], u[Len(s) + 1] = T[p + 1],
         \A i \in 1 .. Len(s) : s[i].depth >= W[p].depth
  PROVE  \E U : /\ Fits(V, U)
                /\ U[Len(V) + 1] = T[Len(W) + 1]
                /\ U[1] = T[1]
<1>0. PICK d : d = Len(s)
  OBVIOUS
<1> DEFINE Value == Blocks \cup {NoBlock}
           U == [i \in 1 .. Len(V) + 1 |->
                   IF i < p THEN T[i] ELSE IF i < p + d THEN u[i - p + 1] ELSE T[i - d + 1]]
<1>1. /\ W \in Seq(Items) /\ V \in Seq(Items) /\ s \in Seq(Items) /\ d \in Nat
      /\ p \in 1 .. Len(W) /\ Len(W) \in Nat /\ Len(V) = Len(W) + d - 1 /\ Len(V) \in Nat
      /\ W[p].kind = "path"
      /\ \A i \in 1 .. Len(V) :
           V[i] = IF i < p THEN W[i] ELSE IF i < p + d THEN s[i - p + 1] ELSE W[i - d + 1]
  BY <1>0 DEF Replaces
<1>2. /\ T \in Seq(Value) /\ Len(T) = Len(W) + 1 /\ u \in Seq(Value) /\ Len(u) = d + 1
  BY <1>0 DEF Fits
<1>3. \A i \in 1 .. Len(W) + 1 : T[i] \in Value
  <2> TAKE i \in 1 .. Len(W) + 1
  <2>1. i \in 1 .. Len(T)
    BY <1>2
  <2> QED BY <2>1, <1>2, ElementOfSeq
<1>4. \A i \in 1 .. d + 1 : u[i] \in Value
  <2> TAKE i \in 1 .. d + 1
  <2>1. i \in 1 .. Len(u)
    BY <1>2
  <2> QED BY <2>1, <1>2, ElementOfSeq
<1>5. U \in Seq(Value) /\ Len(U) = Len(V) + 1
  <2>1. \A i \in 1 .. Len(V) + 1 : U[i] \in Value
    <3> TAKE i \in 1 .. Len(V) + 1
    <3>1. CASE i < p
      <4>1. i \in 1 .. Len(W) + 1 /\ U[i] = T[i]
        BY <3>1, <1>1
      <4> QED BY <4>1, <1>3
    <3>2. CASE ~ (i < p) /\ i < p + d
      <4>1. i - p + 1 \in 1 .. d + 1 /\ U[i] = u[i - p + 1]
        BY <3>2, <1>1
      <4> QED BY <4>1, <1>4
    <3>3. CASE ~ (i < p) /\ ~ (i < p + d)
      <4>1. i - d + 1 \in 1 .. Len(W) + 1 /\ U[i] = T[i - d + 1]
        BY <3>3, <1>1
      <4> QED BY <4>1, <1>3
    <3> QED BY <3>1, <3>2, <3>3
  <2> QED BY <1>1, <2>1
<1> DEFINE g(i) == IF i <= p THEN i ELSE i + d - 1
<1>6. \A i \in 1 .. Len(W) + 1 : g(i) \in 1 .. Len(V) + 1 /\ U[g(i)] = T[i]
  <2> TAKE i \in 1 .. Len(W) + 1
  <2>1. CASE i < p
    BY <2>1, <1>1
  <2>2. CASE i = p
    <3>1. CASE d = 0
      <4>1. g(i) = p /\ ~ (p < p) /\ ~ (p < p + d) /\ p - d + 1 = p + 1 /\ p \in 1 .. Len(V) + 1
        BY <2>2, <3>1, <1>1
      <4>2. U[p] = T[p + 1]
        BY <4>1
      <4>3. u[1] = T[p] /\ u[1] = T[p + 1]
        BY <3>1, <1>0, <1>1
      <4> HIDE DEF U
      <4> QED BY <2>2, <4>1, <4>2, <4>3
    <3>2. CASE d # 0
      BY <2>2, <3>2, <1>1
    <3> QED BY <3>1, <3>2
  <2>3. CASE i > p
    <3>1. g(i) = i + d - 1 /\ g(i) \in 1 .. Len(V) + 1 /\ ~ (g(i) < p) /\ ~ (g(i) < p + d)
          /\ g(i) - d + 1 = i
      BY <2>3, <1>1
    <3> HIDE DEF g
    <3> QED BY <3>1
  <2> QED BY <2>1, <2>2, <2>3, <1>1
<1>7. \A i \in 1 .. Len(W) : i # p => /\ g(i) \in 1 .. Len(V) /\ V[g(i)] = W[i]
                                      /\ U[g(i) + 1] = T[i + 1]
  <2> TAKE i \in 1 .. Len(W)
  <2> SUFFICES ASSUME i # p PROVE g(i) \in 1 .. Len(V) /\ V[g(i)] = W[i] /\ U[g(i) + 1] = T[i + 1]
    OBVIOUS
  <2>1. CASE i < p
    <3>1. g(i) = i /\ i \in 1 .. Len(V) /\ g(i + 1) = i + 1
      BY <2>1, <1>1
    <3>2. V[i] = W[i]
      BY <2>1, <3>1, <1>1
    <3>3. i + 1 \in 1 .. Len(W) + 1
      BY <1>1
    <3>4. U[g(i + 1)] = T[i + 1]
      BY <3>3, <1>6
    <3> HIDE DEF U, g
    <3> QED BY <3>1, <3>2, <3>4
  <2>2. CASE i > p
    <3>1. g(i) = i + d - 1 /\ g(i) \in 1 .. Len(V) /\ g(i + 1) = g(i) + 1
          /\ ~ (g(i) < p) /\ ~ (g(i) < p + d) /\ g(i) - d + 1 = i
      BY <2>2, <1>1
    <3>2. V[g(i)] = W[i]
      BY <3>1, <1>1
    <3>3. i + 1 \in 1 .. Len(W) + 1
      BY <1>1
    <3>4. U[g(i + 1)] = T[i + 1]
      BY <3>3, <1>6
    <3> HIDE DEF U, g
    <3> QED BY <3>1, <3>2, <3>4
  <2> QED BY <2>1, <2>2, <1>1
<1>8. \A i \in 1 .. d + 1 : p + i - 1 \in 1 .. Len(V) + 1 /\ U[p + i - 1] = u[i]
  <2> TAKE i \in 1 .. d + 1
  <2> DEFINE x == p + i - 1
  <2>1. CASE i < d + 1
    <3>1. x \in 1 .. Len(V) + 1 /\ ~ (x < p) /\ x < p + d /\ x - p + 1 = i
      <4> HIDE DEF U
      <4>1. i \in 1 .. d /\ i \in Nat /\ p \in Nat
        BY <2>1, <1>1
      <4> QED BY <4>1, <1>1
    <3> HIDE DEF x
    <3>2. U[x] = u[i]
      BY <3>1
    <3> QED BY <3>1, <3>2 DEF x
  <2>2. CASE i = d + 1
    <3>1. x \in 1 .. Len(V) + 1 /\ ~ (x < p) /\ ~ (x < p + d) /\ x - d + 1 = p + 1
      BY <2>2, <1>1
    <3> HIDE DEF x
    <3>2. U[x] = T[p + 1]
      BY <3>1
    <3>3. u[i] = T[p + 1]
      BY <2>2, <1>0
    <3> HIDE DEF U
    <3> QED BY <3>1, <3>2, <3>3 DEF x
  <2> QED BY <2>1, <2>2, <1>1
<1>9. \A i \in 1 .. d : p + i - 1 \in 1 .. Len(V) /\ V[p + i - 1] = s[i]
  <2> TAKE i \in 1 .. d
  <2> DEFINE x == p + i - 1
  <2>1. x \in 1 .. Len(V) /\ ~ (x < p) /\ x < p + d /\ x - p + 1 = i
    BY <1>1
  <2> HIDE DEF x
  <2>2. V[x] = s[i]
    BY <2>1, <1>1
  <2> QED BY <2>1, <2>2 DEF x
<1>10. U[1] = T[1] /\ U[Len(V) + 1] = T[Len(W) + 1]
  <2>1. g(1) = 1 /\ 1 \in 1 .. Len(W) + 1 /\ Len(W) + 1 \in 1 .. Len(W) + 1 /\ g(Len(W) + 1) = Len(V) + 1
    BY <1>1
  <2> QED BY <2>1, <1>6
<1> HIDE DEF U
<1>11. ASSUME NEW i \in 1 .. Len(V)
       PROVE  FitsStraight(V, U, i) /\ FitsTurn(V, U, i) /\ FitsArm(V, U, i)
  <2>1. CASE i \in p .. p + d - 1
    <3> DEFINE k == i - p + 1
    <3>1. k \in 1 .. d /\ i = p + k - 1 /\ k \in 1 .. d + 1 /\ k + 1 \in 1 .. d + 1
          /\ i + 1 = p + (k + 1) - 1 /\ k \in 1 .. Len(s)
      BY <2>1, <1>1, <1>0
    <3> HIDE DEF k
    <3>2. V[i] = s[k] /\ U[i] = u[k] /\ U[i + 1] = u[k + 1]
      BY <3>1, <1>8, <1>9
    <3>3. k > 1 => i > 1 /\ V[i - 1] = s[k - 1]
      <4> SUFFICES ASSUME k > 1 PROVE i > 1 /\ V[i - 1] = s[k - 1]
        OBVIOUS
      <4>1. k - 1 \in 1 .. d /\ i - 1 = p + (k - 1) - 1 /\ i > 1
        BY <3>1, <1>1
      <4> QED BY <4>1, <1>9
    <3>4. k > 2 => i > 2 /\ V[i - 2] = s[k - 2]
      <4> SUFFICES ASSUME k > 2 PROVE i > 2 /\ V[i - 2] = s[k - 2]
        OBVIOUS
      <4>1. k - 2 \in 1 .. d /\ i - 2 = p + (k - 2) - 1 /\ i > 2
        BY <3>1, <1>1
      <4> QED BY <4>1, <1>9
    <3>5. k < Len(s) => i < Len(V) /\ V[i + 1] = s[k + 1]
      <4> SUFFICES ASSUME k < Len(s) PROVE i < Len(V) /\ V[i + 1] = s[k + 1]
        OBVIOUS
      <4>1. k + 1 \in 1 .. d /\ i + 1 = p + (k + 1) - 1 /\ i < Len(V)
        BY <3>1, <1>1, <1>0
      <4> QED BY <4>1, <1>9
    <3>6. ASSUME NEW kinds, NEW m, Closes(s, k, m, kinds)
          PROVE  \E n : Closes(V, i, n, kinds) /\ U[n + 1] = u[m + 1]
      <4> DEFINE n == p + m - 1
      <4>1. m \in k + 1 .. d /\ m \in 1 .. d /\ m + 1 \in 1 .. d + 1 /\ n + 1 = p + (m + 1) - 1
        <5>1. m \in k + 1 .. d
          BY <3>6, <1>0 DEF Closes
        <5> QED BY <5>1, <3>1, <1>1
      <4>2. V[n] = s[m] /\ U[n + 1] = u[m + 1] /\ n \in 1 .. Len(V) /\ n \in i + 1 .. Len(V)
        BY <4>1, <3>1, <1>1, <1>8, <1>9
      <4>3. \A x \in i + 1 .. n - 1 : V[x].depth > V[i].depth
        <5> TAKE x \in i + 1 .. n - 1
        <5>1. x - p + 1 \in k + 1 .. m - 1 /\ x - p + 1 \in 1 .. d /\ x = p + (x - p + 1) - 1
          BY <4>1, <3>1, <1>1
        <5>2. V[x] = s[x - p + 1]
          BY <5>1, <1>9
        <5> QED BY <5>1, <5>2, <3>2, <3>6 DEF Closes
      <4>4. Closes(V, i, n, kinds)
        BY <4>1, <4>2, <4>3, <3>2, <3>6 DEF Closes
      <4> QED BY <4>2, <4>4
    <3>7. FitsStraight(s, u, k) /\ FitsTurn(s, u, k) /\ FitsArm(s, u, k)
      BY <3>1 DEF Fits
    <3>8. \A kinds \in {ElseEnd, {"end"}} : \A m : Closes(s, k, m, kinds) =>
            \E n : Closes(V, i, n, kinds) /\ U[n + 1] = u[m + 1]
      BY <3>6
    <3>9. k > 1 /\ s[k - 1].kind # "path" => i > 1 /\ V[i - 1] = s[k - 1]
      BY <3>3
    <3>10. k > 2 /\ s[k - 1].kind # "path" /\ s[k - 2].kind # "path" =>
             i > 2 /\ V[i - 2] = s[k - 2]
      BY <3>4
    <3>11. k < Len(s) /\ s[k + 1].kind # "path" => i < Len(V) /\ V[i + 1] = s[k + 1]
      BY <3>5
    <3>12. k \in 1 .. Len(s) /\ s \in Seq(Items) /\ V \in Seq(Items)
      BY <1>1, <3>1
    <3>13. /\ FitsStraight(s, u, k) => FitsStraight(V, U, i)
           /\ FitsTurn(s, u, k) => FitsTurn(V, U, i)
           /\ FitsArm(s, u, k) => FitsArm(V, U, i)
      BY ONLY <3>2, <3>8, <3>9, <3>10, <3>11, <3>12, i \in 1 .. Len(V), FitsMoves
    <3> QED BY <3>7, <3>13
  <2>2. CASE i \notin p .. p + d - 1
    <3> DEFINE k == IF i < p THEN i ELSE i - d + 1
    <3>1. k \in 1 .. Len(W) /\ k # p /\ i = g(k)
      <4>1. CASE i < p
        BY <4>1, <1>1
      <4>2. CASE ~ (i < p)
        <5>1. i >= p + d /\ k = i - d + 1
          BY <4>2, <2>2, <1>1
        <5> QED BY <5>1, <1>1
      <4> QED BY <4>1, <4>2
    <3> HIDE DEF k
    <3>2. V[i] = W[k] /\ U[i] = T[k] /\ U[i + 1] = T[k + 1]
      <4>1. k \in 1 .. Len(W) + 1
        BY <3>1, <1>1
      <4> QED BY <3>1, <4>1, <1>6, <1>7
    <3>3. k > 1 /\ W[k - 1].kind # "path" => i > 1 /\ V[i - 1] = W[k - 1]
      <4> SUFFICES ASSUME k > 1, W[k - 1].kind # "path" PROVE i > 1 /\ V[i - 1] = W[k - 1]
        OBVIOUS
      <4>1. k - 1 # p /\ k - 1 \in 1 .. Len(W)
        BY <3>1, <1>1
      <4>2. g(k - 1) = i - 1
        BY <3>1, <4>1, <1>1
      <4>3. g(k - 1) \in 1 .. Len(V) /\ V[g(k - 1)] = W[k - 1]
        BY <4>1, <1>7
      <4> HIDE DEF g
      <4> QED BY <4>2, <4>3, <1>1
    <3>4. k > 2 /\ W[k - 1].kind # "path" /\ W[k - 2].kind # "path" => i > 2 /\ V[i - 2] = W[k - 2]
      <4> SUFFICES ASSUME k > 2, W[k - 1].kind # "path", W[k - 2].kind # "path"
                   PROVE  i > 2 /\ V[i - 2] = W[k - 2]
        OBVIOUS
      <4>1. k - 1 # p /\ k - 2 # p /\ k - 2 \in 1 .. Len(W)
        BY <3>1, <1>1
      <4>2. g(k - 2) = i - 2
        BY <3>1, <4>1, <1>1
      <4>3. g(k - 2) \in 1 .. Len(V) /\ V[g(k - 2)] = W[k - 2]
        BY <4>1, <1>7
      <4> HIDE DEF g
      <4> QED BY <4>2, <4>3, <1>1
    <3>5. k < Len(W) /\ W[k + 1].kind # "path" => i < Len(V) /\ V[i + 1] = W[k + 1]
      <4> SUFFICES ASSUME k < Len(W), W[k + 1].kind # "path" PROVE i < Len(V) /\ V[i + 1] = W[k + 1]
        OBVIOUS
      <4>1. k + 1 # p /\ k + 1 \in 1 .. Len(W)
        BY <3>1, <1>1
      <4>2. g(k + 1) = i + 1
        BY <3>1, <4>1, <1>1
      <4>3. g(k + 1) \in 1 .. Len(V) /\ V[g(k + 1)] = W[k + 1]
        BY <4>1, <1>7
      <4> HIDE DEF g
      <4> QED BY <4>2, <4>3, <1>1
    <3>6. ASSUME NEW kinds \in {ElseEnd, {"end"}}, NEW m, Closes(W, k, m, kinds)
          PROVE  \E n : Closes(V, i, n, kinds) /\ U[n + 1] = T[m + 1]
      <4>1. m \in k + 1 .. Len(W) /\ m \in 1 .. Len(W) /\ m # p
        <5>1. m \in k + 1 .. Len(W)
          BY <3>6 DEF Closes
        <5>2. W[m].kind # "path"
          BY <3>6 DEF Closes, ElseEnd
        <5> QED BY <5>1, <5>2, <3>1, <1>1
      <4> DEFINE n == g(m)
      <4>2. V[n] = W[m] /\ U[n + 1] = T[m + 1] /\ n \in 1 .. Len(V)
        BY <4>1, <1>7
      <4>3. n \in i + 1 .. Len(V)
        BY <4>1, <4>2, <3>1, <1>1
      <4>4. \A x \in i + 1 .. n - 1 : V[x].depth > V[i].depth
        <5> TAKE x \in i + 1 .. n - 1
        <5>1. CASE x \in p .. p + d - 1
          <6>1. x - p + 1 \in 1 .. d /\ x = p + (x - p + 1) - 1
            BY <5>1, <1>1
          <6>2. V[x] = s[x - p + 1] /\ s[x - p + 1].depth >= W[p].depth
            BY <6>1, <1>9, <1>0
          <6>3. p \in k + 1 .. m - 1
            BY <5>1, <4>1, <3>1, <1>1
          <6>4. W[p].depth > W[k].depth
            BY <6>3, <3>6 DEF Closes
          <6>5. s[x - p + 1] \in Items /\ W[p] \in Items /\ W[k] \in Items
            BY <6>1, <3>1, <1>1, <1>0, ElementOfSeq
          <6>6. s[x - p + 1].depth \in Nat /\ W[p].depth \in Nat /\ W[k].depth \in Nat
            BY <6>5, ItemFacts
          <6> QED BY <6>2, <6>4, <6>6, <3>2
        <5>2. CASE x \notin p .. p + d - 1
          <6> DEFINE y == IF x < p THEN x ELSE x - d + 1
          <6>1. y \in 1 .. Len(W) /\ y # p /\ x = g(y) /\ y \in k + 1 .. m - 1
            <7>1. CASE x < p
              BY <7>1, <4>1, <4>2, <3>1, <1>1
            <7>2. CASE ~ (x < p)
              <8>1. x >= p + d /\ y = x - d + 1
                BY <7>2, <5>2, <1>1
              <8> QED BY <8>1, <4>1, <4>2, <3>1, <1>1
            <7> QED BY <7>1, <7>2
          <6> HIDE DEF y
          <6>2. V[x] = W[y]
            BY <6>1, <1>7
          <6> QED BY <6>1, <6>2, <3>2, <3>6 DEF Closes
        <5> QED BY <5>1, <5>2
      <4>5. Closes(V, i, n, kinds)
        BY <4>2, <4>3, <4>4, <3>2, <3>6 DEF Closes
      <4> QED BY <4>2, <4>5
    <3>7. FitsStraight(W, T, k) /\ FitsTurn(W, T, k) /\ FitsArm(W, T, k)
      BY <3>1 DEF Fits
    <3> HIDE DEF g
    <3>8. \A kinds \in {ElseEnd, {"end"}} : \A m : Closes(W, k, m, kinds) =>
            \E n : Closes(V, i, n, kinds) /\ U[n + 1] = T[m + 1]
      BY <3>6
    <3>9. k > 1 /\ W[k - 1].kind # "path" => i > 1 /\ V[i - 1] = W[k - 1]
      BY <3>3
    <3>10. k > 2 /\ W[k - 1].kind # "path" /\ W[k - 2].kind # "path" =>
             i > 2 /\ V[i - 2] = W[k - 2]
      BY <3>4
    <3>11. k < Len(W) /\ W[k + 1].kind # "path" => i < Len(V) /\ V[i + 1] = W[k + 1]
      BY <3>5
    <3>12. k \in 1 .. Len(W) /\ W \in Seq(Items) /\ V \in Seq(Items)
      BY <1>1, <3>1
    <3>13. /\ FitsStraight(W, T, k) => FitsStraight(V, U, i)
           /\ FitsTurn(W, T, k) => FitsTurn(V, U, i)
           /\ FitsArm(W, T, k) => FitsArm(V, U, i)
      BY ONLY <3>2, <3>8, <3>9, <3>10, <3>11, <3>12, i \in 1 .. Len(V), FitsMoves
    <3> QED BY <3>7, <3>13
  <2> QED BY <2>1, <2>2
<1>12. Fits(V, U)
  BY <1>1, <1>5, <1>11 DEF Fits
<1> QED BY <1>10, <1>12

--------------------------------------------------------------------------------
(***************************************************************************)
(* The lines and paths that replace a path in emitStructuredPath.          *)
(***************************************************************************)

LEMMA LineFacts ==
  ASSUME NEW kind \in LineKinds, NEW b \in Blocks, NEW e \in Nat
  PROVE  /\ Line(kind, b, e) \in Items /\ Line(kind, b, e).kind = kind
         /\ Line(kind, b, e).block = b /\ Line(kind, b, e).depth = e
BY DEF Line, Items, Lines

LEMMA PathFacts ==
  ASSUME NEW b \in Blocks, NEW stop \in Blocks \cup {NoBlock}, NEW e \in Nat
  PROVE  /\ Path(b, stop, e) \in Items /\ Path(b, stop, e).kind = "path"
         /\ Path(b, stop, e).block = b /\ Path(b, stop, e).depth = e
         /\ Path(b, stop, e).stop = stop
BY DEF Path, Items, Paths

\* What emitStructuredPath puts in the place of a path.
Expansion(b, stop, e, join) == <<Line("block", b, e)>> \o After(b, stop, e, join)

LEMMA Consed ==
  ASSUME NEW S, NEW x \in S, NEW s \in Seq(S)
  PROVE  /\ <<x>> \o s \in Seq(S) /\ Len(<<x>> \o s) = Len(s) + 1 /\ (<<x>> \o s)[1] = x
         /\ \A i \in 1 .. Len(s) : (<<x>> \o s)[i + 1] = s[i]
<1>1. <<x>> \in Seq(S) /\ Len(<<x>>) = 1 /\ <<x>>[1] = x /\ Len(s) \in Nat
  OBVIOUS
<1>2. /\ <<x>> \o s \in Seq(S) /\ Len(<<x>> \o s) = 1 + Len(s)
      /\ \A i \in 1 .. 1 + Len(s) : (<<x>> \o s)[i] = IF i <= 1 THEN <<x>>[i] ELSE s[i - 1]
  BY <1>1, ConcatProperties
<1> QED BY <1>1, <1>2

LEMMA Four ==
  ASSUME NEW x1, NEW x2, NEW x3, NEW y1
  PROVE  <<x1, x2, x3>> \o <<y1>> = <<x1, x2, x3, y1>>
<1> DEFINE S == {x1, x2, x3, y1}
           s == <<x1, x2, x3>>
           t == <<y1>>
           u == <<x1, x2, x3, y1>>
<1>1. /\ s \in Seq(S) /\ t \in Seq(S) /\ u \in Seq(S)
      /\ Len(s) = 3 /\ Len(t) = 1 /\ Len(u) = 4
      /\ s[1] = x1 /\ s[2] = x2 /\ s[3] = x3
      /\ t[1] = y1
      /\ u[1] = x1 /\ u[2] = x2 /\ u[3] = x3 /\ u[4] = y1
  OBVIOUS
<1> HIDE DEF S, s, t, u
<1>2. /\ s \o t \in Seq(S) /\ Len(s \o t) = 4
      /\ \A i \in 1 .. 4 : (s \o t)[i] = IF i <= 3 THEN s[i] ELSE t[i - 3]
  <2>1. /\ s \o t \in Seq(S) /\ Len(s \o t) = Len(s) + Len(t)
        /\ \A i \in 1 .. Len(s) + Len(t) : (s \o t)[i] =
              IF i <= Len(s) THEN s[i] ELSE t[i - Len(s)]
    BY ONLY <1>1, ConcatProperties
  <2>2. Len(s) + Len(t) = 4 /\ Len(s) = 3
    BY <1>1
  <2> QED BY <2>1, <2>2
<1>3. \A i \in 1 .. 4 : (s \o t)[i] = u[i]
  BY <1>1, <1>2
<1>4. s \o t = u
  BY <1>1, <1>2, <1>3, SeqEqual
<1> QED BY <1>4 DEF s, t, u

LEMMA Six ==
  ASSUME NEW x1, NEW x2, NEW x3, NEW x4, NEW x5, NEW y1
  PROVE  <<x1, x2, x3, x4, x5>> \o <<y1>> = <<x1, x2, x3, x4, x5, y1>>
<1> DEFINE S == {x1, x2, x3, x4, x5, y1}
           s == <<x1, x2, x3, x4, x5>>
           t == <<y1>>
           u == <<x1, x2, x3, x4, x5, y1>>
<1>1. /\ s \in Seq(S) /\ t \in Seq(S) /\ u \in Seq(S)
      /\ Len(s) = 5 /\ Len(t) = 1 /\ Len(u) = 6
      /\ s[1] = x1 /\ s[2] = x2 /\ s[3] = x3 /\ s[4] = x4 /\ s[5] = x5
      /\ t[1] = y1
      /\ u[1] = x1 /\ u[2] = x2 /\ u[3] = x3 /\ u[4] = x4 /\ u[5] = x5 /\ u[6] = y1
  OBVIOUS
<1> HIDE DEF S, s, t, u
<1>2. /\ s \o t \in Seq(S) /\ Len(s \o t) = 6
      /\ \A i \in 1 .. 6 : (s \o t)[i] = IF i <= 5 THEN s[i] ELSE t[i - 5]
  <2>1. /\ s \o t \in Seq(S) /\ Len(s \o t) = Len(s) + Len(t)
        /\ \A i \in 1 .. Len(s) + Len(t) : (s \o t)[i] =
              IF i <= Len(s) THEN s[i] ELSE t[i - Len(s)]
    BY ONLY <1>1, ConcatProperties
  <2>2. Len(s) + Len(t) = 6 /\ Len(s) = 5
    BY <1>1
  <2> QED BY <2>1, <2>2
<1>3. \A i \in 1 .. 6 : (s \o t)[i] = u[i]
  BY <1>1, <1>2
<1>4. s \o t = u
  BY <1>1, <1>2, <1>3, SeqEqual
<1> QED BY <1>4 DEF s, t, u

\* A block with two successors ends with a conditional jump to one and falls through to
\* the other.
LEMMA TwoSuccessors ==
  ASSUME GraphInv, NEW b \in Blocks, Len(Successors(b)) = 2
  PROVE  /\ Successors(b) = <<graph[b].target, b + 1>>
         /\ graph[b].target \in Blocks /\ b + 1 \in Blocks /\ graph[b].target # b + 1
         /\ graph[b].kind = "ConditionalJump" /\ ~ Ends(b)
         /\ Goes(b, TRUE) = graph[b].target /\ Goes(b, FALSE) = b + 1
<1>1. Successors(b) # <<>>
  <2>1. Len(<<>>) = 0
    OBVIOUS
  <2> QED BY <2>1
<1>2. \A c : Successors(b) # <<c>>
  <2>1. \A c : Len(<<c>>) = 1
    OBVIOUS
  <2> QED BY <2>1
<1> QED BY <1>1, <1>2, SuccessorFacts

\* The shapes of what is printed for a condition.
LEMMA BranchShapes ==
  ASSUME GraphInv, NEW b \in Blocks, NEW stop \in Blocks \cup {NoBlock}, NEW e \in Nat,
         NEW join \in Joins(b), Len(Successors(b)) = 2
  PROVE  LET t == graph[b].target
             s == After(b, stop, e, join)
         IN  \/ /\ join = t
                /\ s = <<Line("if not", b, e), Path(b + 1, join, e + 1), Line("end", b, e),
                         Path(join, stop, e)>>
             \/ /\ join = b + 1
                /\ s = <<Line("if", b, e), Path(t, join, e + 1), Line("end", b, e),
                         Path(join, stop, e)>>
             \/ /\ join \in Blocks
                /\ s = <<Line("if", b, e), Path(t, join, e + 1), Line("else", b, e),
                         Path(b + 1, join, e + 1), Line("end", b, e), Path(join, stop, e)>>
             \/ /\ join = NoBlock
                /\ s = <<Line("if", b, e), Path(t, join, e + 1), Line("else", b, e),
                         Path(b + 1, join, e + 1), Line("end", b, e)>>
<1> DEFINE t == graph[b].target
<1>1. /\ Successors(b) = <<t, b + 1>> /\ t \in Blocks /\ b + 1 \in Blocks /\ t # b + 1
  BY TwoSuccessors
<1>2. Successors(b)[1] = t /\ Successors(b)[2] = b + 1 /\ Len(Successors(b)) = 2
      /\ Successors(b) # <<>> /\ ~ (Len(Successors(b)) = 1)
  BY <1>1
<1>3. After(b, stop, e, join) = AfterBranch(b, stop, e, join)
  BY <1>2 DEF After
<1>4. join = NoBlock \/ join \in Blocks
  BY JoinFacts
<1>5. NoBlock # t /\ NoBlock # b + 1
  BY <1>1, BlocksFacts
<1> DEFINE Then == BehindArms(join, stop, e)
           In == Line("if not", b, e)
           If == Line("if", b, e)
           El == Line("else", b, e)
           En == Line("end", b, e)
           At == Path(t, join, e + 1)
           Af == Path(b + 1, join, e + 1)
           Aj == Path(join, stop, e)
<1>6. CASE join = t
  <2>1. AfterBranch(b, stop, e, join) = <<In, Af, En>> \o Then
    BY <1>1, <1>2, <1>6 DEF AfterBranch, IfNot
  <2>2. Then = <<Aj>>
    BY <1>5, <1>6 DEF BehindArms
  <2>3. <<In, Af, En>> \o <<Aj>> = <<In, Af, En, Aj>>
    BY Four
  <2> QED BY <1>3, <1>6, <2>1, <2>2, <2>3
<1>7. CASE join = b + 1
  <2>1. AfterBranch(b, stop, e, join) = <<If, At, En>> \o Then
    BY <1>1, <1>2, <1>7 DEF AfterBranch
  <2>2. Then = <<Aj>>
    BY <1>5, <1>7 DEF BehindArms
  <2>3. <<If, At, En>> \o <<Aj>> = <<If, At, En, Aj>>
    BY Four
  <2> QED BY <1>3, <1>7, <2>1, <2>2, <2>3
<1>8. CASE join # t /\ join # b + 1
  <2>1. AfterBranch(b, stop, e, join) = <<If, At, El, Af, En>> \o Then
    BY <1>2, <1>8 DEF AfterBranch
  <2>2. CASE join = NoBlock
    <3>1. Then = <<>>
      BY <2>2 DEF BehindArms
    <3>2. <<If, At, El, Af, En>> \o <<>> = <<If, At, El, Af, En>>
      <4> HIDE DEF If, At, El, Af, En
      <4> QED OBVIOUS
    <3> QED BY <1>3, <2>1, <2>2, <3>1, <3>2
  <2>3. CASE join \in Blocks
    <3>1. Then = <<Aj>>
      BY <2>3, BlocksFacts DEF BehindArms
    <3>2. <<If, At, El, Af, En>> \o <<Aj>> = <<If, At, El, Af, En, Aj>>
      BY Six
    <3> QED BY <1>3, <2>1, <2>3, <3>1, <3>2
  <2> QED BY <1>4, <2>2, <2>3
<1> QED BY <1>6, <1>7, <1>8

FitsAt(W, T, k) == FitsStraight(W, T, k) /\ FitsTurn(W, T, k) /\ FitsArm(W, T, k)

\* What has to be shown of a line of each kind.
LEMMA FitBlock ==
  ASSUME NEW W, NEW T, NEW k \in Nat, W[k].kind = "block", T[k] = W[k].block,
         \/ Ends(W[k].block)
         \/ Successors(W[k].block) = <<T[k + 1]>>
         \/ /\ k < Len(W) /\ W[k + 1].block = W[k].block
            /\ W[k + 1].kind \in {"if", "if not", "while", "while not", "unresolved"}
  PROVE  FitsAt(W, T, k)
BY DEF FitsAt, FitsStraight, FitsTurn, FitsArm, Turning

\* One lemma for each kind of line: what makes it fit.
LEMMA FitUnresolved ==
  ASSUME NEW W, NEW T, NEW k \in Nat, W[k].kind = "unresolved", k > 1, W[k - 1].kind = "block",
         W[k - 1].block = W[k].block, Successors(W[k].block) = <<>>
  PROVE  FitsAt(W, T, k)
BY DEF FitsAt, FitsStraight, FitsTurn, FitsArm, Turning, BehindBlock

LEMMA FitPath ==
  ASSUME NEW W, NEW T, NEW k \in Nat, W[k].kind = "path", T[k] = W[k].block,
         W[k].stop # NoBlock => T[k + 1] = W[k].stop
  PROVE  FitsAt(W, T, k)
BY DEF FitsAt, FitsStraight, FitsTurn, FitsArm, Turning

LEMMA FitHere ==
  ASSUME NEW W, NEW T, NEW k \in Nat, W[k].kind \in {"rejoin", "goto"}, T[k] = W[k].block
  PROVE  FitsAt(W, T, k)
BY DEF FitsAt, FitsStraight, FitsTurn, FitsArm, Turning

LEMMA FitNext ==
  ASSUME NEW W, NEW T, NEW k \in Nat, W[k].kind \in {"label", "do"}, T[k] = W[k].block,
         T[k + 1] = W[k].block
  PROVE  FitsAt(W, T, k)
BY DEF FitsAt, FitsStraight, FitsTurn, FitsArm, Turning

LEMMA FitEnd ==
  ASSUME NEW W, NEW T, NEW k \in Nat, W[k].kind = "end", T[k] # NoBlock => T[k + 1] = T[k]
  PROVE  FitsAt(W, T, k)
BY DEF FitsAt, FitsStraight, FitsTurn, FitsArm, Turning

LEMMA FitElse ==
  ASSUME NEW W, NEW T, NEW k \in Nat, NEW m, W[k].kind = "else", Closes(W, k, m, {"end"}),
         T[k] # NoBlock => T[m + 1] = T[k]
  PROVE  FitsAt(W, T, k)
<1>1. FitsArm(W, T, k)
  BY DEF FitsArm
<1> QED BY <1>1 DEF FitsAt, FitsStraight, FitsTurn, Turning

LEMMA FitIf ==
  ASSUME NEW W, NEW T, NEW k \in Nat, NEW m, W[k].kind = "if", k > 1, W[k - 1].kind = "block",
         W[k - 1].block = W[k].block, Len(Successors(W[k].block)) = 2,
         Closes(W, k, m, ElseEnd),
         T[k + 1] = Goes(W[k].block, TRUE), T[m + 1] = Goes(W[k].block, FALSE)
  PROVE  FitsAt(W, T, k)
<1>1. FitsArm(W, T, k)
  BY DEF FitsArm
<1> QED BY <1>1 DEF FitsAt, FitsStraight, FitsTurn, Turning, BehindBlock

LEMMA FitIfNot ==
  ASSUME NEW W, NEW T, NEW k \in Nat, NEW m, W[k].kind = "if not", k > 1, W[k - 1].kind = "block",
         W[k - 1].block = W[k].block, Len(Successors(W[k].block)) = 2,
         Closes(W, k, m, ElseEnd),
         T[k + 1] = Goes(W[k].block, FALSE), T[m + 1] = Goes(W[k].block, TRUE)
  PROVE  FitsAt(W, T, k)
<1>1. FitsArm(W, T, k)
  BY DEF FitsArm
<1> QED BY <1>1 DEF FitsAt, FitsStraight, FitsTurn, Turning, BehindBlock

LEMMA FitWhile ==
  ASSUME NEW W, NEW T, NEW k \in Nat, W[k].kind = "while", k > 2, W[k - 1].kind = "block",
         W[k - 1].block = W[k].block, Len(Successors(W[k].block)) = 2,
         W[k - 2].kind = "do", W[k - 2].block = W[k].block,
         T[k + 1] = Goes(W[k].block, FALSE), Goes(W[k].block, TRUE) = W[k].block
  PROVE  FitsAt(W, T, k)
<1>1. FitsStraight(W, T, k)
  BY DEF FitsStraight
<1>2. FitsTurn(W, T, k)
  <2>1. BehindBlock(W, k)
    BY DEF BehindBlock
  <2> QED BY <2>1 DEF FitsTurn
<1>3. FitsArm(W, T, k)
  BY DEF FitsArm
<1> QED BY <1>1, <1>2, <1>3 DEF FitsAt

LEMMA AllFit ==
  ASSUME NEW W \in Seq(Items), NEW T \in Seq(Blocks \cup {NoBlock}), Len(T) = Len(W) + 1,
         \A k \in 1 .. Len(W) : FitsAt(W, T, k)
  PROVE  Fits(W, T)
BY DEF Fits, FitsAt

\* A path for block c is at i or behind it.
Comes(W, i, c) == \E j \in i .. Len(W) : W[j].kind = "path" /\ W[j].block = c

\* The kinds of what emitStructuredPath has in hand.
WorkKinds == {"path", "if", "if not", "else", "end", "unresolved"}

\* A line or path behind the statements of block b.
Follows(s, i, b, stop, e, others) ==
  /\ s[i].depth >= e /\ s[i].kind \in WorkKinds
  /\ s[i].kind = "path" => /\ s[i].block \in ToSet(Successors(b)) \cup others
                           /\ s[i].stop \in {NoBlock, stop} \/ Comes(s, i + 1, s[i].stop)

--------------------------------------------------------------------------------
(***************************************************************************)
(* What emitStructuredPath replaces a path at block b with: its statements *)
(* first; a path for each successor, and for others of these blocks only;  *)
(* each arm with a path for its join behind it; and it fits, if after it   *)
(* the machine goes on with block next.                                    *)
(***************************************************************************)
Expands(s, b, stop, e, others, next) ==
  /\ s \in Seq(Items) /\ Len(s) \in Nat \ {0}
  /\ s[1].kind = "block" /\ s[1].block = b /\ s[1].depth = e
  /\ \A i \in 2 .. Len(s) : Follows(s, i, b, stop, e, others)
  /\ \A way \in ToSet(Successors(b)) : Comes(s, 1, way)
  /\ \E u : Fits(s, u) /\ u[1] = b /\ u[Len(s) + 1] = next

\* The elements of short sequences.
LEMMA ToSetNone == ToSet(<<>>) = {}
BY DEF ToSet

LEMMA ToSetOne ==
  ASSUME NEW x
  PROVE  ToSet(<<x>>) = {x}
<1> DEFINE s == <<x>>
<1>1. DOMAIN s = 1 .. 1 /\ s[1] = x
  OBVIOUS
<1> HIDE DEF s
<1>2. ToSet(s) = {x}
  BY <1>1 DEF ToSet
<1> QED BY <1>2 DEF s

LEMMA ToSetTwo ==
  ASSUME NEW x, NEW y
  PROVE  ToSet(<<x, y>>) = {x, y}
<1> DEFINE s == <<x, y>>
<1>1. DOMAIN s = 1 .. 2 /\ s[1] = x /\ s[2] = y
  OBVIOUS
<1> HIDE DEF s
<1>2. ToSet(s) = {x, y}
  BY <1>1 DEF ToSet
<1> QED BY <1>2 DEF s

LEMMA KindFacts ==
  /\ "block" \in LineKinds /\ "rejoin" \in LineKinds /\ "unresolved" \in LineKinds
  /\ "if" \in LineKinds /\ "if not" \in LineKinds /\ "else" \in LineKinds
  /\ "end" \in LineKinds /\ "label" \in LineKinds /\ "do" \in LineKinds
  /\ "while" \in LineKinds /\ "goto" \in LineKinds
BY DEF LineKinds

\* A block that ends the function.
LEMMA FitsStop ==
  ASSUME GraphInv, NEW b \in Blocks, NEW stop \in Blocks \cup {NoBlock}, NEW e \in Nat,
         NEW next \in Blocks \cup {NoBlock}, stop # NoBlock => next = stop,
         Successors(b) = <<>>, Ends(b)
  PROVE  Expands(<<Line("block", b, e)>>,
                 b, stop, e, {}, next)
<1> DEFINE i1 == Line("block", b, e)
<1>1. Ends(b) /\ ToSet(Successors(b)) = {} /\ e >= e
  BY ToSetNone
<1>2. i1 \in Items /\ i1.kind = "block" /\ i1.block = b /\ i1.depth = e
  BY <1>1, KindFacts DEF Line, Items, Lines
<1> HIDE DEF i1
<1>3. PICK s : s = <<i1>>
  OBVIOUS
<1>4. s \in Seq(Items) /\ Len(s) = 1 /\ s[1] = i1
  <2>1. i1 \in Items
    BY <1>2
  <2> QED BY <2>1, <1>3
<1>5. PICK u : u = <<b, next>>
  OBVIOUS
<1>6. u \in Seq(Blocks \cup {NoBlock}) /\ Len(u) = 2 /\ u[1] = b /\ u[2] = next
  BY <1>1, <1>5
<1>7. FitsAt(s, u, 1)
  <2>1. s[1] = i1 /\ u[1] = b /\ u[1 + 1] = next
    BY <1>4, <1>6
  <2> QED BY <2>1, <1>1, <1>2, FitBlock
<1>8. Fits(s, u) /\ u[1] = b /\ u[Len(s) + 1] = next
  <2>1. \A k \in 1 .. Len(s) : FitsAt(s, u, k)
    <3>1. 1 .. Len(s) = {1}
      BY <1>4
    <3> QED BY <3>1, <1>7
  <2>2. Len(u) = Len(s) + 1 /\ u[1] = b /\ u[Len(s) + 1] = next
    BY <1>4, <1>6
  <2>3. Fits(s, u)
    BY <2>1, <2>2, <1>4, <1>6, AllFit
  <2> QED BY <2>2, <2>3
<1>9. \A i \in 2 .. Len(s) : Follows(s, i, b, stop, e, {})
  <2>1. 2 .. Len(s) = {}
    BY <1>4
  <2> QED BY <2>1
<1>10. \A way \in ToSet(Successors(b)) : Comes(s, 1, way)
  BY <1>1
<1>11. Expands(s, b, stop, e, {}, next)
  BY <1>2, <1>4, <1>8, <1>9, <1>10 DEF Expands
<1> QED BY <1>11, <1>3 DEF i1

\* A block that leads nowhere in the function.
LEMMA FitsUnresolved ==
  ASSUME GraphInv, NEW b \in Blocks, NEW stop \in Blocks \cup {NoBlock}, NEW e \in Nat,
         NEW next \in Blocks \cup {NoBlock}, stop # NoBlock => next = stop,
         Successors(b) = <<>>
  PROVE  Expands(<<Line("block", b, e), Line("unresolved", b, e)>>,
                 b, stop, e, {}, next)
<1> DEFINE i1 == Line("block", b, e)
           i2 == Line("unresolved", b, e)
<1>1. Successors(b) = <<>> /\ ToSet(Successors(b)) = {} /\ e >= e
  BY ToSetNone
<1>2. i1 \in Items /\ i1.kind = "block" /\ i1.block = b /\ i1.depth = e
  BY <1>1, KindFacts DEF Line, Items, Lines
<1>3. i2 \in Items /\ i2.kind = "unresolved" /\ i2.block = b /\ i2.depth = e
  BY <1>1, KindFacts DEF Line, Items, Lines
<1> HIDE DEF i1, i2
<1>4. PICK s : s = <<i1, i2>>
  OBVIOUS
<1>5. s \in Seq(Items) /\ Len(s) = 2 /\ s[1] = i1 /\ s[2] = i2
  <2>1. i1 \in Items /\ i2 \in Items
    BY <1>2, <1>3
  <2> QED BY <2>1, <1>4
<1>6. PICK u : u = <<b, NoBlock, next>>
  OBVIOUS
<1>7. /\ u \in Seq(Blocks \cup {NoBlock}) /\ Len(u) = 3 /\ u[1] = b /\ u[2] = NoBlock
      /\ u[3] = next
  BY <1>1, <1>6
<1>8. FitsAt(s, u, 1)
  <2>1. s[1] = i1 /\ u[1] = b /\ u[1 + 1] = NoBlock /\ s[1 + 1] = i2 /\ 1 < Len(s)
    BY <1>5, <1>7
  <2> QED BY <2>1, <1>1, <1>2, <1>3, FitBlock
<1>9. FitsAt(s, u, 2)
  <2>1. s[2] = i2 /\ u[2] = NoBlock /\ u[2 + 1] = next /\ s[2 - 1] = i1
    BY <1>5, <1>7
  <2> QED BY <2>1, <1>1, <1>3, <1>2, FitUnresolved
<1>10. Fits(s, u) /\ u[1] = b /\ u[Len(s) + 1] = next
  <2>1. \A k \in 1 .. Len(s) : FitsAt(s, u, k)
    <3>1. 1 .. Len(s) = {1, 2}
      BY <1>5
    <3> QED BY <3>1, <1>8, <1>9
  <2>2. Len(u) = Len(s) + 1 /\ u[1] = b /\ u[Len(s) + 1] = next
    BY <1>5, <1>7
  <2>3. Fits(s, u)
    BY <2>1, <2>2, <1>5, <1>7, AllFit
  <2> QED BY <2>2, <2>3
<1>11. Follows(s, 2, b, stop, e, {})
  BY <1>1, <1>3, <1>5 DEF Follows, WorkKinds
<1>12. \A i \in 2 .. Len(s) : Follows(s, i, b, stop, e, {})
  <2>1. 2 .. Len(s) = {2}
    BY <1>5
  <2> QED BY <2>1, <1>11
<1>13. \A way \in ToSet(Successors(b)) : Comes(s, 1, way)
  BY <1>1
<1>14. Expands(s, b, stop, e, {}, next)
  BY <1>2, <1>5, <1>10, <1>12, <1>13 DEF Expands
<1> QED BY <1>14, <1>4 DEF i1, i2

\* The only successor.
LEMMA FitsOnly ==
  ASSUME GraphInv, NEW b \in Blocks, NEW stop \in Blocks \cup {NoBlock}, NEW e \in Nat,
         NEW next \in Blocks \cup {NoBlock}, stop # NoBlock => next = stop,
         NEW c \in Blocks, Successors(b) = <<c>>
  PROVE  Expands(<<Line("block", b, e), Path(c, stop, e)>>,
                 b, stop, e, {}, next)
<1> DEFINE i1 == Line("block", b, e)
           i2 == Path(c, stop, e)
<1>1. Successors(b) = <<c>> /\ ToSet(Successors(b)) = {c} /\ e >= e
  BY ToSetOne
<1>2. i1 \in Items /\ i1.kind = "block" /\ i1.block = b /\ i1.depth = e
  BY <1>1, KindFacts DEF Line, Items, Lines
<1>3. /\ i2 \in Items /\ i2.kind = "path" /\ i2.block = c /\ i2.stop = stop
      /\ i2.depth = e
  BY <1>1, PathFacts
<1> HIDE DEF i1, i2
<1>4. PICK s : s = <<i1, i2>>
  OBVIOUS
<1>5. s \in Seq(Items) /\ Len(s) = 2 /\ s[1] = i1 /\ s[2] = i2
  <2>1. i1 \in Items /\ i2 \in Items
    BY <1>2, <1>3
  <2> QED BY <2>1, <1>4
<1>6. PICK u : u = <<b, c, next>>
  OBVIOUS
<1>7. /\ u \in Seq(Blocks \cup {NoBlock}) /\ Len(u) = 3 /\ u[1] = b /\ u[2] = c
      /\ u[3] = next
  BY <1>1, <1>6
<1>8. FitsAt(s, u, 1)
  <2>1. s[1] = i1 /\ u[1] = b /\ u[1 + 1] = c /\ s[1 + 1] = i2 /\ 1 < Len(s)
    BY <1>5, <1>7
  <2> QED BY <2>1, <1>1, <1>2, <1>3, FitBlock
<1>9. FitsAt(s, u, 2)
  <2>1. s[2] = i2 /\ u[2] = c /\ u[2 + 1] = next /\ s[2 - 1] = i1
    BY <1>5, <1>7
  <2> QED BY <2>1, <1>1, <1>3, <1>2, FitPath
<1>10. Fits(s, u) /\ u[1] = b /\ u[Len(s) + 1] = next
  <2>1. \A k \in 1 .. Len(s) : FitsAt(s, u, k)
    <3>1. 1 .. Len(s) = {1, 2}
      BY <1>5
    <3> QED BY <3>1, <1>8, <1>9
  <2>2. Len(u) = Len(s) + 1 /\ u[1] = b /\ u[Len(s) + 1] = next
    BY <1>5, <1>7
  <2>3. Fits(s, u)
    BY <2>1, <2>2, <1>5, <1>7, AllFit
  <2> QED BY <2>2, <2>3
<1>11. Follows(s, 2, b, stop, e, {})
  BY <1>1, <1>3, <1>5 DEF Follows, WorkKinds
<1>12. Comes(s, 1, c)
  <2>1. 2 \in 1 .. Len(s) /\ s[2] = i2
    BY <1>5
  <2> QED BY <2>1, <1>3 DEF Comes
<1>13. \A i \in 2 .. Len(s) : Follows(s, i, b, stop, e, {})
  <2>1. 2 .. Len(s) = {2}
    BY <1>5
  <2> QED BY <2>1, <1>11
<1>14. \A way \in ToSet(Successors(b)) : Comes(s, 1, way)
  BY <1>1, <1>12
<1>15. Expands(s, b, stop, e, {}, next)
  BY <1>2, <1>5, <1>10, <1>13, <1>14 DEF Expands
<1> QED BY <1>15, <1>4 DEF i1, i2

\* One arm, the fallthrough, when the join is the target.
LEMMA FitsIfNot ==
  ASSUME GraphInv, NEW b \in Blocks, NEW stop \in Blocks \cup {NoBlock}, NEW e \in Nat,
         NEW next \in Blocks \cup {NoBlock}, stop # NoBlock => next = stop,
         NEW t, t = graph[b].target, Len(Successors(b)) = 2, NEW join \in Blocks, join = t
  PROVE  Expands(<<Line("block", b, e), Line("if not", b, e),
                   Path(b + 1, join, e + 1), Line("end", b, e), Path(join, stop, e)>>,
                 b, stop, e, {join}, next)
<1> DEFINE i1 == Line("block", b, e)
           i2 == Line("if not", b, e)
           i3 == Path(b + 1, join, e + 1)
           i4 == Line("end", b, e)
           i5 == Path(join, stop, e)
<1>1. /\ Successors(b) = <<t, b + 1>> /\ Len(Successors(b)) = 2
      /\ ToSet(Successors(b)) = {t, b + 1} /\ t \in Blocks /\ b + 1 \in Blocks
      /\ Goes(b, TRUE) = t /\ Goes(b, FALSE) = b + 1 /\ NoBlock \notin Blocks
      /\ e + 1 \in Nat /\ e + 1 > e /\ e >= e /\ e + 1 >= e /\ join = t
  <2>1. Successors(b) = <<t, b + 1>> /\ t \in Blocks /\ b + 1 \in Blocks
        /\ Goes(b, TRUE) = t /\ Goes(b, FALSE) = b + 1
    BY ONLY GraphInv, b \in Blocks, t = graph[b].target, Len(Successors(b)) = 2, TwoSuccessors
  <2>2. ToSet(Successors(b)) = {t, b + 1}
    BY <2>1, ToSetTwo
  <2>3. NoBlock \notin Blocks
    BY BlocksFacts
  <2>4. e + 1 \in Nat /\ e + 1 > e /\ e >= e /\ e + 1 >= e
    OBVIOUS
  <2> QED BY <2>1, <2>2, <2>3, <2>4
<1>2. i1 \in Items /\ i1.kind = "block" /\ i1.block = b /\ i1.depth = e
  BY <1>1, KindFacts DEF Line, Items, Lines
<1>3. i2 \in Items /\ i2.kind = "if not" /\ i2.block = b /\ i2.depth = e
  BY <1>1, KindFacts DEF Line, Items, Lines
<1>4. /\ i3 \in Items /\ i3.kind = "path" /\ i3.block = b + 1 /\ i3.stop = join
      /\ i3.depth = e + 1
  BY <1>1, PathFacts
<1>5. i4 \in Items /\ i4.kind = "end" /\ i4.block = b /\ i4.depth = e
  BY <1>1, KindFacts DEF Line, Items, Lines
<1>6. /\ i5 \in Items /\ i5.kind = "path" /\ i5.block = join /\ i5.stop = stop
      /\ i5.depth = e
  BY <1>1, PathFacts
<1> HIDE DEF i1, i2, i3, i4, i5
<1>7. PICK s : s = <<i1, i2, i3, i4, i5>>
  OBVIOUS
<1>8. /\ s \in Seq(Items) /\ Len(s) = 5 /\ s[1] = i1 /\ s[2] = i2 /\ s[3] = i3
      /\ s[4] = i4 /\ s[5] = i5
  <2>1. i1 \in Items /\ i2 \in Items /\ i3 \in Items /\ i4 \in Items /\ i5 \in Items
    BY <1>2, <1>3, <1>4, <1>5, <1>6
  <2> QED BY <2>1, <1>7
<1>9. PICK u : u = <<b, NoBlock, b + 1, join, join, next>>
  OBVIOUS
<1>10. /\ u \in Seq(Blocks \cup {NoBlock}) /\ Len(u) = 6 /\ u[1] = b /\ u[2] = NoBlock
      /\ u[3] = b + 1 /\ u[4] = join /\ u[5] = join /\ u[6] = next
  BY <1>1, <1>9
<1>11. FitsAt(s, u, 1)
  <2>1. s[1] = i1 /\ u[1] = b /\ u[1 + 1] = NoBlock /\ s[1 + 1] = i2 /\ 1 < Len(s)
    BY <1>8, <1>10
  <2> QED BY <2>1, <1>1, <1>2, <1>3, FitBlock
<1>12. FitsAt(s, u, 2)
  <2>1. Closes(s, 2, 4, ElseEnd)
    <3>1. 2 + 1 .. 4 - 1 = {3} /\ 4 \in 2 + 1 .. 5
      OBVIOUS
    <3> QED BY <3>1, <1>1, <1>2, <1>3, <1>4, <1>5, <1>6, <1>8 DEF Closes, ElseEnd
  <2>2. u[2 + 1] = b + 1 /\ u[4 + 1] = join /\ u[2] = NoBlock /\ s[2] = i2 /\ s[2 - 1] = i1
    BY <1>8, <1>10
  <2>3. /\ s[2].kind = "if not" /\ s[2].block = b /\ Len(Successors(s[2].block)) = 2
        /\ s[2 - 1].kind = "block" /\ s[2 - 1].block = s[2].block
        /\ u[2 + 1] = Goes(s[2].block, FALSE) /\ u[4 + 1] = Goes(s[2].block, TRUE)
    BY <2>2, <1>1, <1>3, <1>2, <1>4
  <2>4. 2 > 1 /\ 2 \in Nat
    OBVIOUS
  <2> QED BY ONLY <2>1, <2>3, <2>4, FitIfNot
<1>13. FitsAt(s, u, 3)
  <2>1. /\ s[3] = i3 /\ u[3] = b + 1 /\ u[3 + 1] = join /\ s[3 - 1] = i2 /\ s[3 - 2] = i1
        /\ s[3 + 1] = i4 /\ 3 < Len(s)
    BY <1>8, <1>10
  <2> QED BY <2>1, <1>1, <1>4, <1>2, <1>3, <1>5, FitPath
<1>14. FitsAt(s, u, 4)
  <2>1. /\ s[4] = i4 /\ u[4] = join /\ u[4 + 1] = join /\ s[4 - 1] = i3 /\ s[4 - 2] = i2
        /\ s[4 + 1] = i5 /\ 4 < Len(s)
    BY <1>8, <1>10
  <2> QED BY <2>1, <1>1, <1>5, <1>3, <1>4, <1>6, FitEnd
<1>15. FitsAt(s, u, 5)
  <2>1. s[5] = i5 /\ u[5] = join /\ u[5 + 1] = next /\ s[5 - 1] = i4 /\ s[5 - 2] = i3
    BY <1>8, <1>10
  <2> QED BY <2>1, <1>1, <1>6, <1>4, <1>5, FitPath
<1>16. Fits(s, u) /\ u[1] = b /\ u[Len(s) + 1] = next
  <2>1. \A k \in 1 .. Len(s) : FitsAt(s, u, k)
    <3>1. 1 .. Len(s) = {1, 2, 3, 4, 5}
      BY <1>8
    <3> QED BY <3>1, <1>11, <1>12, <1>13, <1>14, <1>15
  <2>2. Len(u) = Len(s) + 1 /\ u[1] = b /\ u[Len(s) + 1] = next
    BY <1>8, <1>10
  <2>3. Fits(s, u)
    BY <2>1, <2>2, <1>8, <1>10, AllFit
  <2> QED BY <2>2, <2>3
<1>17. Follows(s, 2, b, stop, e, {join})
  BY <1>1, <1>3, <1>8 DEF Follows, WorkKinds
<1>18. Follows(s, 3, b, stop, e, {join})
  <2>1. 5 \in 3 + 1 .. Len(s) /\ s[5] = i5 /\ s[3] = i3
    BY <1>8
  <2>2. Comes(s, 3 + 1, join)
    BY <2>1, <1>1, <1>6 DEF Comes
  <2> QED BY <2>1, <2>2, <1>1, <1>4 DEF Follows, WorkKinds
<1>19. Follows(s, 4, b, stop, e, {join})
  BY <1>1, <1>5, <1>8 DEF Follows, WorkKinds
<1>20. Follows(s, 5, b, stop, e, {join})
  BY <1>1, <1>6, <1>8 DEF Follows, WorkKinds
<1>21. Comes(s, 1, b + 1)
  <2>1. 3 \in 1 .. Len(s) /\ s[3] = i3
    BY <1>8
  <2> QED BY <2>1, <1>4 DEF Comes
<1>22. Comes(s, 1, t)
  <2>1. 5 \in 1 .. Len(s) /\ s[5] = i5
    BY <1>8
  <2> QED BY <2>1, <1>6 DEF Comes
<1>23. \A i \in 2 .. Len(s) : Follows(s, i, b, stop, e, {join})
  <2>1. 2 .. Len(s) = {2, 3, 4, 5}
    BY <1>8
  <2> QED BY <2>1, <1>17, <1>18, <1>19, <1>20
<1>24. \A way \in ToSet(Successors(b)) : Comes(s, 1, way)
  BY <1>1, <1>21, <1>22
<1>25. Expands(s, b, stop, e, {join}, next)
  BY <1>2, <1>8, <1>16, <1>23, <1>24 DEF Expands
<1> QED BY <1>25, <1>7 DEF i1, i2, i3, i4, i5

\* One arm, the target, when the join is the fallthrough.
LEMMA FitsIf ==
  ASSUME GraphInv, NEW b \in Blocks, NEW stop \in Blocks \cup {NoBlock}, NEW e \in Nat,
         NEW next \in Blocks \cup {NoBlock}, stop # NoBlock => next = stop,
         NEW t, t = graph[b].target, Len(Successors(b)) = 2, NEW join \in Blocks, join = b + 1
  PROVE  Expands(<<Line("block", b, e), Line("if", b, e), Path(t, join, e + 1),
                   Line("end", b, e), Path(join, stop, e)>>,
                 b, stop, e, {join}, next)
<1> DEFINE i1 == Line("block", b, e)
           i2 == Line("if", b, e)
           i3 == Path(t, join, e + 1)
           i4 == Line("end", b, e)
           i5 == Path(join, stop, e)
<1>1. /\ Successors(b) = <<t, b + 1>> /\ Len(Successors(b)) = 2
      /\ ToSet(Successors(b)) = {t, b + 1} /\ t \in Blocks /\ b + 1 \in Blocks
      /\ Goes(b, TRUE) = t /\ Goes(b, FALSE) = b + 1 /\ NoBlock \notin Blocks
      /\ e + 1 \in Nat /\ e + 1 > e /\ e >= e /\ e + 1 >= e /\ join = b + 1
  <2>1. Successors(b) = <<t, b + 1>> /\ t \in Blocks /\ b + 1 \in Blocks
        /\ Goes(b, TRUE) = t /\ Goes(b, FALSE) = b + 1
    BY ONLY GraphInv, b \in Blocks, t = graph[b].target, Len(Successors(b)) = 2, TwoSuccessors
  <2>2. ToSet(Successors(b)) = {t, b + 1}
    BY <2>1, ToSetTwo
  <2>3. NoBlock \notin Blocks
    BY BlocksFacts
  <2>4. e + 1 \in Nat /\ e + 1 > e /\ e >= e /\ e + 1 >= e
    OBVIOUS
  <2> QED BY <2>1, <2>2, <2>3, <2>4
<1>2. i1 \in Items /\ i1.kind = "block" /\ i1.block = b /\ i1.depth = e
  BY <1>1, KindFacts DEF Line, Items, Lines
<1>3. i2 \in Items /\ i2.kind = "if" /\ i2.block = b /\ i2.depth = e
  BY <1>1, KindFacts DEF Line, Items, Lines
<1>4. /\ i3 \in Items /\ i3.kind = "path" /\ i3.block = t /\ i3.stop = join
      /\ i3.depth = e + 1
  BY <1>1, PathFacts
<1>5. i4 \in Items /\ i4.kind = "end" /\ i4.block = b /\ i4.depth = e
  BY <1>1, KindFacts DEF Line, Items, Lines
<1>6. /\ i5 \in Items /\ i5.kind = "path" /\ i5.block = join /\ i5.stop = stop
      /\ i5.depth = e
  BY <1>1, PathFacts
<1> HIDE DEF i1, i2, i3, i4, i5
<1>7. PICK s : s = <<i1, i2, i3, i4, i5>>
  OBVIOUS
<1>8. /\ s \in Seq(Items) /\ Len(s) = 5 /\ s[1] = i1 /\ s[2] = i2 /\ s[3] = i3
      /\ s[4] = i4 /\ s[5] = i5
  <2>1. i1 \in Items /\ i2 \in Items /\ i3 \in Items /\ i4 \in Items /\ i5 \in Items
    BY <1>2, <1>3, <1>4, <1>5, <1>6
  <2> QED BY <2>1, <1>7
<1>9. PICK u : u = <<b, NoBlock, t, join, join, next>>
  OBVIOUS
<1>10. /\ u \in Seq(Blocks \cup {NoBlock}) /\ Len(u) = 6 /\ u[1] = b /\ u[2] = NoBlock
      /\ u[3] = t /\ u[4] = join /\ u[5] = join /\ u[6] = next
  BY <1>1, <1>9
<1>11. FitsAt(s, u, 1)
  <2>1. s[1] = i1 /\ u[1] = b /\ u[1 + 1] = NoBlock /\ s[1 + 1] = i2 /\ 1 < Len(s)
    BY <1>8, <1>10
  <2> QED BY <2>1, <1>1, <1>2, <1>3, FitBlock
<1>12. FitsAt(s, u, 2)
  <2>1. Closes(s, 2, 4, ElseEnd)
    <3>1. 2 + 1 .. 4 - 1 = {3} /\ 4 \in 2 + 1 .. 5
      OBVIOUS
    <3> QED BY <3>1, <1>1, <1>2, <1>3, <1>4, <1>5, <1>6, <1>8 DEF Closes, ElseEnd
  <2>2. u[2 + 1] = t /\ u[4 + 1] = join /\ u[2] = NoBlock /\ s[2] = i2 /\ s[2 - 1] = i1
    BY <1>8, <1>10
  <2>3. /\ s[2].kind = "if" /\ s[2].block = b /\ Len(Successors(s[2].block)) = 2
        /\ s[2 - 1].kind = "block" /\ s[2 - 1].block = s[2].block
        /\ u[2 + 1] = Goes(s[2].block, TRUE) /\ u[4 + 1] = Goes(s[2].block, FALSE)
    BY <2>2, <1>1, <1>3, <1>2, <1>4
  <2>4. 2 > 1 /\ 2 \in Nat
    OBVIOUS
  <2> QED BY ONLY <2>1, <2>3, <2>4, FitIf
<1>13. FitsAt(s, u, 3)
  <2>1. /\ s[3] = i3 /\ u[3] = t /\ u[3 + 1] = join /\ s[3 - 1] = i2 /\ s[3 - 2] = i1
        /\ s[3 + 1] = i4 /\ 3 < Len(s)
    BY <1>8, <1>10
  <2> QED BY <2>1, <1>1, <1>4, <1>2, <1>3, <1>5, FitPath
<1>14. FitsAt(s, u, 4)
  <2>1. /\ s[4] = i4 /\ u[4] = join /\ u[4 + 1] = join /\ s[4 - 1] = i3 /\ s[4 - 2] = i2
        /\ s[4 + 1] = i5 /\ 4 < Len(s)
    BY <1>8, <1>10
  <2> QED BY <2>1, <1>1, <1>5, <1>3, <1>4, <1>6, FitEnd
<1>15. FitsAt(s, u, 5)
  <2>1. s[5] = i5 /\ u[5] = join /\ u[5 + 1] = next /\ s[5 - 1] = i4 /\ s[5 - 2] = i3
    BY <1>8, <1>10
  <2> QED BY <2>1, <1>1, <1>6, <1>4, <1>5, FitPath
<1>16. Fits(s, u) /\ u[1] = b /\ u[Len(s) + 1] = next
  <2>1. \A k \in 1 .. Len(s) : FitsAt(s, u, k)
    <3>1. 1 .. Len(s) = {1, 2, 3, 4, 5}
      BY <1>8
    <3> QED BY <3>1, <1>11, <1>12, <1>13, <1>14, <1>15
  <2>2. Len(u) = Len(s) + 1 /\ u[1] = b /\ u[Len(s) + 1] = next
    BY <1>8, <1>10
  <2>3. Fits(s, u)
    BY <2>1, <2>2, <1>8, <1>10, AllFit
  <2> QED BY <2>2, <2>3
<1>17. Follows(s, 2, b, stop, e, {join})
  BY <1>1, <1>3, <1>8 DEF Follows, WorkKinds
<1>18. Follows(s, 3, b, stop, e, {join})
  <2>1. 5 \in 3 + 1 .. Len(s) /\ s[5] = i5 /\ s[3] = i3
    BY <1>8
  <2>2. Comes(s, 3 + 1, join)
    BY <2>1, <1>1, <1>6 DEF Comes
  <2> QED BY <2>1, <2>2, <1>1, <1>4 DEF Follows, WorkKinds
<1>19. Follows(s, 4, b, stop, e, {join})
  BY <1>1, <1>5, <1>8 DEF Follows, WorkKinds
<1>20. Follows(s, 5, b, stop, e, {join})
  BY <1>1, <1>6, <1>8 DEF Follows, WorkKinds
<1>21. Comes(s, 1, t)
  <2>1. 3 \in 1 .. Len(s) /\ s[3] = i3
    BY <1>8
  <2> QED BY <2>1, <1>4 DEF Comes
<1>22. Comes(s, 1, b + 1)
  <2>1. 5 \in 1 .. Len(s) /\ s[5] = i5
    BY <1>8
  <2> QED BY <2>1, <1>6 DEF Comes
<1>23. \A i \in 2 .. Len(s) : Follows(s, i, b, stop, e, {join})
  <2>1. 2 .. Len(s) = {2, 3, 4, 5}
    BY <1>8
  <2> QED BY <2>1, <1>17, <1>18, <1>19, <1>20
<1>24. \A way \in ToSet(Successors(b)) : Comes(s, 1, way)
  BY <1>1, <1>21, <1>22
<1>25. Expands(s, b, stop, e, {join}, next)
  BY <1>2, <1>8, <1>16, <1>23, <1>24 DEF Expands
<1> QED BY <1>25, <1>7 DEF i1, i2, i3, i4, i5

\* Two arms and their join.
LEMMA FitsIfElse ==
  ASSUME GraphInv, NEW b \in Blocks, NEW stop \in Blocks \cup {NoBlock}, NEW e \in Nat,
         NEW next \in Blocks \cup {NoBlock}, stop # NoBlock => next = stop,
         NEW t, t = graph[b].target, Len(Successors(b)) = 2, NEW join \in Blocks
  PROVE  Expands(<<Line("block", b, e), Line("if", b, e), Path(t, join, e + 1),
                   Line("else", b, e), Path(b + 1, join, e + 1), Line("end", b, e),
                   Path(join, stop, e)>>,
                 b, stop, e, {join}, next)
<1> DEFINE i1 == Line("block", b, e)
           i2 == Line("if", b, e)
           i3 == Path(t, join, e + 1)
           i4 == Line("else", b, e)
           i5 == Path(b + 1, join, e + 1)
           i6 == Line("end", b, e)
           i7 == Path(join, stop, e)
<1>1. /\ Successors(b) = <<t, b + 1>> /\ Len(Successors(b)) = 2
      /\ ToSet(Successors(b)) = {t, b + 1} /\ t \in Blocks /\ b + 1 \in Blocks
      /\ Goes(b, TRUE) = t /\ Goes(b, FALSE) = b + 1 /\ NoBlock \notin Blocks
      /\ e + 1 \in Nat /\ e + 1 > e /\ e >= e /\ e + 1 >= e
  <2>1. Successors(b) = <<t, b + 1>> /\ t \in Blocks /\ b + 1 \in Blocks
        /\ Goes(b, TRUE) = t /\ Goes(b, FALSE) = b + 1
    BY ONLY GraphInv, b \in Blocks, t = graph[b].target, Len(Successors(b)) = 2, TwoSuccessors
  <2>2. ToSet(Successors(b)) = {t, b + 1}
    BY <2>1, ToSetTwo
  <2>3. NoBlock \notin Blocks
    BY BlocksFacts
  <2>4. e + 1 \in Nat /\ e + 1 > e /\ e >= e /\ e + 1 >= e
    OBVIOUS
  <2> QED BY <2>1, <2>2, <2>3, <2>4
<1>2. i1 \in Items /\ i1.kind = "block" /\ i1.block = b /\ i1.depth = e
  BY <1>1, KindFacts DEF Line, Items, Lines
<1>3. i2 \in Items /\ i2.kind = "if" /\ i2.block = b /\ i2.depth = e
  BY <1>1, KindFacts DEF Line, Items, Lines
<1>4. /\ i3 \in Items /\ i3.kind = "path" /\ i3.block = t /\ i3.stop = join
      /\ i3.depth = e + 1
  BY <1>1, PathFacts
<1>5. i4 \in Items /\ i4.kind = "else" /\ i4.block = b /\ i4.depth = e
  BY <1>1, KindFacts DEF Line, Items, Lines
<1>6. /\ i5 \in Items /\ i5.kind = "path" /\ i5.block = b + 1 /\ i5.stop = join
      /\ i5.depth = e + 1
  BY <1>1, PathFacts
<1>7. i6 \in Items /\ i6.kind = "end" /\ i6.block = b /\ i6.depth = e
  BY <1>1, KindFacts DEF Line, Items, Lines
<1>8. /\ i7 \in Items /\ i7.kind = "path" /\ i7.block = join /\ i7.stop = stop
      /\ i7.depth = e
  BY <1>1, PathFacts
<1> HIDE DEF i1, i2, i3, i4, i5, i6, i7
<1>9. PICK s : s = <<i1, i2, i3, i4, i5, i6, i7>>
  OBVIOUS
<1>10. /\ s \in Seq(Items) /\ Len(s) = 7 /\ s[1] = i1 /\ s[2] = i2 /\ s[3] = i3
      /\ s[4] = i4 /\ s[5] = i5 /\ s[6] = i6 /\ s[7] = i7
  <2>1. /\ i1 \in Items /\ i2 \in Items /\ i3 \in Items /\ i4 \in Items /\ i5 \in Items
        /\ i6 \in Items /\ i7 \in Items
    BY <1>2, <1>3, <1>4, <1>5, <1>6, <1>7, <1>8
  <2> QED BY <2>1, <1>9
<1>11. PICK u : u = <<b, NoBlock, t, join, b + 1, join, join, next>>
  OBVIOUS
<1>12. /\ u \in Seq(Blocks \cup {NoBlock}) /\ Len(u) = 8 /\ u[1] = b /\ u[2] = NoBlock
      /\ u[3] = t /\ u[4] = join /\ u[5] = b + 1 /\ u[6] = join /\ u[7] = join
      /\ u[8] = next
  BY <1>1, <1>11
<1>13. FitsAt(s, u, 1)
  <2>1. s[1] = i1 /\ u[1] = b /\ u[1 + 1] = NoBlock /\ s[1 + 1] = i2 /\ 1 < Len(s)
    BY <1>10, <1>12
  <2> QED BY <2>1, <1>1, <1>2, <1>3, FitBlock
<1>14. FitsAt(s, u, 2)
  <2>1. Closes(s, 2, 4, ElseEnd)
    <3>1. 2 + 1 .. 4 - 1 = {3} /\ 4 \in 2 + 1 .. 7
      OBVIOUS
    <3> QED BY <3>1, <1>1, <1>2, <1>3, <1>4, <1>5, <1>6, <1>7, <1>8, <1>10 DEF Closes, ElseEnd
  <2>2. u[2 + 1] = t /\ u[4 + 1] = b + 1 /\ u[2] = NoBlock /\ s[2] = i2 /\ s[2 - 1] = i1
    BY <1>10, <1>12
  <2>3. /\ s[2].kind = "if" /\ s[2].block = b /\ Len(Successors(s[2].block)) = 2
        /\ s[2 - 1].kind = "block" /\ s[2 - 1].block = s[2].block
        /\ u[2 + 1] = Goes(s[2].block, TRUE) /\ u[4 + 1] = Goes(s[2].block, FALSE)
    BY <2>2, <1>1, <1>3, <1>2, <1>4
  <2>4. 2 > 1 /\ 2 \in Nat
    OBVIOUS
  <2> QED BY ONLY <2>1, <2>3, <2>4, FitIf
<1>15. FitsAt(s, u, 3)
  <2>1. /\ s[3] = i3 /\ u[3] = t /\ u[3 + 1] = join /\ s[3 - 1] = i2 /\ s[3 - 2] = i1
        /\ s[3 + 1] = i4 /\ 3 < Len(s)
    BY <1>10, <1>12
  <2> QED BY <2>1, <1>1, <1>4, <1>2, <1>3, <1>5, FitPath
<1>16. FitsAt(s, u, 4)
  <2>1. Closes(s, 4, 6, {"end"})
    <3>1. 4 + 1 .. 6 - 1 = {5} /\ 6 \in 4 + 1 .. 7
      OBVIOUS
    <3> QED BY <3>1, <1>1, <1>2, <1>3, <1>4, <1>5, <1>6, <1>7, <1>8, <1>10 DEF Closes, ElseEnd
  <2>2. u[4 + 1] = b + 1 /\ u[6 + 1] = join /\ u[4] = join /\ s[4] = i4 /\ s[4 - 1] = i3
    BY <1>10, <1>12
  <2> QED BY <2>1, <2>2, <1>1, <1>5, <1>3, <1>4, <1>6, FitElse
<1>17. FitsAt(s, u, 5)
  <2>1. /\ s[5] = i5 /\ u[5] = b + 1 /\ u[5 + 1] = join /\ s[5 - 1] = i4 /\ s[5 - 2] = i3
        /\ s[5 + 1] = i6 /\ 5 < Len(s)
    BY <1>10, <1>12
  <2> QED BY <2>1, <1>1, <1>6, <1>4, <1>5, <1>7, FitPath
<1>18. FitsAt(s, u, 6)
  <2>1. /\ s[6] = i6 /\ u[6] = join /\ u[6 + 1] = join /\ s[6 - 1] = i5 /\ s[6 - 2] = i4
        /\ s[6 + 1] = i7 /\ 6 < Len(s)
    BY <1>10, <1>12
  <2> QED BY <2>1, <1>1, <1>7, <1>5, <1>6, <1>8, FitEnd
<1>19. FitsAt(s, u, 7)
  <2>1. s[7] = i7 /\ u[7] = join /\ u[7 + 1] = next /\ s[7 - 1] = i6 /\ s[7 - 2] = i5
    BY <1>10, <1>12
  <2> QED BY <2>1, <1>1, <1>8, <1>6, <1>7, FitPath
<1>20. Fits(s, u) /\ u[1] = b /\ u[Len(s) + 1] = next
  <2>1. \A k \in 1 .. Len(s) : FitsAt(s, u, k)
    <3>1. 1 .. Len(s) = {1, 2, 3, 4, 5, 6, 7}
      BY <1>10
    <3> QED BY <3>1, <1>13, <1>14, <1>15, <1>16, <1>17, <1>18, <1>19
  <2>2. Len(u) = Len(s) + 1 /\ u[1] = b /\ u[Len(s) + 1] = next
    BY <1>10, <1>12
  <2>3. Fits(s, u)
    BY <2>1, <2>2, <1>10, <1>12, AllFit
  <2> QED BY <2>2, <2>3
<1>21. Follows(s, 2, b, stop, e, {join})
  BY <1>1, <1>3, <1>10 DEF Follows, WorkKinds
<1>22. Follows(s, 3, b, stop, e, {join})
  <2>1. 7 \in 3 + 1 .. Len(s) /\ s[7] = i7 /\ s[3] = i3
    BY <1>10
  <2>2. Comes(s, 3 + 1, join)
    BY <2>1, <1>1, <1>8 DEF Comes
  <2> QED BY <2>1, <2>2, <1>1, <1>4 DEF Follows, WorkKinds
<1>23. Follows(s, 4, b, stop, e, {join})
  BY <1>1, <1>5, <1>10 DEF Follows, WorkKinds
<1>24. Follows(s, 5, b, stop, e, {join})
  <2>1. 7 \in 5 + 1 .. Len(s) /\ s[7] = i7 /\ s[5] = i5
    BY <1>10
  <2>2. Comes(s, 5 + 1, join)
    BY <2>1, <1>1, <1>8 DEF Comes
  <2> QED BY <2>1, <2>2, <1>1, <1>6 DEF Follows, WorkKinds
<1>25. Follows(s, 6, b, stop, e, {join})
  BY <1>1, <1>7, <1>10 DEF Follows, WorkKinds
<1>26. Follows(s, 7, b, stop, e, {join})
  BY <1>1, <1>8, <1>10 DEF Follows, WorkKinds
<1>27. Comes(s, 1, t)
  <2>1. 3 \in 1 .. Len(s) /\ s[3] = i3
    BY <1>10
  <2> QED BY <2>1, <1>4 DEF Comes
<1>28. Comes(s, 1, b + 1)
  <2>1. 5 \in 1 .. Len(s) /\ s[5] = i5
    BY <1>10
  <2> QED BY <2>1, <1>6 DEF Comes
<1>29. \A i \in 2 .. Len(s) : Follows(s, i, b, stop, e, {join})
  <2>1. 2 .. Len(s) = {2, 3, 4, 5, 6, 7}
    BY <1>10
  <2> QED BY <2>1, <1>21, <1>22, <1>23, <1>24, <1>25, <1>26
<1>30. \A way \in ToSet(Successors(b)) : Comes(s, 1, way)
  BY <1>1, <1>27, <1>28
<1>31. Expands(s, b, stop, e, {join}, next)
  BY <1>2, <1>10, <1>20, <1>29, <1>30 DEF Expands
<1> QED BY <1>31, <1>9 DEF i1, i2, i3, i4, i5, i6, i7

\* Two arms that do not join.
LEMMA FitsApart ==
  ASSUME GraphInv, NEW b \in Blocks, NEW stop \in Blocks \cup {NoBlock}, NEW e \in Nat,
         NEW next \in Blocks \cup {NoBlock}, stop # NoBlock => next = stop,
         NEW t, t = graph[b].target, Len(Successors(b)) = 2
  PROVE  Expands(<<Line("block", b, e), Line("if", b, e), Path(t, NoBlock, e + 1),
                   Line("else", b, e), Path(b + 1, NoBlock, e + 1), Line("end", b, e)>>,
                 b, stop, e, {}, next)
<1> DEFINE i1 == Line("block", b, e)
           i2 == Line("if", b, e)
           i3 == Path(t, NoBlock, e + 1)
           i4 == Line("else", b, e)
           i5 == Path(b + 1, NoBlock, e + 1)
           i6 == Line("end", b, e)
<1>1. /\ Successors(b) = <<t, b + 1>> /\ Len(Successors(b)) = 2
      /\ ToSet(Successors(b)) = {t, b + 1} /\ t \in Blocks /\ b + 1 \in Blocks
      /\ Goes(b, TRUE) = t /\ Goes(b, FALSE) = b + 1 /\ NoBlock \notin Blocks
      /\ e + 1 \in Nat /\ e + 1 > e /\ e >= e /\ e + 1 >= e
  <2>1. Successors(b) = <<t, b + 1>> /\ t \in Blocks /\ b + 1 \in Blocks
        /\ Goes(b, TRUE) = t /\ Goes(b, FALSE) = b + 1
    BY ONLY GraphInv, b \in Blocks, t = graph[b].target, Len(Successors(b)) = 2, TwoSuccessors
  <2>2. ToSet(Successors(b)) = {t, b + 1}
    BY <2>1, ToSetTwo
  <2>3. NoBlock \notin Blocks
    BY BlocksFacts
  <2>4. e + 1 \in Nat /\ e + 1 > e /\ e >= e /\ e + 1 >= e
    OBVIOUS
  <2> QED BY <2>1, <2>2, <2>3, <2>4
<1>2. i1 \in Items /\ i1.kind = "block" /\ i1.block = b /\ i1.depth = e
  BY <1>1, KindFacts DEF Line, Items, Lines
<1>3. i2 \in Items /\ i2.kind = "if" /\ i2.block = b /\ i2.depth = e
  BY <1>1, KindFacts DEF Line, Items, Lines
<1>4. /\ i3 \in Items /\ i3.kind = "path" /\ i3.block = t /\ i3.stop = NoBlock
      /\ i3.depth = e + 1
  BY <1>1, PathFacts
<1>5. i4 \in Items /\ i4.kind = "else" /\ i4.block = b /\ i4.depth = e
  BY <1>1, KindFacts DEF Line, Items, Lines
<1>6. /\ i5 \in Items /\ i5.kind = "path" /\ i5.block = b + 1 /\ i5.stop = NoBlock
      /\ i5.depth = e + 1
  BY <1>1, PathFacts
<1>7. i6 \in Items /\ i6.kind = "end" /\ i6.block = b /\ i6.depth = e
  BY <1>1, KindFacts DEF Line, Items, Lines
<1> HIDE DEF i1, i2, i3, i4, i5, i6
<1>8. PICK s : s = <<i1, i2, i3, i4, i5, i6>>
  OBVIOUS
<1>9. /\ s \in Seq(Items) /\ Len(s) = 6 /\ s[1] = i1 /\ s[2] = i2 /\ s[3] = i3
      /\ s[4] = i4 /\ s[5] = i5 /\ s[6] = i6
  <2>1. /\ i1 \in Items /\ i2 \in Items /\ i3 \in Items /\ i4 \in Items /\ i5 \in Items
        /\ i6 \in Items
    BY <1>2, <1>3, <1>4, <1>5, <1>6, <1>7
  <2> QED BY <2>1, <1>8
<1>10. PICK u : u = <<b, NoBlock, t, NoBlock, b + 1, NoBlock, next>>
  OBVIOUS
<1>11. /\ u \in Seq(Blocks \cup {NoBlock}) /\ Len(u) = 7 /\ u[1] = b /\ u[2] = NoBlock
      /\ u[3] = t /\ u[4] = NoBlock /\ u[5] = b + 1 /\ u[6] = NoBlock /\ u[7] = next
  BY <1>1, <1>10
<1>12. FitsAt(s, u, 1)
  <2>1. s[1] = i1 /\ u[1] = b /\ u[1 + 1] = NoBlock /\ s[1 + 1] = i2 /\ 1 < Len(s)
    BY <1>9, <1>11
  <2> QED BY <2>1, <1>1, <1>2, <1>3, FitBlock
<1>13. FitsAt(s, u, 2)
  <2>1. Closes(s, 2, 4, ElseEnd)
    <3>1. 2 + 1 .. 4 - 1 = {3} /\ 4 \in 2 + 1 .. 6
      OBVIOUS
    <3> QED BY <3>1, <1>1, <1>2, <1>3, <1>4, <1>5, <1>6, <1>7, <1>9 DEF Closes, ElseEnd
  <2>2. u[2 + 1] = t /\ u[4 + 1] = b + 1 /\ u[2] = NoBlock /\ s[2] = i2 /\ s[2 - 1] = i1
    BY <1>9, <1>11
  <2>3. /\ s[2].kind = "if" /\ s[2].block = b /\ Len(Successors(s[2].block)) = 2
        /\ s[2 - 1].kind = "block" /\ s[2 - 1].block = s[2].block
        /\ u[2 + 1] = Goes(s[2].block, TRUE) /\ u[4 + 1] = Goes(s[2].block, FALSE)
    BY <2>2, <1>1, <1>3, <1>2, <1>4
  <2>4. 2 > 1 /\ 2 \in Nat
    OBVIOUS
  <2> QED BY ONLY <2>1, <2>3, <2>4, FitIf
<1>14. FitsAt(s, u, 3)
  <2>1. /\ s[3] = i3 /\ u[3] = t /\ u[3 + 1] = NoBlock /\ s[3 - 1] = i2 /\ s[3 - 2] = i1
        /\ s[3 + 1] = i4 /\ 3 < Len(s)
    BY <1>9, <1>11
  <2> QED BY <2>1, <1>1, <1>4, <1>2, <1>3, <1>5, FitPath
<1>15. FitsAt(s, u, 4)
  <2>1. Closes(s, 4, 6, {"end"})
    <3>1. 4 + 1 .. 6 - 1 = {5} /\ 6 \in 4 + 1 .. 6
      OBVIOUS
    <3> QED BY <3>1, <1>1, <1>2, <1>3, <1>4, <1>5, <1>6, <1>7, <1>9 DEF Closes, ElseEnd
  <2>2. u[4 + 1] = b + 1 /\ u[6 + 1] = next /\ u[4] = NoBlock /\ s[4] = i4 /\ s[4 - 1] = i3
    BY <1>9, <1>11
  <2> QED BY <2>1, <2>2, <1>1, <1>5, <1>3, <1>4, <1>6, FitElse
<1>16. FitsAt(s, u, 5)
  <2>1. /\ s[5] = i5 /\ u[5] = b + 1 /\ u[5 + 1] = NoBlock /\ s[5 - 1] = i4
        /\ s[5 - 2] = i3 /\ s[5 + 1] = i6 /\ 5 < Len(s)
    BY <1>9, <1>11
  <2> QED BY <2>1, <1>1, <1>6, <1>4, <1>5, <1>7, FitPath
<1>17. FitsAt(s, u, 6)
  <2>1. /\ s[6] = i6 /\ u[6] = NoBlock /\ u[6 + 1] = next /\ s[6 - 1] = i5
        /\ s[6 - 2] = i4
    BY <1>9, <1>11
  <2> QED BY <2>1, <1>1, <1>7, <1>5, <1>6, FitEnd
<1>18. Fits(s, u) /\ u[1] = b /\ u[Len(s) + 1] = next
  <2>1. \A k \in 1 .. Len(s) : FitsAt(s, u, k)
    <3>1. 1 .. Len(s) = {1, 2, 3, 4, 5, 6}
      BY <1>9
    <3> QED BY <3>1, <1>12, <1>13, <1>14, <1>15, <1>16, <1>17
  <2>2. Len(u) = Len(s) + 1 /\ u[1] = b /\ u[Len(s) + 1] = next
    BY <1>9, <1>11
  <2>3. Fits(s, u)
    BY <2>1, <2>2, <1>9, <1>11, AllFit
  <2> QED BY <2>2, <2>3
<1>19. Follows(s, 2, b, stop, e, {})
  BY <1>1, <1>3, <1>9 DEF Follows, WorkKinds
<1>20. Follows(s, 3, b, stop, e, {})
  BY <1>1, <1>4, <1>9 DEF Follows, WorkKinds
<1>21. Follows(s, 4, b, stop, e, {})
  BY <1>1, <1>5, <1>9 DEF Follows, WorkKinds
<1>22. Follows(s, 5, b, stop, e, {})
  BY <1>1, <1>6, <1>9 DEF Follows, WorkKinds
<1>23. Follows(s, 6, b, stop, e, {})
  BY <1>1, <1>7, <1>9 DEF Follows, WorkKinds
<1>24. Comes(s, 1, t)
  <2>1. 3 \in 1 .. Len(s) /\ s[3] = i3
    BY <1>9
  <2> QED BY <2>1, <1>4 DEF Comes
<1>25. Comes(s, 1, b + 1)
  <2>1. 5 \in 1 .. Len(s) /\ s[5] = i5
    BY <1>9
  <2> QED BY <2>1, <1>6 DEF Comes
<1>26. \A i \in 2 .. Len(s) : Follows(s, i, b, stop, e, {})
  <2>1. 2 .. Len(s) = {2, 3, 4, 5, 6}
    BY <1>9
  <2> QED BY <2>1, <1>19, <1>20, <1>21, <1>22, <1>23
<1>27. \A way \in ToSet(Successors(b)) : Comes(s, 1, way)
  BY <1>1, <1>24, <1>25
<1>28. Expands(s, b, stop, e, {}, next)
  BY <1>2, <1>9, <1>18, <1>26, <1>27 DEF Expands
<1> QED BY <1>28, <1>8 DEF i1, i2, i3, i4, i5, i6

--------------------------------------------------------------------------------
(***************************************************************************)
(* What emitFallbackControlFlow prints for block b: its label, and its     *)
(* statements once; and it fits, whatever is executed after it.            *)
(***************************************************************************)
Chunk(s, b, next) ==
  /\ s \in Seq(Items) /\ Len(s) \in Nat \ {0}
  /\ s[1].kind = "label" /\ s[1].block = b
  /\ \A i \in 1 .. Len(s) : s[i].depth >= 1 /\ s[i].kind # "path"
  /\ \E k \in 1 .. Len(s) : /\ s[k].block = b
                            /\ \A i \in 1 .. Len(s) : s[i].kind = "block" <=> i = k
  /\ \E u : Fits(s, u) /\ u[1] = b /\ u[Len(s) + 1] = next

\* A block that ends the function.
LEMMA ChunkEnd ==
  ASSUME GraphInv, NEW b \in Blocks, NEW next \in Blocks \cup {NoBlock},
         Ends(b)
  PROVE  Chunk(<<Line("label", b, 1), Line("block", b, 2)>>, b, next)
<1> DEFINE i1 == Line("label", b, 1)
           i2 == Line("block", b, 2)
<1>1. Ends(b) /\ 1 \in Nat /\ 2 \in Nat
  OBVIOUS
<1>2. i1 \in Items /\ i1.kind = "label" /\ i1.block = b /\ i1.depth = 1
  BY <1>1, KindFacts DEF Line, Items, Lines
<1>3. i2 \in Items /\ i2.kind = "block" /\ i2.block = b /\ i2.depth = 2
  BY <1>1, KindFacts DEF Line, Items, Lines
<1> HIDE DEF i1, i2
<1>4. PICK s : s = <<i1, i2>>
  OBVIOUS
<1>5. s \in Seq(Items) /\ Len(s) = 2 /\ s[1] = i1 /\ s[2] = i2
  <2>1. i1 \in Items /\ i2 \in Items
    BY <1>2, <1>3
  <2> QED BY <2>1, <1>4
<1>6. PICK u : u = <<b, b, next>>
  OBVIOUS
<1>7. /\ u \in Seq(Blocks \cup {NoBlock}) /\ Len(u) = 3 /\ u[1] = b /\ u[2] = b
      /\ u[3] = next
  BY <1>1, <1>6
<1>8. FitsAt(s, u, 1)
  <2>1. s[1] = i1 /\ u[1] = b /\ u[1 + 1] = b /\ s[1 + 1] = i2 /\ 1 < Len(s)
    BY <1>5, <1>7
  <2> QED BY <2>1, <1>1, <1>2, <1>3, FitNext
<1>9. FitsAt(s, u, 2)
  <2>1. s[2] = i2 /\ u[2] = b /\ u[2 + 1] = next /\ s[2 - 1] = i1
    BY <1>5, <1>7
  <2> QED BY <2>1, <1>1, <1>3, <1>2, FitBlock
<1>10. Fits(s, u) /\ u[1] = b /\ u[Len(s) + 1] = next
  <2>1. \A k \in 1 .. Len(s) : FitsAt(s, u, k)
    <3>1. 1 .. Len(s) = {1, 2}
      BY <1>5
    <3> QED BY <3>1, <1>8, <1>9
  <2>2. Len(u) = Len(s) + 1 /\ u[1] = b /\ u[Len(s) + 1] = next
    BY <1>5, <1>7
  <2>3. Fits(s, u)
    BY <2>1, <2>2, <1>5, <1>7, AllFit
  <2> QED BY <2>2, <2>3
<1>11. Chunk(s, b, next)
  <2>1. \A i \in 1 .. Len(s) : s[i].depth >= 1 /\ s[i].kind # "path"
    <3>1. 1 .. Len(s) = {1, 2}
      BY <1>5
    <3> QED BY <3>1, <1>2, <1>3, <1>5
  <2>2. \A i \in 1 .. Len(s) : s[i].kind = "block" <=> i = 2
    <3>1. 1 .. Len(s) = {1, 2}
      BY <1>5
    <3> QED BY <3>1, <1>2, <1>3, <1>5
  <2>3. 2 \in 1 .. Len(s) /\ s[2].block = b
    BY <1>5, <1>3
  <2>4. 1 \in 1 .. Len(s) /\ s[1].kind = "label" /\ s[1].block = b
    BY <1>5, <1>2
  <2> QED BY <2>1, <2>2, <2>3, <2>4, <1>5, <1>10 DEF Chunk
<1> QED BY <1>11, <1>4 DEF i1, i2

\* A block that leads nowhere in the function.
LEMMA ChunkUnresolved ==
  ASSUME GraphInv, NEW b \in Blocks, NEW next \in Blocks \cup {NoBlock},
         Successors(b) = <<>>
  PROVE  Chunk(<<Line("label", b, 1), Line("block", b, 2), Line("unresolved", b, 2)>>, b, next)
<1> DEFINE i1 == Line("label", b, 1)
           i2 == Line("block", b, 2)
           i3 == Line("unresolved", b, 2)
<1>1. Successors(b) = <<>> /\ 1 \in Nat /\ 2 \in Nat
  OBVIOUS
<1>2. i1 \in Items /\ i1.kind = "label" /\ i1.block = b /\ i1.depth = 1
  BY <1>1, KindFacts DEF Line, Items, Lines
<1>3. i2 \in Items /\ i2.kind = "block" /\ i2.block = b /\ i2.depth = 2
  BY <1>1, KindFacts DEF Line, Items, Lines
<1>4. i3 \in Items /\ i3.kind = "unresolved" /\ i3.block = b /\ i3.depth = 2
  BY <1>1, KindFacts DEF Line, Items, Lines
<1> HIDE DEF i1, i2, i3
<1>5. PICK s : s = <<i1, i2, i3>>
  OBVIOUS
<1>6. s \in Seq(Items) /\ Len(s) = 3 /\ s[1] = i1 /\ s[2] = i2 /\ s[3] = i3
  <2>1. i1 \in Items /\ i2 \in Items /\ i3 \in Items
    BY <1>2, <1>3, <1>4
  <2> QED BY <2>1, <1>5
<1>7. PICK u : u = <<b, b, NoBlock, next>>
  OBVIOUS
<1>8. /\ u \in Seq(Blocks \cup {NoBlock}) /\ Len(u) = 4 /\ u[1] = b /\ u[2] = b
      /\ u[3] = NoBlock /\ u[4] = next
  BY <1>1, <1>7
<1>9. FitsAt(s, u, 1)
  <2>1. s[1] = i1 /\ u[1] = b /\ u[1 + 1] = b /\ s[1 + 1] = i2 /\ 1 < Len(s)
    BY <1>6, <1>8
  <2> QED BY <2>1, <1>1, <1>2, <1>3, FitNext
<1>10. FitsAt(s, u, 2)
  <2>1. /\ s[2] = i2 /\ u[2] = b /\ u[2 + 1] = NoBlock /\ s[2 - 1] = i1
        /\ s[2 + 1] = i3 /\ 2 < Len(s)
    BY <1>6, <1>8
  <2> QED BY <2>1, <1>1, <1>3, <1>2, <1>4, FitBlock
<1>11. FitsAt(s, u, 3)
  <2>1. /\ s[3] = i3 /\ u[3] = NoBlock /\ u[3 + 1] = next /\ s[3 - 1] = i2
        /\ s[3 - 2] = i1
    BY <1>6, <1>8
  <2> QED BY <2>1, <1>1, <1>4, <1>2, <1>3, FitUnresolved
<1>12. Fits(s, u) /\ u[1] = b /\ u[Len(s) + 1] = next
  <2>1. \A k \in 1 .. Len(s) : FitsAt(s, u, k)
    <3>1. 1 .. Len(s) = {1, 2, 3}
      BY <1>6
    <3> QED BY <3>1, <1>9, <1>10, <1>11
  <2>2. Len(u) = Len(s) + 1 /\ u[1] = b /\ u[Len(s) + 1] = next
    BY <1>6, <1>8
  <2>3. Fits(s, u)
    BY <2>1, <2>2, <1>6, <1>8, AllFit
  <2> QED BY <2>2, <2>3
<1>13. Chunk(s, b, next)
  <2>1. \A i \in 1 .. Len(s) : s[i].depth >= 1 /\ s[i].kind # "path"
    <3>1. 1 .. Len(s) = {1, 2, 3}
      BY <1>6
    <3> QED BY <3>1, <1>2, <1>3, <1>4, <1>6
  <2>2. \A i \in 1 .. Len(s) : s[i].kind = "block" <=> i = 2
    <3>1. 1 .. Len(s) = {1, 2, 3}
      BY <1>6
    <3> QED BY <3>1, <1>2, <1>3, <1>4, <1>6
  <2>3. 2 \in 1 .. Len(s) /\ s[2].block = b
    BY <1>6, <1>3
  <2>4. 1 \in 1 .. Len(s) /\ s[1].kind = "label" /\ s[1].block = b
    BY <1>6, <1>2
  <2> QED BY <2>1, <2>2, <2>3, <2>4, <1>6, <1>12 DEF Chunk
<1> QED BY <1>13, <1>5 DEF i1, i2, i3

\* The only successor.
LEMMA ChunkGoto ==
  ASSUME GraphInv, NEW b \in Blocks, NEW next \in Blocks \cup {NoBlock},
         NEW c \in Blocks, Successors(b) = <<c>>
  PROVE  Chunk(<<Line("label", b, 1), Line("block", b, 2), Line("goto", c, 2)>>, b, next)
<1> DEFINE i1 == Line("label", b, 1)
           i2 == Line("block", b, 2)
           i3 == Line("goto", c, 2)
<1>1. Successors(b) = <<c>> /\ 1 \in Nat /\ 2 \in Nat
  OBVIOUS
<1>2. i1 \in Items /\ i1.kind = "label" /\ i1.block = b /\ i1.depth = 1
  BY <1>1, KindFacts DEF Line, Items, Lines
<1>3. i2 \in Items /\ i2.kind = "block" /\ i2.block = b /\ i2.depth = 2
  BY <1>1, KindFacts DEF Line, Items, Lines
<1>4. i3 \in Items /\ i3.kind = "goto" /\ i3.block = c /\ i3.depth = 2
  BY <1>1, KindFacts DEF Line, Items, Lines
<1> HIDE DEF i1, i2, i3
<1>5. PICK s : s = <<i1, i2, i3>>
  OBVIOUS
<1>6. s \in Seq(Items) /\ Len(s) = 3 /\ s[1] = i1 /\ s[2] = i2 /\ s[3] = i3
  <2>1. i1 \in Items /\ i2 \in Items /\ i3 \in Items
    BY <1>2, <1>3, <1>4
  <2> QED BY <2>1, <1>5
<1>7. PICK u : u = <<b, b, c, next>>
  OBVIOUS
<1>8. /\ u \in Seq(Blocks \cup {NoBlock}) /\ Len(u) = 4 /\ u[1] = b /\ u[2] = b
      /\ u[3] = c /\ u[4] = next
  BY <1>1, <1>7
<1>9. FitsAt(s, u, 1)
  <2>1. s[1] = i1 /\ u[1] = b /\ u[1 + 1] = b /\ s[1 + 1] = i2 /\ 1 < Len(s)
    BY <1>6, <1>8
  <2> QED BY <2>1, <1>1, <1>2, <1>3, FitNext
<1>10. FitsAt(s, u, 2)
  <2>1. /\ s[2] = i2 /\ u[2] = b /\ u[2 + 1] = c /\ s[2 - 1] = i1
        /\ s[2 + 1] = i3 /\ 2 < Len(s)
    BY <1>6, <1>8
  <2> QED BY <2>1, <1>1, <1>3, <1>2, <1>4, FitBlock
<1>11. FitsAt(s, u, 3)
  <2>1. s[3] = i3 /\ u[3] = c /\ u[3 + 1] = next /\ s[3 - 1] = i2 /\ s[3 - 2] = i1
    BY <1>6, <1>8
  <2> QED BY <2>1, <1>1, <1>4, <1>2, <1>3, FitHere
<1>12. Fits(s, u) /\ u[1] = b /\ u[Len(s) + 1] = next
  <2>1. \A k \in 1 .. Len(s) : FitsAt(s, u, k)
    <3>1. 1 .. Len(s) = {1, 2, 3}
      BY <1>6
    <3> QED BY <3>1, <1>9, <1>10, <1>11
  <2>2. Len(u) = Len(s) + 1 /\ u[1] = b /\ u[Len(s) + 1] = next
    BY <1>6, <1>8
  <2>3. Fits(s, u)
    BY <2>1, <2>2, <1>6, <1>8, AllFit
  <2> QED BY <2>2, <2>3
<1>13. Chunk(s, b, next)
  <2>1. \A i \in 1 .. Len(s) : s[i].depth >= 1 /\ s[i].kind # "path"
    <3>1. 1 .. Len(s) = {1, 2, 3}
      BY <1>6
    <3> QED BY <3>1, <1>2, <1>3, <1>4, <1>6
  <2>2. \A i \in 1 .. Len(s) : s[i].kind = "block" <=> i = 2
    <3>1. 1 .. Len(s) = {1, 2, 3}
      BY <1>6
    <3> QED BY <3>1, <1>2, <1>3, <1>4, <1>6
  <2>3. 2 \in 1 .. Len(s) /\ s[2].block = b
    BY <1>6, <1>3
  <2>4. 1 \in 1 .. Len(s) /\ s[1].kind = "label" /\ s[1].block = b
    BY <1>6, <1>2
  <2> QED BY <2>1, <2>2, <2>3, <2>4, <1>6, <1>12 DEF Chunk
<1> QED BY <1>13, <1>5 DEF i1, i2, i3

\* A block that branches to itself.
LEMMA ChunkLoop ==
  ASSUME GraphInv, NEW b \in Blocks, NEW next \in Blocks \cup {NoBlock},
         NEW t, t = graph[b].target, Len(Successors(b)) = 2, t = b
  PROVE  Chunk(<<Line("label", b, 1), Line("do", b, 2), Line("block", b, 3),
                 Line("while", b, 2), Line("goto", b + 1, 2)>>, b, next)
<1> DEFINE i1 == Line("label", b, 1)
           i2 == Line("do", b, 2)
           i3 == Line("block", b, 3)
           i4 == Line("while", b, 2)
           i5 == Line("goto", b + 1, 2)
<1>1. /\ Successors(b) = <<t, b + 1>> /\ Len(Successors(b)) = 2 /\ t \in Blocks
      /\ b + 1 \in Blocks /\ Goes(b, TRUE) = t /\ Goes(b, FALSE) = b + 1
      /\ 1 \in Nat /\ 2 \in Nat /\ 3 \in Nat /\ t = b
  <2>1. Successors(b) = <<t, b + 1>> /\ t \in Blocks /\ b + 1 \in Blocks
        /\ Goes(b, TRUE) = t /\ Goes(b, FALSE) = b + 1
    BY ONLY GraphInv, b \in Blocks, t = graph[b].target, Len(Successors(b)) = 2, TwoSuccessors
  <2> QED BY <2>1
<1>2. i1 \in Items /\ i1.kind = "label" /\ i1.block = b /\ i1.depth = 1
  BY <1>1, KindFacts DEF Line, Items, Lines
<1>3. i2 \in Items /\ i2.kind = "do" /\ i2.block = b /\ i2.depth = 2
  BY <1>1, KindFacts DEF Line, Items, Lines
<1>4. i3 \in Items /\ i3.kind = "block" /\ i3.block = b /\ i3.depth = 3
  BY <1>1, KindFacts DEF Line, Items, Lines
<1>5. i4 \in Items /\ i4.kind = "while" /\ i4.block = b /\ i4.depth = 2
  BY <1>1, KindFacts DEF Line, Items, Lines
<1>6. i5 \in Items /\ i5.kind = "goto" /\ i5.block = b + 1 /\ i5.depth = 2
  BY <1>1, KindFacts DEF Line, Items, Lines
<1> HIDE DEF i1, i2, i3, i4, i5
<1>7. PICK s : s = <<i1, i2, i3, i4, i5>>
  OBVIOUS
<1>8. /\ s \in Seq(Items) /\ Len(s) = 5 /\ s[1] = i1 /\ s[2] = i2 /\ s[3] = i3
      /\ s[4] = i4 /\ s[5] = i5
  <2>1. i1 \in Items /\ i2 \in Items /\ i3 \in Items /\ i4 \in Items /\ i5 \in Items
    BY <1>2, <1>3, <1>4, <1>5, <1>6
  <2> QED BY <2>1, <1>7
<1>9. PICK u : u = <<b, b, b, NoBlock, b + 1, next>>
  OBVIOUS
<1>10. /\ u \in Seq(Blocks \cup {NoBlock}) /\ Len(u) = 6 /\ u[1] = b /\ u[2] = b
      /\ u[3] = b /\ u[4] = NoBlock /\ u[5] = b + 1 /\ u[6] = next
  BY <1>1, <1>9
<1>11. FitsAt(s, u, 1)
  <2>1. s[1] = i1 /\ u[1] = b /\ u[1 + 1] = b /\ s[1 + 1] = i2 /\ 1 < Len(s)
    BY <1>8, <1>10
  <2> QED BY <2>1, <1>1, <1>2, <1>3, FitNext
<1>12. FitsAt(s, u, 2)
  <2>1. /\ s[2] = i2 /\ u[2] = b /\ u[2 + 1] = b /\ s[2 - 1] = i1
        /\ s[2 + 1] = i3 /\ 2 < Len(s)
    BY <1>8, <1>10
  <2> QED BY <2>1, <1>1, <1>3, <1>2, <1>4, FitNext
<1>13. FitsAt(s, u, 3)
  <2>1. /\ s[3] = i3 /\ u[3] = b /\ u[3 + 1] = NoBlock /\ s[3 - 1] = i2 /\ s[3 - 2] = i1
        /\ s[3 + 1] = i4 /\ 3 < Len(s)
    BY <1>8, <1>10
  <2> QED BY <2>1, <1>1, <1>4, <1>2, <1>3, <1>5, FitBlock
<1>14. FitsAt(s, u, 4)
  <2>1. /\ s[4] = i4 /\ u[4] = NoBlock /\ u[4 + 1] = b + 1 /\ s[4 - 1] = i3
        /\ s[4 - 2] = i2 /\ s[4 + 1] = i5 /\ 4 < Len(s)
    BY <1>8, <1>10
  <2>2. /\ s[4].kind = "while" /\ s[4].block = b /\ Len(Successors(s[4].block)) = 2
        /\ s[4 - 1].kind = "block" /\ s[4 - 1].block = s[4].block /\ s[4 - 2].kind = "do"
        /\ s[4 - 2].block = s[4].block /\ u[4 + 1] = Goes(s[4].block, FALSE)
        /\ Goes(s[4].block, TRUE) = s[4].block
    BY <2>1, <1>1, <1>5, <1>3, <1>4, <1>6
  <2>3. 4 > 2 /\ 4 \in Nat
    OBVIOUS
  <2> QED BY ONLY <2>2, <2>3, FitWhile
<1>15. FitsAt(s, u, 5)
  <2>1. s[5] = i5 /\ u[5] = b + 1 /\ u[5 + 1] = next /\ s[5 - 1] = i4 /\ s[5 - 2] = i3
    BY <1>8, <1>10
  <2> QED BY <2>1, <1>1, <1>6, <1>4, <1>5, FitHere
<1>16. Fits(s, u) /\ u[1] = b /\ u[Len(s) + 1] = next
  <2>1. \A k \in 1 .. Len(s) : FitsAt(s, u, k)
    <3>1. 1 .. Len(s) = {1, 2, 3, 4, 5}
      BY <1>8
    <3> QED BY <3>1, <1>11, <1>12, <1>13, <1>14, <1>15
  <2>2. Len(u) = Len(s) + 1 /\ u[1] = b /\ u[Len(s) + 1] = next
    BY <1>8, <1>10
  <2>3. Fits(s, u)
    BY <2>1, <2>2, <1>8, <1>10, AllFit
  <2> QED BY <2>2, <2>3
<1>17. Chunk(s, b, next)
  <2>1. \A i \in 1 .. Len(s) : s[i].depth >= 1 /\ s[i].kind # "path"
    <3>1. 1 .. Len(s) = {1, 2, 3, 4, 5}
      BY <1>8
    <3> QED BY <3>1, <1>2, <1>3, <1>4, <1>5, <1>6, <1>8
  <2>2. \A i \in 1 .. Len(s) : s[i].kind = "block" <=> i = 3
    <3>1. 1 .. Len(s) = {1, 2, 3, 4, 5}
      BY <1>8
    <3> QED BY <3>1, <1>2, <1>3, <1>4, <1>5, <1>6, <1>8
  <2>3. 3 \in 1 .. Len(s) /\ s[3].block = b
    BY <1>8, <1>4
  <2>4. 1 \in 1 .. Len(s) /\ s[1].kind = "label" /\ s[1].block = b
    BY <1>8, <1>2
  <2> QED BY <2>1, <2>2, <2>3, <2>4, <1>8, <1>16 DEF Chunk
<1> QED BY <1>17, <1>7 DEF i1, i2, i3, i4, i5

\* A block that branches to others.
LEMMA ChunkIf ==
  ASSUME GraphInv, NEW b \in Blocks, NEW next \in Blocks \cup {NoBlock},
         NEW t, t = graph[b].target, Len(Successors(b)) = 2
  PROVE  Chunk(<<Line("label", b, 1), Line("block", b, 2), Line("if", b, 2),
                 Line("goto", t, 3), Line("end", b, 2), Line("goto", b + 1, 2)>>, b, next)
<1> DEFINE i1 == Line("label", b, 1)
           i2 == Line("block", b, 2)
           i3 == Line("if", b, 2)
           i4 == Line("goto", t, 3)
           i5 == Line("end", b, 2)
           i6 == Line("goto", b + 1, 2)
<1>1. /\ Successors(b) = <<t, b + 1>> /\ Len(Successors(b)) = 2 /\ t \in Blocks
      /\ b + 1 \in Blocks /\ Goes(b, TRUE) = t /\ Goes(b, FALSE) = b + 1
      /\ 1 \in Nat /\ 2 \in Nat /\ 3 \in Nat
  <2>1. Successors(b) = <<t, b + 1>> /\ t \in Blocks /\ b + 1 \in Blocks
        /\ Goes(b, TRUE) = t /\ Goes(b, FALSE) = b + 1
    BY ONLY GraphInv, b \in Blocks, t = graph[b].target, Len(Successors(b)) = 2, TwoSuccessors
  <2> QED BY <2>1
<1>2. i1 \in Items /\ i1.kind = "label" /\ i1.block = b /\ i1.depth = 1
  BY <1>1, KindFacts DEF Line, Items, Lines
<1>3. i2 \in Items /\ i2.kind = "block" /\ i2.block = b /\ i2.depth = 2
  BY <1>1, KindFacts DEF Line, Items, Lines
<1>4. i3 \in Items /\ i3.kind = "if" /\ i3.block = b /\ i3.depth = 2
  BY <1>1, KindFacts DEF Line, Items, Lines
<1>5. i4 \in Items /\ i4.kind = "goto" /\ i4.block = t /\ i4.depth = 3
  BY <1>1, KindFacts DEF Line, Items, Lines
<1>6. i5 \in Items /\ i5.kind = "end" /\ i5.block = b /\ i5.depth = 2
  BY <1>1, KindFacts DEF Line, Items, Lines
<1>7. i6 \in Items /\ i6.kind = "goto" /\ i6.block = b + 1 /\ i6.depth = 2
  BY <1>1, KindFacts DEF Line, Items, Lines
<1> HIDE DEF i1, i2, i3, i4, i5, i6
<1>8. PICK s : s = <<i1, i2, i3, i4, i5, i6>>
  OBVIOUS
<1>9. /\ s \in Seq(Items) /\ Len(s) = 6 /\ s[1] = i1 /\ s[2] = i2 /\ s[3] = i3
      /\ s[4] = i4 /\ s[5] = i5 /\ s[6] = i6
  <2>1. /\ i1 \in Items /\ i2 \in Items /\ i3 \in Items /\ i4 \in Items /\ i5 \in Items
        /\ i6 \in Items
    BY <1>2, <1>3, <1>4, <1>5, <1>6, <1>7
  <2> QED BY <2>1, <1>8
<1>10. PICK u : u = <<b, b, NoBlock, t, NoBlock, b + 1, next>>
  OBVIOUS
<1>11. /\ u \in Seq(Blocks \cup {NoBlock}) /\ Len(u) = 7 /\ u[1] = b /\ u[2] = b
      /\ u[3] = NoBlock /\ u[4] = t /\ u[5] = NoBlock /\ u[6] = b + 1 /\ u[7] = next
  BY <1>1, <1>10
<1>12. FitsAt(s, u, 1)
  <2>1. s[1] = i1 /\ u[1] = b /\ u[1 + 1] = b /\ s[1 + 1] = i2 /\ 1 < Len(s)
    BY <1>9, <1>11
  <2> QED BY <2>1, <1>1, <1>2, <1>3, FitNext
<1>13. FitsAt(s, u, 2)
  <2>1. /\ s[2] = i2 /\ u[2] = b /\ u[2 + 1] = NoBlock /\ s[2 - 1] = i1
        /\ s[2 + 1] = i3 /\ 2 < Len(s)
    BY <1>9, <1>11
  <2> QED BY <2>1, <1>1, <1>3, <1>2, <1>4, FitBlock
<1>14. FitsAt(s, u, 3)
  <2>1. Closes(s, 3, 5, ElseEnd)
    <3>1. 3 + 1 .. 5 - 1 = {4} /\ 5 \in 3 + 1 .. 6
      OBVIOUS
    <3> QED BY <3>1, <1>1, <1>2, <1>3, <1>4, <1>5, <1>6, <1>7, <1>9 DEF Closes, ElseEnd
  <2>2. u[3 + 1] = t /\ u[5 + 1] = b + 1 /\ u[3] = NoBlock /\ s[3] = i3 /\ s[3 - 1] = i2
    BY <1>9, <1>11
  <2>3. /\ s[3].kind = "if" /\ s[3].block = b /\ Len(Successors(s[3].block)) = 2
        /\ s[3 - 1].kind = "block" /\ s[3 - 1].block = s[3].block
        /\ u[3 + 1] = Goes(s[3].block, TRUE) /\ u[5 + 1] = Goes(s[3].block, FALSE)
    BY <2>2, <1>1, <1>4, <1>2, <1>3, <1>5
  <2>4. 3 > 1 /\ 3 \in Nat
    OBVIOUS
  <2> QED BY ONLY <2>1, <2>3, <2>4, FitIf
<1>15. FitsAt(s, u, 4)
  <2>1. /\ s[4] = i4 /\ u[4] = t /\ u[4 + 1] = NoBlock /\ s[4 - 1] = i3 /\ s[4 - 2] = i2
        /\ s[4 + 1] = i5 /\ 4 < Len(s)
    BY <1>9, <1>11
  <2> QED BY <2>1, <1>1, <1>5, <1>3, <1>4, <1>6, FitHere
<1>16. FitsAt(s, u, 5)
  <2>1. /\ s[5] = i5 /\ u[5] = NoBlock /\ u[5 + 1] = b + 1 /\ s[5 - 1] = i4
        /\ s[5 - 2] = i3 /\ s[5 + 1] = i6 /\ 5 < Len(s)
    BY <1>9, <1>11
  <2> QED BY <2>1, <1>1, <1>6, <1>4, <1>5, <1>7, FitEnd
<1>17. FitsAt(s, u, 6)
  <2>1. s[6] = i6 /\ u[6] = b + 1 /\ u[6 + 1] = next /\ s[6 - 1] = i5 /\ s[6 - 2] = i4
    BY <1>9, <1>11
  <2> QED BY <2>1, <1>1, <1>7, <1>5, <1>6, FitHere
<1>18. Fits(s, u) /\ u[1] = b /\ u[Len(s) + 1] = next
  <2>1. \A k \in 1 .. Len(s) : FitsAt(s, u, k)
    <3>1. 1 .. Len(s) = {1, 2, 3, 4, 5, 6}
      BY <1>9
    <3> QED BY <3>1, <1>12, <1>13, <1>14, <1>15, <1>16, <1>17
  <2>2. Len(u) = Len(s) + 1 /\ u[1] = b /\ u[Len(s) + 1] = next
    BY <1>9, <1>11
  <2>3. Fits(s, u)
    BY <2>1, <2>2, <1>9, <1>11, AllFit
  <2> QED BY <2>2, <2>3
<1>19. Chunk(s, b, next)
  <2>1. \A i \in 1 .. Len(s) : s[i].depth >= 1 /\ s[i].kind # "path"
    <3>1. 1 .. Len(s) = {1, 2, 3, 4, 5, 6}
      BY <1>9
    <3> QED BY <3>1, <1>2, <1>3, <1>4, <1>5, <1>6, <1>7, <1>9
  <2>2. \A i \in 1 .. Len(s) : s[i].kind = "block" <=> i = 2
    <3>1. 1 .. Len(s) = {1, 2, 3, 4, 5, 6}
      BY <1>9
    <3> QED BY <3>1, <1>2, <1>3, <1>4, <1>5, <1>6, <1>7, <1>9
  <2>3. 2 \in 1 .. Len(s) /\ s[2].block = b
    BY <1>9, <1>3
  <2>4. 1 \in 1 .. Len(s) /\ s[1].kind = "label" /\ s[1].block = b
    BY <1>9, <1>2
  <2> QED BY <2>1, <2>2, <2>3, <2>4, <1>9, <1>18 DEF Chunk
<1> QED BY <1>19, <1>8 DEF i1, i2, i3, i4, i5, i6

\* Longer sequences put together.
LEMMA OneAndTwo ==
  ASSUME NEW x1, NEW y1, NEW y2
  PROVE  <<x1>> \o <<y1, y2>> = <<x1, y1, y2>>
<1> DEFINE S == {x1, y1, y2}
           s == <<x1>>
           t == <<y1, y2>>
           u == <<x1, y1, y2>>
<1>1. /\ s \in Seq(S) /\ t \in Seq(S) /\ u \in Seq(S)
      /\ Len(s) = 1 /\ Len(t) = 2 /\ Len(u) = 3
      /\ s[1] = x1
      /\ t[1] = y1 /\ t[2] = y2
      /\ u[1] = x1 /\ u[2] = y1 /\ u[3] = y2
  OBVIOUS
<1> HIDE DEF S, s, t, u
<1>2. /\ s \o t \in Seq(S) /\ Len(s \o t) = 3
      /\ \A i \in 1 .. 3 : (s \o t)[i] = IF i <= 1 THEN s[i] ELSE t[i - 1]
  <2>1. /\ s \o t \in Seq(S) /\ Len(s \o t) = Len(s) + Len(t)
        /\ \A i \in 1 .. Len(s) + Len(t) : (s \o t)[i] =
              IF i <= Len(s) THEN s[i] ELSE t[i - Len(s)]
    BY ONLY <1>1, ConcatProperties
  <2>2. Len(s) + Len(t) = 3 /\ Len(s) = 1
    BY <1>1
  <2> QED BY <2>1, <2>2
<1>3. \A i \in 1 .. 3 : (s \o t)[i] = u[i]
  <2>1. 1 .. 3 = {1, 2, 3}
    OBVIOUS
  <2>2. (s \o t)[1] = s[1] /\ (s \o t)[2] = t[1] /\ (s \o t)[3] = t[2]
    BY <1>2
  <2> QED BY <2>1, <2>2, <1>1
<1>4. s \o t = u
  BY <1>1, <1>2, <1>3, SeqEqual
<1> QED BY <1>4 DEF s, t, u

LEMMA OneAndFour ==
  ASSUME NEW x1, NEW y1, NEW y2, NEW y3, NEW y4
  PROVE  <<x1>> \o <<y1, y2, y3, y4>> = <<x1, y1, y2, y3, y4>>
<1> DEFINE S == {x1, y1, y2, y3, y4}
           s == <<x1>>
           t == <<y1, y2, y3, y4>>
           u == <<x1, y1, y2, y3, y4>>
<1>1. /\ s \in Seq(S) /\ t \in Seq(S) /\ u \in Seq(S)
      /\ Len(s) = 1 /\ Len(t) = 4 /\ Len(u) = 5
      /\ s[1] = x1
      /\ t[1] = y1 /\ t[2] = y2 /\ t[3] = y3 /\ t[4] = y4
      /\ u[1] = x1 /\ u[2] = y1 /\ u[3] = y2 /\ u[4] = y3 /\ u[5] = y4
  OBVIOUS
<1> HIDE DEF S, s, t, u
<1>2. /\ s \o t \in Seq(S) /\ Len(s \o t) = 5
      /\ \A i \in 1 .. 5 : (s \o t)[i] = IF i <= 1 THEN s[i] ELSE t[i - 1]
  <2>1. /\ s \o t \in Seq(S) /\ Len(s \o t) = Len(s) + Len(t)
        /\ \A i \in 1 .. Len(s) + Len(t) : (s \o t)[i] =
              IF i <= Len(s) THEN s[i] ELSE t[i - Len(s)]
    BY ONLY <1>1, ConcatProperties
  <2>2. Len(s) + Len(t) = 5 /\ Len(s) = 1
    BY <1>1
  <2> QED BY <2>1, <2>2
<1>3. \A i \in 1 .. 5 : (s \o t)[i] = u[i]
  <2>1. 1 .. 5 = {1, 2, 3, 4, 5}
    OBVIOUS
  <2>2. (s \o t)[1] = s[1] /\ (s \o t)[2] = t[1] /\ (s \o t)[3] = t[2] /\ (s \o t)[4] = t[3]
    BY <1>2
  <2>3. (s \o t)[5] = t[4]
    BY <1>2
  <2> QED BY <2>1, <2>2, <2>3, <1>1
<1>4. s \o t = u
  BY <1>1, <1>2, <1>3, SeqEqual
<1> QED BY <1>4 DEF s, t, u

LEMMA OneAndFive ==
  ASSUME NEW x1, NEW y1, NEW y2, NEW y3, NEW y4, NEW y5
  PROVE  <<x1>> \o <<y1, y2, y3, y4, y5>> = <<x1, y1, y2, y3, y4, y5>>
<1> DEFINE S == {x1, y1, y2, y3, y4, y5}
           s == <<x1>>
           t == <<y1, y2, y3, y4, y5>>
           u == <<x1, y1, y2, y3, y4, y5>>
<1>1. /\ s \in Seq(S) /\ t \in Seq(S) /\ u \in Seq(S)
      /\ Len(s) = 1 /\ Len(t) = 5 /\ Len(u) = 6
      /\ s[1] = x1
      /\ t[1] = y1 /\ t[2] = y2 /\ t[3] = y3 /\ t[4] = y4 /\ t[5] = y5
      /\ u[1] = x1 /\ u[2] = y1 /\ u[3] = y2 /\ u[4] = y3 /\ u[5] = y4 /\ u[6] = y5
  OBVIOUS
<1> HIDE DEF S, s, t, u
<1>2. /\ s \o t \in Seq(S) /\ Len(s \o t) = 6
      /\ \A i \in 1 .. 6 : (s \o t)[i] = IF i <= 1 THEN s[i] ELSE t[i - 1]
  <2>1. /\ s \o t \in Seq(S) /\ Len(s \o t) = Len(s) + Len(t)
        /\ \A i \in 1 .. Len(s) + Len(t) : (s \o t)[i] =
              IF i <= Len(s) THEN s[i] ELSE t[i - Len(s)]
    BY ONLY <1>1, ConcatProperties
  <2>2. Len(s) + Len(t) = 6 /\ Len(s) = 1
    BY <1>1
  <2> QED BY <2>1, <2>2
<1>3. \A i \in 1 .. 6 : (s \o t)[i] = u[i]
  <2>1. 1 .. 6 = {1, 2, 3, 4, 5, 6}
    OBVIOUS
  <2>2. (s \o t)[1] = s[1] /\ (s \o t)[2] = t[1] /\ (s \o t)[3] = t[2] /\ (s \o t)[4] = t[3]
    BY <1>2
  <2>3. (s \o t)[5] = t[4] /\ (s \o t)[6] = t[5]
    BY <1>2
  <2> QED BY <2>1, <2>2, <2>3, <1>1
<1>4. s \o t = u
  BY <1>1, <1>2, <1>3, SeqEqual
<1> QED BY <1>4 DEF s, t, u

LEMMA OneAndSix ==
  ASSUME NEW x1, NEW y1, NEW y2, NEW y3, NEW y4, NEW y5, NEW y6
  PROVE  <<x1>> \o <<y1, y2, y3, y4, y5, y6>> = <<x1, y1, y2, y3, y4, y5, y6>>
<1> DEFINE S == {x1, y1, y2, y3, y4, y5, y6}
           s == <<x1>>
           t == <<y1, y2, y3, y4, y5, y6>>
           u == <<x1, y1, y2, y3, y4, y5, y6>>
<1>1. /\ s \in Seq(S) /\ t \in Seq(S) /\ u \in Seq(S)
      /\ Len(s) = 1 /\ Len(t) = 6 /\ Len(u) = 7
      /\ s[1] = x1
      /\ t[1] = y1 /\ t[2] = y2 /\ t[3] = y3 /\ t[4] = y4 /\ t[5] = y5 /\ t[6] = y6
      /\ u[1] = x1 /\ u[2] = y1 /\ u[3] = y2 /\ u[4] = y3 /\ u[5] = y4 /\ u[6] = y5 /\ u[7] = y6
  OBVIOUS
<1> HIDE DEF S, s, t, u
<1>2. /\ s \o t \in Seq(S) /\ Len(s \o t) = 7
      /\ \A i \in 1 .. 7 : (s \o t)[i] = IF i <= 1 THEN s[i] ELSE t[i - 1]
  <2>1. /\ s \o t \in Seq(S) /\ Len(s \o t) = Len(s) + Len(t)
        /\ \A i \in 1 .. Len(s) + Len(t) : (s \o t)[i] =
              IF i <= Len(s) THEN s[i] ELSE t[i - Len(s)]
    BY ONLY <1>1, ConcatProperties
  <2>2. Len(s) + Len(t) = 7 /\ Len(s) = 1
    BY <1>1
  <2> QED BY <2>1, <2>2
<1>3. \A i \in 1 .. 7 : (s \o t)[i] = u[i]
  <2>1. 1 .. 7 = {1, 2, 3, 4, 5, 6, 7}
    OBVIOUS
  <2>2. (s \o t)[1] = s[1] /\ (s \o t)[2] = t[1] /\ (s \o t)[3] = t[2] /\ (s \o t)[4] = t[3]
    BY <1>2
  <2>3. (s \o t)[5] = t[4] /\ (s \o t)[6] = t[5] /\ (s \o t)[7] = t[6]
    BY <1>2
  <2> QED BY <2>1, <2>2, <2>3, <1>1
<1>4. s \o t = u
  BY <1>1, <1>2, <1>3, SeqEqual
<1> QED BY <1>4 DEF s, t, u

LEMMA MoreOthers ==
  ASSUME NEW s, NEW b, NEW stop, NEW e, NEW others, NEW next, Expands(s, b, stop, e, {}, next)
  PROVE  Expands(s, b, stop, e, others, next)
<1>1. \A i : Follows(s, i, b, stop, e, {}) => Follows(s, i, b, stop, e, others)
  BY DEF Follows
<1> QED BY <1>1 DEF Expands

\* What emitStructuredPath prints for a block, and leaves to be done.
LEMMA ExpansionFits ==
  ASSUME GraphInv, NEW b \in Blocks, NEW stop \in Blocks \cup {NoBlock}, NEW e \in Nat,
         NEW next \in Blocks \cup {NoBlock}, stop # NoBlock => next = stop, NEW join \in Joins(b)
  PROVE  Expands(Expansion(b, stop, e, join), b, stop, e, {join}, next)
<1> DEFINE L == Line("block", b, e)
<1>1. CASE Successors(b) = <<>>
  <2>1. After(b, stop, e, join) = AfterExit(b, e)
    BY <1>1 DEF After
  <2>2. CASE HasUnresolvedSuccessor(b)
    <3>1. Expansion(b, stop, e, join) = <<L>> \o <<Line("unresolved", b, e)>>
      BY <2>1, <2>2 DEF Expansion, AfterExit
    <3>2. Expansion(b, stop, e, join) = <<L, Line("unresolved", b, e)>>
      BY <3>1, Pair
    <3>3. Expands(Expansion(b, stop, e, join), b, stop, e, {}, next)
      BY <1>1, <3>2, FitsUnresolved
    <3> QED BY <3>3, MoreOthers
  <2>3. CASE ~ HasUnresolvedSuccessor(b)
    <3>1. Ends(b)
      BY <1>1, <2>3, SuccessorFacts
    <3>2. Expansion(b, stop, e, join) = <<L>> \o <<>>
      BY <2>1, <2>3 DEF Expansion, AfterExit
    <3>3. Expansion(b, stop, e, join) = <<L>>
      <4> HIDE DEF L
      <4> QED BY <3>2
    <3>4. Expands(Expansion(b, stop, e, join), b, stop, e, {}, next)
      BY <1>1, <3>1, <3>3, FitsStop
    <3> QED BY <3>4, MoreOthers
  <2> QED BY <2>2, <2>3
<1>2. ASSUME NEW c \in Blocks, Successors(b) = <<c>>
      PROVE  Expands(Expansion(b, stop, e, join), b, stop, e, {join}, next)
  <2>1. Successors(b) # <<>> /\ Len(Successors(b)) = 1 /\ Successors(b)[1] = c
    BY <1>2
  <2>2. After(b, stop, e, join) = <<Path(c, stop, e)>>
    BY <2>1 DEF After
  <2>3. Expansion(b, stop, e, join) = <<L, Path(c, stop, e)>>
    BY <2>2, Pair DEF Expansion
  <2>4. Expands(Expansion(b, stop, e, join), b, stop, e, {}, next)
    BY <1>2, <2>3, FitsOnly
  <2> QED BY <2>4, MoreOthers
<1>3. CASE Len(Successors(b)) = 2
  <2> DEFINE t == graph[b].target
             s == After(b, stop, e, join)
             In == Line("if not", b, e)
             If == Line("if", b, e)
             El == Line("else", b, e)
             En == Line("end", b, e)
             At == Path(t, join, e + 1)
             Af == Path(b + 1, join, e + 1)
             Aj == Path(join, stop, e)
  <2>1. \/ join = t /\ s = <<In, Af, En, Aj>>
        \/ join = b + 1 /\ s = <<If, At, En, Aj>>
        \/ join \in Blocks /\ s = <<If, At, El, Af, En, Aj>>
        \/ join = NoBlock /\ s = <<If, At, El, Af, En>>
    BY <1>3, BranchShapes
  <2>2. t \in Blocks /\ b + 1 \in Blocks
    BY <1>3, TwoSuccessors
  <2>3. CASE join = t /\ s = <<In, Af, En, Aj>>
    <3>1. <<L>> \o <<In, Af, En, Aj>> = <<L, In, Af, En, Aj>>
      BY OneAndFour
    <3>2. Expansion(b, stop, e, join) = <<L, In, Af, En, Aj>>
      BY <2>3, <3>1 DEF Expansion
    <3>3. join \in Blocks /\ join = t
      BY <2>2, <2>3
    <3>4. Expands(<<L, In, Af, En, Aj>>, b, stop, e, {join}, next)
      BY <1>3, <3>3, FitsIfNot
    <3> QED BY <3>2, <3>4
  <2>4. CASE join = b + 1 /\ s = <<If, At, En, Aj>>
    <3>1. <<L>> \o <<If, At, En, Aj>> = <<L, If, At, En, Aj>>
      BY OneAndFour
    <3>2. Expansion(b, stop, e, join) = <<L, If, At, En, Aj>>
      BY <2>4, <3>1 DEF Expansion
    <3>3. join \in Blocks /\ join = b + 1
      BY <2>2, <2>4
    <3>4. Expands(<<L, If, At, En, Aj>>, b, stop, e, {join}, next)
      BY <1>3, <3>3, FitsIf
    <3> QED BY <3>2, <3>4
  <2>5. CASE join \in Blocks /\ s = <<If, At, El, Af, En, Aj>>
    <3>1. <<L>> \o <<If, At, El, Af, En, Aj>> = <<L, If, At, El, Af, En, Aj>>
      BY OneAndSix
    <3>2. Expansion(b, stop, e, join) = <<L, If, At, El, Af, En, Aj>>
      BY <2>5, <3>1 DEF Expansion
    <3>4. Expands(<<L, If, At, El, Af, En, Aj>>, b, stop, e, {join}, next)
      BY <1>3, <2>5, FitsIfElse
    <3> QED BY <3>2, <3>4
  <2>6. CASE join = NoBlock /\ s = <<If, At, El, Af, En>>
    <3>1. <<L>> \o <<If, At, El, Af, En>> = <<L, If, At, El, Af, En>>
      BY OneAndFive
    <3>2. Expansion(b, stop, e, join) = <<L, If, At, El, Af, En>>
      BY <2>6, <3>1 DEF Expansion
    <3>3. At = Path(t, NoBlock, e + 1) /\ Af = Path(b + 1, NoBlock, e + 1)
      BY <2>6
    <3>4. Expands(<<L, If, Path(t, NoBlock, e + 1), El, Path(b + 1, NoBlock, e + 1), En>>,
                  b, stop, e, {}, next)
      BY <1>3, FitsApart
    <3>5. Expands(Expansion(b, stop, e, join), b, stop, e, {}, next)
      BY <3>2, <3>3, <3>4
    <3> QED BY <3>5, MoreOthers
  <2> HIDE DEF t, s, In, If, El, En, At, Af, Aj
  <2> QED BY <2>1, <2>3, <2>4, <2>5, <2>6
<1>4. \/ Successors(b) = <<>>
      \/ \E c \in Blocks : Successors(b) = <<c>>
      \/ Len(Successors(b)) = 2
  <2>1. \A x, y : Len(<<x, y>>) = 2
    OBVIOUS
  <2> QED BY <2>1, SuccessorFacts
<1> QED BY <1>1, <1>2, <1>3, <1>4

\* What follows a block is lines and paths.
LEMMA AfterFacts ==
  ASSUME GraphInv, NEW b \in Blocks, NEW stop \in Blocks \cup {NoBlock}, NEW e \in Nat,
         NEW join \in Joins(b)
  PROVE  After(b, stop, e, join) \in Seq(Items)
<1>1. CASE Successors(b) = <<>>
  <2>1. After(b, stop, e, join) = AfterExit(b, e)
    BY <1>1 DEF After
  <2>2. PICK x : x = Line("unresolved", b, e)
    OBVIOUS
  <2>3. x \in Items
    BY <2>2, KindFacts DEF Line, Items, Lines
  <2>4. <<>> \in Seq(Items) /\ <<x>> \in Seq(Items)
    BY <2>3
  <2> QED BY <2>1, <2>2, <2>4 DEF AfterExit
<1>2. ASSUME NEW c \in Blocks, Successors(b) = <<c>>
      PROVE  After(b, stop, e, join) \in Seq(Items)
  <2>1. Successors(b) # <<>> /\ Len(Successors(b)) = 1 /\ Successors(b)[1] = c
    BY <1>2
  <2>2. After(b, stop, e, join) = <<Path(c, stop, e)>>
    BY <2>1 DEF After
  <2>3. PICK x : x = Path(c, stop, e)
    OBVIOUS
  <2>4. x \in Items
    BY <2>3, PathFacts
  <2>5. <<x>> \in Seq(Items)
    BY <2>4
  <2> QED BY <2>2, <2>3, <2>5
<1>3. CASE Len(Successors(b)) = 2
  <2> DEFINE t == graph[b].target
             s == After(b, stop, e, join)
             In == Line("if not", b, e)
             If == Line("if", b, e)
             El == Line("else", b, e)
             En == Line("end", b, e)
             At == Path(t, join, e + 1)
             Af == Path(b + 1, join, e + 1)
             Aj == Path(join, stop, e)
  <2>1. \/ join = t /\ s = <<In, Af, En, Aj>>
        \/ join = b + 1 /\ s = <<If, At, En, Aj>>
        \/ join \in Blocks /\ s = <<If, At, El, Af, En, Aj>>
        \/ join = NoBlock /\ s = <<If, At, El, Af, En>>
    BY <1>3, BranchShapes
  <2>2. t \in Blocks /\ b + 1 \in Blocks /\ e + 1 \in Nat
    <3>1. t \in Blocks /\ b + 1 \in Blocks
      BY <1>3, TwoSuccessors
    <3>2. e + 1 \in Nat
      OBVIOUS
    <3> QED BY ONLY <3>1, <3>2
  <2>3. In \in Items /\ If \in Items /\ El \in Items /\ En \in Items
    BY KindFacts DEF Line, Items, Lines
  <2>4. join \in Blocks \cup {NoBlock}
    BY JoinFacts
  <2>5. At \in Items /\ Af \in Items
    BY <2>2, <2>4, PathFacts
  <2>6. join \in Blocks => Aj \in Items
    BY PathFacts
  <2>7. join \in {t, b + 1} => join \in Blocks
    BY <2>2
  <2> HIDE DEF t, s, In, If, El, En, At, Af, Aj
  <2>8. join \in Blocks => /\ <<In, Af, En, Aj>> \in Seq(Items) /\ <<If, At, En, Aj>> \in Seq(Items)
                           /\ <<If, At, El, Af, En, Aj>> \in Seq(Items)
    BY <2>3, <2>5, <2>6
  <2>9. <<If, At, El, Af, En>> \in Seq(Items)
    BY <2>3, <2>5
  <2>10. s \in Seq(Items)
    BY <2>1, <2>7, <2>8, <2>9
  <2> QED BY <2>10 DEF s
<1>4. \/ Successors(b) = <<>>
      \/ \E c \in Blocks : Successors(b) = <<c>>
      \/ Len(Successors(b)) = 2
  <2>1. \A x, y : Len(<<x, y>>) = 2
    OBVIOUS
  <2> QED BY <2>1, SuccessorFacts
<1> QED BY <1>1, <1>2, <1>3, <1>4

LEMMA FallbackLinesFacts ==
  ASSUME GraphInv, NEW b \in Blocks
  PROVE  FallbackLines(b) \in Seq(Items)
<1>1. \A c \in Blocks : /\ Line("block", c, 2) \in Items /\ Line("block", c, 3) \in Items
                        /\ Line("goto", c, 2) \in Items /\ Line("goto", c, 3) \in Items
                        /\ Line("do", c, 2) \in Items /\ Line("while", c, 2) \in Items
                        /\ Line("while not", c, 2) \in Items /\ Line("if", c, 2) \in Items
                        /\ Line("end", c, 2) \in Items /\ Line("unresolved", c, 2) \in Items
  BY KindFacts DEF Line, Items, Lines, LineKinds
<1> DEFINE B == Line("block", b, 2)
           t == graph[b].target
<1>3. <<B>> \in Seq(Items)
  <2>1. B \in Items
    BY <1>1
  <2> HIDE DEF B
  <2> QED BY <2>1
<1>4. CASE Len(Successors(b)) = 2
  <2>1. /\ Successors(b) = <<t, b + 1>> /\ t \in Blocks /\ b + 1 \in Blocks
        /\ graph[b].kind = "ConditionalJump" /\ b \in Nat /\ b + 1 # b
    <3>1. b \in Nat /\ b + 1 # b
      BY BlocksFacts
    <3> QED BY <1>4, <3>1, TwoSuccessors
  <2>2. Successors(b)[1] = t /\ Successors(b)[2] = b + 1
    BY <2>1
  <2>3. CASE t = b
    <3>1. FallbackLines(b) = SelfLoop(b, "while", b + 1)
      BY <1>4, <2>1, <2>2, <2>3 DEF FallbackLines
    <3>2. PICK x1 : x1 = Line("do", b, 2)
      OBVIOUS
    <3>3. PICK x2 : x2 = Line("block", b, 3)
      OBVIOUS
    <3>4. PICK x3 : x3 = Line("while", b, 2)
      OBVIOUS
    <3>5. PICK x4 : x4 = Line("goto", b + 1, 2)
      OBVIOUS
    <3>6. x1 \in Items /\ x2 \in Items /\ x3 \in Items /\ x4 \in Items
      BY <1>1, <2>1, <3>2, <3>3, <3>4, <3>5
    <3>7. <<x1, x2, x3, x4>> \in Seq(Items)
      BY <3>6
    <3> QED BY <3>1, <3>2, <3>3, <3>4, <3>5, <3>7 DEF SelfLoop
  <2>4. CASE t # b
    <3>1. PICK x1 : x1 = Line("if", b, 2)
      OBVIOUS
    <3>2. PICK x2 : x2 = Line("goto", t, 3)
      OBVIOUS
    <3>3. PICK x3 : x3 = Line("end", b, 2)
      OBVIOUS
    <3>4. PICK x4 : x4 = Line("goto", b + 1, 2)
      OBVIOUS
    <3>5. PICK s : s = <<x1, x2, x3, x4>>
      OBVIOUS
    <3>6. FallbackLines(b) = <<B>> \o s
      <4>1. b \notin {t, b + 1}
        BY <2>1, <2>4
      <4> QED BY <1>4, <2>1, <2>2, <2>4, <4>1, <3>1, <3>2, <3>3, <3>4, <3>5 DEF FallbackLines
    <3>7. x1 \in Items /\ x2 \in Items /\ x3 \in Items /\ x4 \in Items
      BY <1>1, <2>1, <3>1, <3>2, <3>3, <3>4
    <3>8. s \in Seq(Items)
      BY <3>5, <3>7
    <3> QED BY <3>6, <3>8, <1>3, ConcatProperties
  <2> QED BY <2>3, <2>4
<1>5. CASE Len(Successors(b)) = 1
  <2>1. PICK c \in Blocks : Successors(b)[1] = c
    <3>1. Successors(b) \in Seq(Blocks)
      BY SuccessorFacts
    <3>2. 1 \in 1 .. Len(Successors(b))
      BY <1>5
    <3>3. Successors(b)[1] \in Blocks
      BY ONLY <3>1, <3>2, ElementOfSeq
    <3> QED BY <3>3
  <2>2. PICK x : x = Line("goto", c, 2)
    OBVIOUS
  <2>3. PICK s : s = <<x>>
    OBVIOUS
  <2>4. FallbackLines(b) = <<B>> \o s
    BY <1>5, <2>1, <2>2, <2>3 DEF FallbackLines
  <2>5. s \in Seq(Items)
    <3>1. x \in Items
      BY <1>1, <2>1, <2>2
    <3> QED BY <3>1, <2>3
  <2> QED BY <2>4, <2>5, <1>3, ConcatProperties
<1>6. CASE Len(Successors(b)) # 2 /\ Len(Successors(b)) # 1
  <2>1. PICK x : x = Line("unresolved", b, 2)
    OBVIOUS
  <2>2. PICK s : s = <<x>>
    OBVIOUS
  <2>3. FallbackLines(b) \in {<<B>>, <<B>> \o s}
    BY <1>6, <2>1, <2>2 DEF FallbackLines
  <2>4. s \in Seq(Items)
    <3>1. x \in Items
      BY <1>1, <2>1
    <3> QED BY <3>1, <2>2
  <2>5. <<B>> \o s \in Seq(Items)
    BY <2>4, <1>3, ConcatProperties
  <2> HIDE DEF B
  <2> QED BY <2>3, <2>5, <1>3
<1> QED BY <1>4, <1>5, <1>6

\* What emitFallbackControlFlow prints for a block.
LEMMA FallbackFits ==
  ASSUME GraphInv, NEW b \in Blocks, NEW next \in Blocks \cup {NoBlock}
  PROVE  Chunk(<<Line("label", b, 1)>> \o FallbackLines(b), b, next)
<1> DEFINE L == Line("label", b, 1)
           B == Line("block", b, 2)
           t == graph[b].target
<1>1. CASE Successors(b) = <<>>
  <2>1. ~ (Len(Successors(b)) = 1) /\ ~ (Len(Successors(b)) = 2)
    BY <1>1
  <2>2. CASE HasUnresolvedSuccessor(b)
    <3>1. FallbackLines(b) = <<B>> \o <<Line("unresolved", b, 2)>>
      BY <2>1, <2>2 DEF FallbackLines
    <3>2. FallbackLines(b) = <<B, Line("unresolved", b, 2)>>
      BY <3>1, Pair
    <3>3. <<L>> \o FallbackLines(b) = <<L, B, Line("unresolved", b, 2)>>
      BY <3>2, OneAndTwo
    <3> QED BY <1>1, <3>3, ChunkUnresolved
  <2>3. CASE ~ HasUnresolvedSuccessor(b)
    <3>1. Ends(b)
      BY <1>1, <2>3, SuccessorFacts
    <3>2. FallbackLines(b) = <<B>>
      BY <2>1, <2>3 DEF FallbackLines
    <3>3. <<L>> \o FallbackLines(b) = <<L, B>>
      BY <3>2, Pair
    <3> QED BY <3>1, <3>3, ChunkEnd
  <2> QED BY <2>2, <2>3
<1>2. ASSUME NEW c \in Blocks, Successors(b) = <<c>>
      PROVE  Chunk(<<L>> \o FallbackLines(b), b, next)
  <2>1. Len(Successors(b)) = 1 /\ Successors(b)[1] = c
    BY <1>2
  <2>2. FallbackLines(b) = <<B>> \o <<Line("goto", c, 2)>>
    BY <2>1 DEF FallbackLines
  <2>3. FallbackLines(b) = <<B, Line("goto", c, 2)>>
    BY <2>2, Pair
  <2>4. <<L>> \o FallbackLines(b) = <<L, B, Line("goto", c, 2)>>
    BY <2>3, OneAndTwo
  <2> QED BY <1>2, <2>4, ChunkGoto
<1>3. CASE Len(Successors(b)) = 2
  <2>1. /\ Successors(b) = <<t, b + 1>> /\ t \in Blocks /\ b + 1 \in Blocks
        /\ graph[b].kind = "ConditionalJump" /\ b \in Nat /\ b + 1 # b
    <3>1. b \in Nat /\ b + 1 # b
      BY BlocksFacts
    <3> QED BY <1>3, <3>1, TwoSuccessors
  <2>2. Successors(b)[1] = t /\ Successors(b)[2] = b + 1
    BY <2>1
  <2>3. CASE t = b
    <3>1. FallbackLines(b) = SelfLoop(b, "while", b + 1)
      BY <1>3, <2>1, <2>2, <2>3 DEF FallbackLines
    <3>2. <<L>> \o FallbackLines(b) = <<L, Line("do", b, 2), Line("block", b, 3),
                                        Line("while", b, 2), Line("goto", b + 1, 2)>>
      BY <3>1, OneAndFour DEF SelfLoop
    <3> QED BY <1>3, <2>3, <3>2, ChunkLoop
  <2>4. CASE t # b
    <3> DEFINE I == Line("if", b, 2)
               G == Line("goto", t, 3)
               E == Line("end", b, 2)
               H == Line("goto", b + 1, 2)
    <3>1. FallbackLines(b) = <<B>> \o <<I, G, E, H>>
      <4>1. b \notin {t, b + 1}
        BY <2>1, <2>4
      <4> QED BY <1>3, <2>1, <2>2, <2>4, <4>1 DEF FallbackLines
    <3>2. <<B>> \o <<I, G, E, H>> = <<B, I, G, E, H>>
      BY OneAndFour
    <3>3. <<L>> \o <<B, I, G, E, H>> = <<L, B, I, G, E, H>>
      BY OneAndFive
    <3>4. Chunk(<<L, B, I, G, E, H>>, b, next)
      BY <1>3, ChunkIf
    <3> QED BY <3>1, <3>2, <3>3, <3>4
  <2> QED BY <2>3, <2>4
<1>4. \/ Successors(b) = <<>>
      \/ \E c \in Blocks : Successors(b) = <<c>>
      \/ Len(Successors(b)) = 2
  <2>1. \A x, y : Len(<<x, y>>) = 2
    OBVIOUS
  <2> QED BY <2>1, SuccessorFacts
<1> HIDE DEF L, B, t
<1> QED BY <1>1, <1>2, <1>3, <1>4 DEF L

--------------------------------------------------------------------------------
(***************************************************************************)
(* The text, and behind it what is still to be done.                       *)
(***************************************************************************)

LEMMA ConcatFacts ==
  ASSUME NEW S, NEW s \in Seq(S), NEW t \in Seq(S)
  PROVE  /\ s \o t \in Seq(S) /\ Len(s) \in Nat /\ Len(t) \in Nat
         /\ Len(s \o t) = Len(s) + Len(t)
         /\ \A i \in 1 .. Len(s) : (s \o t)[i] = s[i]
         /\ \A i \in 1 .. Len(t) : (s \o t)[Len(s) + i] = t[i]
<1>1. PICK m : m = Len(s)
  OBVIOUS
<1>2. PICK n : n = Len(t)
  OBVIOUS
<1>3. PICK u : u = s \o t
  OBVIOUS
<1>4. m \in Nat /\ n \in Nat
  BY <1>1, <1>2
<1>5. /\ u \in Seq(S) /\ Len(u) = m + n
      /\ \A i \in 1 .. m + n : u[i] = IF i <= m THEN s[i] ELSE t[i - m]
  BY ONLY s \in Seq(S), t \in Seq(S), <1>1, <1>2, <1>3, ConcatProperties
<1>6. \A i \in 1 .. m : u[i] = s[i]
  BY <1>4, <1>5
<1>7. \A i \in 1 .. n : u[m + i] = t[i]
  <2> TAKE i \in 1 .. n
  <2>1. PICK j : j = m + i
    OBVIOUS
  <2>2. j \in 1 .. m + n /\ ~ (j <= m) /\ j - m = i
    BY <1>4, <2>1
  <2>3. u[j] = t[i]
    BY <2>2, <1>5
  <2> QED BY <2>1, <2>3
<1> QED BY <1>1, <1>2, <1>3, <1>4, <1>5, <1>6, <1>7

\* The head and the tail of the open work.
LEMMA HeadFacts ==
  ASSUME NEW S, NEW w \in Seq(S), w # <<>>
  PROVE  /\ Len(w) \in Nat \ {0} /\ Head(w) = w[1] /\ Head(w) \in S
         /\ Tail(w) \in Seq(S) /\ Len(Tail(w)) = Len(w) - 1
         /\ \A i \in 1 .. Len(w) - 1 : Tail(w)[i] = w[i + 1]
<1>1. Len(w) \in Nat \ {0}
  BY EmptySeq
<1>2. Head(w) \in S /\ Tail(w) \in Seq(S) /\ Len(Tail(w)) = Len(w) - 1
      /\ \A i \in 1 .. Len(Tail(w)) : Tail(w)[i] = w[i + 1]
  BY HeadTailProperties
<1>3. Head(w) = w[1]
  OBVIOUS
<1> QED BY <1>1, <1>2, <1>3

\* The path in front of the work is replaced.
LEMMA Spliced ==
  ASSUME NEW t \in Seq(Items), NEW w \in Seq(Items), w # <<>>, Head(w).kind = "path",
         NEW s \in Seq(Items)
  PROVE  /\ Replaces(t \o w, (t \o s) \o Tail(w), Len(t) + 1, s)
         /\ (t \o w)[Len(t) + 1] = Head(w)
<1>1. PICK W : W = t \o w
  OBVIOUS
<1>2. PICK V : V = (t \o s) \o Tail(w)
  OBVIOUS
<1>3. PICK x : x = t \o s
  OBVIOUS
<1>4. PICK r : r = Tail(w)
  OBVIOUS
<1>5. /\ Len(w) \in Nat \ {0} /\ Head(w) = w[1] /\ r \in Seq(Items) /\ Len(r) = Len(w) - 1
      /\ \A i \in 1 .. Len(w) - 1 : r[i] = w[i + 1]
  BY <1>4, HeadFacts
<1>6. /\ W \in Seq(Items) /\ Len(W) = Len(t) + Len(w) /\ Len(t) \in Nat
      /\ \A i \in 1 .. Len(t) : W[i] = t[i]
      /\ \A i \in 1 .. Len(w) : W[Len(t) + i] = w[i]
  BY <1>1, ConcatFacts
<1>7. /\ x \in Seq(Items) /\ Len(x) = Len(t) + Len(s) /\ Len(s) \in Nat
      /\ \A i \in 1 .. Len(t) : x[i] = t[i]
      /\ \A i \in 1 .. Len(s) : x[Len(t) + i] = s[i]
  BY <1>3, ConcatFacts
<1>8. /\ V \in Seq(Items) /\ Len(V) = Len(x) + Len(r)
      /\ \A i \in 1 .. Len(x) : V[i] = x[i]
      /\ \A i \in 1 .. Len(r) : V[Len(x) + i] = r[i]
  BY <1>2, <1>3, <1>4, <1>5, <1>7, ConcatFacts
<1>9. PICK p : p = Len(t) + 1
  OBVIOUS
<1>10. PICK d : d = Len(s)
  OBVIOUS
<1>11. W[p] = Head(w) /\ p \in 1 .. Len(W)
  <2>1. 1 \in 1 .. Len(w) /\ p \in 1 .. Len(W)
    BY <1>5, <1>6, <1>9
  <2> QED BY <2>1, <1>5, <1>6, <1>9
<1>12. Len(V) = Len(W) + d - 1
  BY <1>5, <1>6, <1>7, <1>8, <1>10
<1>13. \A i \in 1 .. Len(V) :
         V[i] = IF i < p THEN W[i] ELSE IF i < p + d THEN s[i - p + 1] ELSE W[i - d + 1]
  <2> TAKE i \in 1 .. Len(V)
  <2>1. CASE i < p
    <3>1. i \in 1 .. Len(t) /\ i \in 1 .. Len(x)
      BY <2>1, <1>6, <1>7, <1>9
    <3> QED BY <2>1, <3>1, <1>6, <1>7, <1>8
  <2>2. CASE ~ (i < p) /\ i < p + d
    <3>1. PICK k : k = i - p + 1
      OBVIOUS
    <3>2. k \in 1 .. Len(s) /\ Len(t) + k = i /\ i \in 1 .. Len(x)
      BY <2>2, <3>1, <1>6, <1>7, <1>9, <1>10
    <3>3. V[i] = s[k]
      BY <3>2, <1>7, <1>8
    <3> QED BY <2>2, <3>1, <3>3
  <2>3. CASE ~ (i < p) /\ ~ (i < p + d)
    <3>1. PICK k : k = i - Len(x)
      OBVIOUS
    <3>2. k \in 1 .. Len(r) /\ Len(x) + k = i /\ k + 1 \in 1 .. Len(w) /\ k \in 1 .. Len(w) - 1
          /\ Len(t) + (k + 1) = i - d + 1
      BY <2>3, <3>1, <1>5, <1>6, <1>7, <1>8, <1>9, <1>10
    <3>3. V[i] = w[k + 1] /\ W[Len(t) + (k + 1)] = w[k + 1]
      BY <3>2, <1>5, <1>6, <1>8
    <3> QED BY <2>3, <3>2, <3>3
  <2> QED BY <2>1, <2>2, <2>3
<1>14. Replaces(W, V, p, s)
  BY <1>6, <1>8, <1>10, <1>11, <1>12, <1>13 DEF Replaces
<1> QED BY <1>1, <1>2, <1>9, <1>11, <1>14

LEMMA AppendFacts ==
  ASSUME NEW S, NEW t \in Seq(S), NEW x \in S
  PROVE  /\ Append(t, x) \in Seq(S) /\ Len(t) \in Nat /\ Len(Append(t, x)) = Len(t) + 1
         /\ \A i \in 1 .. Len(t) : Append(t, x)[i] = t[i]
         /\ Append(t, x)[Len(t) + 1] = x
OBVIOUS

LEMMA OnePrinted ==
  ASSUME NEW S, NEW t \in Seq(S), NEW x \in S
  PROVE  Append(t, x) = t \o <<x>>
<1>1. <<x>> \in Seq(S) /\ Len(<<x>>) = 1 /\ <<x>>[1] = x
  OBVIOUS
<1>2. PICK o : o = <<x>>
  OBVIOUS
<1>3. /\ t \o o \in Seq(S) /\ Len(t) \in Nat /\ Len(t \o o) = Len(t) + 1
      /\ \A i \in 1 .. Len(t) : (t \o o)[i] = t[i]
      /\ (t \o o)[Len(t) + 1] = x
  <2>1. /\ t \o o \in Seq(S) /\ Len(t) \in Nat /\ Len(t \o o) = Len(t) + Len(o)
        /\ \A i \in 1 .. Len(t) : (t \o o)[i] = t[i]
        /\ \A i \in 1 .. Len(o) : (t \o o)[Len(t) + i] = o[i]
    BY <1>1, <1>2, ConcatFacts
  <2>2. Len(o) = 1 /\ o[1] = x /\ 1 \in 1 .. Len(o)
    BY <1>1, <1>2
  <2> QED BY <2>1, <2>2
<1>4. PICK a : a = Append(t, x)
  OBVIOUS
<1>5. /\ a \in Seq(S) /\ Len(a) = Len(t) + 1
      /\ \A i \in 1 .. Len(t) : a[i] = t[i]
      /\ a[Len(t) + 1] = x
  BY <1>4, AppendFacts
<1>6. \A i \in 1 .. Len(a) : a[i] = (t \o o)[i]
  <2> TAKE i \in 1 .. Len(a)
  <2>1. i \in 1 .. Len(t) \/ i = Len(t) + 1
    BY <1>3, <1>5
  <2> QED BY <2>1, <1>3, <1>5
<1>7. a = t \o o
  BY <1>3, <1>5, <1>6, SeqEqual
<1> QED BY <1>2, <1>4, <1>7

\* A line that is printed stays where it is.
LEMMA LinePrinted ==
  ASSUME NEW S, NEW t \in Seq(S), NEW w \in Seq(S), w # <<>>
  PROVE  Append(t, Head(w)) \o Tail(w) = t \o w
<1>1. /\ Head(w) \in S /\ Tail(w) \in Seq(S) /\ Len(w) \in Nat \ {0} /\ Head(w) = w[1]
      /\ Len(Tail(w)) = Len(w) - 1
      /\ \A i \in 1 .. Len(w) - 1 : Tail(w)[i] = w[i + 1]
  BY HeadFacts
<1>2. PICK r : r = Tail(w)
  OBVIOUS
<1>3. PICK a : a = Append(t, Head(w))
  OBVIOUS
<1>4. /\ a \in Seq(S) /\ Len(t) \in Nat /\ Len(a) = Len(t) + 1
      /\ \A i \in 1 .. Len(t) : a[i] = t[i]
      /\ a[Len(t) + 1] = Head(w)
  BY <1>1, <1>3, AppendFacts
<1>5. /\ a \o r \in Seq(S) /\ Len(a \o r) = Len(a) + Len(r)
      /\ \A i \in 1 .. Len(a) : (a \o r)[i] = a[i]
      /\ \A i \in 1 .. Len(r) : (a \o r)[Len(a) + i] = r[i]
  <2>1. a \in Seq(S) /\ r \in Seq(S)
    BY <1>1, <1>2, <1>4
  <2> QED BY ONLY <2>1, ConcatFacts
<1>6. /\ t \o w \in Seq(S) /\ Len(t \o w) = Len(t) + Len(w)
      /\ \A i \in 1 .. Len(t) : (t \o w)[i] = t[i]
      /\ \A i \in 1 .. Len(w) : (t \o w)[Len(t) + i] = w[i]
  BY ConcatFacts
<1>7. Len(a \o r) = Len(t \o w)
  BY <1>1, <1>2, <1>4, <1>5, <1>6
<1>8. \A i \in 1 .. Len(a \o r) : (a \o r)[i] = (t \o w)[i]
  <2> TAKE i \in 1 .. Len(a \o r)
  <2>1. CASE i <= Len(t)
    <3>1. i \in 1 .. Len(t) /\ i \in 1 .. Len(a)
      BY <2>1, <1>1, <1>2, <1>4, <1>5
    <3> QED BY <3>1, <1>4, <1>5, <1>6
  <2>2. CASE i = Len(t) + 1
    <3>1. i \in 1 .. Len(a) /\ 1 \in 1 .. Len(w)
      BY <2>2, <1>1, <1>4
    <3> QED BY <3>1, <2>2, <1>1, <1>4, <1>5, <1>6
  <2>3. CASE i > Len(t) + 1
    <3>1. PICK k : k = i - Len(a)
      OBVIOUS
    <3>2. k \in 1 .. Len(r) /\ Len(a) + k = i /\ k + 1 \in 1 .. Len(w) /\ k \in 1 .. Len(w) - 1
          /\ Len(t) + (k + 1) = i
      BY <2>3, <3>1, <1>1, <1>2, <1>4, <1>5
    <3>3. (a \o r)[i] = r[k] /\ (t \o w)[i] = w[k + 1]
      BY <3>2, <1>5, <1>6
    <3> QED BY <3>2, <3>3, <1>1, <1>2
  <2>4. i \in Nat /\ Len(t) \in Nat
    BY <1>4
  <2>5. i <= Len(t) \/ i = Len(t) + 1 \/ i > Len(t) + 1
    BY ONLY <2>4
  <2> QED BY <2>1, <2>2, <2>3, <2>5
<1>9. a \o r = t \o w
  BY <1>5, <1>6, <1>7, <1>8, SeqEqual
<1> QED BY <1>2, <1>3, <1>9

\* The graph stays as it is, and with it all that is computed from it.
LEMMA SameGraph ==
  ASSUME graph' = graph
  PROVE  /\ Blocks' = Blocks /\ Items' = Items /\ GraphInv' = GraphInv
         /\ \A b : /\ Successors(b)' = Successors(b) /\ Ends(b)' = Ends(b)
                   /\ \A branch : Goes(b, branch)' = Goes(b, branch)
         /\ \A W, T : Fits(W, T)' = Fits(W, T)
         /\ \A a, without : Reachable(a, without)' = Reachable(a, without)
         /\ HasBackEdge' = HasBackEdge
<1>1. Blocks' = Blocks
  BY DEF Blocks
<1>2. Items' = Items
  BY <1>1 DEF Items, Lines, Paths
<1>3. \A b : Successors(b)' = Successors(b)
  BY DEF Successors, TargetOf, FallthroughOf, Blocks
<1>4. \A b : Ends(b)' = Ends(b)
  BY DEF Ends
<1>5. \A b, branch : Goes(b, branch)' = Goes(b, branch)
  BY <1>1 DEF Goes, BlockOrOutside
<1>6. \A W, T : Fits(W, T)' = Fits(W, T)
  <2> TAKE W, T
  <2>1. \A k : /\ FitsStraight(W, T, k)' = FitsStraight(W, T, k)
               /\ FitsTurn(W, T, k)' = FitsTurn(W, T, k)
               /\ FitsArm(W, T, k)' = FitsArm(W, T, k)
    <3> TAKE k
    <3>1. FitsStraight(W, T, k)' = FitsStraight(W, T, k)
      BY DEF FitsStraight, Ends, Successors, TargetOf, FallthroughOf, Blocks
    <3>2. FitsTurn(W, T, k)' = FitsTurn(W, T, k)
      BY DEF FitsTurn, BehindBlock, Goes, BlockOrOutside, Successors, TargetOf, FallthroughOf,
             Blocks
    <3>3. FitsArm(W, T, k)' = FitsArm(W, T, k)
      BY DEF FitsArm, Goes, BlockOrOutside, Closes, Blocks
    <3> QED BY <3>1, <3>2, <3>3
  <2> QED BY <1>1, <1>2, <2>1 DEF Fits
<1>7. \A a, without : Within(a, without)' = Within(a, without)
  BY SMT DEF Within, Successors, TargetOf, FallthroughOf, Blocks
<1>8. \A a, without : Reachable(a, without)' = Reachable(a, without)
  BY <1>7 DEF Reachable
<1>9. HasBackEdge' = HasBackEdge
  BY <1>3, <1>8 DEF HasBackEdge
<1>10. GraphInv' = GraphInv
  BY DEF GraphInv
<1> QED BY <1>1, <1>2, <1>3, <1>4, <1>5, <1>6, <1>8, <1>9, <1>10

--------------------------------------------------------------------------------
(***************************************************************************)
(* What the printed text t and the open work w say of the visited blocks V.*)
(***************************************************************************)

\* The statements of the visited blocks are printed, once.
Printed(t, V) ==
  /\ \A k \in 1 .. Len(t) : t[k].kind = "block" => t[k].block \in V
  /\ \A b \in V : \E k \in 1 .. Len(t) : t[k].kind = "block" /\ t[k].block = b
  /\ \A j, k \in 1 .. Len(t) :
       t[j].kind = "block" /\ t[k].kind = "block" /\ t[j].block = t[k].block => j = k

\* A goto finds a label.
Labelled(t, V) ==
  /\ HasBackEdge => \A b \in V : \E k \in 1 .. Len(t) : t[k].kind = "label" /\ t[k].block = b
  /\ ~ HasBackEdge => \A k \in 1 .. Len(t) : t[k].kind # "goto"

\* A path still comes for what the visited blocks lead to, and for what a path stops at.
Open(w, V) ==
  /\ \A i \in 1 .. Len(w) :
       /\ w[i].kind \in WorkKinds
       /\ w[i].kind = "path" => /\ w[i].block \in Reachable(1, {})
                                /\ \/ w[i].stop \in V \cup {NoBlock}
                                   \/ Comes(w, i + 1, w[i].stop)
  /\ V \in SUBSET Reachable(1, {})
  /\ 1 \in V \/ Comes(w, 1, 1)
  /\ \A b \in V : \A c \in ToSet(Successors(b)) : c \in V \/ Comes(w, 1, c)

\* The machine follows the text.
Leads(W) == \E T : Fits(W, T) /\ T[1] = 1 /\ T[Len(W) + 1] = NoBlock

\* At first everything is in front of the one open path.
LEMMA OpenAtFirst ==
  ASSUME GraphInv
  PROVE  Open(<<Path(1, NoBlock, 1)>>, {})
<1>1. 1 \in Blocks /\ 1 \in Reachable(1, {})
  BY BlocksFacts, ReachableFacts
<1>2. PICK x : x = Path(1, NoBlock, 1)
  OBVIOUS
<1>3. x.kind = "path" /\ x.block = 1 /\ x.stop = NoBlock
  BY <1>2 DEF Path
<1>4. PICK w : w = <<x>>
  OBVIOUS
<1>5. Len(w) = 1 /\ w[1] = x /\ 1 .. Len(w) = {1}
  BY <1>4
<1>6. Comes(w, 1, 1)
  BY <1>3, <1>5 DEF Comes
<1>7. Open(w, {})
  BY <1>1, <1>3, <1>5, <1>6 DEF Open, WorkKinds
<1> QED BY <1>2, <1>4, <1>7

\* At the end what can be reached is visited.
LEMMA OpenAtLast ==
  ASSUME GraphInv, NEW V, Open(<<>>, V)
  PROVE  V = Reachable(1, {})
<1>1. 1 \in Blocks
  BY BlocksFacts
<1>2. \A c : ~ Comes(<<>>, 1, c)
  <2>1. 1 .. Len(<<>>) = {}
    OBVIOUS
  <2> QED BY <2>1 DEF Comes
<1>3. V \in SUBSET Reachable(1, {}) /\ 1 \in V /\ ClosedBlocks(V)
  BY <1>2 DEF Open, ClosedBlocks
<1>4. /\ Reachable(1, {}) \in SUBSET Blocks
      /\ \A T \in SUBSET Blocks : 1 \in T /\ ClosedBlocks(T) => Reachable(1, {}) \subseteq T
  BY <1>1, ReachableFacts
<1> QED BY <1>3, <1>4

\* The work in front is done.
LEMMA OpenBehind ==
  ASSUME NEW w \in Seq(Items), w # <<>>, NEW V, Open(w, V),
         Head(w).kind = "path" =>
           \/ Head(w).block \in V
           \/ Head(w).block = Head(w).stop /\ Head(w).stop # NoBlock
  PROVE  Open(Tail(w), V)
<1>1. PICK r : r = Tail(w)
  OBVIOUS
<1>2. /\ Len(w) \in Nat \ {0} /\ Head(w) = w[1] /\ Len(r) = Len(w) - 1
      /\ \A i \in 1 .. Len(w) - 1 : r[i] = w[i + 1]
  BY <1>1, HeadFacts
<1>3. ASSUME NEW i \in Nat, NEW c, Comes(w, i + 2, c) PROVE Comes(r, i + 1, c)
  <2>1. PICK j \in i + 2 .. Len(w) : w[j].kind = "path" /\ w[j].block = c
    BY <1>3 DEF Comes
  <2>2. j - 1 \in i + 1 .. Len(r) /\ j - 1 \in 1 .. Len(w) - 1 /\ (j - 1) + 1 = j
    BY <1>2, <2>1
  <2>3. r[j - 1] = w[j]
    BY <2>2, <1>2
  <2> QED BY <2>1, <2>2, <2>3 DEF Comes
<1>4. ASSUME NEW c, Comes(w, 1, c) PROVE c \in V \/ Comes(r, 1, c)
  <2>1. PICK j \in 1 .. Len(w) : w[j].kind = "path" /\ w[j].block = c
    BY <1>4 DEF Comes
  <2>2. CASE j = 1
    <3>1. c \in V \/ (c = w[1].stop /\ c # NoBlock)
      BY <2>1, <2>2, <1>2
    <3>2. w[1].stop \in V \cup {NoBlock} \/ Comes(w, 1 + 1, w[1].stop)
      BY <2>1, <2>2 DEF Open
    <3>3. CASE Comes(w, 1 + 1, c)
      <4>1. Comes(w, 0 + 2, c)
        BY <3>3
      <4>2. Comes(r, 0 + 1, c)
        BY <4>1, <1>3
      <4> QED BY <4>2
    <3> QED BY <3>1, <3>2, <3>3
  <2>3. CASE j # 1
    <3>1. j \in 0 + 2 .. Len(w)
      BY <2>1, <2>3, <1>2
    <3>2. Comes(w, 0 + 2, c)
      BY <2>1, <3>1 DEF Comes
    <3>3. Comes(r, 0 + 1, c)
      BY <3>2, <1>3
    <3> QED BY <3>3
  <2> QED BY <2>2, <2>3
<1>5. \A i \in 1 .. Len(r) :
        /\ r[i].kind \in WorkKinds
        /\ r[i].kind = "path" => /\ r[i].block \in Reachable(1, {})
                                 /\ \/ r[i].stop \in V \cup {NoBlock}
                                    \/ Comes(r, i + 1, r[i].stop)
  <2> TAKE i \in 1 .. Len(r)
  <2>1. i + 1 \in 1 .. Len(w) /\ r[i] = w[i + 1] /\ i \in Nat
    BY <1>2
  <2>2. /\ w[i + 1].kind \in WorkKinds
        /\ w[i + 1].kind = "path" => /\ w[i + 1].block \in Reachable(1, {})
                                     /\ \/ w[i + 1].stop \in V \cup {NoBlock}
                                        \/ Comes(w, (i + 1) + 1, w[i + 1].stop)
    BY <2>1 DEF Open
  <2>3. (i + 1) + 1 = i + 2
    BY <2>1
  <2> QED BY <2>1, <2>2, <2>3, <1>3
<1>6. Open(r, V)
  BY <1>4, <1>5 DEF Open
<1> QED BY <1>1, <1>6

\* A path is replaced by what emitStructuredPath makes of its block.
LEMMA OpenEmitted ==
  ASSUME GraphInv, NEW w \in Seq(Items), w # <<>>, NEW V, Open(w, V), Head(w).kind = "path",
         NEW b \in Blocks, b = Head(w).block, NEW join \in Joins(b),
         NEW a \in Seq(Items), NEW s, NEW next,
         Len(s) = Len(a) + 1, \A i \in 1 .. Len(a) : a[i] = s[i + 1],
         Expands(s, b, Head(w).stop, Head(w).depth, {join}, next)
  PROVE  Open(a \o Tail(w), V \cup {b})
<1>1. PICK r : r = Tail(w)
  OBVIOUS
<1>2. PICK v : v = a \o r
  OBVIOUS
<1>3. /\ Len(w) \in Nat \ {0} /\ Head(w) = w[1] /\ r \in Seq(Items) /\ Len(r) = Len(w) - 1
      /\ \A i \in 1 .. Len(w) - 1 : r[i] = w[i + 1]
  BY <1>1, HeadFacts
<1>4. /\ v \in Seq(Items) /\ Len(a) \in Nat /\ Len(v) = Len(a) + Len(r)
      /\ \A i \in 1 .. Len(a) : v[i] = a[i]
      /\ \A i \in 1 .. Len(r) : v[Len(a) + i] = r[i]
  BY <1>2, <1>3, ConcatFacts
<1>5. b \in Reachable(1, {}) /\ (w[1].stop \in V \cup {NoBlock} \/ Comes(w, 1 + 1, w[1].stop))
  <2>1. 1 \in 1 .. Len(w)
    BY <1>3
  <2> QED BY <2>1, <1>3 DEF Open
<1>6. /\ Reachable(1, {}) \in SUBSET Blocks /\ ClosedBlocks(Reachable(1, {}))
      /\ ToSet(Successors(b)) \in SUBSET Reachable(1, {})
  <2>1. 1 \in Blocks
    BY BlocksFacts
  <2>2. Reachable(1, {}) \in SUBSET Blocks /\ ClosedBlocks(Reachable(1, {}))
    BY <2>1, ReachableFacts
  <2>3. ToSet(Successors(b)) \in SUBSET Blocks
    BY ToSetOfBlocks
  <2> QED BY <2>2, <2>3, <1>5 DEF ClosedBlocks
<1>7. join = NoBlock \/ join \in Reachable(1, {})
  <2>1. SUFFICES ASSUME join # NoBlock PROVE join \in Reachable(1, {})
    OBVIOUS
  <2>2. PICK c : c = Successors(b)[1]
    OBVIOUS
  <2>3. Len(Successors(b)) = 2 /\ join \in Reachable(c, {})
    BY <2>1, <2>2, JoinFacts
  <2>4. c \in ToSet(Successors(b))
    <3>1. Successors(b) \in Seq(Blocks) /\ 1 \in DOMAIN Successors(b)
      <4>1. Successors(b) \in Seq(Blocks)
        BY SuccessorFacts
      <4>2. DOMAIN Successors(b) = 1 .. 2
        BY <2>3, <4>1, LenProperties
      <4> QED BY <4>1, <4>2
    <3> QED BY <3>1, <2>2 DEF ToSet
  <2>5. c \in Blocks /\ c \in Reachable(1, {})
    BY <2>4, <1>6
  <2>6. Reachable(c, {}) \subseteq Reachable(1, {})
    BY <2>5, <1>6, ReachableFacts
  <2> QED BY <2>3, <2>6
<1>8. ASSUME NEW i \in Nat, NEW c, Comes(s, i + 1, c), i # 0 PROVE Comes(v, i, c)
  <2>1. PICK j \in i + 1 .. Len(s) : s[j].kind = "path" /\ s[j].block = c
    BY <1>8 DEF Comes
  <2>2. j - 1 \in i .. Len(v) /\ j - 1 \in 1 .. Len(a) /\ (j - 1) + 1 = j
    BY <1>3, <1>4, <1>8, <2>1
  <2>3. v[j - 1] = s[j]
    BY <2>2, <1>4
  <2> QED BY <2>1, <2>2, <2>3 DEF Comes
<1>9. ASSUME NEW i \in Nat, NEW k \in Nat, NEW c, Comes(w, i + 2, c), k <= Len(a) + i + 1
      PROVE  Comes(v, k, c)
  <2>1. PICK j \in i + 2 .. Len(w) : w[j].kind = "path" /\ w[j].block = c
    BY <1>9 DEF Comes
  <2>2. PICK m : m = j - 1
    OBVIOUS
  <2>3. m \in 1 .. Len(r) /\ m \in 1 .. Len(w) - 1 /\ m + 1 = j /\ Len(a) + m \in k .. Len(v)
    BY <1>3, <1>4, <1>9, <2>1, <2>2
  <2>4. v[Len(a) + m] = w[j]
    BY <2>3, <1>3, <1>4
  <2> QED BY <2>1, <2>3, <2>4 DEF Comes
<1>10. ASSUME NEW c, Comes(w, 1, c) PROVE c \in V \cup {b} \/ Comes(v, 1, c)
  <2>1. PICK j \in 1 .. Len(w) : w[j].kind = "path" /\ w[j].block = c
    BY <1>10 DEF Comes
  <2>2. CASE j = 1
    BY <2>1, <2>2, <1>3
  <2>3. CASE j # 1
    <3>1. j \in 0 + 2 .. Len(w)
      BY <2>1, <2>3, <1>3
    <3>2. Comes(w, 0 + 2, c)
      BY <2>1, <3>1 DEF Comes
    <3>3. 1 <= Len(a) + 0 + 1
      BY <1>4
    <3> QED BY <3>2, <3>3, <1>9
  <2> QED BY <2>2, <2>3
<1>11. ASSUME NEW c \in ToSet(Successors(b)) PROVE Comes(v, 1, c)
  <2>1. Comes(s, 1, c)
    BY DEF Expands
  <2>2. PICK j \in 1 .. Len(s) : s[j].kind = "path" /\ s[j].block = c
    BY <2>1 DEF Comes
  <2>3. j # 1
    BY <2>2 DEF Expands
  <2>4. j \in 1 + 1 .. Len(s)
    BY <2>2, <2>3, <1>4
  <2>5. Comes(s, 1 + 1, c)
    BY <2>2, <2>4 DEF Comes
  <2> QED BY <2>5, <1>8
<1>12. ASSUME NEW i \in 1 .. Len(v)
       PROVE  /\ v[i].kind \in WorkKinds
              /\ v[i].kind = "path" => /\ v[i].block \in Reachable(1, {})
                                       /\ \/ v[i].stop \in (V \cup {b}) \cup {NoBlock}
                                          \/ Comes(v, i + 1, v[i].stop)
  <2>1. CASE i \in 1 .. Len(a)
    <3>1. i + 1 \in 2 .. Len(s) /\ v[i] = s[i + 1] /\ i \in Nat /\ i + 1 \in Nat /\ i + 1 # 0
      BY <2>1, <1>4
    <3>2. Follows(s, i + 1, b, w[1].stop, w[1].depth, {join})
      BY <3>1, <1>3 DEF Expands
    <3>3. v[i].kind \in WorkKinds
      BY <3>1, <3>2 DEF Follows
    <3>4. ASSUME v[i].kind = "path"
          PROVE  /\ v[i].block \in Reachable(1, {})
                 /\ v[i].stop \in V \cup {NoBlock} \/ Comes(v, i + 1, v[i].stop)
      <4>1. /\ v[i].block \in ToSet(Successors(b)) \cup {join}
            /\ v[i].stop \in {NoBlock, w[1].stop} \/ Comes(s, (i + 1) + 1, v[i].stop)
        BY <3>1, <3>2, <3>4 DEF Follows
      <4>2. v[i].block \in Blocks
        <5>1. v[i] \in Items
          BY <1>4, ElementOfSeq
        <5> QED BY <5>1, ItemFacts
      <4>3. v[i].block \in Reachable(1, {})
        BY <4>1, <4>2, <1>6, <1>7, BlocksFacts
      <4>4. CASE Comes(s, (i + 1) + 1, v[i].stop)
        BY <3>1, <4>3, <4>4, <1>8
      <4>5. CASE v[i].stop = w[1].stop
        <5>1. CASE Comes(w, 1 + 1, w[1].stop)
          <6>1. Comes(w, 0 + 2, v[i].stop)
            BY <4>5, <5>1
          <6>2. i + 1 <= Len(a) + 0 + 1
            BY <2>1, <1>4
          <6> QED BY <6>1, <6>2, <3>1, <4>3, <1>9
        <5> QED BY <4>3, <4>5, <5>1, <1>5
      <4> QED BY <4>1, <4>3, <4>4, <4>5
    <3> QED BY <3>3, <3>4
  <2>2. CASE i \notin 1 .. Len(a)
    <3>1. PICK k : k = i - Len(a)
      OBVIOUS
    <3>2. /\ k \in 1 .. Len(r) /\ Len(a) + k = i /\ k \in 1 .. Len(w) - 1
          /\ k + 1 \in 1 .. Len(w) /\ k \in Nat /\ i + 1 \in Nat
          /\ i + 1 <= Len(a) + k + 1 /\ (k + 1) + 1 = k + 2
      <4>1. /\ Len(a) \in Nat /\ Len(r) \in Nat /\ Len(w) \in Nat
            /\ Len(r) = Len(w) - 1 /\ Len(v) = Len(a) + Len(r)
        BY <1>3, <1>4
      <4>2. i \in 1 .. Len(v) /\ i \notin 1 .. Len(a)
        BY <2>2
      <4> QED BY ONLY <4>1, <4>2, <3>1
    <3>3. v[i] = w[k + 1]
      BY <3>2, <1>3, <1>4
    <3>4. /\ w[k + 1].kind \in WorkKinds
          /\ w[k + 1].kind = "path" => /\ w[k + 1].block \in Reachable(1, {})
                                       /\ \/ w[k + 1].stop \in V \cup {NoBlock}
                                          \/ Comes(w, (k + 1) + 1, w[k + 1].stop)
      BY <3>2 DEF Open
    <3> QED BY <3>2, <3>3, <3>4, <1>9
  <2> QED BY <2>1, <2>2
<1>13. V \cup {b} \in SUBSET Reachable(1, {})
  BY <1>5 DEF Open
<1>14. 1 \in V \cup {b} \/ Comes(v, 1, 1)
  BY <1>10 DEF Open
<1>15. \A d \in V \cup {b} : \A c \in ToSet(Successors(d)) : c \in V \cup {b} \/ Comes(v, 1, c)
  BY <1>10, <1>11 DEF Open
<1>16. Open(v, V \cup {b})
  BY <1>12, <1>13, <1>14, <1>15 DEF Open
<1> QED BY <1>1, <1>2, <1>16

--------------------------------------------------------------------------------
(***************************************************************************)
(* What a step of the emission does to the text.                           *)
(***************************************************************************)

\* Lines that print no block keep the blocks printed; those that print one add it.
LEMMA PrintedNone ==
  ASSUME NEW t \in Seq(Items), NEW c \in Seq(Items), NEW V, Printed(t, V),
         \A i \in 1 .. Len(c) : c[i].kind # "block"
  PROVE  Printed(t \o c, V)
<1>1. PICK v : v = t \o c
  OBVIOUS
<1>2. /\ v \in Seq(Items) /\ Len(t) \in Nat /\ Len(c) \in Nat /\ Len(v) = Len(t) + Len(c)
      /\ \A i \in 1 .. Len(t) : v[i] = t[i]
      /\ \A i \in 1 .. Len(c) : v[Len(t) + i] = c[i]
  BY <1>1, ConcatFacts
<1>3. \A k \in 1 .. Len(v) : v[k].kind = "block" => k \in 1 .. Len(t) /\ v[k] = t[k]
  <2> TAKE k \in 1 .. Len(v)
  <2>1. CASE k \in 1 .. Len(t)
    BY <2>1, <1>2
  <2>2. CASE k \notin 1 .. Len(t)
    <3>1. PICK i : i = k - Len(t)
      OBVIOUS
    <3>2. i \in 1 .. Len(c) /\ Len(t) + i = k
      BY <2>2, <3>1, <1>2
    <3> QED BY <3>2, <1>2
  <2> QED BY <2>1, <2>2
<1>4. \A k \in 1 .. Len(t) : k \in 1 .. Len(v) /\ v[k] = t[k]
  BY <1>2
<1>5. Printed(v, V)
  <2>1. \A k \in 1 .. Len(v) : v[k].kind = "block" => v[k].block \in V
    BY <1>3 DEF Printed
  <2>2. \A a \in V : \E k \in 1 .. Len(v) : v[k].kind = "block" /\ v[k].block = a
    <3> TAKE a \in V
    <3>1. PICK k \in 1 .. Len(t) : t[k].kind = "block" /\ t[k].block = a
      BY DEF Printed
    <3> QED BY <3>1, <1>4
  <2>3. \A j, k \in 1 .. Len(v) :
          v[j].kind = "block" /\ v[k].kind = "block" /\ v[j].block = v[k].block => j = k
    BY <1>3 DEF Printed
  <2> QED BY <2>1, <2>2, <2>3 DEF Printed
<1> QED BY <1>1, <1>5

LEMMA PrintedOne ==
  ASSUME NEW t \in Seq(Items), NEW c \in Seq(Items), NEW V, Printed(t, V), NEW b, b \notin V,
         NEW m \in 1 .. Len(c), c[m].block = b,
         \A i \in 1 .. Len(c) : c[i].kind = "block" <=> i = m
  PROVE  Printed(t \o c, V \cup {b})
<1>1. PICK v : v = t \o c
  OBVIOUS
<1>2. /\ v \in Seq(Items) /\ Len(t) \in Nat /\ Len(c) \in Nat /\ Len(v) = Len(t) + Len(c)
      /\ \A i \in 1 .. Len(t) : v[i] = t[i]
      /\ \A i \in 1 .. Len(c) : v[Len(t) + i] = c[i]
  BY <1>1, ConcatFacts
<1>3. PICK n : n = Len(t) + m
  OBVIOUS
<1>4. n \in 1 .. Len(v) /\ v[n] = c[m] /\ n \notin 1 .. Len(t) /\ v[n].kind = "block"
      /\ v[n].block = b
  BY <1>2, <1>3
<1>5. \A k \in 1 .. Len(v) : v[k].kind = "block" => k = n \/ (k \in 1 .. Len(t) /\ v[k] = t[k])
  <2> TAKE k \in 1 .. Len(v)
  <2>1. CASE k \in 1 .. Len(t)
    BY <2>1, <1>2
  <2>2. CASE k \notin 1 .. Len(t)
    <3>1. PICK i : i = k - Len(t)
      OBVIOUS
    <3>2. i \in 1 .. Len(c) /\ Len(t) + i = k
      BY <2>2, <3>1, <1>2
    <3>3. v[k] = c[i]
      BY <3>2, <1>2
    <3> QED BY <3>2, <3>3, <1>3
  <2> QED BY <2>1, <2>2
<1>6. \A k \in 1 .. Len(t) : k \in 1 .. Len(v) /\ v[k] = t[k]
  BY <1>2
<1>7. Printed(v, V \cup {b})
  <2>1. \A k \in 1 .. Len(v) : v[k].kind = "block" => v[k].block \in V \cup {b}
    BY <1>4, <1>5 DEF Printed
  <2>2. \A a \in V \cup {b} : \E k \in 1 .. Len(v) : v[k].kind = "block" /\ v[k].block = a
    <3> TAKE a \in V \cup {b}
    <3>1. CASE a \in V
      <4>1. PICK k \in 1 .. Len(t) : t[k].kind = "block" /\ t[k].block = a
        BY <3>1 DEF Printed
      <4> QED BY <4>1, <1>6
    <3>2. CASE a = b
      BY <3>2, <1>4
    <3> QED BY <3>1, <3>2
  <2>3. \A j, k \in 1 .. Len(v) :
          v[j].kind = "block" /\ v[k].kind = "block" /\ v[j].block = v[k].block => j = k
    BY <1>4, <1>5 DEF Printed
  <2> QED BY <2>1, <2>2, <2>3 DEF Printed
<1> QED BY <1>1, <1>7

\* Without gotos no label is needed; with labels, each chunk brings its own.
LEMMA LabelledNone ==
  ASSUME NEW t \in Seq(Items), NEW c \in Seq(Items), NEW V, NEW U, Labelled(t, V),
         ~ HasBackEdge, \A i \in 1 .. Len(c) : c[i].kind # "goto"
  PROVE  Labelled(t \o c, U)
<1>1. PICK v : v = t \o c
  OBVIOUS
<1>2. /\ v \in Seq(Items) /\ Len(t) \in Nat /\ Len(c) \in Nat /\ Len(v) = Len(t) + Len(c)
      /\ \A i \in 1 .. Len(t) : v[i] = t[i]
      /\ \A i \in 1 .. Len(c) : v[Len(t) + i] = c[i]
  BY <1>1, ConcatFacts
<1>3. \A k \in 1 .. Len(v) : v[k].kind # "goto"
  <2> TAKE k \in 1 .. Len(v)
  <2>1. CASE k \in 1 .. Len(t)
    BY <2>1, <1>2 DEF Labelled
  <2>2. CASE k \notin 1 .. Len(t)
    <3>1. PICK i : i = k - Len(t)
      OBVIOUS
    <3>2. i \in 1 .. Len(c) /\ Len(t) + i = k
      BY <2>2, <3>1, <1>2
    <3> QED BY <3>2, <1>2
  <2> QED BY <2>1, <2>2
<1> QED BY <1>1, <1>3 DEF Labelled

LEMMA LabelledOne ==
  ASSUME NEW t \in Seq(Items), NEW c \in Seq(Items), NEW V, NEW b, Labelled(t, V),
         HasBackEdge, Len(c) \in Nat \ {0}, c[1].kind = "label", c[1].block = b
  PROVE  Labelled(t \o c, V \cup {b})
<1>1. PICK v : v = t \o c
  OBVIOUS
<1>2. /\ v \in Seq(Items) /\ Len(t) \in Nat /\ Len(c) \in Nat /\ Len(v) = Len(t) + Len(c)
      /\ \A i \in 1 .. Len(t) : v[i] = t[i]
      /\ \A i \in 1 .. Len(c) : v[Len(t) + i] = c[i]
  BY <1>1, ConcatFacts
<1>3. Len(t) + 1 \in 1 .. Len(v) /\ v[Len(t) + 1] = c[1]
  BY <1>2
<1>4. \A k \in 1 .. Len(t) : k \in 1 .. Len(v) /\ v[k] = t[k]
  BY <1>2
<1>5. \A a \in V \cup {b} : \E k \in 1 .. Len(v) : v[k].kind = "label" /\ v[k].block = a
  BY <1>3, <1>4 DEF Labelled
<1> QED BY <1>1, <1>5 DEF Labelled

--------------------------------------------------------------------------------
(***************************************************************************)
(* What a step of the emission does to the whole.                          *)
(***************************************************************************)

\* Lines and paths that lead from a path to what comes behind it take its place.
LEMMA LeadsOn ==
  ASSUME NEW t \in Seq(Items), NEW w \in Seq(Items), w # <<>>, Head(w).kind = "path",
         NEW s \in Seq(Items), Leads(t \o w),
         \A i \in 1 .. Len(s) : s[i].depth >= Head(w).depth,
         \A next \in Blocks \cup {NoBlock} :
           (Head(w).stop # NoBlock => next = Head(w).stop) =>
             \E u : Fits(s, u) /\ u[1] = Head(w).block /\ u[Len(s) + 1] = next
  PROVE  Leads((t \o s) \o Tail(w))
<1>1. PICK W : W = t \o w
  OBVIOUS
<1>2. PICK V : V = (t \o s) \o Tail(w)
  OBVIOUS
<1>3. PICK p : p = Len(t) + 1
  OBVIOUS
<1>4. Replaces(W, V, p, s) /\ W[p] = Head(w)
  BY <1>1, <1>2, <1>3, Spliced
<1>5. PICK T : Fits(W, T) /\ T[1] = 1 /\ T[Len(W) + 1] = NoBlock
  BY <1>1 DEF Leads
<1>6. p \in 1 .. Len(W) /\ W \in Seq(Items) /\ W[p].kind = "path"
  BY <1>4 DEF Replaces
<1>7. T[p] = Head(w).block /\ (Head(w).stop # NoBlock => T[p + 1] = Head(w).stop)
  BY <1>4, <1>5, <1>6 DEF Fits, FitsStraight
<1>8. T[p + 1] \in Blocks \cup {NoBlock}
  <2>1. T \in Seq(Blocks \cup {NoBlock}) /\ p + 1 \in 1 .. Len(T)
    BY <1>5, <1>6 DEF Fits
  <2> QED BY <2>1, ElementOfSeq
<1>9. PICK u : Fits(s, u) /\ u[1] = T[p] /\ u[Len(s) + 1] = T[p + 1]
  BY <1>7, <1>8
<1>10. \A i \in 1 .. Len(s) : s[i].depth >= W[p].depth
  BY <1>4
<1>11. \E U : /\ Fits(V, U)
              /\ U[Len(V) + 1] = T[Len(W) + 1]
              /\ U[1] = T[1]
  <2>1. /\ Replaces(W, V, p, s) /\ Fits(W, T) /\ Fits(s, u)
        /\ u[1] = T[p] /\ u[Len(s) + 1] = T[p + 1]
        /\ \A i \in 1 .. Len(s) : s[i].depth >= W[p].depth
    BY <1>4, <1>5, <1>9, <1>10
  <2> QED BY ONLY <2>1, FitsReplaced
<1>12. Leads(V)
  BY <1>5, <1>11 DEF Leads
<1> QED BY <1>2, <1>12

\* The path of a block where its caller goes on.
LEMMA LeadsFromJoin ==
  ASSUME NEW t \in Seq(Items), NEW w \in Seq(Items), w # <<>>, Head(w).kind = "path",
         Head(w).block = Head(w).stop, Leads(t \o w)
  PROVE  Leads(t \o Tail(w))
<1>1. <<>> \in Seq(Items) /\ Len(<<>>) = 0 /\ 1 .. Len(<<>>) = {}
  OBVIOUS
<1>2. Head(w).block \in Blocks
  <2>1. Head(w) \in Items
    BY HeadFacts
  <2> QED BY <2>1, ItemFacts
<1>3. ASSUME NEW next \in Blocks \cup {NoBlock}, Head(w).stop # NoBlock => next = Head(w).stop
      PROVE  \E u : Fits(<<>>, u) /\ u[1] = Head(w).block /\ u[Len(<<>>) + 1] = next
  <2>1. next = Head(w).block
    BY <1>2, <1>3, BlocksFacts, NoBlockAssumption DEF Blocks
  <2>2. PICK u : u = <<next>>
    OBVIOUS
  <2>3. u \in Seq(Blocks \cup {NoBlock}) /\ Len(u) = 1 /\ u[1] = next
    BY <2>2
  <2>4. Fits(<<>>, u)
    BY <1>1, <2>3 DEF Fits
  <2> QED BY <2>1, <2>3, <2>4, <1>1
<1>4. Leads((t \o <<>>) \o Tail(w))
  BY <1>1, <1>3, LeadsOn
<1>5. t \o <<>> = t
  BY ConcatEmptySeq
<1> QED BY <1>4, <1>5

\* A comment names a block that is printed elsewhere.
LEMMA LeadsElsewhere ==
  ASSUME NEW t \in Seq(Items), NEW w \in Seq(Items), w # <<>>, Head(w).kind = "path",
         Leads(t \o w)
  PROVE  Leads((t \o <<Line("rejoin", Head(w).block, Head(w).depth)>>) \o Tail(w))
<1>1. PICK b : b = Head(w).block
  OBVIOUS
<1>2. PICK e : e = Head(w).depth
  OBVIOUS
<1>3. b \in Blocks /\ e \in Nat
  <2>1. Head(w) \in Items
    BY HeadFacts
  <2> QED BY <2>1, <1>1, <1>2, ItemFacts
<1>4. PICK x : x = Line("rejoin", b, e)
  OBVIOUS
<1>5. x \in Items /\ x.kind = "rejoin" /\ x.block = b /\ x.depth = e
  BY <1>3, <1>4, KindFacts DEF Line, Items, Lines
<1>6. PICK s : s = <<x>>
  OBVIOUS
<1>7. s \in Seq(Items) /\ Len(s) = 1 /\ s[1] = x /\ 1 .. Len(s) = {1}
  BY <1>5, <1>6
<1>8. ASSUME NEW next \in Blocks \cup {NoBlock}
      PROVE  \E u : Fits(s, u) /\ u[1] = b /\ u[Len(s) + 1] = next
  <2>1. PICK u : u = <<b, next>>
    OBVIOUS
  <2>2. u \in Seq(Blocks \cup {NoBlock}) /\ Len(u) = 2 /\ u[1] = b /\ u[2] = next
    BY <2>1, <1>3
  <2>3. FitsAt(s, u, 1)
    BY <2>2, <1>5, <1>7, FitHere
  <2>4. Fits(s, u)
    <3>1. \A k \in 1 .. Len(s) : FitsAt(s, u, k)
      BY <2>3, <1>7
    <3>2. Len(u) = Len(s) + 1
      BY <2>2, <1>7
    <3> QED BY <3>1, <3>2, <2>2, <1>7, AllFit
  <2> QED BY <2>2, <2>4, <1>7
<1>9. \A i \in 1 .. Len(s) : s[i].depth >= Head(w).depth
  BY <1>2, <1>3, <1>5, <1>7
<1>10. Leads((t \o s) \o Tail(w))
  BY <1>1, <1>7, <1>8, <1>9, LeadsOn
<1> QED BY <1>1, <1>2, <1>4, <1>6, <1>10

\* The first path leads from the entry to the end, and the machine with it.
LEMMA LeadsAtFirst ==
  ASSUME GraphInv
  PROVE  Leads(<<Path(1, NoBlock, 1)>>)
<1>1. 1 \in Blocks /\ 1 \in Nat
  BY BlocksFacts
<1>2. PICK x : x = Path(1, NoBlock, 1)
  OBVIOUS
<1>3. x \in Items /\ x.kind = "path" /\ x.block = 1 /\ x.stop = NoBlock
  BY <1>1, <1>2, PathFacts
<1>4. PICK s : s = <<x>>
  OBVIOUS
<1>5. s \in Seq(Items) /\ Len(s) = 1 /\ s[1] = x /\ 1 .. Len(s) = {1}
  BY <1>3, <1>4
<1>6. PICK u : u = <<1, NoBlock>>
  OBVIOUS
<1>7. u \in Seq(Blocks \cup {NoBlock}) /\ Len(u) = 2 /\ u[1] = 1 /\ u[2] = NoBlock
  BY <1>1, <1>6
<1>8. FitsAt(s, u, 1)
  BY <1>3, <1>5, <1>7, FitPath
<1>9. Fits(s, u)
  <2>1. \A k \in 1 .. Len(s) : FitsAt(s, u, k)
    BY <1>5, <1>8
  <2>2. Len(u) = Len(s) + 1
    BY <1>5, <1>7
  <2> QED BY <2>1, <2>2, <1>5, <1>7, AllFit
<1>10. Leads(s)
  BY <1>5, <1>7, <1>9 DEF Leads
<1> QED BY <1>2, <1>4, <1>10

--------------------------------------------------------------------------------
(***************************************************************************)
(* emitFallbackControlFlow goes through the blocks in their order, as if   *)
(* there were a path for each.                                             *)
(***************************************************************************)
Rest(n) == [i \in 1 .. Len(graph) - n |-> Path(n + i, NoBlock, 1)]

LEMMA RestFacts ==
  ASSUME GraphInv, NEW n \in 0 .. Len(graph)
  PROVE  /\ Rest(n) \in Seq(Items) /\ Len(Rest(n)) = Len(graph) - n
         /\ n = Len(graph) => Rest(n) = <<>>
         /\ n # Len(graph) => /\ Rest(n) # <<>> /\ Head(Rest(n)) = Path(n + 1, NoBlock, 1)
                              /\ Tail(Rest(n)) = Rest(n + 1)
<1>1. Len(graph) \in Nat \ {0} /\ Blocks = 1 .. Len(graph)
  BY BlocksFacts
<1>2. \A m \in 0 .. Len(graph) : /\ Rest(m) \in Seq(Items) /\ Len(Rest(m)) = Len(graph) - m
                                 /\ \A i \in 1 .. Len(graph) - m :
                                      Rest(m)[i] = Path(m + i, NoBlock, 1)
  <2> TAKE m \in 0 .. Len(graph)
  <2>1. Len(graph) - m \in Nat
    BY <1>1
  <2>2. \A i \in 1 .. Len(graph) - m : Path(m + i, NoBlock, 1) \in Items
    <3> TAKE i \in 1 .. Len(graph) - m
    <3>1. m + i \in Blocks /\ 1 \in Nat
      BY <1>1
    <3> QED BY <3>1, PathFacts
  <2> QED BY <2>1, <2>2 DEF Rest
<1>3. ASSUME n = Len(graph) PROVE Rest(n) = <<>>
  <2>1. Rest(n) \in Seq(Items) /\ Len(Rest(n)) = 0
    BY <1>1, <1>2, <1>3
  <2> QED BY <2>1, EmptySeq
<1>4. ASSUME n # Len(graph)
      PROVE  /\ Rest(n) # <<>> /\ Head(Rest(n)) = Path(n + 1, NoBlock, 1)
             /\ Tail(Rest(n)) = Rest(n + 1)
  <2>1. PICK r : r = Rest(n)
    OBVIOUS
  <2>2. PICK q : q = Rest(n + 1)
    OBVIOUS
  <2>3. n + 1 \in 0 .. Len(graph) /\ n \in Nat /\ Len(graph) - n \in Nat \ {0}
    BY <1>1, <1>4
  <2>4. /\ r \in Seq(Items) /\ Len(r) = Len(graph) - n
        /\ \A i \in 1 .. Len(graph) - n : r[i] = Path(n + i, NoBlock, 1)
    BY <1>2, <2>1
  <2>5. /\ q \in Seq(Items) /\ Len(q) = Len(graph) - (n + 1)
        /\ \A i \in 1 .. Len(graph) - (n + 1) : q[i] = Path((n + 1) + i, NoBlock, 1)
    BY <1>2, <2>2, <2>3
  <2>6. r # <<>>
    BY <2>3, <2>4
  <2>7. /\ Head(r) = r[1] /\ Tail(r) \in Seq(Items) /\ Len(Tail(r)) = Len(r) - 1
        /\ \A i \in 1 .. Len(r) - 1 : Tail(r)[i] = r[i + 1]
    BY <2>4, <2>6, HeadFacts
  <2>8. Head(r) = Path(n + 1, NoBlock, 1)
    BY <2>3, <2>4, <2>7
  <2>9. \A i \in 1 .. Len(Tail(r)) : Tail(r)[i] = q[i]
    <3> TAKE i \in 1 .. Len(Tail(r))
    <3>1. /\ i \in 1 .. Len(r) - 1 /\ i + 1 \in 1 .. Len(graph) - n
          /\ i \in 1 .. Len(graph) - (n + 1) /\ n + (i + 1) = (n + 1) + i
      BY <1>1, <2>3, <2>4, <2>7
    <3>2. Tail(r)[i] = Path(n + (i + 1), NoBlock, 1)
      BY <3>1, <2>4, <2>7
    <3> QED BY <3>1, <3>2, <2>5
  <2>10. Len(Tail(r)) = Len(q)
    BY <1>1, <2>3, <2>4, <2>5, <2>7
  <2>11. Tail(r) = q
    BY <2>5, <2>7, <2>9, <2>10, SeqEqual
  <2> QED BY <2>1, <2>2, <2>6, <2>8, <2>11
<1> QED BY <1>2, <1>3, <1>4

\* The blocks of emitFallbackControlFlow, one after the other, fit for every graph.
LEMMA LeadsRest ==
  ASSUME GraphInv
  PROVE  Leads(Rest(0))
<1>1. PICK N : N = Len(graph)
  OBVIOUS
<1>2. PICK s : s = Rest(0)
  OBVIOUS
<1>3. N \in Nat \ {0} /\ Blocks = 1 .. N /\ 0 \in 0 .. N /\ N - 0 = N
  BY <1>1, BlocksFacts
<1>4. s \in Seq(Items) /\ Len(s) = N
  BY <1>1, <1>2, <1>3, RestFacts
<1>5. \A i \in 1 .. N : s[i].kind = "path" /\ s[i].block = i /\ s[i].stop = NoBlock
  <2> TAKE i \in 1 .. N
  <2>1. s[i] = Path(0 + i, NoBlock, 1)
    BY <1>1, <1>2, <1>3 DEF Rest
  <2>2. 0 + i = i
    OBVIOUS
  <2> QED BY <2>1, <2>2 DEF Path
<1> DEFINE u == [i \in 1 .. N + 1 |-> IF i <= N THEN i ELSE NoBlock]
<1>6. /\ u \in Seq(Blocks \cup {NoBlock}) /\ Len(u) = N + 1 /\ u[N + 1] = NoBlock
      /\ \A i \in 1 .. N : u[i] = i
  <2>1. \A i \in 1 .. N + 1 : (IF i <= N THEN i ELSE NoBlock) \in Blocks \cup {NoBlock}
    BY <1>3
  <2> QED BY <2>1, <1>3
<1> HIDE DEF u
<1>7. \A k \in 1 .. Len(s) : FitsAt(s, u, k)
  <2> TAKE k \in 1 .. Len(s)
  <2>1. k \in Nat /\ k \in 1 .. N
    BY <1>3, <1>4
  <2> QED BY <2>1, <1>5, <1>6, FitPath
<1>8. Fits(s, u)
  BY <1>4, <1>6, <1>7, AllFit
<1>9. u[1] = 1
  BY <1>3, <1>6
<1>10. Leads(s)
  BY <1>4, <1>6, <1>8, <1>9 DEF Leads
<1> QED BY <1>2, <1>10

--------------------------------------------------------------------------------
(***************************************************************************)
(* The text is executed, and the machine goes where it goes.               *)
(***************************************************************************)

\* Line k decides where the text goes on.
TurnsAt(W, k) == k \in 1 .. Len(W) /\ W[k].kind \in Turning \cup {"unresolved"}

\* Block l is the last one, and its condition leads out of the function.
Leaves(l, e) == l # NoBlock /\ graph[l].kind = "ConditionalJump" /\ e = NoBlock

\* Line k is reached when block l was executed last, its branch was taken or not, and
\* the machine goes to e.
AtLine(W, T, k, l, branch, e) ==
  /\ branch \in BOOLEAN
  /\ TurnsAt(W, k) => l = W[k].block /\ e = Goes(l, branch)
  /\ ~ TurnsAt(W, k) => \/ Leaves(l, e)
                        \/ e # NoBlock /\ e = T[k] /\ k \in 1 .. Len(W) + 1

\* Only the statements of a block are followed by a line that turns.
LEMMA StraightOn ==
  ASSUME NEW W, NEW T, Fits(W, T), NEW m \in 1 .. Len(W), W[m].kind # "block"
  PROVE  ~ TurnsAt(W, m + 1)
<1>1. SUFFICES ASSUME TurnsAt(W, m + 1) PROVE FALSE
  OBVIOUS
<1>2. m + 1 \in 1 .. Len(W) /\ (m + 1) - 1 = m
  BY <1>1 DEF TurnsAt
<1>3. FitsTurn(W, T, m + 1)
  BY <1>2 DEF Fits
<1>4. BehindBlock(W, m + 1)
  BY <1>1, <1>3 DEF FitsTurn, TurnsAt
<1> QED BY <1>2, <1>4 DEF BehindBlock

\* The block before a line that turns leads to two blocks, the machine to one of them.
LEMMA TurningLeads ==
  ASSUME GraphInv, NEW W, NEW T, Fits(W, T), NEW k \in 1 .. Len(W), W[k].kind \in Turning,
         NEW branch \in BOOLEAN
  PROVE  Goes(W[k].block, branch) # NoBlock
<1>1. W[k].block \in Blocks
  <2>1. W[k] \in Items
    BY ElementOfSeq DEF Fits
  <2> QED BY <2>1, ItemFacts
<1>2. Len(Successors(W[k].block)) = 2
  BY DEF Fits, FitsTurn
<1>3. PICK b : b = W[k].block
  OBVIOUS
<1>4. /\ graph[b].target \in Blocks /\ b + 1 \in Blocks
      /\ Goes(b, TRUE) = graph[b].target /\ Goes(b, FALSE) = b + 1
  BY <1>1, <1>2, <1>3, TwoSuccessors
<1>5. NoBlock \notin Blocks
  BY BlocksFacts
<1> QED BY <1>3, <1>4, <1>5

\* The line that closes an arm is the one that Closing finds.
LEMMA ClosingFound ==
  ASSUME text \in Seq(Items), NEW k \in 1 .. Len(text), NEW kinds, NEW m,
         Closes(text, k, m, kinds)
  PROVE  Closing(k, kinds) = m
<1> DEFINE P(x) == /\ text[x].depth = text[k].depth /\ text[x].kind \in kinds
                   /\ \A n \in k + 1 .. x - 1 :
                        text[n].depth # text[k].depth \/ text[n].kind \notin kinds
<1>1. \A n \in 1 .. Len(text) : text[n].depth \in Nat
  <2> TAKE n \in 1 .. Len(text)
  <2>1. text[n] \in Items
    BY ElementOfSeq
  <2> QED BY <2>1, ItemFacts
<1>2. /\ m \in k + 1 .. Len(text) /\ text[m].depth = text[k].depth /\ text[m].kind \in kinds
      /\ \A n \in k + 1 .. m - 1 : text[n].depth > text[k].depth
  BY DEF Closes
<1>3. Len(text) \in Nat
  OBVIOUS
<1>4. \A n \in k + 1 .. m - 1 : text[n].depth # text[k].depth
  <2> TAKE n \in k + 1 .. m - 1
  <2>1. n \in 1 .. Len(text) /\ text[n].depth > text[k].depth
    BY <1>2, <1>3
  <2> QED BY <2>1, <1>1
<1>5. P(m)
  BY <1>2, <1>4
<1>6. PICK x : x = Closing(k, kinds)
  OBVIOUS
<1>7. x \in k + 1 .. Len(text) /\ P(x)
  <2>1. \E y \in k + 1 .. Len(text) : P(y)
    BY <1>2, <1>5
  <2>2. x = CHOOSE y \in k + 1 .. Len(text) : P(y)
    BY <1>6 DEF Closing
  <2> HIDE DEF P
  <2> QED BY <2>1, <2>2, Zenon
<1>8. ~ (x < m)
  <2>1. SUFFICES ASSUME x < m PROVE FALSE
    OBVIOUS
  <2>2. x \in k + 1 .. m - 1
    BY <1>2, <1>3, <1>7, <2>1
  <2> QED BY <2>2, <1>4, <1>7
<1>9. ~ (m < x)
  <2>1. SUFFICES ASSUME m < x PROVE FALSE
    OBVIOUS
  <2>2. m \in k + 1 .. x - 1
    BY <1>2, <1>3, <1>7, <2>1
  <2> QED BY <2>2, <1>2, <1>7
<1>10. x \in Int /\ m \in Int
  BY <1>2, <1>7
<1> QED BY <1>6, <1>8, <1>9, <1>10

\* The statements of a block.
LEMMA AfterBlock ==
  ASSUME GraphInv, NEW W, NEW T, Fits(W, T), NEW k \in 1 .. Len(W), W[k].kind = "block",
         NEW branch \in BOOLEAN, ~ Ends(W[k].block)
  PROVE  AtLine(W, T, k + 1, W[k].block, branch, Goes(W[k].block, branch))
<1>1. PICK b : b = W[k].block
  OBVIOUS
<1>2. b \in Blocks /\ W \in Seq(Items) /\ Len(W) \in Nat
  <2>1. W \in Seq(Items)
    BY DEF Fits
  <2>2. W[k] \in Items
    BY <2>1, ElementOfSeq
  <2> QED BY <2>1, <2>2, <1>1, ItemFacts
<1>3. \/ Successors(b) = <<T[k + 1]>>
      \/ k < Len(W) /\ W[k + 1].block = b /\ W[k + 1].kind \in Turning \cup {"unresolved"}
  BY <1>1 DEF Fits, FitsStraight
<1>4. CASE TurnsAt(W, k + 1)
  <2>1. k + 1 \in 1 .. Len(W) /\ W[k + 1].kind \in Turning \cup {"unresolved"} /\ (k + 1) - 1 = k
    BY <1>4 DEF TurnsAt
  <2>2. FitsTurn(W, T, k + 1)
    BY <2>1 DEF Fits
  <2>3. BehindBlock(W, k + 1)
    BY <2>1, <2>2 DEF FitsTurn
  <2>4. W[k + 1].block = b
    BY <2>1, <2>3, <1>1 DEF BehindBlock
  <2> QED BY <1>1, <1>4, <2>4 DEF AtLine
<1>5. CASE ~ TurnsAt(W, k + 1)
  <2>1. Successors(b) = <<T[k + 1]>>
    <3>1. SUFFICES ASSUME k < Len(W), W[k + 1].kind \in Turning \cup {"unresolved"} PROVE FALSE
      BY <1>3
    <3>2. k + 1 \in 1 .. Len(W)
      BY <3>1, <1>2
    <3> QED BY <3>1, <3>2, <1>5 DEF TurnsAt
  <2>2. Successors(b) # <<>> /\ Len(Successors(b)) = 1 /\ Successors(b)[1] = T[k + 1]
    BY <2>1
  <2>3. PICK c \in Blocks :
          /\ Successors(b) = <<c>>
          /\ \A br \in BOOLEAN :
               \/ Goes(b, br) = c
               \/ Goes(b, br) = NoBlock /\ graph[b].kind = "ConditionalJump"
    <3>1. PICK q : q = <<graph[b].target, b + 1>>
      OBVIOUS
    <3>2. Len(q) = 2
      BY <3>1
    <3>3. Successors(b) # q
      BY <2>2, <3>2
    <3> QED BY <1>2, <2>2, <3>1, <3>3, SuccessorFacts
  <2>4. c = T[k + 1] /\ c # NoBlock /\ b # NoBlock
    <3>1. Successors(b)[1] = c
      BY <2>3
    <3> QED BY <1>2, <2>2, <3>1, BlocksFacts
  <2>5. k + 1 \in 1 .. Len(W) + 1
    BY <1>2
  <2> QED BY <1>1, <1>5, <2>3, <2>4, <2>5 DEF AtLine, Leaves
<1> QED BY <1>4, <1>5

\* Any other line.
LEMMA AfterControl ==
  ASSUME GraphInv, NEW T, Fits(text, T), NEW k \in 1 .. Len(text),
         text[k].kind \notin {"block", "rejoin", "unresolved", "path"},
         text[k].kind = "goto" =>
           \E m \in 1 .. Len(text) : text[m].kind = "label" /\ text[m].block = text[k].block,
         AtLine(text, T, k, last, taken, expected)
  PROVE  AtLine(text, T, NextLine(k), last, taken, expected)
<1>1. /\ text \in Seq(Items) /\ Len(text) \in Nat /\ DOMAIN text = 1 .. Len(text)
      /\ taken \in BOOLEAN
      /\ FitsStraight(text, T, k) /\ FitsTurn(text, T, k) /\ FitsArm(text, T, k)
  BY DEF Fits, AtLine
<1>2. text[k] \in Items /\ text[k].block \in Blocks /\ text[k].kind \in LineKinds
  <2>1. text[k] \in Items
    BY <1>1, ElementOfSeq
  <2> QED BY <2>1, ItemFacts
<1>3. PICK b : b = text[k].block
  OBVIOUS
\* Line n is where the text goes on.
<1>4. ASSUME NEW n, ~ TurnsAt(text, n), ~ Leaves(last, expected) =>
                                          expected # NoBlock /\ T[n] = expected /\ n \in 1 .. Len(text) + 1
      PROVE  AtLine(text, T, n, last, taken, expected)
  BY <1>1, <1>4 DEF AtLine
<1>5. ASSUME NEW n \in 1 .. Len(text), text[n].kind # "block"
      PROVE  ~ TurnsAt(text, n + 1) /\ n + 1 \in 1 .. Len(text) + 1
  BY <1>5, <1>1, StraightOn
<1>6. ~ TurnsAt(text, k + 1) /\ k + 1 \in 1 .. Len(text) + 1
  BY <1>5
<1>7. CASE text[k].kind \in {"label", "do", "end"}
  <2>1. NextLine(k) = k + 1
    BY <1>7 DEF NextLine
  <2>2. ~ TurnsAt(text, k)
    BY <1>7 DEF TurnsAt, Turning
  <2>3. Leaves(last, expected) \/ (expected # NoBlock /\ T[k] = expected)
    BY <2>2 DEF AtLine
  <2>4. T[k] # NoBlock => T[k + 1] = T[k]
    BY <1>1, <1>7 DEF FitsStraight
  <2>5. AtLine(text, T, k + 1, last, taken, expected)
    BY <1>4, <1>6, <2>3, <2>4
  <2> QED BY <2>1, <2>5
<1>8. CASE text[k].kind = "goto"
  <2>1. PICK m : m = LabelLine(b)
    OBVIOUS
  <2>2. m \in 1 .. Len(text) /\ text[m].kind = "label" /\ text[m].block = b
    <3>1. \E x \in DOMAIN text : text[x].kind = "label" /\ text[x].block = b
      BY <1>1, <1>3, <1>8
    <3>2. m = CHOOSE x \in DOMAIN text : text[x].kind = "label" /\ text[x].block = b
      BY <2>1 DEF LabelLine
    <3>3. m \in DOMAIN text /\ text[m].kind = "label" /\ text[m].block = b
      BY <3>1, <3>2, Zenon
    <3> QED BY <3>3, <1>1
  <2>3. NextLine(k) = m
    BY <1>3, <1>8, <2>1 DEF NextLine
  <2>4. ~ TurnsAt(text, k) /\ ~ TurnsAt(text, m)
    BY <1>8, <2>2 DEF TurnsAt, Turning
  <2>5. T[m] = b /\ T[k] = b
    BY <1>1, <1>3, <1>8, <2>2 DEF Fits, FitsStraight
  <2>6. Leaves(last, expected) \/ (expected # NoBlock /\ T[k] = expected)
    BY <2>4 DEF AtLine
  <2>7. m \in 1 .. Len(text) + 1
    BY <1>1, <2>2
  <2>8. AtLine(text, T, m, last, taken, expected)
    BY <1>4, <2>4, <2>5, <2>6, <2>7
  <2> QED BY <2>3, <2>8
<1>9. CASE text[k].kind = "else"
  <2>1. PICK m : Closes(text, k, m, {"end"}) /\ (T[k] # NoBlock => T[m + 1] = T[k])
    BY <1>1, <1>9 DEF FitsArm
  <2>2. m \in 1 .. Len(text) /\ text[m].kind = "end"
    BY <1>1, <2>1 DEF Closes
  <2>3. NextLine(k) = m + 1
    BY <1>1, <1>9, <2>1, ClosingFound DEF NextLine
  <2>4. ~ TurnsAt(text, k)
    BY <1>9 DEF TurnsAt, Turning
  <2>5. Leaves(last, expected) \/ (expected # NoBlock /\ T[k] = expected)
    BY <2>4 DEF AtLine
  <2>6. ~ TurnsAt(text, m + 1) /\ m + 1 \in 1 .. Len(text) + 1
    BY <2>2, <1>5
  <2>7. AtLine(text, T, m + 1, last, taken, expected)
    BY <1>4, <2>1, <2>5, <2>6
  <2> QED BY <2>3, <2>7
<1>10. ASSUME text[k].kind \in Turning
       PROVE  last = b /\ expected = Goes(b, taken) /\ expected # NoBlock
  <2>1. TurnsAt(text, k)
    BY <1>10 DEF TurnsAt
  <2>2. last = b /\ expected = Goes(b, taken)
    BY <2>1, <1>3 DEF AtLine
  <2> QED BY <1>1, <1>3, <1>10, <2>2, TurningLeads
<1>11. CASE text[k].kind \in {"if", "if not"}
  <2>1. expected = Goes(b, taken) /\ expected # NoBlock
    BY <1>10, <1>11 DEF Turning
  <2> DEFINE enters == IF text[k].kind = "if" THEN taken ELSE ~ taken
  <2>2. NextLine(k) = Enters(enters, k)
    BY <1>11 DEF NextLine
  <2>3. PICK m : /\ Closes(text, k, m, ElseEnd)
                 /\ enters => T[k + 1] = Goes(b, taken)
                 /\ ~ enters => T[m + 1] = Goes(b, taken)
    <3>1. CASE text[k].kind = "if"
      <4>1. PICK m : Closes(text, k, m, ElseEnd) /\ T[m + 1] = Goes(b, FALSE)
        BY <1>1, <1>3, <3>1 DEF FitsArm
      <4>2. T[k + 1] = Goes(b, TRUE)
        BY <1>1, <1>3, <3>1 DEF FitsArm
      <4> QED BY <3>1, <4>1, <4>2, <1>1
    <3>2. CASE text[k].kind = "if not"
      <4>1. PICK m : Closes(text, k, m, ElseEnd) /\ T[m + 1] = Goes(b, TRUE)
        BY <1>1, <1>3, <3>2 DEF FitsArm
      <4>2. T[k + 1] = Goes(b, FALSE)
        BY <1>1, <1>3, <3>2 DEF FitsArm
      <4> QED BY <3>2, <4>1, <4>2, <1>1
    <3> QED BY <1>11, <3>1, <3>2
  <2> HIDE DEF enters
  <2>4. CASE enters
    <3>1. NextLine(k) = k + 1
      BY <2>2, <2>4 DEF Enters
    <3>2. AtLine(text, T, k + 1, last, taken, expected)
      BY <1>4, <1>6, <2>1, <2>3, <2>4
    <3> QED BY <3>1, <3>2
  <2>5. CASE ~ enters
    <3>1. Closing(k, {"else", "end"}) = m
      BY <1>1, <2>3, ClosingFound DEF ElseEnd
    <3>2. NextLine(k) = m + 1
      BY <2>2, <2>5, <3>1 DEF Enters
    <3>3. m \in 1 .. Len(text) /\ text[m].kind # "block"
      BY <1>1, <2>3 DEF Closes, ElseEnd
    <3>4. ~ TurnsAt(text, m + 1) /\ m + 1 \in 1 .. Len(text) + 1
      BY <3>3, <1>5
    <3>5. AtLine(text, T, m + 1, last, taken, expected)
      BY <1>4, <2>1, <2>3, <2>5, <3>4
    <3> QED BY <3>2, <3>5
  <2> QED BY <2>4, <2>5
<1>12. CASE text[k].kind \in {"while", "while not"}
  <2>1. expected = Goes(b, taken) /\ expected # NoBlock
    BY <1>10, <1>12 DEF Turning
  <2> DEFINE again == IF text[k].kind = "while" THEN taken ELSE ~ taken
  <2>2. NextLine(k) = IF again THEN Opening(k) ELSE k + 1
    BY <1>12 DEF NextLine
  <2>3. /\ again => Goes(b, taken) = b
        /\ ~ again => T[k + 1] = Goes(b, taken)
    <3>1. CASE text[k].kind = "while"
      BY <1>1, <1>3, <3>1 DEF FitsTurn
    <3>2. CASE text[k].kind = "while not"
      BY <1>1, <1>3, <3>2 DEF FitsTurn
    <3> QED BY <1>12, <3>1, <3>2
  <2> HIDE DEF again
  <2>4. CASE again
    <3>1. PICK m : m = Opening(k)
      OBVIOUS
    <3>2. m \in 1 .. k /\ text[m].kind = "do" /\ text[m].block = b
      <4>1. k > 2 /\ text[k - 2].kind = "do" /\ text[k - 2].block = b
        BY <1>1, <1>3, <1>12 DEF FitsTurn
      <4>2. k - 2 \in 1 .. k
        BY <4>1
      <4>3. \E x \in 1 .. k : text[x].kind = "do" /\ text[x].block = text[k].block
        BY <4>1, <4>2, <1>3
      <4>4. m = CHOOSE x \in 1 .. k : text[x].kind = "do" /\ text[x].block = text[k].block
        BY <3>1 DEF Opening
      <4> QED BY <4>3, <4>4, <1>3, Zenon
    <3>3. m \in 1 .. Len(text) /\ m \in 1 .. Len(text) + 1
      BY <1>1, <3>2
    <3>4. T[m] = b
      BY <3>2, <3>3 DEF Fits, FitsStraight
    <3>5. ~ TurnsAt(text, m)
      BY <3>2 DEF TurnsAt, Turning
    <3>6. AtLine(text, T, m, last, taken, expected)
      BY <1>4, <2>1, <2>3, <2>4, <3>3, <3>4, <3>5
    <3> QED BY <2>2, <2>4, <3>1, <3>6
  <2>5. CASE ~ again
    <3>1. AtLine(text, T, k + 1, last, taken, expected)
      BY <1>4, <1>6, <2>1, <2>3, <2>5
    <3> QED BY <2>2, <2>5, <3>1
  <2> QED BY <2>4, <2>5
<1> QED BY <1>2, <1>7, <1>8, <1>9, <1>11, <1>12 DEF LineKinds

\* What is reached is what the machine executes.
LEMMA ThereItGoesOn ==
  ASSUME GraphInv, NEW T, Fits(text, T), T[Len(text) + 1] = NoBlock,
         AtLine(text, T, line, last, taken, expected), ~ Leaves(last, expected)
  PROVE  /\ line \in DOMAIN text /\ text[line].kind \in {"block", "rejoin"} => text[line].block = expected
         /\ line \in DOMAIN text /\ text[line].kind = "unresolved" => expected = NoBlock
         /\ line \notin DOMAIN text => expected = NoBlock
<1>1. text \in Seq(Items) /\ Len(text) \in Nat /\ DOMAIN text = 1 .. Len(text)
  BY DEF Fits
<1>2. ASSUME line \in DOMAIN text, text[line].kind \in {"block", "rejoin"}
      PROVE  text[line].block = expected
  <2>1. ~ TurnsAt(text, line)
    BY <1>2 DEF TurnsAt, Turning
  <2>2. expected = T[line]
    BY <2>1 DEF AtLine
  <2>3. T[line] = text[line].block
    BY <1>1, <1>2 DEF Fits, FitsStraight
  <2> QED BY <2>2, <2>3
<1>3. ASSUME line \in DOMAIN text, text[line].kind = "unresolved"
      PROVE  expected = NoBlock
  <2>1. TurnsAt(text, line) /\ taken \in BOOLEAN
    BY <1>1, <1>3 DEF TurnsAt, AtLine
  <2>2. expected = Goes(text[line].block, taken)
    BY <2>1 DEF AtLine
  <2>3. Successors(text[line].block) = <<>>
    BY <1>1, <1>3 DEF Fits, FitsTurn
  <2>4. text[line].block \in Blocks
    <3>1. text[line] \in Items
      BY <1>1, <1>3, ElementOfSeq
    <3> QED BY <3>1, ItemFacts
  <2>5. \A branch \in BOOLEAN : Goes(text[line].block, branch) = NoBlock
    <3>1. PICK b : b = text[line].block
      OBVIOUS
    <3>2. <<>> # <<graph[b].target, b + 1>>
      OBVIOUS
    <3>3. \A c : <<>> # <<c>>
      OBVIOUS
    <3>4. Successors(b) = <<>> /\ b \in Blocks
      BY <2>3, <2>4, <3>1
    <3>5. \A branch \in BOOLEAN : Goes(b, branch) = NoBlock
      BY <3>2, <3>3, <3>4, SuccessorFacts
    <3> QED BY <3>1, <3>5
  <2> QED BY <2>1, <2>2, <2>5
<1>4. ASSUME line \notin DOMAIN text PROVE expected = NoBlock
  <2>1. ~ TurnsAt(text, line)
    BY <1>1, <1>4 DEF TurnsAt
  <2>2. expected = T[line] /\ line \in 1 .. Len(text) + 1
    BY <2>1 DEF AtLine
  <2>3. line = Len(text) + 1
    BY <1>1, <1>4, <2>2
  <2> QED BY <2>2, <2>3
<1> QED BY <1>2, <1>3, <1>4

--------------------------------------------------------------------------------
(***************************************************************************)
(* The inductive invariant.                                                *)
(***************************************************************************)

\* The text t, the open work w and the visited blocks V while the text is made.
Emitted(t, w, V, now) ==
  /\ t \in Seq(Items) /\ w \in Seq(Items)
  /\ \A k \in 1 .. Len(t) : t[k].kind # "path"
  /\ Printed(t, V) /\ Labelled(t, V)
  /\ now = "structured" => ~ HasBackEdge /\ Open(w, V) /\ Leads(t \o w)
  /\ now = "fallback" =>
       /\ HasBackEdge /\ w = <<>>
       /\ \E n \in 0 .. Len(graph) : V = 1 .. n /\ Leads(t \o Rest(n))
  /\ now \in {"run", "stopped"} => V = IF HasBackEdge THEN Blocks ELSE Reachable(1, {})

\* The text t is executed, and the machine follows it.
Followed(t, k, l, branch, e) ==
  \E T : Fits(t, T) /\ T[Len(t) + 1] = NoBlock /\ AtLine(t, T, k, l, branch, e)

\* The inductive invariant.
PseudocodeInv ==
  /\ GraphInv
  /\ stage \in {"structured", "fallback", "run", "stopped"}
  /\ Emitted(text, work, visited, stage)
  /\ stage \in {"structured", "fallback"} =>
       line = 1 /\ last = NoBlock /\ expected = 1 /\ taken = FALSE
  /\ stage = "run" => Followed(text, line, last, taken, expected)

LEMMA SameText ==
  ASSUME graph' = graph
  PROVE  /\ \A t, w, V, now : Emitted(t, w, V, now)' = Emitted(t, w, V, now)
         /\ \A t, k, l, branch, e : Followed(t, k, l, branch, e)' = Followed(t, k, l, branch, e)
         /\ GraphInv' = GraphInv
<1>1. /\ Blocks' = Blocks /\ Items' = Items /\ GraphInv' = GraphInv /\ HasBackEdge' = HasBackEdge
      /\ \A b : /\ Successors(b)' = Successors(b)
                /\ \A branch : Goes(b, branch)' = Goes(b, branch)
      /\ \A W, T : Fits(W, T)' = Fits(W, T)
      /\ \A a, without : Reachable(a, without)' = Reachable(a, without)
  BY SameGraph
<1>2. \A t, w, V, now : Emitted(t, w, V, now)' = Emitted(t, w, V, now)
  <2>1. \A t, V : Labelled(t, V)' = Labelled(t, V)
    BY <1>1 DEF Labelled
  <2>2. \A w, V : Open(w, V)' = Open(w, V)
    BY <1>1 DEF Open, Comes
  <2>3. \A W : Leads(W)' = Leads(W)
    BY <1>1 DEF Leads
  <2>4. \A n : Rest(n)' = Rest(n)
    BY DEF Rest, Path
  <2>5. \A t, V : Printed(t, V)' = Printed(t, V)
    BY DEF Printed
  <2> QED BY <1>1, <2>1, <2>2, <2>3, <2>4, <2>5 DEF Emitted
<1>3. \A t, k, l, branch, e : Followed(t, k, l, branch, e)' = Followed(t, k, l, branch, e)
  <2>1. \A W, T, k, l, branch, e : AtLine(W, T, k, l, branch, e)' = AtLine(W, T, k, l, branch, e)
    BY DEF AtLine, TurnsAt, Leaves, Goes, BlockOrOutside, Blocks
  <2> QED BY <1>1, <2>1 DEF Followed
<1> QED BY <1>1, <1>2, <1>3

LEMMA InvAtFirst ==
  ASSUME PseudocodeInit
  PROVE  PseudocodeInv
<1>1. GraphInv
  <2>1. graph \in Graphs
    BY DEF PseudocodeInit
  <2> QED BY <2>1, GraphsAssumption DEF GraphInv
<1>2. /\ text = <<>> /\ visited = {} /\ line = 1 /\ last = NoBlock /\ expected = 1 /\ taken = FALSE
  BY DEF PseudocodeInit
<1>3. /\ <<>> \in Seq(Items) /\ Len(<<>>) = 0 /\ 1 .. Len(<<>>) = {}
  OBVIOUS
<1>4. Printed(<<>>, {}) /\ Labelled(<<>>, {})
  BY <1>3 DEF Printed, Labelled
<1>5. CASE HasBackEdge
  <2>1. stage = "fallback" /\ work = <<>>
    BY <1>5 DEF PseudocodeInit
  <2>2. 0 \in 0 .. Len(graph) /\ {} = 1 .. 0
    BY <1>1, BlocksFacts
  <2>3. <<>> \o Rest(0) = Rest(0)
    BY <1>1, <2>2, RestFacts, ConcatEmptySeq
  <2>4. Leads(<<>> \o Rest(0))
    BY <1>1, <2>3, LeadsRest
  <2>5. Emitted(<<>>, <<>>, {}, "fallback")
    BY <1>3, <1>4, <1>5, <2>2, <2>4 DEF Emitted
  <2> QED BY <1>1, <1>2, <2>1, <2>5 DEF PseudocodeInv
<1>6. CASE ~ HasBackEdge
  <2>1. stage = "structured" /\ work = <<Path(1, NoBlock, 1)>>
    BY <1>6 DEF PseudocodeInit
  <2>2. PICK w : w = <<Path(1, NoBlock, 1)>>
    OBVIOUS
  <2>3. w \in Seq(Items)
    <3>1. 1 \in Blocks /\ 1 \in Nat
      BY <1>1, BlocksFacts
    <3>2. Path(1, NoBlock, 1) \in Items
      BY <3>1, PathFacts
    <3> QED BY <2>2, <3>2
  <2>4. <<>> \o w = w
    BY <2>3, ConcatEmptySeq
  <2>5. Leads(<<>> \o w) /\ Open(w, {})
    BY <1>1, <2>2, <2>4, LeadsAtFirst, OpenAtFirst
  <2>6. Emitted(<<>>, w, {}, "structured")
    BY <1>3, <1>4, <1>6, <2>3, <2>5 DEF Emitted
  <2> QED BY <1>1, <1>2, <2>1, <2>2, <2>6 DEF PseudocodeInv
<1> QED BY <1>5, <1>6

\* A line or path in front of the work gives way to lines c that hold no statements.
LEMMA EmittedPlain ==
  ASSUME GraphInv, NEW t, NEW w, NEW V, Emitted(t, w, V, "structured"),
         NEW c \in Seq(Items),
         \A i \in 1 .. Len(c) : c[i].kind \notin {"path", "block", "goto"},
         NEW r \in Seq(Items), Open(r, V), Leads((t \o c) \o r)
  PROVE  Emitted(t \o c, r, V, "structured")
<1>1. /\ t \in Seq(Items) /\ Printed(t, V) /\ Labelled(t, V) /\ ~ HasBackEdge
      /\ \A k \in 1 .. Len(t) : t[k].kind # "path"
  BY DEF Emitted
<1>2. PICK v : v = t \o c
  OBVIOUS
<1>3. /\ v \in Seq(Items) /\ Len(t) \in Nat /\ Len(c) \in Nat /\ Len(v) = Len(t) + Len(c)
      /\ \A i \in 1 .. Len(t) : v[i] = t[i]
      /\ \A i \in 1 .. Len(c) : v[Len(t) + i] = c[i]
  BY <1>1, <1>2, ConcatFacts
<1>4. \A k \in 1 .. Len(v) : v[k].kind # "path"
  <2> TAKE k \in 1 .. Len(v)
  <2>1. CASE k \in 1 .. Len(t)
    BY <2>1, <1>1, <1>3
  <2>2. CASE k \notin 1 .. Len(t)
    <3>1. PICK i : i = k - Len(t)
      OBVIOUS
    <3>2. i \in 1 .. Len(c) /\ Len(t) + i = k
      BY <2>2, <3>1, <1>3
    <3> QED BY <3>2, <1>3
  <2> QED BY <2>1, <2>2
<1>5. Printed(v, V) /\ Labelled(v, V)
  BY <1>1, <1>2, PrintedNone, LabelledNone
<1>6. Emitted(v, r, V, "structured")
  BY <1>1, <1>2, <1>3, <1>4, <1>5 DEF Emitted
<1> QED BY <1>2, <1>6

\* The front of the work, when it is a path.
LEMMA FrontFacts ==
  ASSUME NEW w \in Seq(Items), w # <<>>, Head(w).kind = "path"
  PROVE  /\ Head(w) \in Items /\ Head(w).block \in Blocks /\ Head(w).depth \in Nat
         /\ Head(w).stop \in Blocks \cup {NoBlock} /\ Tail(w) \in Seq(Items)
BY HeadFacts, ItemFacts

\* One lemma for each action: what it prints, and what it leaves to be printed, stays right.
LEMMA LinePrintedStep ==
  ASSUME PseudocodeInv, PrintLine
  PROVE  Emitted(text', work', visited', stage')
<1>1. /\ stage = "structured" /\ work # <<>> /\ Head(work).kind # "path"
      /\ text' = Append(text, Head(work)) /\ work' = Tail(work) /\ visited' = visited
      /\ stage' = stage
  BY DEF PrintLine
<1>2. /\ GraphInv /\ Emitted(text, work, visited, "structured") /\ text \in Seq(Items)
      /\ work \in Seq(Items) /\ Open(work, visited) /\ Leads(text \o work)
  BY <1>1 DEF PseudocodeInv, Emitted
<1>3. PICK x : x = Head(work)
  OBVIOUS
<1>4. x \in Items /\ Tail(work) \in Seq(Items) /\ x = work[1] /\ 1 \in 1 .. Len(work)
  BY <1>1, <1>2, <1>3, HeadFacts
<1>5. x.kind \in WorkKinds /\ x.kind # "path"
  BY <1>1, <1>2, <1>3, <1>4 DEF Open
<1>6. PICK c : c = <<x>>
  OBVIOUS
<1>7. c \in Seq(Items) /\ \A i \in 1 .. Len(c) : c[i].kind \notin {"path", "block", "goto"}
  <2>1. c \in Seq(Items) /\ 1 .. Len(c) = {1} /\ c[1] = x
    BY <1>4, <1>6
  <2>2. x.kind \notin {"path", "block", "goto"}
    BY <1>5 DEF WorkKinds
  <2> QED BY <2>1, <2>2
<1>8. Append(text, x) = text \o c
  BY <1>2, <1>4, <1>6, OnePrinted
<1>9. (text \o c) \o Tail(work) = text \o work
  BY <1>1, <1>2, <1>3, <1>8, LinePrinted
<1>10. Open(Tail(work), visited)
  BY <1>1, <1>2, OpenBehind
<1>11. Emitted(text \o c, Tail(work), visited, "structured")
  BY <1>2, <1>4, <1>7, <1>9, <1>10, EmittedPlain
<1> QED BY <1>1, <1>3, <1>8, <1>11

LEMMA StopAtJoinStep ==
  ASSUME PseudocodeInv, StopAtJoin
  PROVE  Emitted(text', work', visited', stage')
<1>1. /\ stage = "structured" /\ work # <<>> /\ Head(work).kind = "path"
      /\ Head(work).block = Head(work).stop
      /\ text' = text /\ work' = Tail(work) /\ visited' = visited /\ stage' = stage
  BY DEF StopAtJoin
<1>2. /\ GraphInv /\ Emitted(text, work, visited, "structured") /\ text \in Seq(Items)
      /\ work \in Seq(Items) /\ Open(work, visited) /\ Leads(text \o work)
      /\ Printed(text, visited) /\ Labelled(text, visited) /\ ~ HasBackEdge
      /\ \A k \in 1 .. Len(text) : text[k].kind # "path"
  BY <1>1 DEF PseudocodeInv, Emitted
<1>3. Tail(work) \in Seq(Items) /\ Head(work).stop # NoBlock
  BY <1>1, <1>2, FrontFacts, BlocksFacts
<1>4. Open(Tail(work), visited)
  BY <1>1, <1>2, <1>3, OpenBehind
<1>5. Leads(text \o Tail(work))
  BY <1>1, <1>2, LeadsFromJoin
<1>6. Emitted(text, Tail(work), visited, "structured")
  BY <1>2, <1>3, <1>4, <1>5 DEF Emitted
<1> QED BY <1>1, <1>6

LEMMA RejoinVisitedStep ==
  ASSUME PseudocodeInv, RejoinVisited
  PROVE  Emitted(text', work', visited', stage')
<1>1. /\ stage = "structured" /\ work # <<>> /\ Head(work).kind = "path"
      /\ Head(work).block \in visited
      /\ text' = Append(text, Line("rejoin", Head(work).block, Head(work).depth))
      /\ work' = Tail(work) /\ visited' = visited /\ stage' = stage
  BY DEF RejoinVisited, AtBlock
<1>2. /\ GraphInv /\ Emitted(text, work, visited, "structured") /\ text \in Seq(Items)
      /\ work \in Seq(Items) /\ Open(work, visited) /\ Leads(text \o work)
  BY <1>1 DEF PseudocodeInv, Emitted
<1>3. PICK x : x = Line("rejoin", Head(work).block, Head(work).depth)
  OBVIOUS
<1>4. x \in Items /\ x.kind = "rejoin" /\ Tail(work) \in Seq(Items)
  <2>1. Head(work).block \in Blocks /\ Head(work).depth \in Nat /\ Tail(work) \in Seq(Items)
    BY <1>1, <1>2, FrontFacts
  <2> QED BY <2>1, <1>3, KindFacts DEF Line, Items, Lines
<1>5. PICK c : c = <<x>>
  OBVIOUS
<1>6. c \in Seq(Items) /\ \A i \in 1 .. Len(c) : c[i].kind \notin {"path", "block", "goto"}
  BY <1>4, <1>5
<1>7. Append(text, x) = text \o c
  BY <1>2, <1>4, <1>5, OnePrinted
<1>8. Leads((text \o c) \o Tail(work))
  BY <1>1, <1>2, <1>3, <1>5, LeadsElsewhere
<1>9. Open(Tail(work), visited)
  BY <1>1, <1>2, OpenBehind
<1>10. Emitted(text \o c, Tail(work), visited, "structured")
  BY <1>2, <1>4, <1>6, <1>8, <1>9, EmittedPlain
<1> QED BY <1>1, <1>3, <1>7, <1>10

\* Printed lines in front of open work can be grouped either way.
LEMMA Regrouped ==
  ASSUME NEW r \in Seq(Items), NEW s \in Seq(Items), NEW t \in Seq(Items)
  PROVE  (r \o s) \o t = r \o (s \o t)
<1>1. \A S : \A a, b, c \in Seq(S) : (a \o b) \o c = a \o (b \o c)
  BY ConcatAssociative
<1> QED BY <1>1

LEMMA EmitBlockStep ==
  ASSUME PseudocodeInv, EmitBlock
  PROVE  Emitted(text', work', visited', stage')
<1>1. PICK b : b = Head(work).block
  OBVIOUS
<1>2. PICK e : e = Head(work).depth
  OBVIOUS
<1>3. PICK stop : stop = Head(work).stop
  OBVIOUS
<1>4. PICK join \in Joins(b) :
        /\ stage = "structured" /\ work # <<>> /\ Head(work).kind = "path" /\ b \notin visited
        /\ visited' = visited \cup {b} /\ text' = Append(text, Line("block", b, e))
        /\ work' = After(b, stop, e, join) \o Tail(work) /\ stage' = stage
  BY <1>1, <1>2, <1>3 DEF EmitBlock, AtBlock
<1>5. /\ GraphInv /\ Emitted(text, work, visited, "structured") /\ text \in Seq(Items)
      /\ work \in Seq(Items) /\ Open(work, visited) /\ Leads(text \o work)
      /\ Printed(text, visited) /\ Labelled(text, visited) /\ ~ HasBackEdge
      /\ \A k \in 1 .. Len(text) : text[k].kind # "path"
  BY <1>4 DEF PseudocodeInv, Emitted
<1>6. /\ b \in Blocks /\ e \in Nat /\ stop \in Blocks \cup {NoBlock} /\ Tail(work) \in Seq(Items)
  BY <1>1, <1>2, <1>3, <1>4, <1>5, FrontFacts
<1>7. PICK a : a = After(b, stop, e, join)
  OBVIOUS
<1>8. PICK x : x = Line("block", b, e)
  OBVIOUS
<1>9. x \in Items /\ x.kind = "block" /\ x.block = b
  BY <1>6, <1>8, KindFacts DEF Line, Items, Lines
<1>10. PICK s : s = <<x>> \o a
  OBVIOUS
<1>11. ASSUME NEW next \in Blocks \cup {NoBlock}, stop # NoBlock => next = stop
       PROVE  Expands(s, b, stop, e, {join}, next)
  BY <1>4, <1>5, <1>6, <1>7, <1>8, <1>10, <1>11, ExpansionFits DEF Expansion
<1>12. PICK next \in Blocks \cup {NoBlock} : stop # NoBlock => next = stop
  BY <1>6
<1>13. Expands(s, b, stop, e, {join}, next)
  BY <1>11, <1>12
<1>14. s \in Seq(Items)
  BY <1>13 DEF Expands
<1>15. a \in Seq(Items)
  BY <1>4, <1>5, <1>6, <1>7, AfterFacts
<1>16. Len(s) = Len(a) + 1 /\ \A i \in 1 .. Len(a) : a[i] = s[i + 1]
  BY <1>9, <1>10, <1>15, Consed
<1>17. Open(a \o Tail(work), visited \cup {b})
  <2>1. Expands(s, b, Head(work).stop, Head(work).depth, {join}, next)
    BY <1>2, <1>3, <1>13
  <2>2. work # <<>> /\ Head(work).kind = "path" /\ b = Head(work).block
    BY <1>1, <1>4
  <2> QED BY ONLY <1>5, <1>6, <1>15, <1>16, <2>1, <2>2, join \in Joins(b), OpenEmitted
<1>18. \A i \in 1 .. Len(s) : s[i].depth >= Head(work).depth
  <2> TAKE i \in 1 .. Len(s)
  <2>1. CASE i = 1
    BY <2>1, <1>2, <1>6, <1>13 DEF Expands
  <2>2. CASE i # 1
    <3>1. i \in 2 .. Len(s)
      BY <2>2
    <3> QED BY <3>1, <1>2, <1>13 DEF Expands, Follows
  <2> QED BY <2>1, <2>2
<1>19. ASSUME NEW nx \in Blocks \cup {NoBlock}, Head(work).stop # NoBlock => nx = Head(work).stop
       PROVE  \E u : Fits(s, u) /\ u[1] = Head(work).block /\ u[Len(s) + 1] = nx
  <2>1. Expands(s, b, stop, e, {join}, nx)
    BY <1>3, <1>11, <1>19
  <2> QED BY <2>1, <1>1 DEF Expands
<1>20. Leads((text \o s) \o Tail(work))
  BY <1>4, <1>5, <1>14, <1>18, <1>19, LeadsOn
<1>21. PICK c : c = <<x>>
  OBVIOUS
<1>22. c \in Seq(Items) /\ Len(c) = 1 /\ c[1] = x /\ 1 .. Len(c) = {1}
  BY <1>9, <1>21
<1>23. Append(text, x) = text \o c
  BY <1>5, <1>9, <1>21, OnePrinted
<1>24. (text \o s) \o Tail(work) = (text \o c) \o (a \o Tail(work))
  <2>1. PICK rest : rest = Tail(work)
    OBVIOUS
  <2>2. PICK start : start = text \o c
    OBVIOUS
  <2>3. text \in Seq(Items) /\ c \in Seq(Items) /\ a \in Seq(Items) /\ rest \in Seq(Items)
    BY <1>5, <1>6, <1>15, <1>22, <2>1
  <2>4. start \in Seq(Items)
    BY ONLY <2>2, <2>3, ConcatProperties
  <2>5. s = c \o a
    BY <1>10, <1>21
  <2>6. text \o s = start \o a
    BY ONLY <2>2, <2>3, <2>5, Regrouped
  <2>7. (start \o a) \o rest = start \o (a \o rest)
    BY ONLY <2>3, <2>4, Regrouped
  <2> QED BY ONLY <2>1, <2>2, <2>6, <2>7
<1>25. PICK v : v = text \o c
  OBVIOUS
<1>26. /\ v \in Seq(Items) /\ Len(text) \in Nat /\ Len(v) = Len(text) + 1
       /\ \A i \in 1 .. Len(text) : v[i] = text[i]
       /\ v[Len(text) + 1] = x
  <2>1. v = Append(text, x) /\ text \in Seq(Items) /\ x \in Items
    BY <1>5, <1>9, <1>23, <1>25
  <2> QED BY ONLY <2>1, AppendFacts
<1>27. \A k \in 1 .. Len(v) : v[k].kind # "path"
  <2> TAKE k \in 1 .. Len(v)
  <2>1. k \in 1 .. Len(text) \/ k = Len(text) + 1
    BY <1>26
  <2> QED BY <2>1, <1>5, <1>9, <1>26
<1>28. Printed(v, visited \cup {b})
  <2>1. /\ 1 \in 1 .. Len(c) /\ c[1].block = b
        /\ \A i \in 1 .. Len(c) : c[i].kind = "block" <=> i = 1
    BY <1>9, <1>22
  <2> QED BY <2>1, <1>4, <1>5, <1>22, <1>25, PrintedOne
<1>29. Labelled(v, visited \cup {b})
  <2>1. \A i \in 1 .. Len(c) : c[i].kind # "goto"
    BY <1>9, <1>22
  <2> QED BY <2>1, <1>5, <1>22, <1>25, LabelledNone
<1>30. a \o Tail(work) \in Seq(Items)
  BY <1>6, <1>15, ConcatProperties
<1>31. Emitted(v, a \o Tail(work), visited \cup {b}, "structured")
  BY <1>5, <1>17, <1>20, <1>24, <1>25, <1>26, <1>27, <1>28, <1>29, <1>30 DEF Emitted
<1> QED BY <1>4, <1>7, <1>8, <1>23, <1>25, <1>31

LEMMA EmitFallbackBlockStep ==
  ASSUME PseudocodeInv, EmitFallbackBlock
  PROVE  Emitted(text', work', visited', stage')
<1>1. PICK b : b = Cardinality(visited) + 1
  OBVIOUS
<1>2. /\ stage = "fallback" /\ visited # Blocks /\ visited' = visited \cup {b}
      /\ text' = (text \o <<Line("label", b, 1)>>) \o FallbackLines(b)
      /\ work' = work /\ stage' = stage
  BY <1>1 DEF EmitFallbackBlock
<1>3. /\ GraphInv /\ Emitted(text, work, visited, "fallback") /\ text \in Seq(Items)
      /\ work = <<>> /\ HasBackEdge /\ Printed(text, visited) /\ Labelled(text, visited)
      /\ \A k \in 1 .. Len(text) : text[k].kind # "path"
  BY <1>2 DEF PseudocodeInv, Emitted
<1>4. PICK n \in 0 .. Len(graph) : visited = 1 .. n /\ Leads(text \o Rest(n))
  BY <1>3 DEF Emitted
<1>5. Len(graph) \in Nat \ {0} /\ Blocks = 1 .. Len(graph) /\ n \in Nat
  BY <1>3, BlocksFacts
<1>6. Cardinality(visited) = n
  <2>1. Cardinality(1 .. n) = IF 1 > n THEN 0 ELSE n - 1 + 1
    BY <1>5, FS_Interval
  <2> QED BY <2>1, <1>4, <1>5
<1>7. b = n + 1 /\ n # Len(graph) /\ n + 1 \in 0 .. Len(graph) /\ b \in Blocks /\ b \notin visited
      /\ visited \cup {b} = 1 .. n + 1
  BY <1>1, <1>2, <1>4, <1>5, <1>6
<1>8. PICK f : f = FallbackLines(b)
  OBVIOUS
<1>9. PICK x : x = <<Line("label", b, 1)>>
  OBVIOUS
<1>10. x \in Seq(Items)
  <2>1. Line("label", b, 1) \in Items
    BY <1>7, KindFacts DEF Line, Items, Lines
  <2> QED BY <2>1, <1>9
<1>11. PICK c : c = x \o f
  OBVIOUS
<1>12. ASSUME NEW next \in Blocks \cup {NoBlock} PROVE Chunk(c, b, next)
  BY <1>3, <1>7, <1>8, <1>9, <1>11, <1>12, FallbackFits
<1>13. Chunk(c, b, NoBlock)
  BY <1>12
<1>14. /\ c \in Seq(Items) /\ Len(c) \in Nat \ {0} /\ c[1].kind = "label" /\ c[1].block = b
       /\ \A i \in 1 .. Len(c) : c[i].depth >= 1 /\ c[i].kind # "path"
  BY <1>13 DEF Chunk
<1>15. PICK m \in 1 .. Len(c) : /\ c[m].block = b
                                /\ \A i \in 1 .. Len(c) : c[i].kind = "block" <=> i = m
  BY <1>13 DEF Chunk
<1>16. f \in Seq(Items)
  BY <1>3, <1>7, <1>8, FallbackLinesFacts
<1>17. (text \o x) \o f = text \o c
  BY <1>3, <1>10, <1>11, <1>16, ConcatAssociative
<1>18. PICK w : w = Rest(n)
  OBVIOUS
<1>19. /\ w \in Seq(Items) /\ w # <<>> /\ Head(w) = Path(b, NoBlock, 1) /\ Tail(w) = Rest(n + 1)
  BY <1>3, <1>4, <1>7, <1>18, RestFacts
<1>20. Head(w).kind = "path" /\ Head(w).block = b /\ Head(w).depth = 1
  BY <1>19 DEF Path
<1>21. Leads((text \o c) \o Tail(w))
  <2>1. \A i \in 1 .. Len(c) : c[i].depth >= Head(w).depth
    BY <1>14, <1>20
  <2>2. ASSUME NEW next \in Blocks \cup {NoBlock}
        PROVE  \E u : Fits(c, u) /\ u[1] = Head(w).block /\ u[Len(c) + 1] = next
    BY <1>12, <1>20 DEF Chunk
  <2>3. Leads(text \o w)
    BY <1>4, <1>18
  <2> QED BY <2>1, <2>2, <2>3, <1>3, <1>14, <1>19, <1>20, LeadsOn
<1>22. PICK v : v = text \o c
  OBVIOUS
<1>23. /\ v \in Seq(Items) /\ Len(text) \in Nat /\ Len(v) = Len(text) + Len(c)
       /\ \A i \in 1 .. Len(text) : v[i] = text[i]
       /\ \A i \in 1 .. Len(c) : v[Len(text) + i] = c[i]
  BY <1>3, <1>14, <1>22, ConcatFacts
<1>24. \A k \in 1 .. Len(v) : v[k].kind # "path"
  <2> TAKE k \in 1 .. Len(v)
  <2>1. CASE k \in 1 .. Len(text)
    BY <2>1, <1>3, <1>23
  <2>2. CASE k \notin 1 .. Len(text)
    <3>1. PICK i : i = k - Len(text)
      OBVIOUS
    <3>2. i \in 1 .. Len(c) /\ Len(text) + i = k
      BY <2>2, <3>1, <1>14, <1>23
    <3> QED BY <3>2, <1>14, <1>23
  <2> QED BY <2>1, <2>2
<1>25. Printed(v, visited \cup {b})
  BY <1>3, <1>7, <1>14, <1>15, <1>22, PrintedOne
<1>26. Labelled(v, visited \cup {b})
  BY <1>3, <1>14, <1>22, LabelledOne
<1>27. visited \cup {b} = 1 .. n + 1 /\ Leads(v \o Rest(n + 1))
  BY <1>7, <1>19, <1>21, <1>22
<1>28. <<>> \in Seq(Items)
  OBVIOUS
<1>29. Emitted(v, <<>>, visited \cup {b}, "fallback")
  BY <1>3, <1>7, <1>23, <1>24, <1>25, <1>26, <1>27, <1>28 DEF Emitted
<1> QED BY <1>2, <1>3, <1>8, <1>9, <1>17, <1>22, <1>29

\* The printed text is run from its first line.
LEMMA FinishedStep ==
  ASSUME PseudocodeInv, Finish
  PROVE  /\ Emitted(text', work', visited', stage')
         /\ Followed(text', line', last', taken', expected')
<1>1. /\ \/ stage = "structured" /\ work = <<>>
         \/ stage = "fallback" /\ visited = Blocks
      /\ stage' = "run" /\ text' = text /\ work' = work /\ visited' = visited
      /\ line' = line /\ last' = last /\ taken' = taken /\ expected' = expected
  BY DEF Finish, emission, execution
<1>2. /\ GraphInv /\ Emitted(text, work, visited, stage) /\ text \in Seq(Items)
      /\ work \in Seq(Items) /\ Printed(text, visited) /\ Labelled(text, visited)
      /\ \A k \in 1 .. Len(text) : text[k].kind # "path"
      /\ line = 1 /\ last = NoBlock /\ expected = 1 /\ taken = FALSE
  BY <1>1 DEF PseudocodeInv, Emitted
<1>3. Leads(text) /\ visited = IF HasBackEdge THEN Blocks ELSE Reachable(1, {})
  <2>1. text \o <<>> = text
    BY <1>2, ConcatEmptySeq
  <2>2. CASE stage = "structured" /\ work = <<>>
    BY <1>2, <2>1, <2>2, OpenAtLast DEF Emitted
  <2>3. CASE stage = "fallback" /\ visited = Blocks
    <3>1. HasBackEdge
      BY <1>2, <2>3 DEF Emitted
    <3>2. PICK n \in 0 .. Len(graph) : visited = 1 .. n /\ Leads(text \o Rest(n))
      BY <1>2, <2>3 DEF Emitted
    <3>3. n = Len(graph)
      <4>1. Len(graph) \in Nat \ {0} /\ 1 .. Len(graph) = 1 .. n
        BY <1>2, <2>3, <3>2, BlocksFacts
      <4>2. Len(graph) \in 1 .. n
        BY <4>1
      <4> QED BY <4>1, <4>2
    <3>4. Rest(n) = <<>>
      BY <1>2, <3>3, RestFacts
    <3> QED BY <2>1, <2>3, <3>1, <3>2, <3>4
  <2> QED BY <1>1, <2>2, <2>3
<1>4. Emitted(text, work, visited, "run")
  BY <1>2, <1>3 DEF Emitted
<1>5. PICK T : Fits(text, T) /\ T[1] = 1 /\ T[Len(text) + 1] = NoBlock
  BY <1>3 DEF Leads
<1>6. ~ TurnsAt(text, 1)
  <2>1. SUFFICES ASSUME TurnsAt(text, 1) PROVE FALSE
    OBVIOUS
  <2>2. FitsTurn(text, T, 1)
    BY <2>1, <1>5 DEF Fits, TurnsAt
  <2>3. BehindBlock(text, 1)
    BY <2>1, <2>2 DEF FitsTurn, TurnsAt
  <2> QED BY <2>3 DEF BehindBlock
<1>7. 1 # NoBlock /\ 1 \in 1 .. Len(text) + 1
  <2>1. Len(text) \in Nat
    BY <1>2
  <2> QED BY <2>1, NoBlockAssumption
<1>8. AtLine(text, T, 1, NoBlock, FALSE, 1)
  BY <1>5, <1>6, <1>7 DEF AtLine
<1>9. Followed(text, 1, NoBlock, FALSE, 1)
  BY <1>5, <1>8 DEF Followed
<1> QED BY <1>1, <1>2, <1>4, <1>9

\* A line without a block hands the machine on where the text goes on.
LEMMA ControlStep ==
  ASSUME PseudocodeInv, Control
  PROVE  Followed(text', line', last', taken', expected')
<1>1. /\ stage = "run" /\ line \in DOMAIN text
      /\ text[line].kind \notin {"block", "rejoin", "unresolved"}
      /\ line' = NextLine(line) /\ text' = text /\ last' = last /\ taken' = taken
      /\ expected' = expected
  BY DEF Control, emission
<1>2. /\ GraphInv /\ Emitted(text, work, visited, "run") /\ text \in Seq(Items)
      /\ Labelled(text, visited) /\ \A k \in 1 .. Len(text) : text[k].kind # "path"
      /\ Followed(text, line, last, taken, expected)
  BY <1>1 DEF PseudocodeInv, Emitted
<1>3. PICK T : Fits(text, T) /\ T[Len(text) + 1] = NoBlock
               /\ AtLine(text, T, line, last, taken, expected)
  BY <1>2 DEF Followed
<1>4. line \in 1 .. Len(text)
  BY <1>1, <1>2
<1>5. text[line].kind = "goto" =>
        \E m \in 1 .. Len(text) : text[m].kind = "label" /\ text[m].block = text[line].block
  <2>1. SUFFICES ASSUME text[line].kind = "goto"
                 PROVE  \E m \in 1 .. Len(text) :
                          text[m].kind = "label" /\ text[m].block = text[line].block
    OBVIOUS
  <2>2. HasBackEdge
    BY <2>1, <1>2, <1>4 DEF Labelled
  <2>3. visited = Blocks
    BY <2>2, <1>2 DEF Emitted
  <2>4. text[line].block \in Blocks
    <3>1. text[line] \in Items
      BY <1>2, <1>4, ElementOfSeq
    <3> QED BY <3>1, ItemFacts
  <2> QED BY <2>2, <2>3, <2>4, <1>2 DEF Labelled
<1>6. text[line].kind \notin {"block", "rejoin", "unresolved", "path"}
  BY <1>1, <1>2, <1>4
<1>7. AtLine(text, T, NextLine(line), last, taken, expected)
  BY <1>2, <1>3, <1>4, <1>5, <1>6, AfterControl
<1>8. Followed(text, NextLine(line), last, taken, expected)
  BY <1>3, <1>7 DEF Followed
<1> QED BY <1>1, <1>8

\* After a block the machine goes where the text expects it, or the text stops.
LEMMA RunBlockStep ==
  ASSUME PseudocodeInv, RunBlock, stage' = "run"
  PROVE  Followed(text', line', last', taken', expected')
<1>1. PICK b : b = text[line].block
  OBVIOUS
<1>2. PICK branch \in IF graph[b].kind = "ConditionalJump" THEN BOOLEAN ELSE {FALSE} :
        /\ stage = "run" /\ line \in DOMAIN text /\ text[line].kind = "block"
        /\ last' = b /\ taken' = branch /\ expected' = Goes(b, branch)
        /\ stage' = IF Ends(b) THEN "stopped" ELSE stage
        /\ line' = line + 1 /\ text' = text
  BY <1>1 DEF RunBlock, emission
<1>3. branch \in BOOLEAN /\ ~ Ends(b)
  BY <1>2
<1>4. /\ GraphInv /\ text \in Seq(Items) /\ Followed(text, line, last, taken, expected)
  BY <1>2 DEF PseudocodeInv, Emitted
<1>5. PICK T : Fits(text, T) /\ T[Len(text) + 1] = NoBlock
  BY <1>4 DEF Followed
<1>6. line \in 1 .. Len(text)
  BY <1>2, <1>4
<1>7. AtLine(text, T, line + 1, b, branch, Goes(b, branch))
  BY <1>1, <1>2, <1>3, <1>4, <1>5, <1>6, AfterBlock
<1>8. Followed(text, line + 1, b, branch, Goes(b, branch))
  BY <1>5, <1>7 DEF Followed
<1> QED BY <1>2, <1>8

LEMMA InvStays ==
  ASSUME PseudocodeInv, [PseudocodeNext]_pseudocodeVars
  PROVE  PseudocodeInv'
<1> DEFINE Stays == /\ graph' = graph
                    /\ stage' \in {"structured", "fallback", "run", "stopped"}
                    /\ Emitted(text', work', visited', stage')
                    /\ stage' \in {"structured", "fallback"} =>
                         line' = 1 /\ last' = NoBlock /\ expected' = 1 /\ taken' = FALSE
                    /\ stage' = "run" => Followed(text', line', last', taken', expected')
<1>1. /\ GraphInv /\ stage \in {"structured", "fallback", "run", "stopped"}
      /\ Emitted(text, work, visited, stage)
      /\ stage \in {"structured", "fallback"} =>
           line = 1 /\ last = NoBlock /\ expected = 1 /\ taken = FALSE
      /\ stage = "run" => Followed(text, line, last, taken, expected)
  BY DEF PseudocodeInv
<1>2. ASSUME stage \in {"structured", "fallback"}, stage' = stage, graph' = graph,
             UNCHANGED execution, Emitted(text', work', visited', stage')
      PROVE  Stays
  BY <1>1, <1>2 DEF execution
<1>3. ASSUME PrintLine PROVE Stays
  <2>1. stage = "structured" /\ stage' = stage /\ graph' = graph /\ UNCHANGED execution
    BY <1>3 DEF PrintLine
  <2> QED BY <2>1, <1>2, <1>3, LinePrintedStep
<1>4. ASSUME StopAtJoin PROVE Stays
  <2>1. stage = "structured" /\ stage' = stage /\ graph' = graph /\ UNCHANGED execution
    BY <1>4 DEF StopAtJoin
  <2> QED BY <2>1, <1>2, <1>4, StopAtJoinStep
<1>5. ASSUME RejoinVisited PROVE Stays
  <2>1. stage = "structured" /\ stage' = stage /\ graph' = graph /\ UNCHANGED execution
    BY <1>5 DEF RejoinVisited, AtBlock
  <2> QED BY <2>1, <1>2, <1>5, RejoinVisitedStep
<1>6. ASSUME EmitBlock PROVE Stays
  <2>1. stage = "structured" /\ stage' = stage /\ graph' = graph /\ UNCHANGED execution
    BY <1>6 DEF EmitBlock, AtBlock
  <2> QED BY <2>1, <1>2, <1>6, EmitBlockStep
<1>7. ASSUME EmitFallbackBlock PROVE Stays
  <2>1. stage = "fallback" /\ stage' = stage /\ graph' = graph /\ UNCHANGED execution
    BY <1>7 DEF EmitFallbackBlock
  <2> QED BY <2>1, <1>2, <1>7, EmitFallbackBlockStep
<1>8. ASSUME Finish PROVE Stays
  <2>1. stage' = "run" /\ graph' = graph
    BY <1>8 DEF Finish
  <2> QED BY <2>1, <1>8, FinishedStep
<1>9. ASSUME Control PROVE Stays
  <2>1. /\ stage = "run" /\ stage' = stage /\ graph' = graph /\ text' = text /\ work' = work
        /\ visited' = visited
    BY <1>9 DEF Control, emission
  <2> QED BY <2>1, <1>1, <1>9, ControlStep
<1>10. ASSUME RunBlock PROVE Stays
  <2>1. /\ stage = "run" /\ stage' \in {"run", "stopped"} /\ graph' = graph /\ text' = text
        /\ work' = work /\ visited' = visited
    BY <1>10 DEF RunBlock, emission
  <2>2. Emitted(text, work, visited, stage')
    BY <2>1, <1>1 DEF Emitted
  <2> QED BY <2>1, <2>2, <1>10, RunBlockStep
<1>11. ASSUME UNCHANGED pseudocodeVars PROVE Stays
  BY <1>1, <1>11 DEF pseudocodeVars, emission, execution
<1>12. Stays
  BY <1>3, <1>4, <1>5, <1>6, <1>7, <1>8, <1>9, <1>10, <1>11
     DEF PseudocodeNext, EmitStructuredPath
<1>13. /\ \A t, w, V, now : Emitted(t, w, V, now)' = Emitted(t, w, V, now)
       /\ \A t, k, l, branch, e : Followed(t, k, l, branch, e)' = Followed(t, k, l, branch, e)
       /\ GraphInv' = GraphInv
  BY <1>12, SameText
<1> QED BY <1>1, <1>12, <1>13 DEF PseudocodeInv

\* generate prints every block that can be reached, once, and no other; with labels, every
\* block of the function.
THEOREM PrintedOnce == PseudocodeSpec => []EveryBlockPrintedOnce
<1>1. PseudocodeInv => EveryBlockPrintedOnce
  <2>1. SUFFICES ASSUME PseudocodeInv, stage \in {"run", "stopped"}
                 PROVE  LET printed == {k \in DOMAIN text : text[k].kind = "block"}
                            wanted  == IF HasBackEdge THEN Blocks ELSE Reachable(1, {})
                        IN  /\ {text[k].block : k \in printed} = wanted
                            /\ \A j, k \in printed : text[j].block = text[k].block => j = k
    BY DEF EveryBlockPrintedOnce
  <2>2. /\ text \in Seq(Items) /\ Printed(text, visited)
        /\ visited = IF HasBackEdge THEN Blocks ELSE Reachable(1, {})
    BY <2>1 DEF PseudocodeInv, Emitted
  <2>3. DOMAIN text = 1 .. Len(text)
    BY <2>2
  <2> QED BY <2>2, <2>3 DEF Printed
<1> QED BY <1>1, InvAtFirst, InvStays, PTL DEF PseudocodeSpec

\* As long as the function is not left by a conditional jump, the text that
\* emitStructuredPath and emitFallbackControlFlow print goes where the machine goes.
THEOREM PathsReal == PseudocodeSpec => []PrintedPathsReal
<1>1. PseudocodeInv => PrintedPathsReal
  <2>1. SUFFICES ASSUME PseudocodeInv, stage = "run", ~ LeavesByCondition
                 PROVE  GoesOn
    BY DEF PrintedPathsReal, GoesOn
  <2>2. GraphInv /\ Followed(text, line, last, taken, expected)
    BY <2>1 DEF PseudocodeInv
  <2>3. PICK T : Fits(text, T) /\ T[Len(text) + 1] = NoBlock
                 /\ AtLine(text, T, line, last, taken, expected)
    BY <2>2 DEF Followed
  <2>4. ~ Leaves(last, expected)
    BY <2>1 DEF LeavesByCondition, Leaves
  <2> QED BY <2>2, <2>3, <2>4, ThereItGoesOn DEF GoesOn
<1> QED BY <1>1, InvAtFirst, InvStays, PTL DEF PseudocodeSpec
================================================================================
