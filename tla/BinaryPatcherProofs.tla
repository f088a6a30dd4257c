-------------------------- MODULE BinaryPatcherProofs --------------------------
(***************************************************************************)
(* No file is overwritten unasked, whatever other programs do, and an      *)
(* undisturbed success is the patch and nothing else.                      *)
(***************************************************************************)
EXTENDS BinaryPatcher, WellFoundedInduction, TLAPS

\* Every non-empty set of natural numbers has a least element.
LEMMA LeastElement ==
  ASSUME NEW S \in SUBSET Nat, S # {}
  PROVE  \E m \in S : \A n \in S : m <= n
<1> DEFINE Less == {ss \in Nat \X Nat : ss[1] < ss[2]}
<1>1. IsWellFoundedOn(Less, Nat)
  BY NatLessThanWellFounded, Zenon DEF OpToRel
<1>2. \E m \in S : \A n \in S : ~ (<<n, m>> \in Less)
  <2> HIDE DEF Less
  <2> QED BY <1>1, WFMin
<1>3. \A n, m \in Nat : ~ (<<n, m>> \in Less) => m <= n
  OBVIOUS
<1> QED BY <1>2, <1>3

\* The phases in which a file may have been changed.
Writing == {"write", "mode", "reload"}

\* The phases behind the test whether the output exists.
Checked == {"input", "read", "open"} \cup Writing

RequestInv ==
  /\ directory \in [Paths -> Inodes \cup {NoFile}]
  /\ guarded \subseteq Inodes
  /\ phase # "idle" => request.output \in Paths
  /\ phase \in {"same", "exists", "input", "read", "open", "idle"} \cup Writing

\* The output that may not be overwritten was not there and is a new file since.
OutputInv ==
  /\ phase \in {"idle", "same"} => locals = NoLocals
  /\ phase = "exists" /\ locals.sameFile => request.allow
  /\ phase \in Checked /\ ~ request.allow => directory[request.output] \notin guarded

TouchedInv ==
  /\ phase # "idle" => error = "None"
  /\ phase \in {"same", "exists", "input", "read", "open"} => touched = {}

IInv == RequestInv /\ OutputInv /\ TouchedInv /\ OnlyConfirmedFilesChange

LEMMA InitHolds == Init => IInv
BY DisksAssumption DEF Init, IInv, RequestInv, OutputInv, TouchedInv, OnlyConfirmedFilesChange,
   Checked, Writing

LEMMA FreeInodeIsNew ==
  ASSUME FreeInodes # {}
  PROVE  FreeInode \in Inodes /\ FreeInode \notin guarded
BY DEF FreeInodes, FreeInode

LEMMA LinkedAreInodes ==
  ASSUME RequestInv
  PROVE  LinkedInodes \subseteq Inodes
BY DEF RequestInv, LinkedInodes

--------------------------------------------------------------------------------

LEMMA OpenHolds == ASSUME IInv, NEW p \in Paths, Open(p) PROVE IInv'
BY DEF Open, IInv, RequestInv, OutputInv, TouchedInv, OnlyConfirmedFilesChange, Checked,
       Writing, disk

LEMMA PatchInstructionHolds ==
  ASSUME IInv, NEW r \in Requests, PatchInstruction(r)
  PROVE  IInv'
<1>1. RequestInv'
  BY RequestsAssumption DEF PatchInstruction, IInv, RequestInv, disk
<1>2. OutputInv'
  BY DEF PatchInstruction, IInv, OutputInv, Checked, Writing
<1>3. TouchedInv' /\ OnlyConfirmedFilesChange'
  BY DEF PatchInstruction, TouchedInv, OnlyConfirmedFilesChange
<1> QED BY <1>1, <1>2, <1>3 DEF IInv

LEMMA CheckSameHolds == ASSUME IInv, CheckSame PROVE IInv'
<1>1. RequestInv'
  BY DEF CheckSame, IInv, RequestInv, disk, history, Return, Continue
<1>2. OutputInv'
  <2>1. CASE Return("OriginalOverwriteDenied")
    BY <2>1 DEF Return, OutputInv, Checked, Writing
  <2>2. CASE ~ Return("OriginalOverwriteDenied")
    <3> DEFINE same == SamePath(loader.path, request.output)
    <3>1. /\ phase' = "exists" /\ request' = request
          /\ same => request.allow
          /\ locals' = [NoLocals EXCEPT !.sameFile = same]
      BY <2>2 DEF CheckSame, Continue, IInv, OutputInv
    <3> HIDE DEF same
    <3>2. locals'.sameFile = same
      BY <3>1 DEF NoLocals
    <3> QED BY <3>1, <3>2 DEF OutputInv, Checked, Writing
  <2> QED BY <2>1, <2>2
<1>3. TouchedInv' /\ OnlyConfirmedFilesChange'
  BY DEF CheckSame, IInv, TouchedInv, OnlyConfirmedFilesChange, Return, Continue, history
<1> QED BY <1>1, <1>2, <1>3 DEF IInv

LEMMA CheckExistsHolds == ASSUME IInv, CheckExists PROVE IInv'
<1>1. RequestInv'
  BY LinkedAreInodes DEF CheckExists, IInv, RequestInv, disk, Return, Continue
<1>2. OutputInv'
  BY DEF CheckExists, IInv, OutputInv, Checked, Writing, Return, Continue, Exists,
         LinkedInodes, disk
<1>3. TouchedInv' /\ OnlyConfirmedFilesChange'
  BY DEF CheckExists, IInv, TouchedInv, OnlyConfirmedFilesChange, Return, Continue
<1> QED BY <1>1, <1>2, <1>3 DEF IInv

LEMMA ReadHolds == ASSUME IInv, OpenInput \/ ReadAndVerify PROVE IInv'
<1>1. RequestInv'
  BY DEF OpenInput, ReadAndVerify, IInv, RequestInv, disk, history, Return, Continue
<1>2. OutputInv'
  BY DEF OpenInput, ReadAndVerify, IInv, OutputInv, Checked, Writing, Return, Continue, disk,
         history
<1>3. TouchedInv' /\ OnlyConfirmedFilesChange'
  BY DEF OpenInput, ReadAndVerify, IInv, TouchedInv, OnlyConfirmedFilesChange, Return,
         Continue, history
<1> QED BY <1>1, <1>2, <1>3 DEF IInv

LEMMA OpenOutputHolds == ASSUME IInv, OpenOutput PROVE IInv'
<1>1. CASE Return("OutputWriteFailed") /\ UNCHANGED <<disk, touched>>
  BY <1>1 DEF OpenOutput, IInv, RequestInv, OutputInv, TouchedInv,
              OnlyConfirmedFilesChange, Checked, Writing, Return, disk
<1>2. CASE ~ UNCHANGED touched \/ phase' = "write"
  <2> DEFINE i == IF Exists(request.output) THEN directory[request.output] ELSE FreeInode
  <2>1. /\ Exists(request.output) \/ FreeInodes # {}
        /\ directory' = [directory EXCEPT ![request.output] = i]
        /\ touched' = touched \cup {i}
        /\ phase' = "write" /\ error' = error
        /\ UNCHANGED <<request, guarded>>
    BY <1>2 DEF OpenOutput, Return, Continue
  <2>2. request.output \in Paths /\ directory \in [Paths -> Inodes \cup {NoFile}]
        /\ touched = {} /\ error = "None"
    BY DEF OpenOutput, IInv, RequestInv, TouchedInv
  <2>3. i \in Inodes /\ (~ request.allow => i \notin guarded)
    <3>1. CASE Exists(request.output)
      BY <3>1, <2>2 DEF Exists, OpenOutput, IInv, OutputInv, Checked
    <3>2. CASE ~ Exists(request.output)
      BY <3>2, <2>1, FreeInodeIsNew
    <3> QED BY <3>1, <3>2
  <2> HIDE DEF i
  <2>4. directory' \in [Paths -> Inodes \cup {NoFile}] /\ directory'[request.output] = i
    BY <2>1, <2>2, <2>3
  <2>5. RequestInv'
    BY <2>1, <2>2, <2>4 DEF IInv, RequestInv, Writing
  <2>6. OutputInv'
    BY <2>1, <2>3, <2>4 DEF OutputInv
  <2>7. TouchedInv' /\ OnlyConfirmedFilesChange'
    BY <2>1, <2>2, <2>3 DEF TouchedInv, OnlyConfirmedFilesChange
  <2> QED BY <2>5, <2>6, <2>7 DEF IInv
<1> QED BY <1>1, <1>2 DEF OpenOutput, Continue

LEMMA WriteOutputHolds == ASSUME IInv, WriteOutput PROVE IInv'
<1>1. /\ UNCHANGED <<directory, request, guarded, touched>>
      /\ phase = "write"
      /\ \/ phase' = "idle" /\ error' = "OutputWriteFailed" /\ locals' = NoLocals
         \/ phase' = "mode" /\ error' = error
  BY DEF WriteOutput, Return, Continue, history
<1>2. RequestInv'
  BY <1>1 DEF IInv, RequestInv, Writing
<1>3. OutputInv'
  BY <1>1 DEF IInv, OutputInv, Checked, Writing
<1>4. TouchedInv' /\ OnlyConfirmedFilesChange'
  BY <1>1 DEF IInv, TouchedInv, OnlyConfirmedFilesChange
<1> QED BY <1>2, <1>3, <1>4 DEF IInv

LEMMA SetModeHolds == ASSUME IInv, SetMode PROVE IInv'
<1>1. /\ UNCHANGED <<directory, request, guarded>>
      /\ phase = "mode"
      /\ \/ /\ phase' = "idle" /\ error' = "OutputWriteFailed" /\ locals' = NoLocals
            /\ touched' = touched
         \/ /\ phase' = "reload" /\ error' = error
            /\ touched' = touched \cup {directory[request.output]}
  BY DEF SetMode, Return, Continue
<1>2. RequestInv'
  BY <1>1 DEF IInv, RequestInv, Writing
<1>3. OutputInv'
  BY <1>1 DEF IInv, OutputInv, Checked, Writing
<1>4. ~ request.allow => directory[request.output] \notin guarded
  BY <1>1 DEF IInv, OutputInv, Checked, Writing
<1>5. TouchedInv' /\ OnlyConfirmedFilesChange'
  BY <1>1, <1>4 DEF IInv, TouchedInv, OnlyConfirmedFilesChange
<1> QED BY <1>2, <1>3, <1>5 DEF IInv

LEMMA ReloadHolds == ASSUME IInv, Reload PROVE IInv'
BY DEF Reload, Return, IInv, RequestInv, OutputInv, TouchedInv, OnlyConfirmedFilesChange,
       Checked, Writing, disk, history

\* Other programs make new files only, which the request has not met.
LEMMA ChangeHolds == ASSUME IInv, Change PROVE IInv'
<1>1. /\ UNCHANGED <<phase, request, locals, error, guarded, touched>>
      /\ \/ directory' = directory
         \/ \E p \in Paths : directory' = [directory EXCEPT ![p] = NoFile]
         \/ FreeInodes # {} /\ \E p \in Paths : directory' = [directory EXCEPT ![p] = FreeInode]
  BY DEF Change
<1>2. directory \in [Paths -> Inodes \cup {NoFile}] /\ guarded \subseteq Inodes
  BY DEF IInv, RequestInv
<1>3. directory' \in [Paths -> Inodes \cup {NoFile}]
  BY <1>1, <1>2, FreeInodeIsNew
<1>4. RequestInv'
  BY <1>1, <1>3 DEF IInv, RequestInv
<1>5. \A q \in Paths : directory[q] \notin guarded => directory'[q] \notin guarded
  BY <1>1, <1>2, FreeInodeIsNew, NoFileAssumption
<1>6. OutputInv'
  BY <1>1, <1>5 DEF IInv, RequestInv, OutputInv, Checked, Writing
<1>7. TouchedInv' /\ OnlyConfirmedFilesChange'
  BY <1>1 DEF IInv, TouchedInv, OnlyConfirmedFilesChange
<1> QED BY <1>4, <1>6, <1>7 DEF IInv

LEMMA StepHolds == IInv /\ [Next]_vars => IInv'
<1> SUFFICES ASSUME IInv, [Next]_vars PROVE IInv'
  OBVIOUS
<1>1. CASE UNCHANGED vars
  BY <1>1 DEF vars, disk, history, IInv, RequestInv, OutputInv, TouchedInv,
              OnlyConfirmedFilesChange
<1>2. CASE Next
  BY <1>2, OpenHolds, PatchInstructionHolds, CheckSameHolds, CheckExistsHolds, ReadHolds,
     OpenOutputHolds, WriteOutputHolds, SetModeHolds, ReloadHolds, ChangeHolds
     DEF Next, Check, Write
<1> QED BY <1>1, <1>2

(***************************************************************************)
(* On every file system and for all requests, patchInstruction changes a   *)
(* file that was there when it looked only with permission, and a request  *)
(* that its checks turn down has changed nothing.                          *)
(***************************************************************************)
THEOREM ConfirmedFiles == Spec => []OnlyConfirmedFilesChange
<1>1. Init => IInv
  BY InitHolds
<1>2. IInv /\ [Next]_vars => IInv'
  BY StepHolds
<1>3. IInv => OnlyConfirmedFilesChange
  BY DEF IInv
<1> QED BY <1>1, <1>2, <1>3, PTL DEF Spec

--------------------------------------------------------------------------------
(***************************************************************************)
(* What a success has written.                                             *)
(***************************************************************************)

\* What the static checks have found of the request that is under way.
Passes(r) == r.size # 0 /\ r.size = Len(r.replacement) /\ IsMapped(r.address)

DataInv ==
  /\ layout \in Layouts
  /\ content \in [Inodes -> Seq(Nat)]
  /\ mode \in [Inodes -> STRING]
  /\ loader # NoFile => loader.path \in Paths
  /\ phase # "idle" => loader # NoFile /\ request \in Requests /\ Passes(request)

\* The variables patchInstruction has.
HasLocals(l) ==
  /\ l = [sameFile |-> l.sameFile, input |-> l.input, output |-> l.output, image |-> l.image]
  /\ l.image \in Seq(Nat)

\* The bytes that were read are those of the source, with the analysed instruction.
ImageRead ==
  /\ FileOffset(request.address) + request.size <= Len(locals.image)
  /\ AsAnalysed(locals.image)

\* The output, which is the only file that the request has changed.
OutputOpened ==
  /\ directory[request.output] \in Inodes
  /\ locals.output = directory[request.output]
  /\ touched = {directory[request.output]}

\* As long as nobody else changes a file, the streams read and write the files that
\* the paths name.
StreamInv ==
  /\ HasLocals(locals)
  /\ phase = "read" => locals.input \in Inodes
  /\ ~ disturbed =>
       /\ phase = "read" => Len(locals.image) = Len(content[locals.input])
       /\ phase \in {"open", "write", "mode", "reload"} => ImageRead
       /\ phase \in Writing => OutputOpened
       /\ phase = "write" => content[locals.output] = <<>>
       /\ phase \in {"mode", "reload"} => content[locals.output] = Patched(locals.image)
       /\ phase = "reload" =>
            mode[directory[request.output]] = mode[directory[loader.path]]

LEMMA FirstOfLeast ==
  ASSUME NEW S \in SUBSET Nat, S # {}
  PROVE  FirstOf(S) \in S
<1>1. \E i \in S : \A j \in S : i <= j
  BY LeastElement
<1> QED BY <1>1 DEF FirstOf

\* The offset of a mapped address is a natural number.
LEMMA OffsetType ==
  ASSUME layout \in Layouts, NEW a \in Nat, IsMapped(a)
  PROVE  FileOffset(a) \in Nat
<1>1. layout.segments \in Seq(Segment) /\ layout.sections \in Seq(Section)
  BY LayoutsAssumption
<1>2. CASE HoldingSegments(a) # {}
  <2> DEFINE i == FirstOf(HoldingSegments(a))
             r == layout.segments[i]
  <2>1. FirstOf(HoldingSegments(a)) \in HoldingSegments(a)
    <3>1. HoldingSegments(a) \in SUBSET Nat
      BY DEF HoldingSegments
    <3> QED BY <1>2, <3>1, FirstOfLeast
  <2>2. r \in Segment /\ Holds(r, a)
    <3>1. i \in 1 .. Len(layout.segments) /\ Holds(layout.segments[i], a)
      BY <2>1 DEF HoldingSegments
    <3> HIDE DEF i
    <3> QED BY <1>1, <3>1
  <2>3. Mapping(a) = r
    BY <1>2 DEF Mapping
  <2> HIDE DEF r
  <2> QED BY <2>2, <2>3 DEF FileOffset, Holds, Segment
<1>3. CASE HoldingSegments(a) = {}
  <2> DEFINE i == FirstOf(HoldingSections(a))
             r == layout.sections[i]
  <2>1. FirstOf(HoldingSections(a)) \in HoldingSections(a)
    <3>1. HoldingSections(a) \in SUBSET Nat
      BY DEF HoldingSections
    <3>2. HoldingSections(a) # {}
      BY <1>3 DEF IsMapped
    <3> QED BY <3>1, <3>2, FirstOfLeast
  <2>2. r \in Section /\ Holds(r, a)
    <3>1. i \in 1 .. Len(layout.sections) /\ Holds(layout.sections[i], a)
      BY <2>1 DEF HoldingSections
    <3> HIDE DEF i
    <3> QED BY <1>1, <3>1
  <2>3. Mapping(a) = r
    BY <1>3 DEF Mapping
  <2> HIDE DEF r
  <2> QED BY <2>2, <2>3 DEF FileOffset, Holds, Section
<1> QED BY <1>2, <1>3

\* What the headers, the request and the loaded bytes say does not change.
LEMMA HeadersStable ==
  ASSUME UNCHANGED layout
  PROVE  /\ \A r : Passes(r)' <=> Passes(r)
         /\ \A a : FileOffset(a)' = FileOffset(a)
BY DEF Passes, IsMapped, HoldingSegments, HoldingSections, FileOffset, Mapping

LEMMA RequestStable ==
  ASSUME UNCHANGED <<layout, request, loader>>
  PROVE  /\ Original' = Original
         /\ \A b : AsAnalysed(b)' <=> AsAnalysed(b)
         /\ \A b : Patched(b)' = Patched(b)
         /\ UNCHANGED locals => (ImageRead' <=> ImageRead)
<1>1. Original' = Original
  BY DEF Original, SectionBytes, ExecutableSection, ExecutableSections
<1>2. \A a : FileOffset(a)' = FileOffset(a)
  BY HeadersStable
<1>3. \A b : AsAnalysed(b)' <=> AsAnalysed(b)
  BY <1>1, <1>2 DEF AsAnalysed
<1>4. \A b : Patched(b)' = Patched(b)
  BY <1>2 DEF Patched
<1>5. UNCHANGED locals => (ImageRead' <=> ImageRead)
  BY <1>2, <1>3 DEF ImageRead
<1> QED BY <1>1, <1>3, <1>4, <1>5

\* The sizes and offsets of a request that is under way.
LEMMA RequestType ==
  ASSUME DataInv, phase # "idle"
  PROVE  /\ request.size \in Nat \ {0} /\ request.replacement \in Seq(Nat)
         /\ Len(request.replacement) = request.size
         /\ FileOffset(request.address) \in Nat
         /\ loader.path \in Paths /\ request.output \in Paths
<1>1. request \in Requests /\ Passes(request) /\ layout \in Layouts
  BY DEF DataInv
<1>2. request.address \in Nat /\ request.size \in Nat /\ request.replacement \in Seq(Nat)
  BY <1>1, RequestsAssumption
<1>3. FileOffset(request.address) \in Nat
  BY <1>1, <1>2, OffsetType DEF Passes
<1> QED BY <1>1, <1>2, <1>3, RequestsAssumption DEF DataInv, Passes

\* The patched image is as long as the image.
LEMMA PatchedType ==
  ASSUME DataInv, phase # "idle", NEW b \in Seq(Nat)
  PROVE  /\ Patched(b) \in Seq(Nat) /\ Len(Patched(b)) = Len(b)
         /\ \A i \in 1 .. Len(b) :
              Patched(b)[i] = IF i - FileOffset(request.address) \in 1 .. request.size
                                THEN request.replacement[i - FileOffset(request.address)]
                                ELSE b[i]
<1> DEFINE o == FileOffset(request.address)
           e(i) == IF i - o \in 1 .. request.size THEN request.replacement[i - o] ELSE b[i]
<1>0. /\ request.size \in Nat /\ request.replacement \in Seq(Nat) /\ o \in Nat
      /\ Len(request.replacement) = request.size
  BY RequestType
<1>1. ASSUME NEW i \in 1 .. Len(b)
      PROVE  e(i) \in Nat
  <2>1. CASE i - o \in 1 .. request.size
    <3>1. request.replacement[i - o] \in Nat
      BY ONLY <1>0, <2>1
    <3> QED BY ONLY <2>1, <3>1
  <2>2. CASE i - o \notin 1 .. request.size
    <3>1. b[i] \in Nat
      OBVIOUS
    <3> QED BY ONLY <2>2, <3>1
  <2> QED BY ONLY <2>1, <2>2
<1>2. Patched(b) = [i \in 1 .. Len(b) |-> e(i)]
  BY DEF Patched
<1>3. Len(b) \in Nat
  OBVIOUS
<1> HIDE DEF e
<1>4. Patched(b) \in Seq(Nat) /\ Len(Patched(b)) = Len(b)
  BY <1>1, <1>2, <1>3
<1>5. \A i \in 1 .. Len(b) : Patched(b)[i] = e(i)
  BY <1>2
<1> QED BY <1>4, <1>5 DEF e

\* Writing over an empty file.
LEMMA OverEmpty ==
  ASSUME NEW b \in Seq(Nat)
  PROVE  Over(SubSeq(b, 1, Len(b)), <<>>) = b
<1>1. SubSeq(b, 1, Len(b)) = b
  OBVIOUS
<1>2. Len(<<>>) = 0 /\ Len(b) \in Nat
  OBVIOUS
<1>3. SubSeq(<<>>, Len(b) + 1, 0) = <<>>
  BY <1>2
<1>4. b \o <<>> = b
  OBVIOUS
<1> QED BY <1>1, <1>2, <1>3, <1>4 DEF Over

--------------------------------------------------------------------------------

LEMMA NoLocalsFields == HasLocals(NoLocals)
<1>1. <<>> \in Seq(Nat)
  OBVIOUS
<1> QED BY <1>1 DEF NoLocals, HasLocals

LEMMA DataInit == Init => DataInv /\ StreamInv
<1> SUFFICES ASSUME Init PROVE DataInv /\ StreamInv
  OBVIOUS
<1>1. DataInv
  BY DisksAssumption DEF Init, DataInv
<1>2. HasLocals(locals)
  BY NoLocalsFields DEF Init
<1>3. phase = "idle"
  BY DEF Init
<1> QED BY <1>1, <1>2, <1>3 DEF StreamInv, Writing

\* A call that returns leaves nothing to say about its streams.
LEMMA Returned ==
  ASSUME phase' = "idle", HasLocals(locals)'
  PROVE  StreamInv'
BY DEF StreamInv, Writing

\* The types, for a step of a request that changes neither layout, loader nor request.
LEMMA DataKept ==
  ASSUME DataInv, UNCHANGED <<layout, loader, request>>,
         content' \in [Inodes -> Seq(Nat)], mode' \in [Inodes -> STRING],
         phase # "idle" \/ phase' = "idle"
  PROVE  DataInv'
BY HeadersStable DEF DataInv

LEMMA OpenKeeps ==
  ASSUME IInv, DataInv, StreamInv, NEW p \in Paths, Open(p)
  PROVE  DataInv' /\ StreamInv'
<1>1. /\ phase = "idle" /\ phase' = "idle" /\ loader' = Loaded(p)
      /\ UNCHANGED <<layout, content, mode, locals>>
  BY DEF Open, disk
<1>2. loader' # NoFile => loader'.path \in Paths
  BY <1>1 DEF Loaded
<1>3. DataInv'
  BY <1>1, <1>2 DEF DataInv
<1>4. HasLocals(locals)'
  BY <1>1 DEF StreamInv, HasLocals
<1> QED BY <1>1, <1>3, <1>4, Returned

LEMMA PatchInstructionKeeps ==
  ASSUME IInv, DataInv, StreamInv, NEW r \in Requests, PatchInstruction(r)
  PROVE  DataInv' /\ StreamInv'
<1>1. /\ request' = r /\ loader # NoFile /\ phase' \in {"same", "idle"}
      /\ phase' = "same" => StaticError(r) = "None"
      /\ UNCHANGED <<layout, loader, content, mode, locals>>
  BY DEF PatchInstruction, disk
<1>2. StaticError(r) = "None" => Passes(r)
  BY DEF StaticError, Passes
<1>3. DataInv'
  BY <1>1, <1>2, HeadersStable DEF DataInv
<1>4. HasLocals(locals)'
  BY <1>1 DEF StreamInv, HasLocals
<1> QED BY <1>1, <1>3, <1>4 DEF StreamInv, Writing

LEMMA CheckKeeps ==
  ASSUME IInv, DataInv, StreamInv, CheckSame \/ CheckExists
  PROVE  DataInv' /\ StreamInv'
<1>1. /\ phase \in {"same", "exists"} /\ phase' \in {"idle", "exists", "input"}
      /\ UNCHANGED <<layout, loader, request, content, mode>>
  BY DEF CheckSame, CheckExists, Return, Continue, disk
<1>2. DataInv'
  <2>1. content \in [Inodes -> Seq(Nat)] /\ mode \in [Inodes -> STRING]
    BY DEF DataInv
  <2> QED BY <1>1, <2>1, DataKept
<1>3. HasLocals(locals)'
  <2>1. CASE locals' = NoLocals
    BY <2>1, NoLocalsFields DEF HasLocals
  <2>2. CASE locals' = locals
    BY <2>2 DEF StreamInv, HasLocals
  <2>3. CASE \E same : locals' = [locals EXCEPT !.sameFile = same]
    BY <2>3 DEF StreamInv, HasLocals
  <2> QED BY <2>1, <2>2, <2>3 DEF CheckSame, CheckExists, Return
<1> QED BY <1>1, <1>2, <1>3 DEF StreamInv, Writing

LEMMA OpenInputKeeps ==
  ASSUME IInv, DataInv, StreamInv, OpenInput
  PROVE  DataInv' /\ StreamInv'
<1>1. /\ phase = "input" /\ phase' \in {"idle", "read"}
      /\ UNCHANGED <<layout, loader, request, directory, content, mode>>
  BY DEF OpenInput, Return, Continue, disk
<1>2. DataInv'
  <2>1. content \in [Inodes -> Seq(Nat)] /\ mode \in [Inodes -> STRING]
    BY DEF DataInv
  <2> QED BY <1>1, <2>1, DataKept
<1>3. CASE Return("SourceReadFailed")
  <2>1. HasLocals(locals)'
    BY <1>3, NoLocalsFields DEF Return, HasLocals
  <2> QED BY <1>2, <1>3, <2>1, Returned DEF Return
<1>4. CASE ~ Return("SourceReadFailed")
  <2> DEFINE i == directory[loader.path]
             zeros == [b \in 1 .. Len(content[i]) |-> 0]
  <2>1. /\ Exists(loader.path) /\ phase' = "read"
        /\ locals' = [locals EXCEPT !.input = i, !.image = zeros]
    BY <1>4 DEF OpenInput, Continue
  <2>2. i \in Inodes
    <3>1. loader.path \in Paths
      BY <1>1, RequestType
    <3> QED BY <2>1, <3>1 DEF Exists, IInv, RequestInv
  <2>3. content[i] \in Seq(Nat) /\ Len(content[i]) \in Nat
    BY <2>2 DEF DataInv
  <2>4. Len(zeros) = Len(content[i]) /\ zeros \in Seq(Nat)
    BY <2>3
  <2> HIDE DEF i, zeros
  <2>5. HasLocals(locals)' /\ locals'.input = i /\ locals'.image = zeros
    BY <2>1, <2>4 DEF StreamInv, HasLocals
  <2> QED BY <1>1, <1>2, <2>1, <2>2, <2>3, <2>4, <2>5 DEF StreamInv, Writing
<1> QED BY <1>3, <1>4

LEMMA ReadKeeps ==
  ASSUME IInv, DataInv, StreamInv, ReadAndVerify
  PROVE  DataInv' /\ StreamInv'
<1>1. /\ phase = "read" /\ phase' \in {"idle", "open"}
      /\ UNCHANGED <<layout, loader, request, directory, content, mode, disturbed>>
  BY DEF ReadAndVerify, Return, Continue, disk, history
<1>2. DataInv'
  <2>1. content \in [Inodes -> Seq(Nat)] /\ mode \in [Inodes -> STRING]
    BY DEF DataInv
  <2> QED BY <1>1, <2>1, DataKept
<1>3. CASE phase' = "idle"
  <2>1. HasLocals(locals)'
    BY <1>3, NoLocalsFields DEF ReadAndVerify, Return, Continue, HasLocals
  <2> QED BY <1>2, <1>3, <2>1, Returned
<1>4. CASE phase' = "open"
  <2>1. /\ Len(content[locals.input]) >= Len(locals.image)
        /\ ~ (FileOffset(request.address) + request.size > Len(locals.image))
        /\ AsAnalysed(BytesRead)
        /\ locals' = [locals EXCEPT !.image = BytesRead]
    BY <1>4 DEF ReadAndVerify, Return, Continue
  <2>2. /\ BytesRead \in Seq(Nat) /\ Len(BytesRead) = Len(locals.image)
        /\ Len(locals.image) \in Nat
    <3>1. content[locals.input] \in Seq(Nat) /\ locals.image \in Seq(Nat)
      BY <1>1 DEF StreamInv, DataInv, HasLocals
    <3> QED BY <2>1, <3>1 DEF BytesRead
  <2>3. HasLocals(locals)' /\ locals'.image = BytesRead
    BY <2>1, <2>2 DEF StreamInv, HasLocals
  <2>4. FileOffset(request.address) \in Nat /\ request.size \in Nat
    BY <1>1, RequestType
  <2>5. /\ Slice(BytesRead, FileOffset(request.address), request.size) = Original
        /\ FileOffset(request.address)' = FileOffset(request.address)
        /\ Original' = Original
    BY <1>1, <2>1, RequestStable, HeadersStable DEF AsAnalysed
  <2>6. ImageRead'
    BY <1>1, <2>1, <2>2, <2>3, <2>4, <2>5 DEF ImageRead, AsAnalysed
  <2> QED BY <1>1, <1>2, <1>4, <2>3, <2>6 DEF StreamInv, Writing
<1> QED BY <1>1, <1>3, <1>4

LEMMA OpenOutputKeeps ==
  ASSUME IInv, DataInv, StreamInv, OpenOutput
  PROVE  DataInv' /\ StreamInv'
<1>1. /\ phase = "open" /\ phase' \in {"idle", "write"}
      /\ UNCHANGED <<layout, loader, request, disturbed>>
  BY DEF OpenOutput, Return, Continue
<1>2. CASE Return("OutputWriteFailed") /\ UNCHANGED <<disk, touched>>
  <2>1. DataInv'
    <3>1. content' \in [Inodes -> Seq(Nat)] /\ mode' \in [Inodes -> STRING]
      BY <1>2 DEF DataInv, disk
    <3> QED BY <1>1, <3>1, DataKept
  <2>2. HasLocals(locals)'
    BY <1>2, NoLocalsFields DEF Return, HasLocals
  <2> QED BY <1>2, <2>1, <2>2, Returned DEF Return
<1>3. CASE ~ (Return("OutputWriteFailed") /\ UNCHANGED <<disk, touched>>)
  <2> DEFINE i == IF Exists(request.output) THEN directory[request.output] ELSE FreeInode
  <2>1. /\ Exists(request.output) \/ FreeInodes # {}
        /\ directory' = [directory EXCEPT ![request.output] = i]
        /\ mode' = IF Exists(request.output) THEN mode ELSE [mode EXCEPT ![i] = DefaultMode]
        /\ content' = [content EXCEPT ![i] = <<>>]
        /\ touched' = touched \cup {i}
        /\ locals' = [locals EXCEPT !.output = i]
        /\ phase' = "write"
    BY <1>3 DEF OpenOutput, Continue
  <2>2. /\ request.output \in Paths /\ directory \in [Paths -> Inodes \cup {NoFile}]
        /\ touched = {}
    BY <1>1, RequestType DEF IInv, RequestInv, TouchedInv
  <2>3. i \in Inodes
    BY <2>1, <2>2, FreeInodeIsNew DEF Exists
  <2>4. content \in [Inodes -> Seq(Nat)] /\ mode \in [Inodes -> STRING] /\ DefaultMode \in STRING
    BY WritesAssumption DEF DataInv
  <2> HIDE DEF i
  <2>5. content' \in [Inodes -> Seq(Nat)] /\ content'[i] = <<>>
    <3>1. <<>> \in Seq(Nat)
      OBVIOUS
    <3> QED BY <2>1, <2>3, <2>4, <3>1
  <2>6. mode' \in [Inodes -> STRING]
    BY <2>1, <2>3, <2>4
  <2>7. directory'[request.output] = i
    BY <2>1, <2>2
  <2>8. HasLocals(locals)' /\ locals'.output = i /\ locals'.image = locals.image
    BY <2>1 DEF StreamInv, HasLocals
  <2>9. DataInv'
    BY <1>1, <2>5, <2>6, DataKept
  <2>10. ImageRead' <=> ImageRead
    <3>1. /\ \A b : AsAnalysed(b)' <=> AsAnalysed(b)
          /\ FileOffset(request.address)' = FileOffset(request.address)
          /\ Original' = Original
      BY <1>1, RequestStable, HeadersStable
    <3> QED BY <1>1, <2>8, <3>1 DEF ImageRead, AsAnalysed
  <2>11. ~ disturbed => ImageRead'
    BY <1>1, <2>10 DEF StreamInv
  <2>12. OutputOpened'
    BY <1>1, <2>1, <2>2, <2>3, <2>7, <2>8 DEF OutputOpened
  <2>13. content'[locals'.output] = <<>>
    BY <2>5, <2>8
  <2>14. StreamInv'
    BY <1>1, <2>1, <2>8, <2>11, <2>12, <2>13 DEF StreamInv
  <2> QED BY <2>9, <2>14
<1> QED BY <1>2, <1>3

LEMMA WriteOutputKeeps ==
  ASSUME IInv, DataInv, StreamInv, WriteOutput
  PROVE  DataInv' /\ StreamInv'
<1> DEFINE o == locals.output
<1>1. /\ phase = "write" /\ phase' \in {"idle", "mode"}
      /\ UNCHANGED <<layout, loader, request, directory, mode, touched, disturbed>>
  BY DEF WriteOutput, Return, Continue, history
<1>2. PICK n \in 0 .. Len(locals.image) :
        /\ content' = [content EXCEPT ![o] = Over(SubSeq(Patched(locals.image), 1, n), @)]
        /\ \/ Return("OutputWriteFailed")
           \/ n = Len(locals.image) /\ Continue("mode") /\ UNCHANGED locals
  BY DEF WriteOutput
<1> DEFINE p == Patched(locals.image)
<1>3. /\ locals.image \in Seq(Nat) /\ Len(locals.image) \in Nat
      /\ p \in Seq(Nat) /\ Len(p) = Len(locals.image)
  <2>1. locals.image \in Seq(Nat)
    BY DEF StreamInv, HasLocals
  <2> QED BY <1>1, <2>1, PatchedType
<1>4. content \in [Inodes -> Seq(Nat)] /\ mode \in [Inodes -> STRING]
  BY DEF DataInv
<1>5. content' = [content EXCEPT ![o] = Over(SubSeq(p, 1, n), content[o])]
  BY <1>2
<1>6. \A b : Patched(b)' = Patched(b)
  BY <1>1, RequestStable
<1> HIDE DEF p, o
<1>7. content' \in [Inodes -> Seq(Nat)]
  <2>1. ASSUME o \in Inodes PROVE Over(SubSeq(p, 1, n), content[o]) \in Seq(Nat)
    <3>1. SubSeq(p, 1, n) \in Seq(Nat) /\ content[o] \in Seq(Nat)
      BY <1>3, <1>4, <2>1
    <3> QED BY <3>1 DEF Over
  <2> QED BY <1>4, <1>5, <2>1
<1>8. DataInv'
  BY <1>1, <1>4, <1>7, DataKept
<1>9. CASE phase' = "idle"
  <2>1. locals' = NoLocals
    BY <1>2, <1>9 DEF Return, Continue
  <2>2. HasLocals(locals)'
    BY <2>1, NoLocalsFields DEF HasLocals
  <2> QED BY <1>8, <1>9, <2>2, Returned
<1>10. CASE phase' = "mode"
  <2>1. n = Len(p) /\ locals' = locals
    BY <1>2, <1>3, <1>10 DEF Return, Continue
  <2>2. HasLocals(locals)'
    BY <2>1 DEF StreamInv, HasLocals
  <2>3. ASSUME ~ disturbed
        PROVE  /\ ImageRead' /\ OutputOpened'
               /\ content'[locals'.output] = Patched(locals.image)'
    <3>1. ImageRead /\ OutputOpened /\ content[o] = <<>>
      BY <1>1, <2>3 DEF StreamInv, Writing, o
    <3>2. ImageRead'
      BY <1>1, <2>1, <3>1, RequestStable
    <3>3. OutputOpened'
      BY <1>1, <2>1, <3>1 DEF OutputOpened
    <3>4. content'[o] = p
      <4>1. o \in Inodes
        BY <3>1 DEF OutputOpened, o
      <4>2. Over(SubSeq(p, 1, Len(p)), <<>>) = p
        BY <1>3, OverEmpty
      <4> QED BY <1>4, <1>5, <2>1, <3>1, <4>1, <4>2
    <3>5. Patched(locals.image)' = p
      BY <1>6, <2>1 DEF p
    <3> QED BY <2>1, <3>2, <3>3, <3>4, <3>5 DEF o
  <2> QED BY <1>1, <1>8, <1>10, <2>2, <2>3 DEF StreamInv
<1> QED BY <1>1, <1>9, <1>10

LEMMA SetModeKeeps ==
  ASSUME IInv, DataInv, StreamInv, SetMode
  PROVE  DataInv' /\ StreamInv'
<1>1. /\ phase = "mode" /\ phase' \in {"idle", "reload"}
      /\ UNCHANGED <<layout, loader, request, directory, content, disturbed>>
  BY DEF SetMode, Return, Continue
<1>2. content \in [Inodes -> Seq(Nat)] /\ mode \in [Inodes -> STRING]
  BY DEF DataInv
<1>3. CASE Return("OutputWriteFailed") /\ UNCHANGED <<mode, touched>>
  <2>1. DataInv'
    BY <1>1, <1>2, <1>3, DataKept
  <2>2. HasLocals(locals)'
    BY <1>3, NoLocalsFields DEF Return, HasLocals
  <2> QED BY <1>3, <2>1, <2>2, Returned DEF Return
<1>4. CASE ~ (Return("OutputWriteFailed") /\ UNCHANGED <<mode, touched>>)
  <2> DEFINE out == directory[request.output]
             src == directory[loader.path]
  <2>1. /\ Exists(loader.path) /\ Exists(request.output)
        /\ mode' = [mode EXCEPT ![out] = mode[src]]
        /\ touched' = touched \cup {out}
        /\ phase' = "reload" /\ locals' = locals
    BY <1>4 DEF SetMode, Continue
  <2>2. out \in Inodes /\ src \in Inodes
    <3>1. request.output \in Paths /\ loader.path \in Paths
      BY <1>1, RequestType
    <3> QED BY <2>1, <3>1 DEF Exists, IInv, RequestInv
  <2>3. out' = out /\ src' = src
    BY <1>1
  <2> HIDE DEF out, src
  <2>4. mode' \in [Inodes -> STRING] /\ mode'[out] = mode'[src]
    BY <1>2, <2>1, <2>2
  <2>5. DataInv'
    BY <1>1, <1>2, <2>4, DataKept
  <2>6. HasLocals(locals)'
    BY <2>1 DEF StreamInv, HasLocals
  <2>7. ASSUME ~ disturbed
        PROVE  /\ ImageRead' /\ OutputOpened'
               /\ content'[locals'.output] = Patched(locals.image)'
    <3>1. ImageRead /\ OutputOpened /\ content[locals.output] = Patched(locals.image)
      BY <1>1, <2>7 DEF StreamInv, Writing
    <3>2. ImageRead'
      BY <1>1, <2>1, <3>1, RequestStable
    <3>3. OutputOpened'
      BY <1>1, <2>1, <3>1 DEF OutputOpened, out
    <3>4. Patched(locals.image)' = Patched(locals.image)
      <4>1. \A b : Patched(b)' = Patched(b)
        BY <1>1, RequestStable
      <4> QED BY <2>1, <4>1
    <3> QED BY <1>1, <2>1, <3>1, <3>2, <3>3, <3>4
  <2>8. (mode[directory[request.output]] = mode[directory[loader.path]])'
    BY <2>3, <2>4 DEF out, src
  <2> QED BY <1>1, <2>1, <2>5, <2>6, <2>7, <2>8 DEF StreamInv
<1> QED BY <1>3, <1>4

LEMMA ReloadKeeps ==
  ASSUME IInv, DataInv, StreamInv, Reload
  PROVE  DataInv' /\ StreamInv'
<1>1. /\ phase' = "idle" /\ locals' = NoLocals /\ loader' = Loaded(request.output)
      /\ UNCHANGED <<layout, content, mode>>
  BY DEF Reload, Return, disk
<1>2. loader' # NoFile => loader'.path \in Paths
  <2>1. request.output \in Paths
    BY DEF Reload, IInv, RequestInv
  <2> QED BY <1>1, <2>1 DEF Loaded
<1>3. DataInv'
  BY <1>1, <1>2 DEF DataInv
<1>4. HasLocals(locals)'
  BY <1>1, NoLocalsFields DEF HasLocals
<1> QED BY <1>1, <1>3, <1>4, Returned

\* After a change nothing is claimed but the types.
LEMMA ChangeKeeps ==
  ASSUME IInv, DataInv, StreamInv, Change
  PROVE  DataInv' /\ StreamInv'
<1>1. disturbed' = TRUE /\ UNCHANGED <<layout, loader, phase, request, locals>>
  BY DEF Change
<1>2. content \in [Inodes -> Seq(Nat)] /\ mode \in [Inodes -> STRING]
  BY DEF DataInv
<1>3. content' \in [Inodes -> Seq(Nat)]
  BY <1>2, WritesAssumption DEF Change
<1>4. mode' \in [Inodes -> STRING]
  BY <1>2, WritesAssumption DEF Change
<1>5. DataInv'
  BY <1>1, <1>3, <1>4, HeadersStable DEF DataInv
<1>6. HasLocals(locals)' /\ (phase' = "read" => locals'.input \in Inodes)
  BY <1>1 DEF StreamInv, HasLocals
<1> QED BY <1>1, <1>5, <1>6 DEF StreamInv

LEMMA NothingKeeps ==
  ASSUME DataInv, StreamInv, UNCHANGED vars
  PROVE  DataInv' /\ StreamInv'
<1>1. /\ UNCHANGED <<directory, content, mode, layout, loader, phase, request, locals>>
      /\ UNCHANGED <<touched, disturbed>>
  BY DEF vars, disk, history
<1>2. DataInv'
  BY <1>1, HeadersStable DEF DataInv
<1>3. /\ ImageRead' <=> ImageRead
      /\ \A b : Patched(b)' = Patched(b)
  BY <1>1, RequestStable
<1>4. OutputOpened' <=> OutputOpened
  BY <1>1 DEF OutputOpened
<1>5. Patched(locals.image)' = Patched(locals.image)
  BY <1>1, <1>3
<1>6. HasLocals(locals)'
  BY <1>1 DEF StreamInv, HasLocals
<1>7. StreamInv'
  BY <1>1, <1>3, <1>4, <1>5, <1>6 DEF StreamInv
<1> QED BY <1>2, <1>7

LEMMA StepKeeps == IInv /\ DataInv /\ StreamInv /\ [Next]_vars => DataInv' /\ StreamInv'
<1> SUFFICES ASSUME IInv, DataInv, StreamInv, [Next]_vars PROVE DataInv' /\ StreamInv'
  OBVIOUS
<1>1. CASE UNCHANGED vars
  BY <1>1, NothingKeeps
<1>2. CASE Next
  BY <1>2, OpenKeeps, PatchInstructionKeeps, CheckKeeps, OpenInputKeeps, ReadKeeps,
     OpenOutputKeeps, WriteOutputKeeps, SetModeKeeps, ReloadKeeps, ChangeKeeps
     DEF Next, Check, Write
<1> QED BY <1>1, <1>2

\* A window of the patched image that holds the instruction is the replacement.
LEMMA ReplacementInPlace ==
  ASSUME DataInv, phase # "idle", NEW b \in Seq(Nat),
         FileOffset(request.address) + request.size <= Len(b)
  PROVE  Slice(Patched(b), FileOffset(request.address), request.size) = request.replacement
<1> DEFINE o == FileOffset(request.address)
           n == request.size
           p == Patched(b)
           r == request.replacement
<1>1. o \in Nat /\ n \in Nat \ {0} /\ r \in Seq(Nat) /\ Len(r) = n
  BY RequestType
<1>2. /\ p \in Seq(Nat) /\ Len(p) = Len(b) /\ o + n <= Len(b) /\ Len(b) \in Nat
      /\ \A i \in 1 .. Len(b) : p[i] = IF i - o \in 1 .. n THEN r[i - o] ELSE b[i]
  BY PatchedType
<1>3. Slice(p, o, n) = SubSeq(p, o + 1, o + n)
  BY DEF Slice
<1> HIDE DEF o, n, p, r
<1>4. /\ SubSeq(p, o + 1, o + n) \in Seq(Nat) /\ Len(SubSeq(p, o + 1, o + n)) = n
      /\ \A i \in 1 .. n : SubSeq(p, o + 1, o + n)[i] = p[o + i]
  BY <1>1, <1>2
<1>5. \A i \in 1 .. n : o + i \in 1 .. Len(b) /\ (o + i) - o = i
  BY <1>1, <1>2
<1>6. \A i \in 1 .. n : SubSeq(p, o + 1, o + n)[i] = r[i]
  BY <1>2, <1>4, <1>5
<1>7. SubSeq(p, o + 1, o + n) = r
  <2> DEFINE s == SubSeq(p, o + 1, o + n)
  <2>1. s \in Seq(Nat) /\ Len(s) = n /\ \A i \in 1 .. n : s[i] = r[i]
    BY <1>4, <1>6
  <2> HIDE DEF s
  <2>2. s \in [1 .. n -> Nat] /\ r \in [1 .. n -> Nat]
    BY ONLY <1>1, <2>1
  <2>3. s = r
    BY ONLY <2>1, <2>2
  <2> QED BY <2>3 DEF s
<1> QED BY <1>3, <1>7 DEF o, n, p, r

(***************************************************************************)
(* On every file system, for all headers and requests, a patch that was    *)
(* not disturbed and reports success has changed the output alone, which   *)
(* is the source with the bytes of the instruction replaced, and its mode. *)
(***************************************************************************)
THEOREM SuccessCorrect == Spec => []SuccessIsThePatch
<1>1. Spec => [](IInv /\ DataInv /\ StreamInv)
  BY InitHolds, StepHolds, DataInit, StepKeeps, PTL DEF Spec
<1>2. IInv /\ DataInv /\ StreamInv => SuccessIsThePatch
  <2> DEFINE file == directory[request.output]
             a == request.address
             image == locals.image
  <2> SUFFICES ASSUME IInv, DataInv, StreamInv, phase = "reload", ~ disturbed
               PROVE  /\ touched = {file}
                      /\ mode[file] = mode[directory[loader.path]]
                      /\ Len(content[file]) = Len(image)
                      /\ {i \in 1 .. Len(image) : content[file][i] # image[i]} \subseteq
                           {FileOffset(a) + i : i \in 1 .. request.size}
                      /\ AsAnalysed(image)
                      /\ OffsetsAgree(a, request.size) =>
                           SectionBytes(content[file], a, request.size) = request.replacement
    BY DEF SuccessIsThePatch
  <2>1. /\ touched = {file} /\ mode[file] = mode[directory[loader.path]]
        /\ content[file] = Patched(image) /\ ImageRead /\ image \in Seq(Nat)
    BY DEF StreamInv, OutputOpened, Writing, HasLocals
  <2>2. /\ FileOffset(a) \in Nat /\ request.size \in Nat /\ Len(image) \in Nat
        /\ Len(Patched(image)) = Len(image)
        /\ \A i \in 1 .. Len(image) :
             Patched(image)[i] = IF i - FileOffset(a) \in 1 .. request.size
                                   THEN request.replacement[i - FileOffset(a)]
                                   ELSE image[i]
    BY <2>1, RequestType, PatchedType
  <2>3. AsAnalysed(image) /\ FileOffset(a) + request.size <= Len(image)
    BY <2>1 DEF ImageRead
  <2>4. Slice(Patched(image), FileOffset(a), request.size) = request.replacement
    BY <2>1, <2>3, ReplacementInPlace
  <2> HIDE DEF file, a, image
  <2>5. {i \in 1 .. Len(image) : content[file][i] # image[i]} \subseteq
          {FileOffset(a) + i : i \in 1 .. request.size}
    <3> SUFFICES ASSUME NEW i \in 1 .. Len(image), content[file][i] # image[i]
                 PROVE  i \in {FileOffset(a) + k : k \in 1 .. request.size}
      OBVIOUS
    <3>1. i - FileOffset(a) \in 1 .. request.size
      BY <2>1, <2>2
    <3>2. i = FileOffset(a) + (i - FileOffset(a))
      BY <2>2
    <3> QED BY <3>1, <3>2
  <2>6. OffsetsAgree(a, request.size) =>
          SectionBytes(content[file], a, request.size) = request.replacement
    BY <2>1, <2>4 DEF OffsetsAgree, SectionBytes
  <2> QED BY <2>1, <2>2, <2>3, <2>5, <2>6
<1> QED BY <1>1, <1>2, PTL

================================================================================
