----------------------------- MODULE BinaryPatcher -----------------------------
(***************************************************************************)
(* BinaryPatcher::patchInstruction, from MainWindow's request to the load  *)
(* of the output, on a file system that other programs change between its  *)
(* calls.  A path names an inode, or none; two paths can name the same     *)
(* one.  A stream keeps the inode that it was opened with.                 *)
(***************************************************************************)
EXTENDS Naturals, SequencesExt

CONSTANTS
  Paths, Inodes,
  NoFile,        \* no inode, no loaded binary
  Disks,         \* directories, contents and modes to start with
  Layouts,       \* what the headers of the binaries can say
  Contents,      \* what other programs write
  DefaultMode,   \* the mode of a file that is created
  Requests,      \* the arguments of patchInstruction
  Decodable,     \* the bytes Capstone decodes to instructions, all of them valid
  MaxChanges,    \* bound of the model: changes by other programs
  MaxRequests    \* bound of the model: requests that pass the static checks

ASSUME NoFileAssumption == NoFile \notin Inodes

Segment == [address : Nat, offset : Nat, size : Nat]

Section ==
  [address : Nat, offset : Nat, size : Nat, executable : BOOLEAN, allocated : BOOLEAN]

ASSUME DisksAssumption ==
  \A d \in Disks : /\ d.directory \in [Paths -> Inodes \cup {NoFile}]
                   /\ d.content \in [Inodes -> Seq(Nat)]
                   /\ d.mode \in [Inodes -> STRING]

ASSUME LayoutsAssumption ==
  \A l \in Layouts : l.segments \in Seq(Segment) /\ l.sections \in Seq(Section)

ASSUME WritesAssumption == Contents \subseteq Seq(Nat) /\ DefaultMode \in STRING

ASSUME RequestsAssumption ==
  \A r \in Requests : /\ r.output \in Paths
                      /\ r.address \in Nat /\ r.size \in Nat
                      /\ r.replacement \in Seq(Nat)

VARIABLES
  directory, content, mode,   \* the file system
  layout,      \* the sections and segments of the binaries
  loader,      \* path and bytes of the loaded binary, or NoFile
  phase,       \* the call patchInstruction makes next, "idle" or "reload"
  request,     \* its arguments
  locals,      \* its variables: overwritesOriginal, the inodes of the two streams
               \* and the bytes that were read
  error,       \* error of the PatchResult
  guarded,     \* history: the files that were there when existence was checked
  touched,     \* history: the files that the request has changed
  changes,     \* history: changes by other programs
  requests,    \* history: requests that passed the static checks
  disturbed    \* history: whether there was one since the source was read

disk    == <<directory, content, mode>>
history == <<guarded, touched, changes, requests, disturbed>>
vars == <<disk, layout, loader, phase, request, locals, error, history>>

NoLocals == [sameFile |-> FALSE, input |-> NoFile, output |-> NoFile, image |-> <<>>]

Init ==
  /\ \E d \in Disks : directory = d.directory /\ content = d.content /\ mode = d.mode
  /\ layout \in Layouts
  /\ loader = NoFile
  /\ phase = "idle"
  /\ request = NoFile
  /\ locals = NoLocals
  /\ error = "None"
  /\ guarded = {} /\ touched = {} /\ changes = 0 /\ requests = 0
  /\ disturbed = FALSE

--------------------------------------------------------------------------------
(***************************************************************************)
(* What the loader answers.  Offsets and addresses count from 0.           *)
(***************************************************************************)

Exists(p) == directory[p] # NoFile

Holds(r, a) == r.address <= a /\ a - r.address < r.size

HoldingSegments(a) ==
  {i \in 1 .. Len(layout.segments) : Holds(layout.segments[i], a)}

HoldingSections(a) ==
  {i \in 1 .. Len(layout.sections) :
     layout.sections[i].allocated /\ Holds(layout.sections[i], a)}

IsMapped(a) == HoldingSegments(a) \cup HoldingSections(a) # {}

FirstOf(S) == CHOOSE i \in S : \A j \in S : i <= j

\* Segments first, then the sections that are in memory.
Mapping(a) ==
  IF HoldingSegments(a) # {} THEN layout.segments[FirstOf(HoldingSegments(a))]
                             ELSE layout.sections[FirstOf(HoldingSections(a))]

\* virtualAddressToFileOffset, where something holds the address.
FileOffset(a) == Mapping(a).offset + (a - Mapping(a).address)

Slice(bytes, offset, n) == SubSeq(bytes, offset + 1, offset + n)

Executable(s, a, n) == s.executable /\ s.address <= a /\ a + n <= s.address + s.size

\* The sections executableSectionFor chooses the first of.
ExecutableSections(a, n) ==
  {i \in 1 .. Len(layout.sections) : Executable(layout.sections[i], a, n)}

ExecutableSection(a, n) == layout.sections[FirstOf(ExecutableSections(a, n))]

\* The bytes of an instruction as they are disassembled, from its section.
SectionBytes(bytes, a, n) ==
  Slice(bytes, ExecutableSection(a, n).offset + (a - ExecutableSection(a, n).address), n)

\* Where the headers agree: the segment has the instruction where its section has it.
OffsetsAgree(a, n) ==
  FileOffset(a) = ExecutableSection(a, n).offset + (a - ExecutableSection(a, n).address)

Original == SectionBytes(loader.bytes, request.address, request.size)

\* ElfLoader accepts a file with all that its headers speak of.
Loadable(bytes) ==
  \A r \in ToSet(layout.segments) \cup ToSet(layout.sections) : r.offset + r.size <= Len(bytes)

Loaded(p) ==
  IF Exists(p) /\ Loadable(content[directory[p]])
    THEN [path |-> p, bytes |-> content[directory[p]]]
    ELSE NoFile

--------------------------------------------------------------------------------
(***************************************************************************)
(* patchInstruction.                                                       *)
(***************************************************************************)

Return(e) == phase' = "idle" /\ error' = e /\ locals' = NoLocals

Continue(next) == phase' = next /\ UNCHANGED error

Open(p) ==
  /\ phase = "idle"
  /\ loader' = Loaded(p)
  /\ error' = "None"
  /\ guarded' = {} /\ touched' = {}
  /\ UNCHANGED <<disk, layout, phase, request, locals, changes, requests, disturbed>>

StaticError(r) ==
  IF r.size = 0 \/ r.replacement = <<>> THEN "EmptyPatch"
  ELSE IF r.size # Len(r.replacement) THEN "SizeMismatch"
  ELSE IF ExecutableSections(r.address, r.size) = {} THEN "NonExecutableAddress"
  ELSE IF r.replacement \notin Decodable THEN "InvalidInstructionBytes"
  ELSE IF ~ IsMapped(r.address) THEN "NonExecutableAddress"
  ELSE "None"

\* The checks that need no file; without a valid session there is no instruction.
PatchInstruction(r) ==
  /\ phase = "idle" /\ loader # NoFile
  /\ request' = r
  /\ guarded' = {} /\ touched' = {}
  /\ error' = StaticError(r)
  /\ phase' = IF error' = "None" THEN "same" ELSE "idle"
  /\ requests' = IF error' = "None" THEN requests + 1 ELSE requests
  /\ requests' <= MaxRequests
  /\ UNCHANGED <<disk, layout, loader, locals, changes, disturbed>>

\* samePath: the same file, or the same name.
SamePath(p, q) == p = q \/ (Exists(q) /\ directory[p] = directory[q])

CheckSame ==
  /\ phase = "same"
  /\ LET same == SamePath(loader.path, request.output)
     IN  IF same /\ ~ request.allow
           THEN Return("OriginalOverwriteDenied")
           ELSE Continue("exists") /\ locals' = [locals EXCEPT !.sameFile = same]
  /\ UNCHANGED <<disk, layout, loader, request, history>>

LinkedInodes == {directory[p] : p \in Paths} \ {NoFile}

\* Mutation: an output that exists is taken for confirmed.
CheckExistsNever ==
  /\ phase = "exists"
  /\ Continue("input") /\ UNCHANGED locals
  /\ guarded' = LinkedInodes
  /\ UNCHANGED <<disk, layout, loader, request, touched, changes, requests, disturbed>>

\* Unless the output is the source, which has been confirmed, it may be there
\* without confirmation, or its status may be unreadable.
CheckExists ==
  /\ phase = "exists"
  /\ \/ ~ locals.sameFile /\ Return("OutputWriteFailed")
     \/ /\ ~ locals.sameFile /\ Exists(request.output) /\ ~ request.allow
        /\ Return("OutputExists")
     \/ /\ locals.sameFile \/ ~ Exists(request.output) \/ request.allow
        /\ Continue("input") /\ UNCHANGED locals
  /\ guarded' = LinkedInodes
  /\ UNCHANGED <<disk, layout, loader, request, touched, changes, requests, disturbed>>

\* The source is opened at its end, which tells the size of the image.
OpenInput ==
  /\ phase = "input"
  /\ \/ /\ Exists(loader.path)
        /\ LET i == directory[loader.path]
           IN  locals' = [locals EXCEPT !.input = i,
                                        !.image = [b \in 1 .. Len(content[i]) |-> 0]]
        /\ Continue("read")
     \/ Return("SourceReadFailed")
  /\ disturbed' = FALSE
  /\ UNCHANGED <<disk, layout, loader, request, guarded, touched, changes, requests>>

\* The bytes of the analysed instruction are where it is mapped in the image.
AsAnalysed(bytes) == Slice(bytes, FileOffset(request.address), request.size) = Original

\* As many bytes of the source as the image has, if it still has as many.
BytesRead == SubSeq(content[locals.input], 1, Len(locals.image))

\* Mutation: the bytes are not compared with the analysed ones.
ReadUnverified ==
  /\ phase = "read"
  /\ Len(content[locals.input]) >= Len(locals.image)
  /\ FileOffset(request.address) + request.size <= Len(locals.image)
  /\ locals' = [locals EXCEPT !.image = BytesRead]
  /\ Continue("open")
  /\ UNCHANGED <<disk, layout, loader, request, history>>

ReadAndVerify ==
  /\ phase = "read"
  /\ \/ Return("SourceReadFailed")
     \/ /\ Len(content[locals.input]) >= Len(locals.image)
        /\ IF FileOffset(request.address) + request.size > Len(locals.image)
             THEN Return("NonExecutableAddress")
           ELSE IF ~ AsAnalysed(BytesRead)
             THEN Return("OriginalBytesMismatch")
           ELSE Continue("open") /\ locals' = [locals EXCEPT !.image = BytesRead]
  /\ UNCHANGED <<disk, layout, loader, request, history>>

\* std::copy of the replacement over the image
Patched(bytes) ==
  [i \in 1 .. Len(bytes) |->
     IF i - FileOffset(request.address) \in 1 .. request.size
       THEN request.replacement[i - FileOffset(request.address)] ELSE bytes[i]]

\* Inodes that no path and no stream holds, and that the request has not met.
FreeInodes == Inodes \ (LinkedInodes \cup {locals.input, locals.output} \cup guarded)

FreeInode == CHOOSE i \in FreeInodes : TRUE

\* The output is emptied if it exists, and otherwise created.
OpenOutput ==
  /\ phase = "open"
  /\ \/ Return("OutputWriteFailed") /\ UNCHANGED <<disk, touched>>
     \/ LET i == IF Exists(request.output) THEN directory[request.output] ELSE FreeInode
        IN  /\ Exists(request.output) \/ FreeInodes # {}
            /\ directory' = [directory EXCEPT ![request.output] = i]
            /\ mode' = IF Exists(request.output) THEN mode
                                                 ELSE [mode EXCEPT ![i] = DefaultMode]
            /\ content' = [content EXCEPT ![i] = <<>>]
            /\ touched' = touched \cup {i}
            /\ locals' = [locals EXCEPT !.output = i]
            /\ Continue("write")
  /\ UNCHANGED <<layout, loader, request, guarded, changes, requests, disturbed>>

\* What a file holds when bytes are written over its beginning.
Over(bytes, old) == bytes \o SubSeq(old, Len(bytes) + 1, Len(old))

\* All bytes are written, or the first few.
WriteOutput ==
  /\ phase = "write"
  /\ \E n \in 0 .. Len(locals.image) :
       /\ content' = [content EXCEPT ![locals.output] =
                        Over(SubSeq(Patched(locals.image), 1, n), @)]
       /\ \/ Return("OutputWriteFailed")
          \/ n = Len(locals.image) /\ Continue("mode") /\ UNCHANGED locals
  /\ UNCHANGED <<directory, mode, layout, loader, request, history>>

\* status and permissions go by the names of the files, not by the streams.
SetMode ==
  /\ phase = "mode"
  /\ \/ Return("OutputWriteFailed") /\ UNCHANGED <<mode, touched>>
     \/ /\ Exists(loader.path) /\ Exists(request.output)
        /\ mode' = [mode EXCEPT ![directory[request.output]] = mode[directory[loader.path]]]
        /\ touched' = touched \cup {directory[request.output]}
        /\ Continue("reload") /\ UNCHANGED locals
  /\ UNCHANGED <<directory, content, layout, loader, request, guarded, changes, requests, disturbed>>

\* MainWindow loads what was written in place of the binary.
Reload ==
  /\ phase = "reload"
  /\ loader' = Loaded(request.output)
  /\ Return("None")
  /\ UNCHANGED <<disk, layout, request, history>>

--------------------------------------------------------------------------------
(***************************************************************************)
(* Other programs write, remove and create files.                          *)
(***************************************************************************)

Change ==
  /\ changes < MaxChanges
  /\ changes' = changes + 1
  /\ disturbed' = TRUE
  /\ \/ \E p \in Paths, bytes \in Contents :
          /\ Exists(p)
          /\ content' = [content EXCEPT ![directory[p]] = bytes]
          /\ UNCHANGED <<directory, mode>>
     \/ \E p \in Paths :
          /\ Exists(p)
          /\ directory' = [directory EXCEPT ![p] = NoFile]
          /\ UNCHANGED <<content, mode>>
     \/ \E p \in Paths, bytes \in Contents :
          /\ ~ Exists(p) /\ FreeInodes # {}
          /\ directory' = [directory EXCEPT ![p] = FreeInode]
          /\ content' = [content EXCEPT ![FreeInode] = bytes]
          /\ mode' = [mode EXCEPT ![FreeInode] = DefaultMode]
  /\ UNCHANGED <<layout, loader, phase, request, locals, error, guarded, touched,
                 requests>>

Check == CheckSame \/ CheckExists \/ OpenInput \/ ReadAndVerify

Write == OpenOutput \/ WriteOutput \/ SetMode \/ Reload

Next ==
  \/ \E p \in Paths : Open(p)
  \/ \E r \in Requests : PatchInstruction(r)
  \/ Check \/ Write \/ Change

Spec == Init /\ [][Next]_vars

--------------------------------------------------------------------------------
(***************************************************************************)
(* Properties.                                                             *)
(***************************************************************************)

(***************************************************************************)
(* Without the permission to overwrite, a request changes no file that was *)
(* there when it looked, under whatever name, whatever other programs do   *)
(* afterwards; a file that they create later, in the place of the output,  *)
(* is not protected.  A request that is turned down for any reason but a   *)
(* failure to write has changed nothing at all.                            *)
(***************************************************************************)
OnlyConfirmedFilesChange ==
  /\ \A i \in touched \cap guarded : request.allow
  /\ error \notin {"None", "OutputWriteFailed"} => touched = {}

(***************************************************************************)
(* A success that nobody disturbed has changed one file, the output, and   *)
(* this file has the mode of the source and its bytes but for those of the *)
(* instruction, which are the analysed ones no longer: a reload shows the  *)
(* replacement and every other instruction as it was, if the headers agree *)
(* on where the instruction is in the file.                                *)
(***************************************************************************)
SuccessIsThePatch ==
  phase = "reload" /\ ~ disturbed =>
    LET file == directory[request.output]
        a    == request.address
    IN  /\ touched = {file}
        /\ mode[file] = mode[directory[loader.path]]
        /\ Len(content[file]) = Len(locals.image)
        /\ {i \in 1 .. Len(locals.image) : content[file][i] # locals.image[i]} \subseteq
             {FileOffset(a) + i : i \in 1 .. request.size}
        /\ AsAnalysed(locals.image)
        /\ OffsetsAgree(a, request.size) =>
             SectionBytes(content[file], a, request.size) = request.replacement

================================================================================
