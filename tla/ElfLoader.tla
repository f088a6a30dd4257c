------------------------------- MODULE ElfLoader -------------------------------
(***************************************************************************)
(* ElfLoader::load and parse: a file is measured, read and checked part by *)
(* part; the first part that is malformed ends the load and empties the    *)
(* loader.  A loader is used again, and other programs may change the file *)
(* while it is read.                                                       *)
(*                                                                         *)
(* Offsets, sizes and addresses are words, of 64 bits in the code, and all *)
(* of their arithmetic wraps.  The bytes of a file are what the parser can *)
(* find in them: the fields of the header, the entries of its tables.      *)
(***************************************************************************)
EXTENDS Integers, SequencesExt

CONSTANTS
  WordValues,    \* the number of values of a word, 2^64 in the code
  MaxFileSize,   \* the largest streamsize
  IdentitySize,  \* EI_NIDENT
  HeaderSize,    \* sizeof(Elf64_Ehdr)
  SectionSize,   \* sizeof(Elf64_Shdr)
  SegmentSize,   \* sizeof(Elf64_Phdr)
  SymbolSize,    \* sizeof(Elf64_Sym)
  DynamicSize,   \* sizeof(Elf64_Dyn)
  Extended,      \* SHN_XINDEX or PN_XNUM: the number is in section zero
  NoName,        \* a name that does not end inside its string table
  NoFile,        \* nothing at the path
  Files,         \* what may be at the path at first
  LaterFiles     \* what other programs may put there later

MaxWord == WordValues - 1

Word == 0 .. MaxWord

Wrapped(n) == n % WordValues

\* What can be wrong with a header, in the order in which it is looked for.
HeaderDefects ==
  <<[defect |-> "magic",      error |-> "InvalidMagic"],
    [defect |-> "class",      error |-> "UnsupportedClass"],
    [defect |-> "endianness", error |-> "UnsupportedEndianness"],
    [defect |-> "identity",   error |-> "InvalidHeader"],
    [defect |-> "length",     error |-> "TruncatedHeader"],
    [defect |-> "version",    error |-> "InvalidHeader"],
    [defect |-> "machine",    error |-> "UnsupportedMachine"],
    [defect |-> "type",       error |-> "UnsupportedType"]>>

SectionTypes == {"null", "bits", "nobits", "strings", "symbols", "dynamic symbols"}

\* An entry of the section table. "badSymbol" is the first entry of a symbol table
\* whose name is not in the string table, 0 if there is none.
RawSection ==
  [name : STRING \cup {NoName}, type : SectionTypes, alloc : BOOLEAN, exec : BOOLEAN,
   address : Word, offset : Word, size : Word, link : Word, info : Word,
   entrySize : Word, badSymbol : Nat]

\* An entry of the program header table, with the tags that a dynamic one points to.
RawSegment ==
  [type : {"load", "interpreter", "dynamic", "other"}, offset : Word, address : Word,
   fileSize : Word, memorySize : Word, tags : Seq({"pie", "null", "other"})]

File ==
  [size : Nat, shoff : Word, shentsize : Word, shnum : Word, shstrndx : Word \cup {Extended},
   phoff : Word, phentsize : Word, phnum : Word \cup {Extended},
   sections : Seq(RawSection), segments : Seq(RawSegment), isDyn : BOOLEAN,
   defects : SUBSET {d.defect : d \in ToSet(HeaderDefects)}]

(***************************************************************************)
(* The tables of a file, and those of dynamic tags, have at least the      *)
(* entries that the file has bytes for.                                    *)
(***************************************************************************)
IsFile(f) ==
  /\ f \in File
  /\ \A n \in Word \ {0} :
       /\ f.shoff + (n - 1) * f.shentsize + SectionSize <= f.size => n <= Len(f.sections)
       /\ f.phoff + (n - 1) * f.phentsize + SegmentSize <= f.size => n <= Len(f.segments)
  /\ \A s \in ToSet(f.segments) :
       s.type = "dynamic" => Len(s.tags) >= s.fileSize \div DynamicSize

ASSUME FilesAssumption == \A f \in (Files \cup LaterFiles) \ {NoFile} : IsFile(f)

ASSUME SizesAssumption ==
  /\ {IdentitySize, HeaderSize, SectionSize, SegmentSize, SymbolSize, DynamicSize}
       \subseteq Nat \ {0}
  /\ WordValues \in Nat /\ WordValues > 1
  /\ MaxFileSize \in Nat /\ MaxFileSize < WordValues

VARIABLES
  file,       \* what is at the path
  phase,      \* "idle" or the position in load
  length,     \* the size that was measured, and read
  bytes,      \* bytes_ and metadata_
  counts,     \* the numbers of sections and segments and the index of the names
  raw,        \* rawSections
  index,      \* position of the loop of the current phase
  entry,      \* position in a symbol table
  sections,   \* sections_
  segments,   \* programHeaders_
  symbols,    \* symbols_
  error,      \* error_
  valid       \* valid_

locals == <<length, counts, raw, index, entry>>
loaded == <<bytes, sections, segments, symbols, error, valid>>
vars   == <<file, phase, locals, loaded>>

NoCounts == [sections |-> 0, names |-> 0, segments |-> 0]

Init ==
  /\ file \in Files
  /\ phase = "idle"
  /\ length = 0 /\ counts = NoCounts /\ raw = <<>> /\ index = 1 /\ entry = 1
  /\ bytes = NoFile /\ sections = <<>> /\ segments = <<>> /\ symbols = <<>>
  /\ error = "none" /\ valid = FALSE

--------------------------------------------------------------------------------
(***************************************************************************)
(* Ranges.                                                                 *)
(***************************************************************************)

\* Mutation: the end of the range is computed, and wraps.
RangeFitsSum(offset, size) == Wrapped(offset + size) <= bytes.size

\* rangeFits
RangeFits(offset, size) == offset <= bytes.size /\ size <= bytes.size - offset

\* readObject finds an object of this size.
Readable(offset, size) == RangeFits(offset, size)

\* tableFits
TableFits(offset, entrySize, entryCount) ==
  /\ entrySize > 0 /\ offset <= bytes.size
  /\ entryCount <= (bytes.size - offset) \div entrySize

EntryOffset(table, entrySize, i) == Wrapped(table + (i - 1) * entrySize)

\* contains
IsWithin(start, size, value) == value >= start /\ value - start < size

--------------------------------------------------------------------------------
(***************************************************************************)
(* load.                                                                   *)
(***************************************************************************)

ClearedLocals ==
  length' = 0 /\ counts' = NoCounts /\ raw' = <<>> /\ index' = 1 /\ entry' = 1

\* Mutation: the symbols that were read before the failure stay.
FailKeepingSymbols(e) ==
  /\ phase' = "idle"
  /\ bytes' = NoFile /\ sections' = <<>> /\ segments' = <<>>
  /\ error' = e /\ valid' = FALSE
  /\ ClearedLocals
  /\ UNCHANGED <<file, symbols>>

\* fail
Fail(e) ==
  /\ phase' = "idle"
  /\ bytes' = NoFile /\ sections' = <<>> /\ segments' = <<>> /\ symbols' = <<>>
  /\ error' = e /\ valid' = FALSE
  /\ ClearedLocals
  /\ UNCHANGED file

Continue(next) == phase' = next /\ index' = 1 /\ entry' = 1

\* reset
Load ==
  /\ phase = "idle"
  /\ phase' = "measure"
  /\ bytes' = NoFile /\ sections' = <<>> /\ segments' = <<>> /\ symbols' = <<>>
  /\ error' = "none" /\ valid' = FALSE
  /\ ClearedLocals
  /\ UNCHANGED file

\* The status cannot be read, the path is no regular file or cannot be opened, its
\* size cannot be told, or the read ends with an error.
FileSystemFails == phase \in {"measure", "read"} /\ Fail("CannotOpen")

MeasureFile ==
  /\ phase = "measure"
  /\ IF file = NoFile THEN Fail("FileNotFound")
     ELSE IF file.size = 0 THEN Fail("EmptyFile")
     ELSE IF file.size > MaxFileSize THEN Fail("FileTooLarge")
     ELSE /\ length' = file.size
          /\ Continue("read")
          /\ UNCHANGED <<file, counts, raw, loaded>>

\* As many bytes as were measured are read, or the file has become shorter.
ReadFile ==
  /\ phase = "read"
  /\ file # NoFile
  /\ IF file.size < length
       THEN Fail("CannotOpen")
       ELSE /\ bytes' = [file EXCEPT !.size = length]
            /\ Continue("header")
            /\ UNCHANGED <<file, length, counts, raw, sections, segments, symbols, error, valid>>

--------------------------------------------------------------------------------
(***************************************************************************)
(* parse.                                                                  *)
(***************************************************************************)

HasDefect(d) == d \in bytes.defects \/ (d = "length" /\ bytes.size < HeaderSize)

DefectsFound == SelectSeq(HeaderDefects, LAMBDA d : HasDefect(d.defect))

CheckHeader ==
  /\ phase = "header"
  /\ IF bytes.size < IdentitySize THEN Fail("TruncatedHeader")
     ELSE IF DefectsFound # <<>> THEN Fail(DefectsFound[1].error)
     ELSE Continue("counts") /\ UNCHANGED <<file, length, counts, raw, loaded>>

NeedsSectionZero ==
  bytes.shnum = 0 \/ bytes.shstrndx = Extended \/ bytes.phnum = Extended

SectionZeroMissing ==
  \/ bytes.shoff = 0 \/ bytes.shentsize < SectionSize
  \/ ~ Readable(bytes.shoff, SectionSize)

\* The counts of the header, or those of section zero that do not fit there.
Counts ==
  [sections |-> IF bytes.shnum = 0 THEN bytes.sections[1].size ELSE bytes.shnum,
   names    |-> IF bytes.shstrndx = Extended THEN bytes.sections[1].link ELSE bytes.shstrndx,
   segments |-> IF bytes.phnum = Extended THEN bytes.sections[1].info ELSE bytes.phnum]

SectionTableMalformed(n) ==
  \/ n = 0 \/ bytes.shoff = 0 \/ bytes.shentsize < SectionSize
  \/ ~ TableFits(bytes.shoff, bytes.shentsize, n)

ReadCounts ==
  /\ phase = "counts"
  /\ IF NeedsSectionZero /\ SectionZeroMissing THEN Fail("InvalidSectionHeaders")
     ELSE IF SectionTableMalformed(Counts.sections) THEN Fail("InvalidSectionHeaders")
     ELSE IF Counts.names = 0 \/ Counts.names >= Counts.sections
       THEN Fail("InvalidStringTable")
     ELSE /\ counts' = Counts
          /\ Continue("sections")
          /\ UNCHANGED <<file, length, raw, loaded>>

\* A section that may not be loaded.
SectionMalformed(s) ==
  \/ s.type # "nobits" /\ ~ RangeFits(s.offset, s.size)
  \/ s.alloc /\ s.size > MaxWord - s.address

ReadSection ==
  /\ phase = "sections"
  /\ index <= counts.sections
  /\ IF \/ ~ Readable(EntryOffset(bytes.shoff, bytes.shentsize, index), SectionSize)
        \/ SectionMalformed(bytes.sections[index])
       THEN Fail("InvalidSectionHeaders")
       ELSE /\ raw' = Append(raw, bytes.sections[index])
            /\ index' = index + 1
            /\ UNCHANGED <<file, phase, length, counts, entry, loaded>>

\* A section can be used as a table of strings.
IsStringTable(s) == s.type = "strings" /\ RangeFits(s.offset, s.size)

CheckNames ==
  /\ phase = "sections"
  /\ index > counts.sections
  /\ IF IsStringTable(raw[counts.names + 1])
       THEN Continue("names") /\ UNCHANGED <<file, length, counts, raw, loaded>>
       ELSE Fail("InvalidStringTable")

NameSection ==
  /\ phase = "names"
  /\ index <= Len(raw)
  /\ IF raw[index].name = NoName
       THEN Fail("InvalidStringTable")
       ELSE /\ sections' = Append(sections, raw[index])
            /\ index' = index + 1
            /\ UNCHANGED <<file, phase, length, counts, raw, entry, bytes, segments, symbols,
                           error, valid>>

\* The first element of a sequence for which a condition holds, if there is one.
First(s, Holds(_)) ==
  {s[i] : i \in {k \in 1 .. Len(s) : Holds(s[k]) /\ \A j \in 1 .. k - 1 : ~ Holds(s[j])}}

\* findSection
FindSection(name) == First(sections, LAMBDA s : s.name = name)

IsUsableText(s) == s.type # "nobits" /\ s.exec /\ s.size > 0

\* .text and, when there are program headers, their table.
CheckText ==
  /\ phase = "names"
  /\ index > Len(raw)
  /\ IF ~ \E s \in FindSection(".text") : IsUsableText(s)
       THEN Fail("MissingTextSection")
     ELSE IF /\ counts.segments > 0
             /\ \/ bytes.phoff = 0 \/ bytes.phentsize < SegmentSize
                \/ ~ TableFits(bytes.phoff, bytes.phentsize, counts.segments)
       THEN Fail("InvalidProgramHeaders")
     ELSE Continue("segments") /\ UNCHANGED <<file, length, counts, raw, loaded>>

SegmentMalformed(s) ==
  \/ ~ RangeFits(s.offset, s.fileSize)
  \/ s.fileSize > s.memorySize
  \/ s.memorySize > MaxWord - s.address

ReadSegment ==
  /\ phase = "segments"
  /\ index <= counts.segments
  /\ IF \/ ~ Readable(EntryOffset(bytes.phoff, bytes.phentsize, index), SegmentSize)
        \/ SegmentMalformed(bytes.segments[index])
       THEN Fail("InvalidProgramHeaders")
       ELSE /\ segments' = Append(segments, bytes.segments[index])
            /\ index' = index + 1
            /\ UNCHANGED <<file, phase, length, counts, raw, entry, bytes, sections, symbols,
                           error, valid>>

HasInterpreter == \E s \in ToSet(segments) : s.type = "interpreter"

\* hasPieDynamicFlag: the tags up to the first null tag.
HasPieDynamicFlag ==
  \E s \in ToSet(segments) :
    /\ s.type = "dynamic"
    /\ \E i \in 1 .. s.fileSize \div DynamicSize :
         s.tags[i] = "pie" /\ \A j \in 1 .. i : s.tags[j] # "null"

\* A shared object is taken for an executable if it has an interpreter or says so.
CheckType ==
  /\ phase = "segments"
  /\ index > counts.segments
  /\ IF bytes.isDyn /\ ~ HasInterpreter /\ ~ HasPieDynamicFlag
       THEN Fail("UnsupportedType")
       ELSE Continue("symbols") /\ UNCHANGED <<file, length, counts, raw, loaded>>

HoldsSymbols(s) == s.type \in {"symbols", "dynamic symbols"}

SkipSection ==
  /\ phase = "symbols"
  /\ index <= Len(raw) /\ ~ HoldsSymbols(raw[index])
  /\ index' = index + 1
  /\ UNCHANGED <<file, phase, length, counts, raw, entry, loaded>>

SymbolTableMalformed(s) ==
  s.entrySize < SymbolSize \/ s.size % s.entrySize # 0 \/ s.link >= Len(raw)

CheckSymbolTable ==
  /\ phase = "symbols"
  /\ index <= Len(raw) /\ HoldsSymbols(raw[index])
  /\ IF SymbolTableMalformed(raw[index]) THEN Fail("InvalidSymbolTable")
     ELSE IF ~ IsStringTable(raw[raw[index].link + 1]) THEN Fail("InvalidStringTable")
     ELSE /\ phase' = "entries"
          /\ UNCHANGED <<file, locals, loaded>>

ReadSymbol ==
  /\ phase = "entries"
  /\ LET s == raw[index]
     IN  /\ entry <= s.size \div s.entrySize
         /\ IF ~ Readable(EntryOffset(s.offset, s.entrySize, entry), SymbolSize)
              THEN Fail("InvalidSymbolTable")
            ELSE IF entry = s.badSymbol THEN Fail("InvalidStringTable")
            ELSE /\ symbols' = Append(symbols, [section |-> index, entry |-> entry])
                 /\ entry' = entry + 1
                 /\ UNCHANGED <<file, phase, length, counts, raw, index, bytes, sections,
                                segments, error, valid>>

SymbolsRead ==
  /\ phase = "entries"
  /\ entry > raw[index].size \div raw[index].entrySize
  /\ phase' = "symbols"
  /\ index' = index + 1 /\ entry' = 1
  /\ UNCHANGED <<file, length, counts, raw, loaded>>

FinishLoad ==
  /\ phase = "symbols"
  /\ index > Len(raw)
  /\ phase' = "idle"
  /\ valid' = TRUE
  /\ ClearedLocals
  /\ UNCHANGED <<file, bytes, sections, segments, symbols, error>>

ParseStep ==
  \/ CheckHeader \/ ReadCounts
  \/ ReadSection \/ CheckNames \/ NameSection \/ CheckText
  \/ ReadSegment \/ CheckType
  \/ SkipSection \/ CheckSymbolTable \/ ReadSymbol \/ SymbolsRead
  \/ FinishLoad

\* Another program writes the file, or removes it. (A file that is open is read to its
\* end when it is removed.)
ReplaceFile ==
  /\ phase \in {"idle", "read"}
  /\ file' \in LaterFiles \ {file}
  /\ phase = "read" => NoFile \notin {file, file'}
  /\ UNCHANGED <<phase, locals, loaded>>

Next == Load \/ FileSystemFails \/ MeasureFile \/ ReadFile \/ ParseStep \/ ReplaceFile

Spec == Init /\ [][Next]_vars

--------------------------------------------------------------------------------
(***************************************************************************)
(* Queries of a loaded file.  A result is a set: of one element, or empty  *)
(* for nullopt.                                                            *)
(***************************************************************************)

\* A segment is looked for first, then a section.
FirstIn(inSegment(_), inSection(_)) ==
  IF First(segments, inSegment) # {} THEN First(segments, inSegment) ELSE First(sections, inSection)

\* Mutation: the part of a segment that is not in the file counts as well.
SegmentHoldsInMemory(s, a) == s.type = "load" /\ IsWithin(s.address, s.memorySize, a)

SegmentHolds(s, a) == s.type = "load" /\ IsWithin(s.address, s.fileSize, a)

SectionHolds(s, a) == s.alloc /\ s.type # "nobits" /\ IsWithin(s.address, s.size, a)

HolderOf(a) == FirstIn(LAMBDA t : SegmentHolds(t, a), LAMBDA t : SectionHolds(t, a))

VirtualAddressToFileOffset(a) == {Wrapped(s.offset + (a - s.address)) : s \in HolderOf(a)}

FileOffsetToVirtualAddress(o) ==
  {Wrapped(s.address + (o - s.offset)) :
     s \in FirstIn(LAMBDA t : t.type = "load" /\ IsWithin(t.offset, t.fileSize, o),
                   LAMBDA t : /\ t.alloc /\ t.type # "nobits"
                              /\ IsWithin(t.offset, t.size, o))}

\* The offsets of the bytes that bytesForSection returns.
BytesForSection(name) ==
  UNION {s.offset .. s.offset + s.size - 1 :
           s \in {t \in FindSection(name) :
                    t.type # "nobits" /\ t.size > 0 /\ RangeFits(t.offset, t.size)}}

--------------------------------------------------------------------------------
(***************************************************************************)
(* Properties.                                                             *)
(***************************************************************************)

AllSymbols ==
  UNION {{[section |-> i, entry |-> e] : e \in 1 .. sections[i].size \div sections[i].entrySize} :
           i \in {j \in 1 .. Len(sections) : HoldsSymbols(sections[j])}}

(***************************************************************************)
(* A load that ends, also one of a file that changes meanwhile and one     *)
(* after other loads, leaves the tables of one file complete and in their  *)
(* order, or an error and nothing at all: load starts with reset, and      *)
(* every early return of parse goes through fail.                          *)
(***************************************************************************)
LoadedOrEmpty ==
  phase = "idle" =>
    IF valid
      THEN /\ error = "none"
           /\ sections = SubSeq(bytes.sections, 1, Counts.sections)
           /\ segments = SubSeq(bytes.segments, 1, Counts.segments)
           /\ ToSet(symbols) = AllSymbols /\ IsInjective(symbols)
      ELSE bytes = NoFile /\ sections = <<>> /\ segments = <<>> /\ symbols = <<>>

(***************************************************************************)
(* Whatever the words of a file are, the ranges of a loaded one do not     *)
(* wrap: its sections and segments lie in the file, those in memory do not *)
(* end above the largest address, every address that has an offset has one *)
(* inside the file, and .text has bytes (on which AnalysisSession and      *)
(* FunctionDiscovery rely).                                                *)
(***************************************************************************)
RangesInside ==
  valid =>
    /\ \A s \in ToSet(sections) :
         /\ s.type # "nobits" => s.offset + s.size <= bytes.size
         /\ s.alloc => s.address + s.size <= MaxWord
    /\ \A s \in ToSet(segments) :
         s.offset + s.fileSize <= bytes.size /\ s.address + s.memorySize <= MaxWord
    /\ \A a \in Word : \A o \in VirtualAddressToFileOffset(a) : o < bytes.size
    /\ BytesForSection(".text") # {}

Disjoint(s, t, sizeOfS, sizeOfT) ==
  s.address + sizeOfS <= t.address \/ t.address + sizeOfT <= s.address

InFile(s) == s.alloc /\ s.type # "nobits" /\ s.size > 0

IsLoad(t) == t.type = "load" /\ t.fileSize > 0

\* The image that a linker makes: segments and sections share no address among
\* themselves, and a section lies where its segment says.
Consistent ==
  /\ \A i, j \in 1 .. Len(segments) : i < j /\ IsLoad(segments[i]) /\ IsLoad(segments[j]) =>
       Disjoint(segments[i], segments[j], segments[i].fileSize, segments[j].fileSize)
  /\ \A i, j \in 1 .. Len(sections) : i < j /\ InFile(sections[i]) /\ InFile(sections[j]) =>
       Disjoint(sections[i], sections[j], sections[i].size, sections[j].size)
  /\ \A s \in ToSet(sections), t \in ToSet(segments) : InFile(s) /\ IsLoad(t) =>
       Disjoint(s, t, s.size, t.fileSize) \/ s.offset - s.address = t.offset - t.address

(***************************************************************************)
(* In a consistent image the two translations agree, although segments may *)
(* share bytes of the file and some sections lie outside all segments: an  *)
(* offset that has an address is the offset of that address, and the byte  *)
(* of .text that is disassembled at an address is the one that             *)
(* BinaryPatcher replaces there.                                           *)
(***************************************************************************)
TranslationsAgree ==
  valid /\ Consistent =>
    /\ \A o \in Word : \A a \in FileOffsetToVirtualAddress(o) :
         VirtualAddressToFileOffset(a) = {o}
    /\ \A s \in FindSection(".text") :
         s.alloc => \A i \in 0 .. s.size - 1 :
                      VirtualAddressToFileOffset(s.address + i) = {s.offset + i}

================================================================================
