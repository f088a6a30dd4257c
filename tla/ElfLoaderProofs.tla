---------------------------- MODULE ElfLoaderProofs ----------------------------
(***************************************************************************)
(* For words of every width and files of every content: the ranges of a    *)
(* loaded file do not wrap, a load keeps a file's tables complete or       *)
(* nothing at all, and its two translations of addresses agree.            *)
(*                                                                         *)
(* What the checks of parse have found stays true because bytes_ does not  *)
(* change before the next load: the invariant says of every section and    *)
(* segment that is kept that its check did not reject it, and of the two   *)
(* tables that the file has all of their entries.  A second invariant      *)
(* says which entries the loops have taken so far.                         *)
(***************************************************************************)
EXTENDS ElfLoader, SequenceTheorems, WellFoundedInduction, TLAPS

LEMMA WordFacts ==
  /\ Word \subseteq Nat /\ 0 \in Word /\ 1 \in Word /\ MaxWord \in Nat
  /\ SectionSize \in Nat \ {0} /\ SegmentSize \in Nat \ {0}
BY SizesAssumption DEF Word, MaxWord

\* Wrapping makes nothing larger.
LEMMA WrappedBound == \A n \in Nat : Wrapped(n) \in Nat /\ Wrapped(n) <= n
<1> SUFFICES ASSUME NEW n \in Nat PROVE n % WordValues \in Nat /\ n % WordValues <= n
  BY DEF Wrapped
<1>1. WordValues \in Nat /\ WordValues > 0
  BY SizesAssumption
<1>2. n % WordValues \in 0 .. WordValues - 1
  BY <1>1
<1>3. CASE n < WordValues
  BY <1>1, <1>3
<1>4. CASE n >= WordValues
  BY <1>1, <1>2, <1>4
<1> QED BY <1>1, <1>2, <1>3, <1>4

\* tableFits: the last entry of a table that fits is in the file.
LEMMA LastEntryFits ==
  ASSUME NEW offset \in Nat, NEW e \in Nat \ {0}, NEW n \in Nat \ {0}, NEW size \in Nat,
         NEW k \in Nat, k <= e, offset <= size, n <= (size - offset) \div e
  PROVE  offset + (n - 1) * e + k <= size
<1> DEFINE q == (size - offset) \div e
<1>1. q \in Nat /\ q * e <= size - offset
  OBVIOUS
<1>2. n * e <= q * e
  <2> HIDE DEF q
  <2>1. n <= q
    BY DEF q
  <2> QED BY <1>1, <2>1
<1>3. (n - 1) * e = n * e - e
  OBVIOUS
<1>4. n * e \in Nat /\ q * e \in Nat
  BY <1>1
<1> QED BY <1>1, <1>2, <1>3, <1>4

--------------------------------------------------------------------------------
(***************************************************************************)
(* The invariant.                                                          *)
(***************************************************************************)

Parsing == {"header", "counts", "sections", "names", "segments", "symbols", "entries"}

\* The sections and segments that parse has not rejected.
Sections == {s \in RawSection : ~ SectionMalformed(s)}

Segments == {s \in RawSegment : ~ SegmentMalformed(s)}

TextFound == \E s \in FindSection(".text") : IsUsableText(s)

BytesInv ==
  /\ file \in Files \cup LaterFiles
  /\ length \in Nat
  /\ phase \in {"idle", "measure", "read"} \cup Parsing
  /\ valid => phase = "idle"
  /\ phase \in Parsing \/ valid => IsFile(bytes)
  /\ phase = "read" /\ file # NoFile => IsFile(file)

TablesInv ==
  /\ index \in Nat \ {0}
  /\ phase \in Parsing \/ valid =>
       raw \in Seq(Sections) /\ sections \in Seq(Sections) /\ segments \in Seq(Segments)
  /\ phase \notin Parsing => raw = <<>>
  /\ phase \notin Parsing /\ ~ valid => sections = <<>> /\ segments = <<>>
  /\ phase \in {"header", "counts"} => raw = <<>>
  /\ phase \in {"header", "counts", "sections"} => sections = <<>>
  /\ phase \in Parsing \ {"segments", "symbols", "entries"} => segments = <<>>

CountsInv ==
  /\ counts.sections \in Word /\ counts.segments \in Word
  /\ phase = "sections" => counts.sections <= Len(bytes.sections)
  /\ phase = "segments" => counts.segments <= Len(bytes.segments)

TextInv == phase \in {"segments", "symbols", "entries"} \/ valid => TextFound

IInv == BytesInv /\ TablesInv /\ CountsInv /\ TextInv

--------------------------------------------------------------------------------
(***************************************************************************)
(* Every step keeps the invariant.                                         *)
(***************************************************************************)

\* The sets of what is kept depend on bytes_ only, what is found on sections_.
LEMMA BytesKept ==
  ASSUME UNCHANGED bytes
  PROVE  Sections' = Sections /\ Segments' = Segments /\ IsFile(bytes)' = IsFile(bytes)
BY DEF Sections, Segments, SectionMalformed, SegmentMalformed, RangeFits

LEMMA SectionsKept ==
  ASSUME UNCHANGED sections
  PROVE  TextFound' = TextFound
BY DEF TextFound, FindSection, First

\* What every step of parse knows.
LEMMA ParsingFacts ==
  ASSUME IInv, phase \in Parsing
  PROVE  /\ ~ valid
         /\ IsFile(bytes) /\ bytes \in File /\ file \in Files \cup LaterFiles /\ length \in Nat
         /\ raw \in Seq(Sections) /\ sections \in Seq(Sections) /\ segments \in Seq(Segments)
         /\ index \in Nat \ {0} /\ counts.sections \in Word /\ counts.segments \in Word
BY DEF IInv, BytesInv, TablesInv, CountsInv, Parsing, IsFile

\* The tables of a file, and what is known of its numbers.
LEMMA FileFacts ==
  ASSUME IsFile(bytes)
  PROVE  /\ bytes.size \in Nat /\ bytes.sections \in Seq(RawSection)
         /\ bytes.segments \in Seq(RawSegment)
         /\ Len(bytes.sections) \in Nat /\ Len(bytes.segments) \in Nat
<1>1. /\ bytes.size \in Nat /\ bytes.sections \in Seq(RawSection)
      /\ bytes.segments \in Seq(RawSegment)
  BY DEF IsFile, File
<1> QED BY <1>1

LEMMA InitHolds == Init => IInv
<1> SUFFICES ASSUME Init PROVE IInv
  OBVIOUS
<1>1. BytesInv
  BY DEF Init, BytesInv, Parsing
<1>2. TablesInv
  BY DEF Init, TablesInv, Parsing
<1>3. CountsInv
  BY WordFacts DEF Init, CountsInv, NoCounts
<1>4. TextInv
  BY DEF Init, TextInv
<1> QED BY <1>1, <1>2, <1>3, <1>4 DEF IInv

LEMMA EmptyHolds ==
  ASSUME file \in Files \cup LaterFiles, UNCHANGED file,
         phase' \in {"idle", "measure"}, ClearedLocals, valid' = FALSE,
         sections' = <<>>, segments' = <<>>
  PROVE  IInv'
<1>1. BytesInv'
  BY DEF BytesInv, ClearedLocals, Parsing
<1>2. TablesInv'
  BY DEF TablesInv, ClearedLocals, Parsing
<1>3. CountsInv'
  BY WordFacts DEF CountsInv, ClearedLocals, NoCounts
<1>4. TextInv'
  BY DEF TextInv
<1> QED BY <1>1, <1>2, <1>3, <1>4 DEF IInv

LEMMA FailHolds == ASSUME IInv, NEW e, Fail(e) PROVE IInv'
BY EmptyHolds DEF Fail, IInv, BytesInv

LEMMA LoadHolds == ASSUME IInv, Load PROVE IInv'
BY EmptyHolds DEF Load, IInv, BytesInv

\* Of a file that is there, the first bytes are a file too.
LEMMA PrefixIsFile ==
  ASSUME NEW f, IsFile(f), NEW n \in Nat, n <= f.size
  PROVE  IsFile([f EXCEPT !.size = n])
<1> DEFINE g == [f EXCEPT !.size = n]
<1>1. /\ g \in File /\ g.size = n /\ g.shoff = f.shoff /\ g.shentsize = f.shentsize
      /\ g.phoff = f.phoff /\ g.phentsize = f.phentsize
      /\ g.sections = f.sections /\ g.segments = f.segments
  BY DEF IsFile, File
<1>2. /\ f.size \in Nat /\ f.shoff \in Nat /\ f.shentsize \in Nat /\ f.phoff \in Nat
      /\ f.phentsize \in Nat
  BY WordFacts DEF IsFile, File
<1>3. ASSUME NEW k \in Word \ {0}
      PROVE  /\ g.shoff + (k - 1) * g.shentsize + SectionSize <= g.size => k <= Len(g.sections)
             /\ g.phoff + (k - 1) * g.phentsize + SegmentSize <= g.size => k <= Len(g.segments)
  <2> DEFINE a == (k - 1) * f.shentsize
             b == (k - 1) * f.phentsize
  <2>1. a \in Int /\ b \in Int
    BY <1>2, WordFacts
  <2>2. /\ f.shoff + a + SectionSize <= f.size => k <= Len(f.sections)
        /\ f.phoff + b + SegmentSize <= f.size => k <= Len(f.segments)
    BY DEF IsFile
  <2> HIDE DEF a, b, g
  <2>3. /\ f.shoff + a + SectionSize <= n => k <= Len(f.sections)
        /\ f.phoff + b + SegmentSize <= n => k <= Len(f.segments)
    <3>1. n \in Nat /\ n <= f.size /\ SectionSize \in Nat /\ SegmentSize \in Nat
      BY WordFacts
    <3>2. \A x \in Int : x <= n => x <= f.size
      BY ONLY <1>2, <3>1
    <3>3. f.shoff + a + SectionSize \in Int /\ f.phoff + b + SegmentSize \in Int
      BY ONLY <1>2, <2>1, <3>1
    <3> QED BY ONLY <2>2, <3>2, <3>3
  <2> QED BY <1>1, <2>3 DEF a, b
<1>4. \A s \in ToSet(g.segments) :
        s.type = "dynamic" => Len(s.tags) >= s.fileSize \div DynamicSize
  BY <1>1 DEF IsFile
<1> HIDE DEF g
<1>5. IsFile(g)
  BY <1>1, <1>3, <1>4 DEF IsFile
<1> QED BY <1>5 DEF g

LEMMA MeasureFileHolds == ASSUME IInv, MeasureFile PROVE IInv'
<1>1. CASE \E e : Fail(e)
  BY <1>1, FailHolds
<1>2. CASE /\ file # NoFile /\ length' = file.size /\ Continue("read")
           /\ UNCHANGED <<file, counts, raw, loaded>>
  <2>1. IsFile(file) /\ file.size \in Nat
    BY <1>2, FilesAssumption DEF IInv, BytesInv, IsFile, File
  <2>2. phase = "measure" /\ ~ valid
    BY DEF MeasureFile, IInv, BytesInv
  <2>3. BytesInv'
    BY <1>2, <2>1, <2>2 DEF IInv, BytesInv, Continue, Parsing, loaded
  <2>4. TablesInv'
    BY <1>2, <2>2 DEF IInv, TablesInv, Continue, Parsing, loaded
  <2>5. CountsInv'
    BY <1>2, <2>2 DEF IInv, CountsInv, Continue, loaded
  <2>6. TextInv'
    BY <1>2, <2>2 DEF TextInv, Continue, loaded
  <2> QED BY <2>3, <2>4, <2>5, <2>6 DEF IInv
<1> QED BY <1>1, <1>2 DEF MeasureFile

LEMMA ReadFileHolds == ASSUME IInv, ReadFile PROVE IInv'
<1>1. CASE \E e : Fail(e)
  BY <1>1, FailHolds
<1>2. CASE /\ ~ file.size < length
           /\ bytes' = [file EXCEPT !.size = length] /\ Continue("header")
           /\ UNCHANGED <<file, length, counts, raw, sections, segments, symbols, error, valid>>
  <2>1. IsFile(bytes')
    <3>1. IsFile(file) /\ file.size \in Nat /\ length \in Nat
      BY DEF ReadFile, IInv, BytesInv, IsFile, File
    <3>2. length <= file.size
      BY <1>2, <3>1
    <3> QED BY <1>2, <3>1, <3>2, PrefixIsFile
  <2>2. phase = "read" /\ ~ valid
    BY DEF ReadFile, IInv, BytesInv
  <2>3. raw = <<>> /\ sections = <<>> /\ segments = <<>>
    BY <2>2 DEF IInv, TablesInv, Parsing
  <2>4. BytesInv'
    BY <1>2, <2>1, <2>2 DEF IInv, BytesInv, Continue, Parsing
  <2>5. TablesInv'
    BY <1>2, <2>2, <2>3 DEF TablesInv, Continue, Parsing
  <2>6. CountsInv'
    BY <1>2 DEF IInv, CountsInv, Continue
  <2>7. TextInv'
    BY <1>2, <2>2 DEF TextInv, Continue
  <2> QED BY <2>4, <2>5, <2>6, <2>7 DEF IInv
<1> QED BY <1>1, <1>2 DEF ReadFile

\* A step that only goes on.
LEMMA GoingOnHolds ==
  ASSUME IInv, UNCHANGED <<file, length, counts, raw, bytes, sections, segments, valid>>,
         index' \in Nat \ {0},
         NEW from, NEW to, phase = from, phase' = to,
         <<from, to>> \in {<<"header", "counts">>, <<"sections", "names">>,
                           <<"segments", "symbols">>, <<"symbols", "symbols">>,
                           <<"symbols", "entries">>, <<"entries", "entries">>,
                           <<"entries", "symbols">>}
  PROVE  IInv'
<1>1. phase \in Parsing /\ phase' \in Parsing
  BY DEF Parsing
<1>2. BytesInv'
  BY <1>1, ParsingFacts, BytesKept DEF BytesInv
<1>3. TablesInv'
  BY <1>1, ParsingFacts, BytesKept DEF IInv, TablesInv, Parsing
<1>4. CountsInv'
  BY DEF IInv, CountsInv
<1>5. TextInv'
  BY <1>1, ParsingFacts, SectionsKept DEF IInv, TextInv
<1> QED BY <1>2, <1>3, <1>4, <1>5 DEF IInv

LEMMA CheckHeaderHolds == ASSUME IInv, CheckHeader PROVE IInv'
<1>1. CASE \E e : Fail(e)
  BY <1>1, FailHolds
<1>2. CASE Continue("counts") /\ UNCHANGED <<file, length, counts, raw, loaded>>
  BY <1>2, GoingOnHolds DEF CheckHeader, Continue, loaded
<1> QED BY <1>1, <1>2 DEF CheckHeader

\* The numbers of sections and segments are words, and the file has that many sections.
LEMMA CountsFit ==
  ASSUME IInv, phase = "counts", ~ (NeedsSectionZero /\ SectionZeroMissing),
         ~ SectionTableMalformed(Counts.sections)
  PROVE  /\ Counts.sections \in Word /\ Counts.segments \in Word
         /\ Counts.sections <= Len(bytes.sections)
<1>1. IsFile(bytes) /\ bytes \in File
  BY ParsingFacts DEF Parsing
<1>2. /\ bytes.size \in Nat /\ bytes.shoff \in Word /\ bytes.shentsize \in Word
      /\ bytes.shnum \in Word /\ bytes.phnum \in Word \cup {Extended}
      /\ bytes.sections \in Seq(RawSection)
  BY <1>1 DEF File
<1>3. NeedsSectionZero => bytes.sections[1] \in RawSection
  <2> SUFFICES ASSUME NeedsSectionZero PROVE bytes.sections[1] \in RawSection
    OBVIOUS
  <2>1. bytes.shoff <= bytes.size /\ SectionSize <= bytes.size - bytes.shoff
    <3>1. ~ SectionZeroMissing
      OBVIOUS
    <3> QED BY ONLY <3>1 DEF SectionZeroMissing, Readable, RangeFits
  <2>2. (1 - 1) * bytes.shentsize = 0
    <3>1. \A x \in Nat : (1 - 1) * x = 0
      OBVIOUS
    <3>2. bytes.shentsize \in Nat
      BY <1>2, WordFacts
    <3> QED BY ONLY <3>1, <3>2
  <2>3. bytes.shoff + (1 - 1) * bytes.shentsize + SectionSize <= bytes.size
    <3>1. bytes.shoff \in Nat /\ bytes.size \in Nat /\ SectionSize \in Nat
      BY <1>2, WordFacts
    <3> QED BY ONLY <2>1, <2>2, <3>1
  <2>4. 1 <= Len(bytes.sections)
    BY <1>1, <2>3, WordFacts DEF IsFile
  <2> QED BY <1>2, <2>4
<1>4. Counts.sections \in Word /\ Counts.segments \in Word
  BY <1>2, <1>3 DEF Counts, NeedsSectionZero, RawSection
<1>5. Counts.sections <= Len(bytes.sections)
  <2> DEFINE n == Counts.sections
  <2>1. ~ SectionTableMalformed(n) /\ n \in Word
    BY <1>4
  <2> HIDE DEF n
  <2>2. /\ n # 0 /\ ~ bytes.shentsize < SectionSize /\ bytes.shoff <= bytes.size
        /\ n <= (bytes.size - bytes.shoff) \div bytes.shentsize
    BY ONLY <2>1 DEF SectionTableMalformed, TableFits
  <2>3. bytes.shentsize \in Nat /\ bytes.shoff \in Nat /\ SectionSize \in Nat \ {0}
    BY <1>2, WordFacts
  <2>4. n \in Nat \ {0} /\ n \in Word \ {0}
    BY <2>1, <2>2, WordFacts
  <2>5. bytes.shentsize \in Nat \ {0} /\ SectionSize <= bytes.shentsize /\ SectionSize \in Nat
    BY ONLY <2>2, <2>3
  <2>6. bytes.shoff + (n - 1) * bytes.shentsize + SectionSize <= bytes.size
    BY <1>2, <2>2, <2>3, <2>4, <2>5, LastEntryFits, Zenon
  <2>7. n <= Len(bytes.sections)
    BY <1>1, <2>4, <2>6, Zenon DEF IsFile
  <2> QED BY <2>7 DEF n
<1> QED BY <1>4, <1>5

LEMMA ReadCountsHolds == ASSUME IInv, ReadCounts PROVE IInv'
<1>1. CASE \E e : Fail(e)
  BY <1>1, FailHolds
<1>2. CASE /\ ~ (NeedsSectionZero /\ SectionZeroMissing)
           /\ ~ SectionTableMalformed(Counts.sections)
           /\ counts' = Counts /\ Continue("sections")
           /\ UNCHANGED <<file, length, raw, loaded>>
  <2>1. phase = "counts" /\ phase \in Parsing
    BY DEF ReadCounts, Parsing
  <2>2. BytesInv'
    BY <1>2, <2>1, ParsingFacts, BytesKept DEF BytesInv, Continue, Parsing, loaded
  <2>3. TablesInv'
    BY <1>2, <2>1, ParsingFacts, BytesKept DEF IInv, TablesInv, Continue, Parsing, loaded
  <2>4. CountsInv'
    BY <1>2, <2>1, CountsFit DEF CountsInv, Continue, loaded
  <2>5. TextInv'
    BY <1>2, <2>1, ParsingFacts DEF TextInv, Continue, loaded
  <2> QED BY <2>2, <2>3, <2>4, <2>5 DEF IInv
<1> QED BY <1>1, <1>2 DEF ReadCounts

LEMMA ReadSectionHolds == ASSUME IInv, ReadSection PROVE IInv'
<1>1. CASE \E e : Fail(e)
  BY <1>1, FailHolds
<1>2. CASE /\ ~ SectionMalformed(bytes.sections[index])
           /\ raw' = Append(raw, bytes.sections[index]) /\ index' = index + 1
           /\ UNCHANGED <<file, phase, length, counts, entry, loaded>>
  <2>1. phase = "sections" /\ phase \in Parsing /\ index <= counts.sections
    BY DEF ReadSection, Parsing
  <2>2. index <= Len(bytes.sections)
    <3>1. counts.sections <= Len(bytes.sections)
      BY <2>1 DEF IInv, CountsInv
    <3>2. index \in Nat /\ counts.sections \in Nat /\ Len(bytes.sections) \in Nat
      BY <2>1, ParsingFacts, FileFacts, WordFacts
    <3> QED BY ONLY <2>1, <3>1, <3>2
  <2>3. bytes.sections[index] \in Sections
    BY <1>2, <2>1, <2>2, ParsingFacts, FileFacts DEF Sections
  <2>4. raw' \in Seq(Sections)
    BY <1>2, <2>1, <2>3, ParsingFacts
  <2>5. BytesInv'
    BY <1>2, <2>1, ParsingFacts, BytesKept DEF BytesInv, loaded
  <2>6. TablesInv'
    BY <1>2, <2>1, <2>4, ParsingFacts, BytesKept DEF IInv, TablesInv, Parsing, loaded
  <2>7. CountsInv'
    BY <1>2 DEF IInv, CountsInv, loaded
  <2>8. TextInv'
    BY <1>2, <2>1, ParsingFacts DEF TextInv, loaded
  <2> QED BY <2>5, <2>6, <2>7, <2>8 DEF IInv
<1> QED BY <1>1, <1>2 DEF ReadSection

LEMMA CheckNamesHolds == ASSUME IInv, CheckNames PROVE IInv'
<1>1. CASE \E e : Fail(e)
  BY <1>1, FailHolds
<1>2. CASE Continue("names") /\ UNCHANGED <<file, length, counts, raw, loaded>>
  BY <1>2, GoingOnHolds DEF CheckNames, Continue, loaded
<1> QED BY <1>1, <1>2 DEF CheckNames

LEMMA NameSectionHolds == ASSUME IInv, NameSection PROVE IInv'
<1>1. CASE \E e : Fail(e)
  BY <1>1, FailHolds
<1>2. CASE /\ sections' = Append(sections, raw[index]) /\ index' = index + 1
           /\ UNCHANGED <<file, phase, length, counts, raw, entry, bytes, segments, symbols,
                          error, valid>>
  <2>1. phase = "names" /\ phase \in Parsing /\ index <= Len(raw)
    BY DEF NameSection, Parsing
  <2>2. sections' \in Seq(Sections)
    BY <1>2, <2>1, ParsingFacts
  <2>3. BytesInv'
    BY <1>2, <2>1, ParsingFacts, BytesKept DEF BytesInv
  <2>4. TablesInv'
    BY <1>2, <2>1, <2>2, ParsingFacts, BytesKept DEF IInv, TablesInv, Parsing
  <2>5. CountsInv'
    BY <1>2 DEF IInv, CountsInv
  <2>6. TextInv'
    BY <1>2, <2>1, ParsingFacts DEF TextInv
  <2> QED BY <2>3, <2>4, <2>5, <2>6 DEF IInv
<1> QED BY <1>1, <1>2 DEF NameSection

LEMMA CheckTextHolds == ASSUME IInv, CheckText PROVE IInv'
<1>1. CASE \E e : Fail(e)
  BY <1>1, FailHolds
<1>2. CASE /\ TextFound
           /\ counts.segments > 0 =>
                /\ ~ bytes.phentsize < SegmentSize
                /\ TableFits(bytes.phoff, bytes.phentsize, counts.segments)
           /\ Continue("segments") /\ UNCHANGED <<file, length, counts, raw, loaded>>
  <2>1. phase = "names" /\ phase \in Parsing
    BY DEF CheckText, Parsing
  <2>2. counts.segments <= Len(bytes.segments)
    <3>1. /\ bytes.size \in Nat /\ bytes.phoff \in Nat /\ bytes.phentsize \in Nat
          /\ counts.segments \in Nat /\ counts.segments \in Word
          /\ bytes.segments \in Seq(RawSegment)
      BY <2>1, ParsingFacts, WordFacts DEF File
    <3>2. CASE counts.segments = 0
      BY <3>1, <3>2
    <3>3. CASE counts.segments > 0
      <4>1. /\ ~ bytes.phentsize < SegmentSize /\ bytes.phoff <= bytes.size
            /\ counts.segments <= (bytes.size - bytes.phoff) \div bytes.phentsize
        BY ONLY <1>2, <3>3 DEF TableFits
      <4>2. SegmentSize \in Nat /\ SegmentSize \in Nat \ {0}
        BY WordFacts
      <4>3. bytes.phentsize \in Nat \ {0} /\ SegmentSize <= bytes.phentsize
        BY ONLY <3>1, <4>1, <4>2
      <4>4. counts.segments \in Nat \ {0} /\ counts.segments \in Word \ {0}
        BY ONLY <3>1, <3>3
      <4>5. bytes.phoff + (counts.segments - 1) * bytes.phentsize + SegmentSize <= bytes.size
        BY <3>1, <4>1, <4>2, <4>3, <4>4, LastEntryFits, Zenon
      <4>6. IsFile(bytes)
        BY <2>1, ParsingFacts
      <4> QED BY <4>4, <4>5, <4>6, Zenon DEF IsFile
    <3> QED BY <3>1, <3>2, <3>3
  <2>3. BytesInv'
    BY <1>2, <2>1, ParsingFacts, BytesKept DEF BytesInv, Continue, Parsing, loaded
  <2>4. TablesInv'
    BY <1>2, <2>1, ParsingFacts, BytesKept DEF IInv, TablesInv, Continue, Parsing, loaded
  <2>5. CountsInv'
    BY <1>2, <2>2 DEF IInv, CountsInv, Continue, loaded
  <2>6. TextInv'
    BY <1>2, SectionsKept DEF TextInv, loaded
  <2> QED BY <2>3, <2>4, <2>5, <2>6 DEF IInv
<1> QED BY <1>1, <1>2 DEF CheckText, TextFound

LEMMA ReadSegmentHolds == ASSUME IInv, ReadSegment PROVE IInv'
<1>1. CASE \E e : Fail(e)
  BY <1>1, FailHolds
<1>2. CASE /\ ~ SegmentMalformed(bytes.segments[index])
           /\ segments' = Append(segments, bytes.segments[index]) /\ index' = index + 1
           /\ UNCHANGED <<file, phase, length, counts, raw, entry, bytes, sections, symbols,
                          error, valid>>
  <2>1. phase = "segments" /\ phase \in Parsing /\ index <= counts.segments
    BY DEF ReadSegment, Parsing
  <2>2. index <= Len(bytes.segments)
    <3>1. counts.segments <= Len(bytes.segments)
      BY <2>1 DEF IInv, CountsInv
    <3>2. index \in Nat /\ counts.segments \in Nat /\ Len(bytes.segments) \in Nat
      BY <2>1, ParsingFacts, FileFacts, WordFacts
    <3> QED BY ONLY <2>1, <3>1, <3>2
  <2>3. bytes.segments[index] \in Segments
    BY <1>2, <2>1, <2>2, ParsingFacts, FileFacts DEF Segments
  <2>4. segments' \in Seq(Segments)
    BY <1>2, <2>1, <2>3, ParsingFacts
  <2>5. BytesInv'
    BY <1>2, <2>1, ParsingFacts, BytesKept DEF BytesInv
  <2>6. TablesInv'
    BY <1>2, <2>1, <2>4, ParsingFacts, BytesKept DEF IInv, TablesInv, Parsing
  <2>7. CountsInv'
    BY <1>2 DEF IInv, CountsInv
  <2>8. TextInv'
    BY <1>2, <2>1, SectionsKept DEF IInv, TextInv
  <2> QED BY <2>5, <2>6, <2>7, <2>8 DEF IInv
<1> QED BY <1>1, <1>2 DEF ReadSegment

LEMMA CheckTypeHolds == ASSUME IInv, CheckType PROVE IInv'
<1>1. CASE \E e : Fail(e)
  BY <1>1, FailHolds
<1>2. CASE Continue("symbols") /\ UNCHANGED <<file, length, counts, raw, loaded>>
  BY <1>2, GoingOnHolds DEF CheckType, Continue, loaded
<1> QED BY <1>1, <1>2 DEF CheckType

LEMMA SkipSectionHolds == ASSUME IInv, SkipSection PROVE IInv'
<1>1. index' \in Nat \ {0}
  BY DEF SkipSection, IInv, TablesInv
<1> QED BY <1>1, GoingOnHolds DEF SkipSection, loaded

LEMMA CheckSymbolTableHolds == ASSUME IInv, CheckSymbolTable PROVE IInv'
<1>1. CASE \E e : Fail(e)
  BY <1>1, FailHolds
<1>2. CASE phase' = "entries" /\ UNCHANGED <<file, locals, loaded>>
  <2>1. index' \in Nat \ {0}
    BY <1>2 DEF IInv, TablesInv, locals
  <2> QED BY <1>2, <2>1, GoingOnHolds DEF CheckSymbolTable, loaded, locals
<1> QED BY <1>1, <1>2 DEF CheckSymbolTable

LEMMA ReadSymbolHolds == ASSUME IInv, ReadSymbol PROVE IInv'
<1>1. CASE \E e : Fail(e)
  BY <1>1, FailHolds
<1>2. CASE UNCHANGED <<file, phase, length, counts, raw, index, bytes, sections, segments,
                       error, valid>>
  <2>1. index' \in Nat \ {0}
    BY <1>2 DEF IInv, TablesInv
  <2> QED BY <1>2, <2>1, GoingOnHolds DEF ReadSymbol
<1> QED BY <1>1, <1>2 DEF ReadSymbol

LEMMA SymbolsReadHolds == ASSUME IInv, SymbolsRead PROVE IInv'
<1>1. index' \in Nat \ {0}
  BY DEF SymbolsRead, IInv, TablesInv
<1> QED BY <1>1, GoingOnHolds DEF SymbolsRead, loaded

LEMMA FinishLoadHolds == ASSUME IInv, FinishLoad PROVE IInv'
<1>1. phase = "symbols" /\ phase \in Parsing /\ phase' = "idle"
  BY DEF FinishLoad, Parsing
<1>2. BytesInv'
  BY <1>1, ParsingFacts, BytesKept DEF BytesInv, FinishLoad, ClearedLocals, Parsing
<1>3. TablesInv'
  BY <1>1, ParsingFacts, BytesKept DEF TablesInv, FinishLoad, ClearedLocals, Parsing
<1>4. CountsInv'
  BY WordFacts DEF CountsInv, FinishLoad, ClearedLocals, NoCounts
<1>5. TextInv'
  BY <1>1, SectionsKept DEF IInv, TextInv, FinishLoad
<1> QED BY <1>2, <1>3, <1>4, <1>5 DEF IInv

LEMMA ReplaceFileHolds == ASSUME IInv, ReplaceFile PROVE IInv'
<1>1. /\ UNCHANGED <<phase, length, counts, raw, index, bytes, sections, segments, valid>>
      /\ file' \in Files \cup LaterFiles
      /\ phase = "read" => file' # NoFile
  BY DEF ReplaceFile, locals, loaded
<1>2. phase = "read" => IsFile(file')
  BY <1>1, FilesAssumption
<1>3. BytesInv'
  BY <1>1, <1>2, BytesKept DEF IInv, BytesInv
<1>4. TablesInv'
  BY <1>1, BytesKept DEF IInv, TablesInv
<1>5. CountsInv'
  BY <1>1 DEF IInv, CountsInv
<1>6. TextInv'
  BY <1>1, SectionsKept DEF IInv, TextInv
<1> QED BY <1>3, <1>4, <1>5, <1>6 DEF IInv

LEMMA StepHolds == IInv /\ [Next]_vars => IInv'
<1> SUFFICES ASSUME IInv, [Next]_vars PROVE IInv'
  OBVIOUS
<1>1. CASE Load
  BY <1>1, LoadHolds
<1>2. CASE FileSystemFails
  BY <1>2, FailHolds DEF FileSystemFails
<1>3. CASE MeasureFile
  BY <1>3, MeasureFileHolds
<1>4. CASE ReadFile
  BY <1>4, ReadFileHolds
<1>5. CASE CheckHeader \/ ReadCounts \/ ReadSection \/ CheckNames \/ NameSection \/ CheckText
  BY <1>5, CheckHeaderHolds, ReadCountsHolds, ReadSectionHolds, CheckNamesHolds,
     NameSectionHolds, CheckTextHolds
<1>6. CASE ReadSegment \/ CheckType \/ SkipSection \/ CheckSymbolTable \/ ReadSymbol
  BY <1>6, ReadSegmentHolds, CheckTypeHolds, SkipSectionHolds, CheckSymbolTableHolds,
     ReadSymbolHolds
<1>7. CASE SymbolsRead \/ FinishLoad
  BY <1>7, SymbolsReadHolds, FinishLoadHolds
<1>8. CASE ReplaceFile
  BY <1>8, ReplaceFileHolds
<1>9. CASE UNCHANGED vars
  <2>1. UNCHANGED <<file, phase, length, counts, raw, index, bytes, sections, segments, valid>>
    BY <1>9 DEF vars, locals, loaded
  <2>2. BytesInv' /\ TablesInv' /\ CountsInv' /\ TextInv'
    BY <2>1, BytesKept, SectionsKept DEF IInv, BytesInv, TablesInv, CountsInv, TextInv
  <2> QED BY <2>2 DEF IInv
<1> QED BY <1>1, <1>2, <1>3, <1>4, <1>5, <1>6, <1>7, <1>8, <1>9 DEF Next, ParseStep

LEMMA InvariantHolds == Spec => []IInv
<1> QED BY InitHolds, StepHolds, PTL DEF Spec

--------------------------------------------------------------------------------
(***************************************************************************)
(* What the invariant says of a loaded file.                               *)
(***************************************************************************)

LEMMA SectionFound == ASSUME NEW s, NEW name, s \in FindSection(name) PROVE s \in ToSet(sections)
<1>1. PICK i \in 1 .. Len(sections) : s = sections[i]
  BY DEF FindSection, First
<1> QED BY <1>1 DEF ToSet

\* What has not been rejected does not wrap.
LEMMA SectionInside ==
  ASSUME NEW s \in Sections, bytes.size \in Nat
  PROVE  /\ s.type # "nobits" => s.offset + s.size <= bytes.size
         /\ s.alloc => s.address + s.size <= MaxWord
<1>1. s.address \in Nat /\ s.size \in Nat /\ s.offset \in Nat /\ MaxWord \in Nat
  BY WordFacts DEF Sections, RawSection
<1>2. ~ SectionMalformed(s)
  BY DEF Sections
<1>3. /\ s.type # "nobits" => s.offset <= bytes.size /\ s.size <= bytes.size - s.offset
      /\ s.alloc => ~ s.size > MaxWord - s.address
  BY ONLY <1>2 DEF SectionMalformed, RangeFits
<1> QED BY <1>1, <1>3

LEMMA SegmentInside ==
  ASSUME NEW s \in Segments, bytes.size \in Nat
  PROVE  s.offset + s.fileSize <= bytes.size /\ s.address + s.memorySize <= MaxWord
<1>1. /\ s.address \in Nat /\ s.fileSize \in Nat /\ s.memorySize \in Nat /\ s.offset \in Nat
      /\ MaxWord \in Nat
  BY WordFacts DEF Segments, RawSegment
<1>2. ~ SegmentMalformed(s)
  BY DEF Segments
<1>3. /\ s.offset <= bytes.size /\ s.fileSize <= bytes.size - s.offset
      /\ ~ s.memorySize > MaxWord - s.address
  BY ONLY <1>2 DEF SegmentMalformed, RangeFits
<1> QED BY <1>1, <1>3

\* An address in a range has an offset in it, which wraps no more than its end does.
LEMMA OffsetInside ==
  ASSUME NEW start \in Nat, NEW offset \in Nat, NEW size \in Nat, NEW a \in Nat,
         NEW limit \in Nat, offset + size <= limit, IsWithin(start, size, a)
  PROVE  Wrapped(offset + (a - start)) < limit
<1>1. offset + (a - start) \in Nat /\ offset + (a - start) < limit
  BY DEF IsWithin
<1> DEFINE o == offset + (a - start)
<1> HIDE DEF o
<1>2. Wrapped(o) \in Nat /\ Wrapped(o) <= o
  BY <1>1, WrappedBound DEF o
<1>3. o \in Nat /\ o < limit
  BY <1>1 DEF o
<1>4. Wrapped(o) < limit
  BY ONLY <1>2, <1>3, limit \in Nat
<1> QED BY <1>4 DEF o

\* The segment or section that an address is looked up in holds it.
LEMMA HolderFound ==
  ASSUME IInv, valid, NEW a, NEW s \in HolderOf(a)
  PROVE  \/ s \in Segments /\ IsWithin(s.address, s.fileSize, a)
         \/ s \in Sections /\ s.type # "nobits" /\ IsWithin(s.address, s.size, a)
<1>1. sections \in Seq(Sections) /\ segments \in Seq(Segments)
  BY DEF IInv, TablesInv
<1>2. \/ \E i \in 1 .. Len(segments) : s = segments[i] /\ SegmentHolds(segments[i], a)
      \/ \E i \in 1 .. Len(sections) : s = sections[i] /\ SectionHolds(sections[i], a)
  BY DEF HolderOf, FirstIn, First
<1> QED BY <1>1, <1>2 DEF SegmentHolds, SectionHolds

LEMMA InvariantImplies == IInv => RangesInside
<1> SUFFICES ASSUME IInv, valid PROVE RangesInside
  BY DEF RangesInside
<1>1. /\ bytes.size \in Nat /\ sections \in Seq(Sections) /\ segments \in Seq(Segments)
      /\ TextFound
  BY FileFacts DEF IInv, BytesInv, TablesInv, TextInv
<1>2. ASSUME NEW s \in ToSet(sections) PROVE s \in Sections
  BY <1>1 DEF ToSet
<1>3. ASSUME NEW s \in ToSet(segments) PROVE s \in Segments
  BY <1>1 DEF ToSet
<1>4. ASSUME NEW a \in Word, NEW o \in VirtualAddressToFileOffset(a) PROVE o < bytes.size
  <2>1. PICK s \in HolderOf(a) : o = Wrapped(s.offset + (a - s.address))
    BY DEF VirtualAddressToFileOffset
  <2>2. a \in Nat
    BY WordFacts
  <2>3. CASE s \in Segments /\ IsWithin(s.address, s.fileSize, a)
    <3>1. s.offset \in Nat /\ s.address \in Nat /\ s.fileSize \in Nat
      BY <2>3, WordFacts DEF Segments, RawSegment
    <3>2. s.offset + s.fileSize <= bytes.size
      BY <1>1, <2>3, SegmentInside
    <3> QED BY <1>1, <2>1, <2>2, <2>3, <3>1, <3>2, OffsetInside
  <2>4. CASE s \in Sections /\ s.type # "nobits" /\ IsWithin(s.address, s.size, a)
    <3>1. s.offset \in Nat /\ s.address \in Nat /\ s.size \in Nat
      BY <2>4, WordFacts DEF Sections, RawSection
    <3>2. s.offset + s.size <= bytes.size
      BY <1>1, <2>4, SectionInside
    <3> QED BY <1>1, <2>1, <2>2, <2>4, <3>1, <3>2, OffsetInside
  <2> QED BY <2>3, <2>4, HolderFound
<1>5. BytesForSection(".text") # {}
  <2>1. PICK s \in FindSection(".text") : IsUsableText(s)
    BY <1>1 DEF TextFound
  <2>2. s \in Sections /\ s.type # "nobits" /\ s.size > 0
    BY <1>2, <2>1, SectionFound DEF IsUsableText
  <2>3. RangeFits(s.offset, s.size)
    BY <2>2 DEF Sections, SectionMalformed
  <2>4. s.offset \in Nat /\ s.size \in Nat
    BY <2>2, WordFacts DEF Sections, RawSection
  <2>5. s.offset \in s.offset .. s.offset + s.size - 1
    BY <2>2, <2>4
  <2> QED BY <2>1, <2>2, <2>3, <2>5 DEF BytesForSection
<1> QED BY <1>1, <1>2, <1>3, <1>4, <1>5, SectionInside, SegmentInside DEF RangesInside

(***************************************************************************)
(* For words of every width, files of every content and programs that      *)
(* write them while they are read: in a loaded file sections and segments  *)
(* lie inside the file and inside the address space, every offset that an  *)
(* address is translated to is inside the file, and .text has bytes.       *)
(***************************************************************************)
THEOREM RangesCorrect == Spec => []RangesInside
<1> QED BY InvariantHolds, InvariantImplies, PTL

--------------------------------------------------------------------------------
(***************************************************************************)
(* The tables are complete: CopyInv for those of the file, SymbolsInv for  *)
(* the symbols of all tables met so far.                                   *)
(***************************************************************************)

\* s is the first n elements of t.
Copied(s, t, n) == Len(s) = n /\ \A i \in 1 .. n : s[i] = t[i]

CopyInv ==
  /\ phase \in Parsing \ {"header", "counts"} => counts = Counts
  /\ phase = "sections" =>
       index <= counts.sections + 1 /\ Copied(raw, bytes.sections, index - 1)
  /\ phase \in {"names", "segments", "symbols", "entries"} =>
       Copied(raw, bytes.sections, counts.sections)
  /\ phase = "names" => index <= Len(raw) + 1 /\ Copied(sections, raw, index - 1)
  /\ phase \in {"segments", "symbols", "entries"} => sections = raw
  /\ phase = "segments" =>
       index <= counts.segments + 1 /\ Copied(segments, bytes.segments, index - 1)
  /\ phase \in {"symbols", "entries"} => Copied(segments, bytes.segments, counts.segments)
  /\ valid => /\ Counts.sections \in Nat /\ Copied(sections, bytes.sections, Counts.sections)
              /\ Counts.segments \in Nat /\ Copied(segments, bytes.segments, Counts.segments)

OutcomeInv ==
  /\ phase # "idle" \/ valid => error = "none"
  /\ phase \notin Parsing /\ ~ valid => bytes = NoFile

IsSymbol(j, e) ==
  /\ j \in 1 .. Len(sections) /\ HoldsSymbols(sections[j])
  /\ e \in 1 .. sections[j].size \div sections[j].entrySize

Listed(j, e) == \E k \in 1 .. Len(symbols) : symbols[k] = [section |-> j, entry |-> e]

\* The entry comes before the position of the loops.
Passed(j, e) == j < index \/ (phase = "entries" /\ j = index /\ e < entry)

SymbolsInv ==
  /\ symbols \in Seq([section : Nat, entry : Nat])
  /\ IsInjective(symbols)
  /\ phase \notin {"symbols", "entries"} /\ ~ valid => symbols = <<>>
  /\ phase \in {"symbols", "entries"} =>
       \A j, e : Listed(j, e) <=> IsSymbol(j, e) /\ Passed(j, e)
  /\ phase = "symbols" => entry = 1
  /\ phase = "entries" =>
       /\ entry \in Nat \ {0} /\ index <= Len(sections) /\ HoldsSymbols(sections[index])
       /\ sections[index].size \div sections[index].entrySize \in Nat
  /\ valid => \A j, e : Listed(j, e) <=> IsSymbol(j, e)

CInv == CopyInv /\ OutcomeInv /\ SymbolsInv

LEMMA CountsKept == ASSUME UNCHANGED bytes PROVE Counts' = Counts
BY DEF Counts

LEMMA EmptySymbols ==
  /\ <<>> \in Seq([section : Nat, entry : Nat])
  /\ IsInjective(<<>>)
  /\ \A j, e : ~ \E k \in 1 .. Len(<<>>) : <<>>[k] = [section |-> j, entry |-> e]
BY DEF IsInjective

\* Where nothing is loaded yet.
LEMMA NothingComplete ==
  ASSUME phase' \in {"idle", "measure", "read", "header", "counts"}, ~ valid',
         symbols' = <<>>, phase' # "idle" => error' = "none",
         phase' \in {"idle", "measure", "read"} => bytes' = NoFile
  PROVE  CInv'
<1>1. CopyInv'
  BY DEF CopyInv, Parsing
<1>2. OutcomeInv'
  BY DEF OutcomeInv, Parsing
<1>3. SymbolsInv'
  BY EmptySymbols DEF SymbolsInv
<1> QED BY <1>1, <1>2, <1>3 DEF CInv

LEMMA InitComplete == Init => CInv
<1> SUFFICES ASSUME Init PROVE CInv
  OBVIOUS
<1>1. CopyInv
  BY DEF Init, CopyInv, Parsing
<1>2. OutcomeInv
  BY DEF Init, OutcomeInv
<1>3. SymbolsInv
  BY EmptySymbols DEF Init, SymbolsInv
<1> QED BY <1>1, <1>2, <1>3 DEF CInv

LEMMA FailComplete == ASSUME NEW e, Fail(e) PROVE CInv'
BY NothingComplete DEF Fail

LEMMA LoadComplete == ASSUME Load PROVE CInv'
BY NothingComplete DEF Load

LEMMA ReadComplete ==
  ASSUME IInv, CInv, MeasureFile \/ ReadFile \/ CheckHeader
  PROVE  CInv'
<1>1. CASE \E e : Fail(e)
  BY <1>1, FailComplete
<1>2. CASE ~ \E e : Fail(e)
  <2>1. /\ phase \in {"measure", "read", "header"} /\ phase' \in {"read", "header", "counts"}
        /\ UNCHANGED <<symbols, error, valid>>
        /\ phase' = "read" => phase = "measure" /\ UNCHANGED bytes
    BY <1>2 DEF MeasureFile, ReadFile, CheckHeader, Continue, loaded
  <2>2. ~ valid /\ symbols = <<>> /\ error = "none" /\ (phase = "measure" => bytes = NoFile)
    BY <2>1 DEF CInv, OutcomeInv, SymbolsInv, IInv, BytesInv, Parsing
  <2> QED BY <2>1, <2>2, NothingComplete
<1> QED BY <1>1, <1>2

\* What a step between "counts" and the symbols leaves alone.
LEMMA TablesPhases ==
  ASSUME IInv, CInv, phase \in {"counts", "sections", "names", "segments"},
         phase' \in {"sections", "names", "segments"},
         UNCHANGED <<symbols, error, valid>>
  PROVE  OutcomeInv' /\ SymbolsInv'
<1>1. ~ valid /\ error = "none" /\ symbols = <<>>
  BY DEF IInv, BytesInv, CInv, OutcomeInv, SymbolsInv
<1>2. OutcomeInv'
  BY <1>1 DEF OutcomeInv, Parsing
<1>3. SymbolsInv'
  BY <1>1, EmptySymbols DEF SymbolsInv
<1> QED BY <1>2, <1>3

LEMMA CopiedMore ==
  ASSUME NEW S, NEW s \in Seq(S), NEW t, NEW n \in Nat, Copied(s, t, n), t[n + 1] \in S
  PROVE  Copied(Append(s, t[n + 1]), t, n + 1)
<1>1. Len(s) = n /\ \A i \in 1 .. n : s[i] = t[i]
  BY DEF Copied
<1>2. PICK x \in S : x = t[n + 1]
  OBVIOUS
<1>3. /\ Len(Append(s, x)) = n + 1
      /\ \A i \in 1 .. n + 1 : Append(s, x)[i] = IF i = n + 1 THEN x ELSE s[i]
  BY <1>1
<1>4. \A i \in 1 .. n + 1 : Append(s, x)[i] = t[i]
  BY <1>1, <1>2, <1>3
<1> QED BY <1>2, <1>3, <1>4 DEF Copied

LEMMA CopiedEqual ==
  ASSUME NEW S, NEW s \in Seq(S), NEW t \in Seq(S), Copied(s, t, Len(t))
  PROVE  s = t
BY SeqEqual DEF Copied

LEMMA ReadCountsComplete == ASSUME IInv, CInv, ReadCounts PROVE CInv'
<1>1. CASE \E e : Fail(e)
  BY <1>1, FailComplete
<1>2. CASE counts' = Counts /\ Continue("sections") /\ UNCHANGED <<file, length, raw, loaded>>
  <2>1. phase = "counts" /\ phase' = "sections" /\ index' = 1 /\ ~ valid /\ raw = <<>>
    BY <1>2 DEF ReadCounts, Continue, IInv, BytesInv, TablesInv, Parsing
  <2>2. counts'.sections \in Nat
    <3>1. IInv'
      BY ReadCountsHolds
    <3> QED BY <3>1, WordFacts DEF IInv, CountsInv
  <2>3. Copied(raw', bytes'.sections, index' - 1)
    <3>1. Len(raw') = 0 /\ index' - 1 = 0 /\ 1 .. 0 = {}
      BY <1>2, <2>1 DEF loaded
    <3> QED BY <3>1 DEF Copied
  <2>4. CopyInv'
    BY <1>2, <2>1, <2>2, <2>3, CountsKept DEF CopyInv, Parsing, loaded
  <2>5. OutcomeInv' /\ SymbolsInv'
    BY <1>2, <2>1, TablesPhases DEF loaded
  <2> QED BY <2>4, <2>5 DEF CInv
<1> QED BY <1>1, <1>2 DEF ReadCounts

LEMMA ReadSectionComplete == ASSUME IInv, CInv, ReadSection PROVE CInv'
<1>1. CASE \E e : Fail(e)
  BY <1>1, FailComplete
<1>2. CASE /\ raw' = Append(raw, bytes.sections[index]) /\ index' = index + 1
           /\ UNCHANGED <<file, phase, length, counts, entry, loaded>>
  <2>1. /\ phase = "sections" /\ phase \in Parsing /\ index <= counts.sections /\ ~ valid
        /\ index \in Nat \ {0} /\ counts.sections \in Nat /\ raw \in Seq(Sections)
    BY WordFacts, ParsingFacts DEF ReadSection, Parsing
  <2>2. bytes.sections[index] \in RawSection /\ raw \in Seq(RawSection)
    <3>1. index <= Len(bytes.sections) /\ bytes.sections \in Seq(RawSection)
      <4>1. counts.sections <= Len(bytes.sections)
        BY <2>1 DEF IInv, CountsInv
      <4>2. Len(bytes.sections) \in Nat /\ bytes.sections \in Seq(RawSection)
        BY <2>1, ParsingFacts, FileFacts
      <4> QED BY <2>1, <4>1, <4>2
    <3>2. Sections \subseteq RawSection
      BY DEF Sections
    <3> QED BY <2>1, <3>1, <3>2
  <2>3. Copied(raw', bytes.sections, index)
    <3>1. Copied(raw, bytes.sections, index - 1)
      BY <2>1 DEF CInv, CopyInv
    <3>2. PICK n \in Nat : n = index - 1 /\ index = n + 1
      BY <2>1
    <3>3. PICK t : t = bytes.sections
      OBVIOUS
    <3>4. Copied(Append(raw, t[n + 1]), t, n + 1)
      BY <2>2, <3>1, <3>2, <3>3, CopiedMore
    <3> QED BY <1>2, <3>2, <3>3, <3>4
  <2>4. CopyInv'
    <3>1. counts = Counts /\ Counts' = Counts /\ index' - 1 = index
      BY <1>2, <2>1, CountsKept DEF CInv, CopyInv, Parsing, loaded
    <3>2. index' <= counts'.sections + 1
      BY <1>2, <2>1
    <3> QED BY <1>2, <2>1, <2>3, <3>1, <3>2 DEF CopyInv, Parsing, loaded
  <2>5. OutcomeInv' /\ SymbolsInv'
    BY <1>2, <2>1, TablesPhases DEF loaded
  <2> QED BY <2>4, <2>5 DEF CInv
<1> QED BY <1>1, <1>2 DEF ReadSection

LEMMA CheckNamesComplete == ASSUME IInv, CInv, CheckNames PROVE CInv'
<1>1. CASE \E e : Fail(e)
  BY <1>1, FailComplete
<1>2. CASE Continue("names") /\ UNCHANGED <<file, length, counts, raw, loaded>>
  <2>1. /\ phase = "sections" /\ phase \in Parsing /\ index > counts.sections /\ ~ valid
        /\ phase' = "names" /\ index' = 1
        /\ index \in Nat \ {0} /\ counts.sections \in Nat /\ sections = <<>>
    BY <1>2, WordFacts, ParsingFacts DEF CheckNames, Continue, Parsing, IInv, TablesInv
  <2>2. Copied(raw, bytes.sections, counts.sections) /\ counts = Counts
    <3>1. /\ index <= counts.sections + 1 /\ Copied(raw, bytes.sections, index - 1)
          /\ counts = Counts
      BY <2>1 DEF CInv, CopyInv
    <3>2. index - 1 = counts.sections
      BY <2>1, <3>1
    <3> QED BY <3>1, <3>2
  <2>3. Copied(sections', raw', index' - 1) /\ index' <= Len(raw') + 1
    <3>1. Len(sections') = 0 /\ index' - 1 = 0 /\ 1 .. 0 = {}
      BY <1>2, <2>1 DEF loaded
    <3>2. Len(raw') \in Nat
      BY <1>2, <2>1, <2>2 DEF Copied
    <3> QED BY <2>1, <3>1, <3>2 DEF Copied
  <2>4. CopyInv'
    BY <1>2, <2>1, <2>2, <2>3, CountsKept DEF CopyInv, Parsing, loaded
  <2>5. OutcomeInv' /\ SymbolsInv'
    BY <1>2, <2>1, TablesPhases DEF loaded
  <2> QED BY <2>4, <2>5 DEF CInv
<1> QED BY <1>1, <1>2 DEF CheckNames

LEMMA NameSectionComplete == ASSUME IInv, CInv, NameSection PROVE CInv'
<1>1. CASE \E e : Fail(e)
  BY <1>1, FailComplete
<1>2. CASE /\ sections' = Append(sections, raw[index]) /\ index' = index + 1
           /\ UNCHANGED <<file, phase, length, counts, raw, entry, bytes, segments, symbols,
                          error, valid>>
  <2>1. /\ phase = "names" /\ phase \in Parsing /\ index <= Len(raw) /\ ~ valid
        /\ index \in Nat \ {0} /\ raw \in Seq(Sections) /\ sections \in Seq(Sections)
        /\ raw[index] \in Sections /\ Len(raw) \in Nat
    <3>1. phase = "names" /\ phase \in Parsing /\ index <= Len(raw)
      BY DEF NameSection, Parsing
    <3> QED BY <3>1, ParsingFacts
  <2>2. Copied(sections', raw, index)
    <3>1. Copied(sections, raw, index - 1)
      BY <2>1 DEF CInv, CopyInv
    <3>2. PICK n \in Nat : n = index - 1 /\ index = n + 1
      BY <2>1
    <3>3. Copied(Append(sections, raw[n + 1]), raw, n + 1)
      BY <2>1, <3>1, <3>2, CopiedMore
    <3> QED BY <1>2, <3>2, <3>3
  <2>3. CopyInv'
    <3>1. /\ counts = Counts /\ Counts' = Counts /\ index' - 1 = index
          /\ Copied(raw, bytes.sections, counts.sections)
      BY <1>2, <2>1, CountsKept DEF CInv, CopyInv
    <3>2. index' <= Len(raw') + 1
      BY <1>2, <2>1
    <3> QED BY <1>2, <2>1, <2>2, <3>1, <3>2 DEF CopyInv
  <2>4. OutcomeInv' /\ SymbolsInv'
    BY <1>2, <2>1, TablesPhases
  <2> QED BY <2>3, <2>4 DEF CInv
<1> QED BY <1>1, <1>2 DEF NameSection

LEMMA CheckTextComplete == ASSUME IInv, CInv, CheckText PROVE CInv'
<1>1. CASE \E e : Fail(e)
  BY <1>1, FailComplete
<1>2. CASE Continue("segments") /\ UNCHANGED <<file, length, counts, raw, loaded>>
  <2>1. /\ phase = "names" /\ phase \in Parsing /\ index > Len(raw) /\ ~ valid
        /\ phase' = "segments" /\ index' = 1
        /\ index \in Nat \ {0} /\ raw \in Seq(Sections) /\ sections \in Seq(Sections)
        /\ Len(raw) \in Nat /\ counts.segments \in Nat /\ segments = <<>>
    <3>1. phase = "names" /\ phase \in Parsing /\ index > Len(raw)
      BY DEF CheckText, Parsing
    <3>2. segments = <<>>
      BY <3>1 DEF IInv, TablesInv
    <3>3. phase' = "segments" /\ index' = 1
      BY <1>2 DEF Continue
    <3>4. /\ ~ valid /\ index \in Nat \ {0} /\ raw \in Seq(Sections)
          /\ sections \in Seq(Sections) /\ counts.segments \in Word
      BY <3>1, ParsingFacts
    <3>5. Len(raw) \in Nat
      BY <3>4
    <3>6. counts.segments \in Nat
      BY <3>4, WordFacts
    <3> QED BY <3>1, <3>2, <3>3, <3>4, <3>5, <3>6
  <2>2. sections = raw
    <3>1. index <= Len(raw) + 1 /\ Copied(sections, raw, index - 1)
      BY <2>1 DEF CInv, CopyInv
    <3>2. index - 1 = Len(raw)
      BY <2>1, <3>1
    <3> QED BY <2>1, <3>1, <3>2, CopiedEqual
  <2>3. Copied(segments', bytes'.segments, index' - 1) /\ index' <= counts'.segments + 1
    <3>1. Len(segments') = 0 /\ index' - 1 = 0 /\ 1 .. 0 = {}
      BY <1>2, <2>1 DEF loaded
    <3> QED BY <1>2, <2>1, <3>1 DEF Copied
  <2>4. CopyInv'
    <3>1. counts = Counts /\ Counts' = Counts /\ Copied(raw, bytes.sections, counts.sections)
      BY <1>2, <2>1, CountsKept DEF CInv, CopyInv, loaded
    <3> QED BY <1>2, <2>1, <2>2, <2>3, <3>1 DEF CopyInv, loaded
  <2>5. OutcomeInv' /\ SymbolsInv'
    BY <1>2, <2>1, TablesPhases DEF loaded
  <2> QED BY <2>4, <2>5 DEF CInv
<1> QED BY <1>1, <1>2 DEF CheckText

LEMMA ReadSegmentComplete == ASSUME IInv, CInv, ReadSegment PROVE CInv'
<1>1. CASE \E e : Fail(e)
  BY <1>1, FailComplete
<1>2. CASE /\ segments' = Append(segments, bytes.segments[index]) /\ index' = index + 1
           /\ UNCHANGED <<file, phase, length, counts, raw, entry, bytes, sections, symbols,
                          error, valid>>
  <2>1. /\ phase = "segments" /\ phase \in Parsing /\ index <= counts.segments /\ ~ valid
        /\ index \in Nat \ {0} /\ counts.segments \in Nat /\ segments \in Seq(Segments)
    BY WordFacts, ParsingFacts DEF ReadSegment, Parsing
  <2>2. bytes.segments[index] \in RawSegment /\ segments \in Seq(RawSegment)
    <3>1. index <= Len(bytes.segments) /\ bytes.segments \in Seq(RawSegment)
      <4>1. counts.segments <= Len(bytes.segments)
        BY <2>1 DEF IInv, CountsInv
      <4>2. Len(bytes.segments) \in Nat /\ bytes.segments \in Seq(RawSegment)
        BY <2>1, ParsingFacts, FileFacts
      <4> QED BY <2>1, <4>1, <4>2
    <3>2. Segments \subseteq RawSegment
      BY DEF Segments
    <3> QED BY <2>1, <3>1, <3>2
  <2>3. Copied(segments', bytes.segments, index)
    <3>1. Copied(segments, bytes.segments, index - 1)
      BY <2>1 DEF CInv, CopyInv
    <3>2. PICK n \in Nat : n = index - 1 /\ index = n + 1
      BY <2>1
    <3>3. PICK t : t = bytes.segments
      OBVIOUS
    <3>4. Copied(Append(segments, t[n + 1]), t, n + 1)
      BY <2>2, <3>1, <3>2, <3>3, CopiedMore
    <3> QED BY <1>2, <3>2, <3>3, <3>4
  <2>4. CopyInv'
    <3>1. /\ counts = Counts /\ Counts' = Counts /\ index' - 1 = index
          /\ Copied(raw, bytes.sections, counts.sections) /\ sections = raw
      BY <1>2, <2>1, CountsKept DEF CInv, CopyInv
    <3>2. index' <= counts'.segments + 1
      BY <1>2, <2>1
    <3> QED BY <1>2, <2>1, <2>3, <3>1, <3>2 DEF CopyInv
  <2>5. OutcomeInv' /\ SymbolsInv'
    BY <1>2, <2>1, TablesPhases
  <2> QED BY <2>4, <2>5 DEF CInv
<1> QED BY <1>1, <1>2 DEF ReadSegment

--------------------------------------------------------------------------------
(***************************************************************************)
(* The symbols.                                                            *)
(***************************************************************************)

LEMMA ListedKept ==
  ASSUME UNCHANGED symbols
  PROVE  \A j, e : Listed(j, e)' <=> Listed(j, e)
BY DEF Listed

LEMMA IsSymbolKept ==
  ASSUME UNCHANGED sections
  PROVE  \A j, e : IsSymbol(j, e)' <=> IsSymbol(j, e)
BY DEF IsSymbol, HoldsSymbols

\* What the loops over the symbol tables know, and leave alone.
LEMMA SymbolPhases ==
  ASSUME IInv, CInv, phase \in {"symbols", "entries"}, phase' \in {"symbols", "entries"},
         UNCHANGED <<counts, raw, bytes, sections, segments, error, valid>>
  PROVE  /\ CopyInv' /\ OutcomeInv' /\ ~ valid'
         /\ sections = raw /\ sections \in Seq(Sections) /\ Len(sections) \in Nat
         /\ \A j, e : IsSymbol(j, e)' <=> IsSymbol(j, e)
<1>1. ~ valid /\ sections \in Seq(Sections) /\ Len(sections) \in Nat
  BY ParsingFacts DEF Parsing
<1>2. error = "none" /\ sections = raw /\ counts = Counts
      /\ Copied(raw, bytes.sections, counts.sections)
      /\ Copied(segments, bytes.segments, counts.segments)
  BY DEF CInv, OutcomeInv, CopyInv, Parsing
<1>3. CopyInv'
  BY <1>1, <1>2, CountsKept DEF CopyInv
<1>4. OutcomeInv'
  BY <1>1, <1>2 DEF OutcomeInv, Parsing
<1> QED BY <1>1, <1>2, <1>3, <1>4, IsSymbolKept

LEMMA CheckTypeComplete == ASSUME IInv, CInv, CheckType PROVE CInv'
<1>1. CASE \E e : Fail(e)
  BY <1>1, FailComplete
<1>2. CASE Continue("symbols") /\ UNCHANGED <<file, length, counts, raw, loaded>>
  <2>1. /\ phase = "segments" /\ phase \in Parsing /\ index > counts.segments
        /\ phase' = "symbols" /\ index' = 1 /\ entry' = 1
        /\ UNCHANGED <<counts, raw, bytes, sections, segments, symbols, error, valid>>
    BY <1>2 DEF CheckType, Continue, Parsing, loaded
  <2>2. /\ ~ valid /\ index \in Nat /\ counts.segments \in Nat
        /\ error = "none" /\ symbols = <<>>
    BY <2>1, ParsingFacts, WordFacts DEF CInv, OutcomeInv, SymbolsInv
  <2>3. /\ counts = Counts /\ sections = raw /\ Copied(raw, bytes.sections, counts.sections)
        /\ index <= counts.segments + 1 /\ Copied(segments, bytes.segments, index - 1)
    BY <2>1 DEF CInv, CopyInv
  <2>4. CopyInv'
    <3>1. index - 1 = counts.segments
      BY <2>1, <2>2, <2>3
    <3> QED BY <2>1, <2>2, <2>3, <3>1, CountsKept DEF CopyInv
  <2>5. OutcomeInv'
    BY <2>1, <2>2 DEF OutcomeInv, Parsing
  <2>6. SymbolsInv'
    <3>1. \A j, e : ~ Listed(j, e)'
      BY <2>1, <2>2, EmptySymbols DEF Listed
    <3>2. \A j, e : IsSymbol(j, e)' => ~ Passed(j, e)'
      BY <2>1 DEF IsSymbol, Passed
    <3> QED BY <2>1, <2>2, <3>1, <3>2, EmptySymbols DEF SymbolsInv
  <2> QED BY <2>4, <2>5, <2>6 DEF CInv
<1> QED BY <1>1, <1>2 DEF CheckType

LEMMA SkipSectionComplete == ASSUME IInv, CInv, SkipSection PROVE CInv'
<1>1. /\ phase = "symbols" /\ phase' = "symbols" /\ ~ HoldsSymbols(raw[index])
      /\ index' = index + 1 /\ entry' = entry /\ index \in Nat
      /\ UNCHANGED <<counts, raw, bytes, sections, segments, symbols, error, valid>>
  BY DEF SkipSection, loaded, IInv, TablesInv
<1>2. /\ CopyInv' /\ OutcomeInv' /\ ~ valid' /\ sections = raw /\ Len(sections) \in Nat
      /\ \A j, e : IsSymbol(j, e)' <=> IsSymbol(j, e)
  BY <1>1, SymbolPhases
<1>3. \A j, e : IsSymbol(j, e) => (Passed(j, e)' <=> Passed(j, e))
  <2> SUFFICES ASSUME NEW j, NEW e, IsSymbol(j, e) PROVE Passed(j, e)' <=> Passed(j, e)
    OBVIOUS
  <2>1. j \in Nat /\ j # index
    BY <1>1, <1>2 DEF IsSymbol
  <2> QED BY <1>1, <2>1 DEF Passed
<1>4. SymbolsInv'
  BY <1>1, <1>2, <1>3, ListedKept DEF CInv, SymbolsInv
<1> QED BY <1>2, <1>4 DEF CInv

LEMMA CheckSymbolTableComplete == ASSUME IInv, CInv, CheckSymbolTable PROVE CInv'
<1>1. CASE \E e : Fail(e)
  BY <1>1, FailComplete
<1>2. CASE /\ ~ SymbolTableMalformed(raw[index])
           /\ phase' = "entries" /\ UNCHANGED <<file, locals, loaded>>
  <2>1. /\ phase = "symbols" /\ phase' = "entries" /\ HoldsSymbols(raw[index])
        /\ index <= Len(raw) /\ index \in Nat \ {0}
        /\ UNCHANGED <<index, entry, counts, raw, bytes, sections, segments, symbols, error, valid>>
    BY <1>2 DEF CheckSymbolTable, locals, loaded, IInv, TablesInv
  <2>2. /\ CopyInv' /\ OutcomeInv' /\ ~ valid' /\ sections = raw /\ Len(sections) \in Nat
        /\ sections \in Seq(Sections)
        /\ \A j, e : IsSymbol(j, e)' <=> IsSymbol(j, e)
    BY <2>1, SymbolPhases
  <2>3. sections[index].size \div sections[index].entrySize \in Nat
    <3>1. sections[index] \in RawSection
      BY <2>1, <2>2 DEF Sections
    <3>2. sections[index].size \in Nat /\ sections[index].entrySize \in Nat
      BY <3>1, WordFacts DEF RawSection
    <3>3. ~ sections[index].entrySize < SymbolSize /\ SymbolSize \in Nat \ {0}
      BY <1>2, <2>2, SizesAssumption DEF SymbolTableMalformed
    <3>4. sections[index].entrySize > 0
      BY <3>2, <3>3
    <3>5. \A x, y \in Nat : y > 0 => x \div y \in Nat
      OBVIOUS
    <3> QED BY <3>2, <3>4, <3>5
  <2>4. entry = 1
    BY <2>1 DEF CInv, SymbolsInv
  <2>5. \A j, e : IsSymbol(j, e) => (Passed(j, e)' <=> Passed(j, e))
    <3> SUFFICES ASSUME NEW j, NEW e, IsSymbol(j, e), j = index PROVE ~ e < 1
      BY <2>1, <2>4 DEF Passed
    <3> QED BY <2>3 DEF IsSymbol
  <2>6. SymbolsInv'
    <3>1. \A j, e : Listed(j, e)' <=> IsSymbol(j, e)' /\ Passed(j, e)'
      BY <2>1, <2>2, <2>5, ListedKept DEF CInv, SymbolsInv
    <3>2. HoldsSymbols(sections[index])'
      BY <2>1, <2>2 DEF HoldsSymbols
    <3> QED BY <2>1, <2>2, <2>3, <2>4, <3>1, <3>2 DEF CInv, SymbolsInv
  <2> QED BY <2>2, <2>6 DEF CInv
<1> QED BY <1>1, <1>2 DEF CheckSymbolTable

LEMMA ReadSymbolComplete == ASSUME IInv, CInv, ReadSymbol PROVE CInv'
<1>1. CASE \E e : Fail(e)
  BY <1>1, FailComplete
<1>2. CASE /\ symbols' = Append(symbols, [section |-> index, entry |-> entry])
           /\ entry' = entry + 1
           /\ UNCHANGED <<file, phase, length, counts, raw, index, bytes, sections,
                          segments, error, valid>>
  <2>1. /\ phase = "entries" /\ phase' = "entries" /\ index \in Nat \ {0}
        /\ entry <= raw[index].size \div raw[index].entrySize
    BY <1>2 DEF ReadSymbol, IInv, TablesInv
  <2>2. /\ CopyInv' /\ OutcomeInv' /\ ~ valid' /\ sections = raw /\ Len(sections) \in Nat
        /\ \A j, e : IsSymbol(j, e)' <=> IsSymbol(j, e)
    BY <1>2, <2>1, SymbolPhases
  <2>3. /\ symbols \in Seq([section : Nat, entry : Nat]) /\ IsInjective(symbols)
        /\ \A j, e : Listed(j, e) <=> IsSymbol(j, e) /\ Passed(j, e)
        /\ entry \in Nat \ {0} /\ index <= Len(sections) /\ HoldsSymbols(sections[index])
        /\ sections[index].size \div sections[index].entrySize \in Nat
    BY <2>1 DEF CInv, SymbolsInv
  <2>4. PICK x \in [section : Nat, entry : Nat] : x = [section |-> index, entry |-> entry]
    BY <2>1, <2>3
  <2>5. PICK n \in Nat : n = Len(symbols)
    BY <2>3
  <2>6. /\ symbols' \in Seq([section : Nat, entry : Nat]) /\ Len(symbols') = n + 1
        /\ \A k \in 1 .. n + 1 : symbols'[k] = IF k = n + 1 THEN x ELSE symbols[k]
    BY <1>2, <2>3, <2>4, <2>5
  <2>7. IsSymbol(index, entry) /\ ~ Passed(index, entry)
    BY <2>1, <2>2, <2>3 DEF IsSymbol, Passed
  <2>8. \A k \in 1 .. n : symbols[k] # x
    BY <2>3, <2>4, <2>5, <2>7 DEF Listed
  <2>9. IsInjective(symbols')
    <3>1. DOMAIN symbols = 1 .. n /\ DOMAIN symbols' = 1 .. n + 1
      BY <2>3, <2>5, <2>6
    <3>2. \A i, k \in 1 .. n : symbols[i] = symbols[k] => i = k
      BY <2>3, <3>1 DEF IsInjective
    <3>3. \A k \in 1 .. n + 1 : k = n + 1 \/ k \in 1 .. n
      OBVIOUS
    <3>4. \A i, k \in 1 .. n + 1 : symbols'[i] = symbols'[k] => i = k
      BY <2>6, <2>8, <3>2, <3>3
    <3> QED BY <3>1, <3>4 DEF IsInjective
  <2>10. \A j, e : Listed(j, e)' <=> Listed(j, e) \/ (j = index /\ e = entry)
    <3> SUFFICES ASSUME NEW j, NEW e
                 PROVE  Listed(j, e)' <=> Listed(j, e) \/ (j = index /\ e = entry)
      OBVIOUS
    <3>1. PICK y : y = [section |-> j, entry |-> e]
      OBVIOUS
    <3>2. y = x <=> j = index /\ e = entry
      BY <2>4, <3>1
    <3>3. (\E k \in 1 .. n + 1 : symbols'[k] = y) <=> (\E k \in 1 .. n : symbols[k] = y) \/ y = x
      BY <2>6
    <3> QED BY <2>5, <2>6, <3>1, <3>2, <3>3 DEF Listed
  <2>11. \A j, e : IsSymbol(j, e) =>
           (Passed(j, e)' <=> Passed(j, e) \/ (j = index /\ e = entry))
    <3> SUFFICES ASSUME NEW j, NEW e, IsSymbol(j, e)
                 PROVE  Passed(j, e)' <=> Passed(j, e) \/ (j = index /\ e = entry)
      OBVIOUS
    <3>1. j \in Nat /\ (j = index => e \in Nat)
      BY <2>2, <2>3 DEF IsSymbol
    <3> QED BY <1>2, <2>1, <2>3, <3>1 DEF Passed
  <2>12. SymbolsInv'
    <3>1. \A j, e : Listed(j, e)' <=> IsSymbol(j, e)' /\ Passed(j, e)'
      BY <2>2, <2>3, <2>7, <2>10, <2>11
    <3>2. HoldsSymbols(sections[index])'
      BY <1>2, <2>3 DEF HoldsSymbols
    <3> QED BY <1>2, <2>1, <2>2, <2>3, <2>6, <2>9, <3>1, <3>2 DEF SymbolsInv
  <2> QED BY <2>2, <2>12 DEF CInv
<1> QED BY <1>1, <1>2 DEF ReadSymbol

LEMMA SymbolsReadComplete == ASSUME IInv, CInv, SymbolsRead PROVE CInv'
<1>1. /\ phase = "entries" /\ phase' = "symbols" /\ index \in Nat /\ index' = index + 1
      /\ entry' = 1 /\ entry > raw[index].size \div raw[index].entrySize
      /\ UNCHANGED <<counts, raw, bytes, sections, segments, symbols, error, valid>>
  BY DEF SymbolsRead, loaded, IInv, TablesInv
<1>2. /\ CopyInv' /\ OutcomeInv' /\ ~ valid' /\ sections = raw /\ Len(sections) \in Nat
      /\ \A j, e : IsSymbol(j, e)' <=> IsSymbol(j, e)
  BY <1>1, SymbolPhases
<1>3. /\ entry \in Nat /\ sections[index].size \div sections[index].entrySize \in Nat
      /\ \A j, e : Listed(j, e) <=> IsSymbol(j, e) /\ Passed(j, e)
  BY <1>1 DEF CInv, SymbolsInv
<1>4. \A j, e : IsSymbol(j, e) => (Passed(j, e)' <=> Passed(j, e))
  <2> SUFFICES ASSUME NEW j, NEW e, IsSymbol(j, e) PROVE Passed(j, e)' <=> Passed(j, e)
    OBVIOUS
  <2>1. j \in Nat /\ (j = index => e \in Nat /\ e < entry)
    BY <1>1, <1>2, <1>3 DEF IsSymbol
  <2> QED BY <1>1, <2>1 DEF Passed
<1>5. SymbolsInv'
  BY <1>1, <1>2, <1>3, <1>4, ListedKept DEF CInv, SymbolsInv
<1> QED BY <1>2, <1>5 DEF CInv

LEMMA FinishLoadComplete == ASSUME IInv, CInv, FinishLoad PROVE CInv'
<1>1. /\ phase = "symbols" /\ phase' = "idle" /\ index > Len(raw) /\ valid'
      /\ UNCHANGED <<bytes, sections, segments, symbols, error>>
  BY DEF FinishLoad
<1>2. /\ index \in Nat /\ Len(raw) \in Nat /\ sections = raw /\ counts = Counts
      /\ Copied(raw, bytes.sections, counts.sections)
      /\ Copied(segments, bytes.segments, counts.segments)
      /\ counts.sections \in Nat /\ counts.segments \in Nat /\ error = "none"
  <2>1. /\ index \in Nat /\ raw \in Seq(Sections)
        /\ counts.sections \in Word /\ counts.segments \in Word
    BY <1>1, ParsingFacts DEF Parsing
  <2>2. Len(raw) \in Nat
    BY <2>1
  <2>3. counts.sections \in Nat /\ counts.segments \in Nat
    BY <2>1, WordFacts
  <2>4. /\ sections = raw /\ counts = Counts /\ error = "none"
        /\ Copied(raw, bytes.sections, counts.sections)
        /\ Copied(segments, bytes.segments, counts.segments)
    BY <1>1 DEF Parsing, CInv, CopyInv, OutcomeInv
  <2> QED BY <2>1, <2>2, <2>3, <2>4
<1>3. CopyInv'
  BY <1>1, <1>2, CountsKept DEF CopyInv, Parsing
<1>4. OutcomeInv'
  BY <1>1, <1>2 DEF OutcomeInv
<1>5. SymbolsInv'
  <2>1. \A j, e : IsSymbol(j, e) => Passed(j, e)
    BY <1>1, <1>2 DEF IsSymbol, Passed
  <2>2. \A j, e : Listed(j, e)' <=> IsSymbol(j, e)'
    BY <1>1, <2>1, ListedKept, IsSymbolKept DEF CInv, SymbolsInv
  <2> QED BY <1>1, <2>2 DEF CInv, SymbolsInv
<1> QED BY <1>3, <1>4, <1>5 DEF CInv

LEMMA NothingChanged ==
  ASSUME CInv, UNCHANGED <<phase, counts, raw, index, entry, loaded>>
  PROVE  CInv'
<1>1. UNCHANGED <<bytes, sections, segments, symbols, error, valid>>
  BY DEF loaded
<1>2. CopyInv'
  BY <1>1, CountsKept DEF CInv, CopyInv
<1>3. OutcomeInv'
  BY <1>1 DEF CInv, OutcomeInv
<1>4. SymbolsInv'
  <2>1. \A j, e : Passed(j, e)' <=> Passed(j, e)
    BY DEF Passed
  <2>2. HoldsSymbols(sections[index])' <=> HoldsSymbols(sections[index])
    BY <1>1 DEF HoldsSymbols
  <2> QED BY <1>1, <2>1, <2>2, ListedKept, IsSymbolKept DEF CInv, SymbolsInv
<1> QED BY <1>2, <1>3, <1>4 DEF CInv

LEMMA StepComplete == IInv /\ CInv /\ [Next]_vars => CInv'
<1> SUFFICES ASSUME IInv, CInv, [Next]_vars PROVE CInv'
  OBVIOUS
<1>1. CASE Load
  BY <1>1, LoadComplete
<1>2. CASE FileSystemFails
  BY <1>2, FailComplete DEF FileSystemFails
<1>3. CASE MeasureFile \/ ReadFile \/ CheckHeader
  BY <1>3, ReadComplete
<1>4. CASE ReadCounts \/ ReadSection \/ CheckNames \/ NameSection \/ CheckText \/ ReadSegment
  BY <1>4, ReadCountsComplete, ReadSectionComplete, CheckNamesComplete, NameSectionComplete,
     CheckTextComplete, ReadSegmentComplete
<1>5. CASE CheckType \/ SkipSection \/ CheckSymbolTable \/ ReadSymbol
  BY <1>5, CheckTypeComplete, SkipSectionComplete, CheckSymbolTableComplete, ReadSymbolComplete
<1>6. CASE SymbolsRead \/ FinishLoad
  BY <1>6, SymbolsReadComplete, FinishLoadComplete
<1>7. CASE ReplaceFile \/ UNCHANGED vars
  <2>1. UNCHANGED <<phase, counts, raw, index, entry, loaded>>
    BY <1>7 DEF ReplaceFile, vars, locals
  <2> QED BY <2>1, NothingChanged
<1> QED BY <1>1, <1>2, <1>3, <1>4, <1>5, <1>6, <1>7 DEF Next, ParseStep

LEMMA CompletenessHolds == Spec => [](IInv /\ CInv)
<1> QED BY InitHolds, StepHolds, InitComplete, StepComplete, PTL DEF Spec

LEMMA CopiedIsPrefix ==
  ASSUME NEW S, NEW s \in Seq(S), NEW t, NEW n \in Nat, Copied(s, t, n)
  PROVE  s = SubSeq(t, 1, n)
<1>1. Len(s) = n /\ \A i \in 1 .. n : s[i] = t[i] /\ t[i] \in S
  BY DEF Copied
<1>2. /\ SubSeq(t, 1, n) \in Seq(S)
      /\ Len(SubSeq(t, 1, n)) = IF 1 <= n THEN n - 1 + 1 ELSE 0
      /\ \A i \in 1 .. n - 1 + 1 : SubSeq(t, 1, n)[i] = t[1 + i - 1]
  BY <1>1, SubSeqProperties
<1>3. PICK u \in Seq(S) : u = SubSeq(t, 1, n)
  BY <1>2
<1>4. Len(u) = n
  BY <1>2, <1>3
<1>5. \A i \in 1 .. n : u[i] = t[i]
  <2> TAKE i \in 1 .. n
  <2>1. i \in 1 .. n - 1 + 1 /\ 1 + i - 1 = i
    OBVIOUS
  <2> QED BY <1>2, <1>3, <2>1
<1>6. \A i \in 1 .. Len(s) : s[i] = u[i]
  BY <1>1, <1>5
<1>7. s = u
  BY <1>1, <1>4, <1>6, SeqEqual
<1> QED BY <1>3, <1>7

\* Whatever the files hold and whenever others write them, a load that ends leaves the
\* tables of one file complete, in their order and with every symbol once, or nothing.
THEOREM LoadCorrect == Spec => []LoadedOrEmpty
<1>1. IInv /\ CInv => LoadedOrEmpty
  <2> SUFFICES ASSUME IInv, CInv, phase = "idle" PROVE LoadedOrEmpty
    BY DEF LoadedOrEmpty
  <2>1. ASSUME ~ valid
        PROVE  bytes = NoFile /\ sections = <<>> /\ segments = <<>> /\ symbols = <<>>
    BY <2>1 DEF IInv, TablesInv, CInv, OutcomeInv, SymbolsInv, Parsing
  <2>2. ASSUME valid
        PROVE  /\ error = "none"
               /\ sections = SubSeq(bytes.sections, 1, Counts.sections)
               /\ segments = SubSeq(bytes.segments, 1, Counts.segments)
               /\ ToSet(symbols) = AllSymbols /\ IsInjective(symbols)
    <3>1. error = "none" /\ IsInjective(symbols)
      BY <2>2 DEF CInv, OutcomeInv, SymbolsInv
    <3>2. sections \in Seq(Sections) /\ segments \in Seq(Segments)
      BY <2>2 DEF IInv, TablesInv
    <3>3. /\ Counts.sections \in Nat /\ Copied(sections, bytes.sections, Counts.sections)
          /\ Counts.segments \in Nat /\ Copied(segments, bytes.segments, Counts.segments)
      BY <2>2 DEF CInv, CopyInv
    <3>4. sections = SubSeq(bytes.sections, 1, Counts.sections)
      BY <3>2, <3>3, CopiedIsPrefix
    <3>5. segments = SubSeq(bytes.segments, 1, Counts.segments)
      BY <3>2, <3>3, CopiedIsPrefix
    <3>6. /\ symbols \in Seq([section : Nat, entry : Nat])
          /\ \A j, e : Listed(j, e) <=> IsSymbol(j, e)
      BY <2>2 DEF CInv, SymbolsInv
    <3>7. \A x : x \in AllSymbols <=> \E j, e : x = [section |-> j, entry |-> e] /\ IsSymbol(j, e)
      BY DEF AllSymbols, IsSymbol
    <3>8. \A x : x \in ToSet(symbols) <=>
                 \E j, e : x = [section |-> j, entry |-> e] /\ Listed(j, e)
      <4>1. \A x : x \in ToSet(symbols) <=> \E k \in 1 .. Len(symbols) : x = symbols[k]
        BY <3>6 DEF ToSet
      <4>2. \A k \in 1 .. Len(symbols) : \E j, e : symbols[k] = [section |-> j, entry |-> e]
        <5> TAKE k \in 1 .. Len(symbols)
        <5>1. PICK x \in [section : Nat, entry : Nat] : x = symbols[k]
          BY ONLY <3>6, ElementOfSeq
        <5>2. x = [section |-> x.section, entry |-> x.entry]
          OBVIOUS
        <5> QED BY <5>1, <5>2
      <4> SUFFICES ASSUME NEW x
                   PROVE  (\E k \in 1 .. Len(symbols) : x = symbols[k]) <=>
                            \E j, e : x = [section |-> j, entry |-> e] /\ Listed(j, e)
        BY <4>1
      <4>3. ASSUME NEW k \in 1 .. Len(symbols), x = symbols[k]
            PROVE  \E j, e : x = [section |-> j, entry |-> e] /\ Listed(j, e)
        <5>1. PICK j, e : symbols[k] = [section |-> j, entry |-> e]
          BY <4>2
        <5>2. Listed(j, e)
          BY <5>1 DEF Listed
        <5> QED BY <4>3, <5>1, <5>2
      <4>4. ASSUME NEW j, NEW e, x = [section |-> j, entry |-> e], Listed(j, e)
            PROVE  \E k \in 1 .. Len(symbols) : x = symbols[k]
        BY <4>4 DEF Listed
      <4> QED BY <4>3, <4>4
    <3>9. ToSet(symbols) = AllSymbols
      BY <3>6, <3>7, <3>8
    <3> QED BY <3>1, <3>4, <3>5, <3>9
  <2> QED BY <2>1, <2>2 DEF LoadedOrEmpty
<1> QED BY <1>1, CompletenessHolds, PTL

--------------------------------------------------------------------------------
(***************************************************************************)
(* The translations of addresses.                                          *)
(***************************************************************************)

\* Every non-empty set of natural numbers has a least element.
LEMMA LeastElement ==
  ASSUME NEW S \in SUBSET Nat, S # {}
  PROVE  \E m \in S : \A n \in S : m <= n
<1> DEFINE Less == {ss \in Nat \X Nat : ss[1] < ss[2]}
<1>1. IsWellFoundedOn(Less, Nat)
  BY NatLessThanWellFounded, Zenon DEF OpToRel
<1>2. \E m \in S : \A n \in S : ~ (<<n, m>> \in Less)
  <2> HIDE DEF Less
  <2> QED BY <1>1, WFMin
<1>3. \A n, m \in Nat : ~ (<<n, m>> \in Less) => m <= n
  OBVIOUS
<1> QED BY <1>2, <1>3

LEMMA LeastIndex ==
  ASSUME NEW n \in Nat, NEW I \in SUBSET (1 .. n), I # {}
  PROVE  \E k \in I : \A j \in 1 .. k - 1 : j \notin I
<1>1. I \in SUBSET Nat
  OBVIOUS
<1>2. PICK k \in I : \A j \in I : k <= j
  BY <1>1, LeastElement
<1> QED BY <1>1, <1>2

LEMMA WordKept == \A o \in Word : Wrapped(o) = o
<1>1. \A m \in Nat \ {0}, n \in Nat : n < m => n % m = n
  OBVIOUS
<1>2. WordValues \in Nat \ {0} /\ \A o \in Word : o \in Nat /\ o < WordValues
  BY SizesAssumption DEF Word, MaxWord
<1> QED BY <1>1, <1>2 DEF Wrapped

\* An offset inside the file is a word.
SizeInv ==
  /\ phase = "read" => length <= MaxFileSize
  /\ phase \in Parsing \/ valid => bytes.size <= MaxFileSize

LEMMA SizeInit == Init => SizeInv
BY DEF Init, SizeInv, Parsing

LEMMA SizeStep == IInv /\ SizeInv /\ [Next]_vars => SizeInv'
<1> SUFFICES ASSUME IInv, SizeInv, [Next]_vars PROVE SizeInv'
  OBVIOUS
<1>1. CASE \E e : Fail(e)
  BY <1>1 DEF Fail, SizeInv, Parsing
<1>2. CASE Load
  BY <1>2 DEF Load, SizeInv, Parsing
<1>3. CASE MeasureFile /\ ~ \E e : Fail(e)
  <2>1. /\ phase = "measure" /\ phase' = "read" /\ length' = file.size
        /\ ~ file.size > MaxFileSize /\ file # NoFile /\ UNCHANGED valid
    BY <1>3 DEF MeasureFile, Continue, loaded
  <2>2. file.size \in Nat /\ MaxFileSize \in Nat /\ ~ valid
    BY <2>1, FilesAssumption, SizesAssumption DEF IInv, BytesInv, IsFile, File
  <2> QED BY <2>1, <2>2 DEF SizeInv, Parsing
<1>4. CASE ReadFile /\ ~ \E e : Fail(e)
  <2>1. /\ phase = "read" /\ file # NoFile /\ bytes' = [file EXCEPT !.size = length]
        /\ phase' = "header"
    BY <1>4 DEF ReadFile, Continue
  <2>2. bytes'.size = length
    BY <2>1 DEF IInv, BytesInv, IsFile, File
  <2> QED BY <2>1, <2>2 DEF SizeInv
<1>5. CASE ParseStep /\ ~ \E e : Fail(e)
  <2>1. /\ UNCHANGED bytes /\ phase \in Parsing /\ phase' # "read"
    BY <1>5 DEF ParseStep, CheckHeader, ReadCounts, ReadSection, CheckNames, NameSection,
       CheckText, ReadSegment, CheckType, SkipSection, CheckSymbolTable, ReadSymbol,
       SymbolsRead, FinishLoad, Continue, locals, loaded, Parsing
  <2> QED BY <2>1 DEF SizeInv
<1>6. CASE ReplaceFile \/ UNCHANGED vars
  BY <1>6 DEF ReplaceFile, vars, locals, loaded, SizeInv
<1> QED BY <1>1, <1>2, <1>3, <1>4, <1>5, <1>6 DEF Next, FileSystemFails

LEMMA SizeHolds == Spec => [](IInv /\ SizeInv)
<1> QED BY InitHolds, StepHolds, SizeInit, SizeStep, PTL DEF Spec

SegmentsAt(a) == {i \in 1 .. Len(segments) : SegmentHolds(segments[i], a)}

SectionsAt(a) == {i \in 1 .. Len(sections) : SectionHolds(sections[i], a)}

Loaded == IInv /\ SizeInv /\ valid

LEMMA LoadedFacts ==
  ASSUME Loaded
  PROVE  /\ bytes.size \in Nat /\ bytes.size <= MaxFileSize
         /\ sections \in Seq(Sections) /\ segments \in Seq(Segments)
         /\ Len(sections) \in Nat /\ Len(segments) \in Nat
<1>1. sections \in Seq(Sections) /\ segments \in Seq(Segments)
  BY DEF Loaded, IInv, TablesInv
<1>2. bytes.size \in Nat /\ bytes.size <= MaxFileSize
  BY FileFacts DEF Loaded, IInv, BytesInv, SizeInv
<1> QED BY <1>1, <1>2

LEMMA SegmentFacts ==
  ASSUME Loaded, NEW i \in 1 .. Len(segments)
  PROVE  LET t == segments[i]
         IN  /\ t \in ToSet(segments)
             /\ t.address \in Nat /\ t.offset \in Nat /\ t.fileSize \in Nat
             /\ t.offset + t.fileSize <= MaxFileSize /\ t.address + t.fileSize <= MaxWord
<1>1. PICK t : t = segments[i]
  OBVIOUS
<1>2. t \in Segments /\ t \in ToSet(segments)
  BY <1>1, LoadedFacts DEF ToSet
<1>3. /\ t.address \in Nat /\ t.offset \in Nat /\ t.fileSize \in Nat /\ t.memorySize \in Nat
      /\ MaxWord \in Nat /\ bytes.size \in Nat /\ bytes.size <= MaxFileSize
  BY <1>2, WordFacts, LoadedFacts DEF Segments, RawSegment
<1>4. ~ t.fileSize > t.memorySize
  BY <1>2 DEF Segments, SegmentMalformed
<1>5. t.offset + t.fileSize <= bytes.size /\ t.address + t.memorySize <= MaxWord
  BY <1>2, <1>3, SegmentInside
<1>6. MaxFileSize \in Nat
  BY SizesAssumption
<1>7. t.offset + t.fileSize <= MaxFileSize /\ t.address + t.fileSize <= MaxWord
  BY ONLY <1>3, <1>4, <1>5, <1>6
<1> QED BY <1>1, <1>2, <1>3, <1>7

LEMMA SectionFacts ==
  ASSUME Loaded, NEW i \in 1 .. Len(sections)
  PROVE  LET s == sections[i]
         IN  /\ s \in ToSet(sections)
             /\ s.address \in Nat /\ s.offset \in Nat /\ s.size \in Nat
             /\ s.type # "nobits" => s.offset + s.size <= MaxFileSize
             /\ s.alloc => s.address + s.size <= MaxWord
<1>1. PICK s : s = sections[i]
  OBVIOUS
<1>2. s \in Sections /\ s \in ToSet(sections)
  BY <1>1, LoadedFacts DEF ToSet
<1>3. /\ s.address \in Nat /\ s.offset \in Nat /\ s.size \in Nat
      /\ MaxWord \in Nat /\ bytes.size \in Nat /\ bytes.size <= MaxFileSize
  BY <1>2, WordFacts, LoadedFacts DEF Sections, RawSection
<1>4. /\ s.type # "nobits" => s.offset + s.size <= bytes.size
      /\ s.alloc => s.address + s.size <= MaxWord
  BY <1>2, <1>3, SectionInside
<1>5. MaxFileSize \in Nat
  BY SizesAssumption
<1>6. s.type # "nobits" => s.offset + s.size <= MaxFileSize
  BY ONLY <1>3, <1>4, <1>5
<1> QED BY <1>1, <1>2, <1>3, <1>4, <1>6

\* What HolderOf finds: a segment if one holds the address, or else a section.
LEMMA HolderIsSegment ==
  ASSUME Loaded, NEW a, SegmentsAt(a) # {}
  PROVE  /\ HolderOf(a) # {}
         /\ \A s \in HolderOf(a) : \E i \in SegmentsAt(a) : s = segments[i]
<1> DEFINE First1 == {k \in 1 .. Len(segments) :
                        /\ SegmentHolds(segments[k], a)
                        /\ \A j \in 1 .. k - 1 : ~ SegmentHolds(segments[j], a)}
<1>1. PICK k \in SegmentsAt(a) : \A j \in 1 .. k - 1 : j \notin SegmentsAt(a)
  BY LoadedFacts, LeastIndex DEF SegmentsAt
<1>2. k \in First1
  BY <1>1, LoadedFacts DEF SegmentsAt
<1>3. HolderOf(a) = {segments[i] : i \in First1}
  BY <1>2 DEF HolderOf, FirstIn, First
<1>4. \A i \in First1 : i \in SegmentsAt(a)
  BY DEF SegmentsAt
<1> HIDE DEF First1
<1> QED BY <1>2, <1>3, <1>4

LEMMA HolderIsSection ==
  ASSUME Loaded, NEW a, SegmentsAt(a) = {}, SectionsAt(a) # {}
  PROVE  /\ HolderOf(a) # {}
         /\ \A s \in HolderOf(a) : \E i \in SectionsAt(a) : s = sections[i]
<1> DEFINE First1 == {k \in 1 .. Len(sections) :
                        /\ SectionHolds(sections[k], a)
                        /\ \A j \in 1 .. k - 1 : ~ SectionHolds(sections[j], a)}
<1>1. PICK k \in SectionsAt(a) : \A j \in 1 .. k - 1 : j \notin SectionsAt(a)
  BY LoadedFacts, LeastIndex DEF SectionsAt
<1>2. k \in First1
  BY <1>1, LoadedFacts DEF SectionsAt
<1>3. HolderOf(a) = {sections[i] : i \in First1}
  BY DEF HolderOf, FirstIn, First, SegmentsAt
<1>4. \A i \in First1 : i \in SectionsAt(a)
  BY DEF SectionsAt
<1> HIDE DEF First1
<1> QED BY <1>2, <1>3, <1>4

\* Two ranges that hold the same address are not disjoint.
LEMMA HeldByBoth ==
  ASSUME NEW a \in Nat, NEW s, NEW t, NEW n \in Nat, NEW m \in Nat,
         s.address \in Nat, t.address \in Nat,
         IsWithin(s.address, n, a), IsWithin(t.address, m, a)
  PROVE  ~ Disjoint(s, t, n, m)
BY DEF IsWithin, Disjoint

\* In a consistent image an address has one offset, whichever part is taken for it.
LEMMA OneSegment ==
  ASSUME Loaded, Consistent, NEW a \in Nat, NEW i \in SegmentsAt(a), NEW j \in SegmentsAt(a)
  PROVE  i = j
<1>1. \A k \in SegmentsAt(a) :
        /\ k \in 1 .. Len(segments) /\ IsLoad(segments[k])
        /\ segments[k].address \in Nat /\ segments[k].fileSize \in Nat
        /\ IsWithin(segments[k].address, segments[k].fileSize, a)
  <2> TAKE k \in SegmentsAt(a)
  <2>1. k \in 1 .. Len(segments) /\ SegmentHolds(segments[k], a)
    BY DEF SegmentsAt
  <2>2. segments[k].address \in Nat /\ segments[k].fileSize \in Nat
    BY <2>1, SegmentFacts
  <2> QED BY <2>1, <2>2 DEF SegmentHolds, IsWithin, IsLoad
<1>2. \A k, l \in SegmentsAt(a) :
        ~ Disjoint(segments[k], segments[l], segments[k].fileSize, segments[l].fileSize)
  BY <1>1, HeldByBoth
<1>3. ~ i < j /\ ~ j < i
  BY <1>1, <1>2 DEF Consistent
<1> QED BY <1>1, <1>3, LoadedFacts

LEMMA SectionsAtFacts ==
  ASSUME Loaded, NEW a \in Nat, NEW k \in SectionsAt(a)
  PROVE  /\ k \in 1 .. Len(sections) /\ InFile(sections[k]) /\ sections[k] \in ToSet(sections)
         /\ sections[k].address \in Nat /\ sections[k].size \in Nat
         /\ IsWithin(sections[k].address, sections[k].size, a)
<1>1. k \in 1 .. Len(sections) /\ SectionHolds(sections[k], a)
  BY DEF SectionsAt
<1>2. /\ sections[k].address \in Nat /\ sections[k].size \in Nat
      /\ sections[k] \in ToSet(sections)
  BY <1>1, SectionFacts
<1> QED BY <1>1, <1>2 DEF SectionHolds, IsWithin, InFile

LEMMA OneSection ==
  ASSUME Loaded, Consistent, NEW a \in Nat, NEW i \in SectionsAt(a), NEW j \in SectionsAt(a)
  PROVE  i = j
<1>1. \A k, l \in SectionsAt(a) :
        ~ Disjoint(sections[k], sections[l], sections[k].size, sections[l].size)
  BY SectionsAtFacts, HeldByBoth
<1>2. ~ i < j /\ ~ j < i
  BY <1>1, SectionsAtFacts DEF Consistent
<1> QED BY <1>2, SectionsAtFacts, LoadedFacts

LEMMA SectionOfSegment ==
  ASSUME Loaded, Consistent, NEW a \in Nat, NEW i \in SegmentsAt(a), NEW j \in SectionsAt(a)
  PROVE  sections[j].offset - sections[j].address = segments[i].offset - segments[i].address
<1>1. i \in 1 .. Len(segments) /\ SegmentHolds(segments[i], a)
  BY DEF SegmentsAt
<1>2. /\ segments[i].address \in Nat /\ segments[i].fileSize \in Nat
      /\ segments[i] \in ToSet(segments)
  BY <1>1, SegmentFacts
<1>3. IsLoad(segments[i]) /\ IsWithin(segments[i].address, segments[i].fileSize, a)
  BY <1>1, <1>2 DEF SegmentHolds, IsWithin, IsLoad
<1>4. ~ Disjoint(sections[j], segments[i], sections[j].size, segments[i].fileSize)
  BY <1>2, <1>3, SectionsAtFacts, HeldByBoth
<1> QED BY <1>2, <1>3, <1>4, SectionsAtFacts DEF Consistent

LEMMA OneOffset ==
  ASSUME NEW o \in Word, NEW a, HolderOf(a) # {},
         \A s \in HolderOf(a) : s.offset + (a - s.address) = o
  PROVE  VirtualAddressToFileOffset(a) = {o}
BY WordKept DEF VirtualAddressToFileOffset

\* The address that a part of the image gives an offset is translated to that offset.
LEMMA SegmentTranslated ==
  ASSUME Loaded, Consistent, NEW a \in Nat, NEW o \in Word, NEW i \in SegmentsAt(a),
         segments[i].offset + (a - segments[i].address) = o
  PROVE  VirtualAddressToFileOffset(a) = {o}
<1>1. HolderOf(a) # {} /\ \A s \in HolderOf(a) : s = segments[i]
  BY HolderIsSegment, OneSegment
<1> QED BY <1>1, OneOffset

LEMMA SectionTranslated ==
  ASSUME Loaded, Consistent, NEW a \in Nat, NEW o \in Word, NEW j \in SectionsAt(a),
         sections[j].offset + (a - sections[j].address) = o
  PROVE  VirtualAddressToFileOffset(a) = {o}
<1>1. CASE SegmentsAt(a) = {}
  <2>1. HolderOf(a) # {} /\ \A s \in HolderOf(a) : s = sections[j]
    BY <1>1, HolderIsSection, OneSection
  <2> QED BY <2>1, OneOffset
<1>2. ASSUME NEW i \in SegmentsAt(a) PROVE VirtualAddressToFileOffset(a) = {o}
  <2>1. sections[j].offset - sections[j].address = segments[i].offset - segments[i].address
    BY SectionOfSegment
  <2>2. /\ segments[i].address \in Nat /\ segments[i].offset \in Nat
        /\ sections[j].address \in Nat /\ sections[j].offset \in Nat
    BY SegmentFacts, SectionFacts DEF SegmentsAt, SectionsAt
  <2>3. segments[i].offset + (a - segments[i].address) = o
    BY <2>1, <2>2
  <2> QED BY <2>3, SegmentTranslated
<1> QED BY <1>1, <1>2

\* The parts that FileOffsetToVirtualAddress takes for an offset.
LEMMA OffsetHolders ==
  ASSUME Loaded, NEW o \in Word, NEW a \in FileOffsetToVirtualAddress(o)
  PROVE  \/ \E i \in 1 .. Len(segments) :
              /\ segments[i].type = "load"
              /\ IsWithin(segments[i].offset, segments[i].fileSize, o)
              /\ a = Wrapped(segments[i].address + (o - segments[i].offset))
         \/ \E j \in 1 .. Len(sections) :
              /\ sections[j].alloc /\ sections[j].type # "nobits"
              /\ IsWithin(sections[j].offset, sections[j].size, o)
              /\ a = Wrapped(sections[j].address + (o - sections[j].offset))
BY DEF FileOffsetToVirtualAddress, FirstIn, First

\* An offset inside a part whose addresses do not wrap.
LEMMA Unwrapped ==
  ASSUME NEW x \in Nat, NEW y \in Nat, NEW n \in Nat, NEW o \in Nat,
         IsWithin(y, n, o), x + n <= MaxWord
  PROVE  /\ Wrapped(x + (o - y)) = x + (o - y) /\ x + (o - y) \in Nat
         /\ IsWithin(x, n, x + (o - y)) /\ y + ((x + (o - y)) - x) = o
<1>1. MaxWord \in Nat
  BY WordFacts
<1>2. x + (o - y) \in 0 .. MaxWord
  BY <1>1 DEF IsWithin
<1>3. Wrapped(x + (o - y)) = x + (o - y)
  BY <1>2, WordKept DEF Word
<1> QED BY <1>2, <1>3 DEF IsWithin

LEMMA OffsetsAgree ==
  ASSUME Loaded, Consistent, NEW o \in Word, NEW a \in FileOffsetToVirtualAddress(o)
  PROVE  VirtualAddressToFileOffset(a) = {o}
<1>1. o \in Nat
  BY WordFacts
<1>2. ASSUME NEW i \in 1 .. Len(segments), segments[i].type = "load",
             IsWithin(segments[i].offset, segments[i].fileSize, o),
             a = Wrapped(segments[i].address + (o - segments[i].offset))
      PROVE  VirtualAddressToFileOffset(a) = {o}
  <2>1. a \in Nat /\ IsWithin(segments[i].address, segments[i].fileSize, a)
        /\ segments[i].offset + (a - segments[i].address) = o
    <3>1. PICK x, y, n :
            x = segments[i].address /\ y = segments[i].offset /\ n = segments[i].fileSize
      OBVIOUS
    <3>2. x \in Nat /\ y \in Nat /\ n \in Nat /\ x + n <= MaxWord
      BY <1>2, <3>1, SegmentFacts
    <3>3. IsWithin(y, n, o) /\ a = Wrapped(x + (o - y))
      BY <1>2, <3>1
    <3>4. a = x + (o - y) /\ a \in Nat /\ IsWithin(x, n, a) /\ y + (a - x) = o
      BY <1>1, <3>2, <3>3, Unwrapped
    <3> QED BY <3>1, <3>4
  <2>2. i \in SegmentsAt(a)
    BY <1>2, <2>1 DEF SegmentsAt, SegmentHolds
  <2> QED BY <2>1, <2>2, SegmentTranslated
<1>3. ASSUME NEW j \in 1 .. Len(sections), sections[j].alloc, sections[j].type # "nobits",
             IsWithin(sections[j].offset, sections[j].size, o),
             a = Wrapped(sections[j].address + (o - sections[j].offset))
      PROVE  VirtualAddressToFileOffset(a) = {o}
  <2>1. a \in Nat /\ IsWithin(sections[j].address, sections[j].size, a)
        /\ sections[j].offset + (a - sections[j].address) = o
    <3>1. PICK x, y, n :
            x = sections[j].address /\ y = sections[j].offset /\ n = sections[j].size
      OBVIOUS
    <3>2. x \in Nat /\ y \in Nat /\ n \in Nat /\ x + n <= MaxWord
      BY <1>3, <3>1, SectionFacts
    <3>3. IsWithin(y, n, o) /\ a = Wrapped(x + (o - y))
      BY <1>3, <3>1
    <3>4. a = x + (o - y) /\ a \in Nat /\ IsWithin(x, n, a) /\ y + (a - x) = o
      BY <1>1, <3>2, <3>3, Unwrapped
    <3> QED BY <3>1, <3>4
  <2>2. j \in SectionsAt(a)
    BY <1>3, <2>1 DEF SectionsAt, SectionHolds
  <2> QED BY <2>1, <2>2, SectionTranslated
<1> QED BY <1>2, <1>3, OffsetHolders

LEMMA TextAgrees ==
  ASSUME Loaded, Consistent, NEW s \in FindSection(".text"), s.alloc, NEW i \in 0 .. s.size - 1
  PROVE  VirtualAddressToFileOffset(s.address + i) = {s.offset + i}
<1>1. PICK j \in 1 .. Len(sections) :
        /\ s = sections[j] /\ sections[j].name = ".text"
        /\ \A k \in 1 .. j - 1 : sections[k].name # ".text"
  BY DEF FindSection, First
<1>2. PICK t \in FindSection(".text") : IsUsableText(t)
  BY DEF Loaded, IInv, TextInv, TextFound
<1>3. PICK l \in 1 .. Len(sections) :
        /\ t = sections[l] /\ sections[l].name = ".text"
        /\ \A k \in 1 .. l - 1 : sections[k].name # ".text"
  BY DEF FindSection, First
<1>4. j = l
  BY <1>1, <1>3, LoadedFacts
<1>5. s.type # "nobits"
  BY <1>1, <1>2, <1>3, <1>4 DEF IsUsableText
<1>6. /\ s.address \in Nat /\ s.offset \in Nat /\ s.size \in Nat
      /\ s.offset + s.size <= MaxFileSize
  BY <1>1, <1>5, SectionFacts
<1>7. s.address + i \in Nat /\ s.offset + i \in Word
  <2>1. WordValues \in Nat /\ MaxFileSize \in Nat /\ MaxFileSize < WordValues
    BY SizesAssumption
  <2>2. i \in Nat /\ i < s.size
    BY <1>6
  <2>3. PICK x, y, n : x = s.address /\ y = s.offset /\ n = s.size
    OBVIOUS
  <2>4. x \in Nat /\ y \in Nat /\ n \in Nat /\ y + n <= MaxFileSize /\ i \in Nat /\ i < n
    BY <1>6, <2>2, <2>3
  <2>5. y + i <= WordValues - 1
    BY ONLY <2>1, <2>4
  <2>6. x + i \in Nat /\ y + i \in 0 .. WordValues - 1
    BY ONLY <2>1, <2>4, <2>5
  <2> QED BY <2>3, <2>6 DEF Word, MaxWord
<1>8. IsWithin(s.address, s.size, s.address + i)
  BY <1>6 DEF IsWithin
<1>9. j \in SectionsAt(s.address + i)
  BY <1>1, <1>5, <1>8 DEF SectionsAt, SectionHolds
<1>10. sections[j].offset + ((s.address + i) - sections[j].address) = s.offset + i
  BY <1>1, <1>6
<1> QED BY <1>7, <1>9, <1>10, SectionTranslated

\* In every consistent image of every file, an offset that has an address is the offset
\* of that address, and a byte of .text has the address at which it is disassembled.
THEOREM TranslationsCorrect == Spec => []TranslationsAgree
<1>1. IInv /\ SizeInv => TranslationsAgree
  <2> SUFFICES ASSUME Loaded, Consistent
               PROVE  /\ \A o \in Word : \A a \in FileOffsetToVirtualAddress(o) :
                           VirtualAddressToFileOffset(a) = {o}
                      /\ \A s \in FindSection(".text") :
                           s.alloc => \A i \in 0 .. s.size - 1 :
                             VirtualAddressToFileOffset(s.address + i) = {s.offset + i}
    BY DEF Loaded, TranslationsAgree
  <2> QED BY OffsetsAgree, TextAgrees
<1> QED BY <1>1, SizeHolds, PTL

================================================================================
