------------------------------ MODULE MCElfLoader ------------------------------
(***************************************************************************)
(* Words of three bits and files of up to seven bytes, in families that    *)
(* each vary one part of a well-formed file over all words: .text, one     *)
(* segment, two segments around .text, the places and counts of the        *)
(* tables, a table of symbols, the header.                                 *)
(***************************************************************************)
EXTENDS ElfLoader

Null ==
  [name |-> "", type |-> "null", alloc |-> FALSE, exec |-> FALSE, address |-> 0,
   offset |-> 0, size |-> 0, link |-> 0, info |-> 0, entrySize |-> 0, badSymbol |-> 0]

Text(o, n, a) ==
  [Null EXCEPT !.name = ".text", !.type = "bits", !.alloc = TRUE, !.exec = TRUE,
               !.offset = o, !.size = n, !.address = a]

Names == [Null EXCEPT !.name = ".shstrtab", !.type = "strings", !.offset = 1, !.size = 2]

Symbols(type, o, n, e, link, bad) ==
  [Null EXCEPT !.name = ".symtab", !.type = type, !.offset = o, !.size = n,
               !.entrySize = e, !.link = link, !.badSymbol = bad]

Segment(o, a, n, m) ==
  [type |-> "load", offset |-> o, address |-> a, fileSize |-> n, memorySize |-> m,
   tags |-> <<>>]

Dynamic(n, tags_) ==
  [Segment(0, 0, n, n) EXCEPT !.type = "dynamic", !.tags = tags_]

\* Both tables are as long as any file has bytes for.
Padded(s, e) == s \o [i \in 1 .. 7 - Len(s) |-> e]

Image(sections_, segments_) ==
  [size |-> 6, defects |-> {}, isDyn |-> FALSE,
   shoff |-> 2, shentsize |-> 1, shnum |-> Len(sections_), shstrndx |-> 2,
   phoff |-> 5, phentsize |-> 1, phnum |-> Len(segments_),
   sections |-> Padded(sections_, Null), segments |-> Padded(segments_, Segment(0, 0, 0, 0))]

Good == Image(<<Null, Text(2, 2, 3), Names>>, <<Segment(1, 2, 4, 4)>>)

MCTexts ==
  {Image(<<Null, [Text(o, n, a) EXCEPT !.type = k.type, !.alloc = k.alloc, !.exec = k.exec],
           Names>>, <<Segment(1, 2, 4, 4)>>) :
     o, n \in Word, a \in {0, 3, 6, 7},
     k \in {[type |-> "bits", alloc |-> TRUE, exec |-> TRUE],
            [type |-> "bits", alloc |-> FALSE, exec |-> TRUE],
            [type |-> "bits", alloc |-> TRUE, exec |-> FALSE],
            [type |-> "nobits", alloc |-> TRUE, exec |-> TRUE]}}

MCSegments ==
  {Image(<<Null, Text(2, 2, 3), Names>>, <<Segment(o, a, n, m)>>) :
     o \in Word, a \in {0, 2, 5, 7}, n, m \in {0, 1, 4, 5, 7}}

MCPlaced(extra) ==
  {Segment(o, a, n, n + m) : o \in {0, 2, 4}, a \in {0, 2, 5}, n \in 1 .. 2, m \in extra}

MCTwoSegments ==
  {[Image(<<Null, Text(2, 2, 3), [Names EXCEPT !.alloc = TRUE, !.address = a], Null>>,
          <<s, t>>) EXCEPT !.size = 7] :
     a \in {0, 5}, s \in MCPlaced({0, 2}), t \in MCPlaced({0})}

MCTables ==
  {[Image(<<[Null EXCEPT !.size = z, !.link = l, !.info = 1], Text(2, 2, 3), Names>>,
          <<Segment(1, 2, 4, 4)>>)
      EXCEPT !.shoff = so, !.shentsize = se, !.shnum = sn, !.shstrndx = sx] :
     z \in {0, 3}, l \in {2, 3}, so \in {0, 2, 7}, se \in 0 .. 2, sn \in {0, 3, 7},
     sx \in {0, 2, Extended}}
  \cup
  {[Good EXCEPT !.phoff = po, !.phentsize = pe, !.phnum = pn, !.sections[1].info = i] :
     po \in {0, 5, 7}, pe \in 0 .. 2, pn \in {0, 1, 2, 7, Extended}, i \in 0 .. 1}

MCSymbols ==
  {[Image(<<Null, Text(2, 2, 3), Names, Symbols(t, o, n, e, l, b)>>,
          IF d THEN <<Dynamic(1, <<"pie">>)>> ELSE <<>>)
      EXCEPT !.isDyn = d] :
     t \in {"symbols", "dynamic symbols"}, o \in {0, 2}, n \in 0 .. 4, e \in 0 .. 3,
     l \in {1, 2, 4}, b \in {0, 2}, d \in BOOLEAN}

MCHeaders ==
  {[Good EXCEPT !.defects = d, !.size = n] :
     d \in {{}} \cup {{x.defect, y.defect} : x, y \in ToSet(HeaderDefects)}, n \in {0, 1, 2, 6, 8}}
  \cup {[Good EXCEPT !.isDyn = d, !.segments[1].type = t] :
          d \in BOOLEAN, t \in {"load", "interpreter", "other"}}
  \cup {[Good EXCEPT !.isDyn = TRUE, !.segments[1] = Dynamic(n, <<t, u>>)] :
          n \in 0 .. 2, t, u \in {"pie", "null", "other"}}
  \cup {[Good EXCEPT !.sections[i].name = NoName] : i \in 1 .. 3}

MCFiles ==
  UNION {MCTexts, MCSegments, MCTwoSegments, MCTables, MCSymbols, MCHeaders}

\* What others write: a good file, one that is shorter, one that has other segments.
MCLaterFiles ==
  {NoFile, Good, [Good EXCEPT !.size = 4],
   [Good EXCEPT !.size = 7, !.segments[1] = Segment(0, 1, 6, 6)]}

================================================================================
