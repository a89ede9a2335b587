-------------------------- MODULE RasterLabelProofs --------------------------
(***************************************************************************)
(* Of the conversion, for every driver, limit, digit and run length, and for *)
(* pages of every size: the decoder stays within the declared bitmap and     *)
(* keeps the picture the codes draw; what is written is cut as ^GF wants it, *)
(* and prints, dot for dot and under the same settings, what the filter's    *)
(* text would have printed.                                                  *)
(*                                                                         *)
(* RasterInv says how far the page at hand has come and what is known by     *)
(* then, and that each page kept is complete and each output is Written of   *)
(* its page.  What follows from that about the labels is about operators     *)
(* alone: Rotated, pixel by pixel; Bands, a cut of any picture; and the      *)
(* lines of the opening and the closing, as sets.                            *)
(***************************************************************************)
EXTENDS RasterLabel, SequenceTheorems, TLAPS

(* what is so while text is read, by how far the page has come *)
PageAt ==
    /\ at < Position("DG") => bitmap = <<>> /\ row = <<>> /\ repeat = 0 /\ drawn = <<>>
    /\ at >= Position("DG") => "DG" \in DOMAIN lines /\ ValidHeader(Total, RowBytes)
    /\ at >= Position("XA") => Complete
    /\ at >= Position("PO") => "PO" \in DOMAIN lines /\ lines["PO"] = "I"
    /\ at >= Position("PW") => "PW" \in DOMAIN lines /\ ValidWidth(lines["PW"])

(* what is kept of a page that was read to its end *)
GoodPage(page) ==
    /\ DOMAIN page.lines \subseteq ToSet(Lines)
    /\ {"DG", "PO", "PW"} \subseteq DOMAIN page.lines
    /\ page.lines["PO"] = "I"
    /\ LET total == page.lines["DG"][1]
           rowBytes == page.lines["DG"][2]
           width == page.lines["PW"]
       IN /\ ValidHeader(total, rowBytes)
          /\ width \in 1..MaxDots /\ rowBytes = (width + 7) \div 8
          /\ page.bitmap \in Seq(Seq(0..15))
          /\ Len(page.bitmap) = total \div rowBytes
          /\ Len(page.bitmap) \in 1..MaxDots
          /\ \A i \in DOMAIN page.bitmap : Len(page.bitmap[i]) = 2 * rowBytes

IsSequence(s) == \E S : s \in Seq(S)

StageInv ==
    /\ stage # "parse" => at = 0
    /\ stage \in {"copy", "filter", "refused"} => pages = <<>>
    /\ stage \in {"copy", "filter", "parse", "refused"} => output = <<>>
    /\ stage = "parse" => Len(pages) < MaxPages
    /\ stage = "write" => Len(output) < Len(pages)

GraphicInv ==
    /\ bitmap \in Seq(Seq(0..15)) /\ row \in Seq(0..15) /\ drawn \in Seq(0..15)
    /\ \A i \in DOMAIN bitmap : Len(bitmap[i]) = RowDigits

PagesInv == IsSequence(pages) /\ \A i \in DOMAIN pages : GoodPage(pages[i])

OutputInv ==
    /\ IsSequence(output)
    /\ \A i \in DOMAIN output :
           /\ output[i] = Written(pages[i])
           /\ ~StrayPixel(pages[i].bitmap, pages[i].lines["PW"])

RasterInv ==
    /\ TypeOK /\ StageInv
    /\ PageAt /\ GraphicInv /\ DecodedAsDrawn
    /\ PagesInv /\ OutputInv

-----------------------------------------------------------------------------
(* Where the lines that matter are. *)
LEMMA Positions ==
    /\ \A c \in ToSet(Lines) : Position(c) \in 1..17 /\ Lines[Position(c)] = c
    /\ Position("DG") = 2
    /\ Position("XA") = 3
    /\ Position("PO") = 4
    /\ Position("PW") = 5
    /\ Position("XG") = 16
    /\ Len(Lines) = 17
  <1>1. DOMAIN Lines = 1..17 /\ Len(Lines) = 17
    BY DEF Lines
  <1>2. \A i \in 1..17 :
            /\ Lines[i] = "DG" <=> i = 2
            /\ Lines[i] = "XA" <=> i = 3
            /\ Lines[i] = "PO" <=> i = 4
            /\ Lines[i] = "PW" <=> i = 5
            /\ Lines[i] = "XG" <=> i = 16
    BY DEF Lines
  <1> HIDE DEF Lines
  <1>3. \A c \in ToSet(Lines) : \E i \in 1..17 : Lines[i] = c
    BY <1>1 DEF ToSet
  <1>4. \A c \in ToSet(Lines) : Position(c) \in 1..17 /\ Lines[Position(c)] = c
    BY <1>1, <1>3 DEF Position
  <1>5. {"DG", "XA", "PO", "PW", "XG"} \subseteq ToSet(Lines)
    BY <1>1, <1>2 DEF ToSet
  <1>6. QED
    BY <1>1, <1>2, <1>4, <1>5

(* The lines nobody may leave out. *)
LEMMA Mandatory ==
    ASSUME NEW c, Follows(c), at \in 0..17
    PROVE  /\ Position(c) \in 1..17 /\ Position(c) > at /\ Lines[Position(c)] = c
           /\ \A d \in {"DG", "XA", "PO", "PW", "XG"} :
                  /\ at < Position(d) => Position(c) <= Position(d)
                  /\ Position(c) = Position(d) => c = d
  <1>1. c \in ToSet(Lines)
    BY DEF Follows
  <1>2. {"DG", "XA", "PO", "PW", "XG"} \cap Optional = {}
    BY DEF Optional
  <1>3. \A d \in {"DG", "XA", "PO", "PW", "XG"} : Position(d) \in 1..17 /\ Lines[Position(d)] = d
    <2>1. {"DG", "XA", "PO", "PW", "XG"} \subseteq ToSet(Lines)
      BY DEF Lines, ToSet
    <2>2. QED
      BY <2>1, Positions
  <1>4. ASSUME NEW d \in {"DG", "XA", "PO", "PW", "XG"}, at < Position(d), Position(d) < Position(c)
        PROVE  FALSE
    <2>1. Position(d) \in at + 1 .. Position(c) - 1
      BY <1>1, <1>3, <1>4, Positions
    <2>2. Lines[Position(d)] \in Optional
      BY <2>1 DEF Follows
    <2>3. QED
      BY <1>2, <1>3, <2>2
  <1>5. QED
    BY <1>1, <1>3, <1>4, Positions DEF Follows

-----------------------------------------------------------------------------
(* Sequences of whatever they are of. *)
LEMMA EmptyIsSequence == IsSequence(<<>>) /\ Len(<<>>) = 0 /\ DOMAIN <<>> = {}
  <1>1. <<>> \in Seq({}) /\ Len(<<>>) = 0 /\ DOMAIN <<>> = {}
    OBVIOUS
  <1>2. QED
    BY <1>1 DEF IsSequence

LEMMA SequenceTypes ==
    ASSUME NEW s, IsSequence(s)
    PROVE  Len(s) \in Nat /\ DOMAIN s = 1..Len(s)
  BY LenProperties DEF IsSequence

LEMMA Extended ==
    ASSUME NEW s, IsSequence(s), NEW e
    PROVE  /\ IsSequence(Append(s, e))
           /\ Len(Append(s, e)) = Len(s) + 1
           /\ DOMAIN Append(s, e) = 1..(Len(s) + 1)
           /\ \A i \in 1..Len(s) : Append(s, e)[i] = s[i]
           /\ Append(s, e)[Len(s) + 1] = e
  <1>1. PICK S : s \in Seq(S)
    BY DEF IsSequence
  <1> DEFINE T == S \cup {e}
  <1>2. s \in Seq(T) /\ e \in T
    BY <1>1, SeqMonotonic
  <1> HIDE DEF T
  <1>3. /\ Append(s, e) \in Seq(T)
        /\ Len(Append(s, e)) = Len(s) + 1
        /\ \A i \in 1..Len(s) : Append(s, e)[i] = s[i]
        /\ Append(s, e)[Len(s) + 1] = e
    BY <1>2, AppendProperties
  <1>4. QED
    BY <1>3, LenProperties DEF IsSequence

(* What follows a place in a sequence, when more is added at its end. *)
KeptUpTo(S, w, s, k) ==
    /\ w \o s \in Seq(S)
    /\ Len(w \o s) = Len(w) + Len(s)
    /\ SubSeq(w \o s, k + 1, Len(w) + Len(s)) = SubSeq(w, k + 1, Len(w)) \o s
    /\ \A m \in 1..k, n \in 1..k : SubSeq(w \o s, m, n) = SubSeq(w, m, n)

LEMMA Aligned ==
    ASSUME NEW S, NEW w \in Seq(S), NEW s \in Seq(S), NEW k \in 0..Len(w)
    PROVE  KeptUpTo(S, w, s, k)
  <1> DEFINE ws == w \o s
             r == SubSeq(w, k + 1, Len(w))
             l == SubSeq(ws, k + 1, Len(w) + Len(s))
             rs == r \o s
  <1>1. /\ Len(w) \in Nat /\ Len(s) \in Nat
        /\ \A i \in 1..Len(w) : w[i] \in S
        /\ \A i \in 1..Len(s) : s[i] \in S
    BY LenProperties, ElementOfSeq
  <1>2. /\ ws \in Seq(S) /\ Len(ws) = Len(w) + Len(s)
        /\ \A i \in 1..(Len(w) + Len(s)) :
               ws[i] = IF i <= Len(w) THEN w[i] ELSE s[i - Len(w)]
    BY ConcatProperties
  <1>3. /\ r \in Seq(S) /\ Len(r) = Len(w) - k
        /\ \A i \in 1..(Len(w) - k) : r[i] = w[k + i]
    <2>1. \A i \in k + 1..Len(w) : w[i] \in S
      BY <1>1
    <2>2. /\ r \in Seq(S)
          /\ Len(r) = IF k + 1 <= Len(w) THEN Len(w) - (k + 1) + 1 ELSE 0
          /\ \A i \in 1..(Len(w) - (k + 1) + 1) : r[i] = w[(k + 1) + i - 1]
      BY <1>1, <2>1, SubSeqProperties
    <2> HIDE DEF r
    <2>3. QED
      BY <1>1, <2>2
  <1> HIDE DEF ws, r
  <1>4. /\ rs \in Seq(S) /\ Len(rs) = (Len(w) - k) + Len(s)
        /\ \A i \in 1..((Len(w) - k) + Len(s)) :
               rs[i] = IF i <= Len(w) - k THEN r[i] ELSE s[i - (Len(w) - k)]
    <2>1. /\ rs \in Seq(S) /\ Len(rs) = Len(r) + Len(s)
          /\ \A i \in 1..(Len(r) + Len(s)) :
                 rs[i] = IF i <= Len(r) THEN r[i] ELSE s[i - Len(r)]
      BY <1>3, ConcatProperties
    <2> HIDE DEF rs
    <2>2. QED
      BY <1>3, <2>1
  <1>5. /\ l \in Seq(S) /\ Len(l) = (Len(w) - k) + Len(s)
        /\ \A i \in 1..((Len(w) - k) + Len(s)) : l[i] = ws[k + i]
    <2>1. \A i \in k + 1..(Len(w) + Len(s)) : ws[i] \in S
      BY <1>1, <1>2, ElementOfSeq
    <2>2. /\ l \in Seq(S)
          /\ Len(l) = IF k + 1 <= Len(w) + Len(s) THEN Len(w) + Len(s) - (k + 1) + 1 ELSE 0
          /\ \A i \in 1..(Len(w) + Len(s) - (k + 1) + 1) : l[i] = ws[(k + 1) + i - 1]
      BY <1>1, <2>1, SubSeqProperties
    <2> HIDE DEF l
    <2>3. QED
      BY <1>1, <2>2
  <1> HIDE DEF rs, l
  <1>6. l = rs
    <2>1. ASSUME NEW i \in 1..((Len(w) - k) + Len(s)) PROVE l[i] = rs[i]
      <3>1. k + i \in 1..(Len(w) + Len(s))
        BY <1>1
      <3>2. CASE i <= Len(w) - k
        BY <1>1, <1>2, <1>3, <1>4, <1>5, <3>1, <3>2
      <3>3. CASE i > Len(w) - k
        <4>1. ~(k + i <= Len(w)) /\ (k + i) - Len(w) = i - (Len(w) - k)
          BY <1>1, <3>3
        <4>2. l[i] = s[(k + i) - Len(w)]
          BY <1>2, <1>5, <3>1, <4>1
        <4>3. rs[i] = s[i - (Len(w) - k)]
          BY <1>4, <3>3
        <4>4. QED
          BY <4>1, <4>2, <4>3
      <3>4. QED
        BY <1>1, <3>2, <3>3
    <2>2. QED
      BY <1>4, <1>5, <2>1, SeqEqual
  <1>7. ASSUME NEW m \in 1..k, NEW n \in 1..k PROVE SubSeq(ws, m, n) = SubSeq(w, m, n)
    <2>1. m \in 1..Len(w) /\ n \in 1..Len(w)
      BY <1>1
    <2>2. QED
      BY <2>1, SubSeqOfConcat1 DEF ws
  <1>8. QED
    BY <1>2, <1>6, <1>7 DEF ws, r, l, rs, KeptUpTo

(* A run of one digit. *)
LEMMA Run ==
    ASSUME NEW d \in 0..15, NEW n \in Nat
    PROVE  Times(d, n) \in Seq(0..15) /\ Len(Times(d, n)) = n
  BY DEF Times

(* Rows one after the other. *)
LEMMA RowStarts ==
    ASSUME NEW d \in Nat, NEW n \in Nat
    PROVE  /\ n * d \in Nat
           /\ (n + 1) * d = n * d + d
           /\ \A i \in 1..n : (i - 1) * d \in Nat /\ i * d = (i - 1) * d + d /\ i * d <= n * d
           /\ \A r \in Nat : r < d => (n * d + r) % d = r
  <1>1. n * d \in Nat /\ (n + 1) * d = n * d + d
    OBVIOUS
  <1>2. ASSUME NEW i \in 1..n
        PROVE  (i - 1) * d \in Nat /\ i * d = (i - 1) * d + d /\ i * d <= n * d
    OBVIOUS
  <1>3. ASSUME NEW r \in Nat, r < d PROVE (n * d + r) % d = r
    BY <1>3
  <1>4. QED
    BY <1>1, <1>2, <1>3

-----------------------------------------------------------------------------
(* Nothing is read yet. *)
LEMMA FreshPage ==
    ASSUME NewPage
    PROVE  /\ PageAt' /\ GraphicInv' /\ DecodedAsDrawn'
           /\ at' \in 0..Len(Lines) /\ DOMAIN lines' \subseteq ToSet(Lines)
           /\ ~(at' >= Position("DG")) /\ at' = 0
  <1>1. DOMAIN lines' = {} /\ DOMAIN bitmap' = {}
    BY EmptyIsSequence DEF NewPage
  <1>2. bitmap' \in Seq(Seq(0..15)) /\ row' \in Seq(0..15) /\ drawn' \in Seq(0..15)
    BY EmptySeq DEF NewPage
  <1>3. ~(at' >= Position("DG")) /\ at' \in 0..Len(Lines) /\ at' = 0
    BY Positions DEF NewPage
  <1>4. PageAt'
    BY Positions DEF PageAt, NewPage
  <1>5. QED
    BY <1>1, <1>2, <1>3, <1>4 DEF GraphicInv, DecodedAsDrawn

(* A document begins or is refused with nothing. *)
LEMMA RestartStep ==
    ASSUME NEW next \in {"copy", "refused"}, Restart(next)
    PROVE  RasterInv'
  <1> USE RasterAssumption
  <1>1. stage' = next /\ pages' = <<>> /\ output' = <<>>
    BY DEF Restart
  <1>2. /\ PageAt' /\ GraphicInv' /\ DecodedAsDrawn'
        /\ at' \in 0..Len(Lines) /\ DOMAIN lines' \subseteq ToSet(Lines)
        /\ ~(at' >= Position("DG")) /\ at' = 0
    BY FreshPage DEF Restart
  <1>3. TypeOK'
    BY <1>1, <1>2, EmptyIsSequence DEF TypeOK
  <1>4. StageInv'
    BY <1>1, <1>2 DEF StageInv
  <1>5. PagesInv' /\ OutputInv'
    BY <1>1, EmptyIsSequence DEF PagesInv, OutputInv
  <1>6. QED
    BY <1>2, <1>3, <1>4, <1>5 DEF RasterInv

LEMMA RasterInit == Init => RasterInv
  <1> SUFFICES ASSUME Init PROVE RasterInv
    OBVIOUS
  <1> USE RasterAssumption
  <1>1. DOMAIN lines = {} /\ DOMAIN bitmap = {} /\ at = 0
    BY EmptyIsSequence DEF Init
  <1>2. ~(at >= Position("DG")) /\ at \in 0..Len(Lines)
    BY <1>1, Positions
  <1>3. TypeOK
    BY <1>1, <1>2, EmptyIsSequence DEF TypeOK, Init
  <1>4. StageInv
    BY <1>1 DEF StageInv, Init
  <1>5. PageAt
    BY Positions DEF PageAt, Init
  <1>6. GraphicInv
    BY <1>1, EmptySeq DEF GraphicInv, Init
  <1>7. PagesInv /\ OutputInv
    BY EmptyIsSequence DEF PagesInv, OutputInv, Init
  <1>8. DecodedAsDrawn
    BY <1>2 DEF DecodedAsDrawn
  <1>9. QED
    BY <1>3, <1>4, <1>5, <1>6, <1>7, <1>8 DEF RasterInv

(* The stage alone changes. *)
LEMMA StageStep ==
    ASSUME RasterInv, UNCHANGED <<text, pages, output>>,
           \/ stage' = stage
           \/ stage = "copy" /\ stage' = "filter"
           \/ stage = "filter" /\ stage' = "parse"
    PROVE  RasterInv'
  <1> USE RasterAssumption DEF RasterInv
  <1>1. UNCHANGED <<at, lines, bitmap, row, repeat, drawn, pages, output>>
    BY DEF text
  <1>2. TypeOK'
    BY <1>1 DEF TypeOK, Total, RowBytes, Rows, RowDigits
  <1>3. StageInv'
    BY <1>1, EmptyIsSequence DEF StageInv
  <1>4. PageAt'
    BY <1>1 DEF PageAt, ValidHeader, ValidWidth, Complete, Total, RowBytes, Rows
  <1>5. GraphicInv' /\ DecodedAsDrawn'
    BY <1>1 DEF GraphicInv, DecodedAsDrawn, RowBytes, RowDigits
  <1>6. PagesInv' /\ OutputInv'
    BY <1>1 DEF PagesInv, OutputInv
  <1>7. QED
    BY <1>2, <1>3, <1>4, <1>5, <1>6

-----------------------------------------------------------------------------
(* A line of the page comes where it may. *)
LEMMA LineStep ==
    ASSUME RasterInv, NEW command, NEW value, Parsing,
           Follows(command), Valid(command, value),
           at' = Position(command), lines' = With(lines, command, value),
           UNCHANGED <<stage, bitmap, row, repeat, drawn, pages, output>>
    PROVE  RasterInv'
  <1>a. TypeOK /\ StageInv /\ PageAt /\ GraphicInv /\ DecodedAsDrawn /\ PagesInv /\ OutputInv
    BY DEF RasterInv
  <1>b. /\ MaxBitmap \in Nat \ {0} /\ MaxField \in Nat \ {0}
        /\ MaxDots \in Nat \ {0} /\ MaxPages \in Nat \ {0}
    BY RasterAssumption
  <1>1. at \in 0..17 /\ stage = "parse"
    BY <1>a, Positions DEF TypeOK, Parsing
  <1>2. /\ at' \in 1..17 /\ at' > at
        /\ \A d \in {"DG", "XA", "PO", "PW", "XG"} :
               /\ at < Position(d) => at' <= Position(d)
               /\ at' = Position(d) => command = d
    BY <1>1, Mandatory
  <1>3. command \in ToSet(Lines)
    BY DEF Follows
  <1>4. /\ DOMAIN lines' = DOMAIN lines \cup {command}
        /\ lines'[command] = value
        /\ \A c \in DOMAIN lines : c # command => lines'[c] = lines[c]
    BY DEF With
  <1>5. command = "DG" => at < 2 /\ at' = 2
    BY <1>2, Positions
  <1>6. command \in {"XA", "PO", "PW"} => at < Position(command) /\ at' = Position(command)
    BY <1>2
  <1>7. at' >= 2 => /\ "DG" \in DOMAIN lines' /\ ValidHeader(Total, RowBytes)'
                    /\ at >= 2 => lines'["DG"] = lines["DG"]
    <2>1. CASE at >= 2
      <3>1. command # "DG" /\ "DG" \in DOMAIN lines /\ ValidHeader(Total, RowBytes)
        BY <1>1, <1>a, <1>5, <2>1, Positions DEF PageAt
      <3>2. lines'["DG"] = lines["DG"] /\ "DG" \in DOMAIN lines'
        BY <1>4, <3>1
      <3>3. QED
        BY <3>1, <3>2 DEF ValidHeader, Total, RowBytes
    <2>2. CASE at < 2 /\ at' >= 2
      <3>1. command = "DG"
        BY <1>2, <2>2, Positions
      <3>2. ValidHeader(value[1], value[2])
        BY <3>1 DEF Valid
      <3>3. lines'["DG"] = value /\ "DG" \in DOMAIN lines'
        BY <1>4, <3>1
      <3>4. Total' = value[1] /\ RowBytes' = value[2]
        BY <3>3 DEF Total, RowBytes
      <3>5. QED
        BY <1>1, <2>2, <3>2, <3>3, <3>4 DEF ValidHeader
    <2>3. QED
      BY <1>1, <2>1, <2>2
  <1>8. at >= 2 => Total' = Total /\ RowBytes' = RowBytes /\ Rows' = Rows /\ RowDigits' = RowDigits
    BY <1>1, <1>2, <1>7 DEF Total, RowBytes, Rows, RowDigits
  <1>9. at < 2 => bitmap = <<>> /\ row = <<>> /\ repeat = 0 /\ drawn = <<>>
    BY <1>a, Positions DEF PageAt
  <1>10. at' >= 2 => RowDigits' \in Nat \ {0} /\ Rows' \in Nat
    <2>1. ASSUME at' >= 2 PROVE Total' \in Nat /\ RowBytes' \in Nat \ {0}
      BY <1>7, <1>b, <2>1 DEF ValidHeader
    <2>2. QED
      BY <2>1 DEF Rows, RowDigits
  <1>11. TypeOK'
    <2>1. DOMAIN lines' \subseteq ToSet(Lines) /\ at' \in 0..Len(Lines)
      <3>1. DOMAIN lines \subseteq ToSet(Lines)
        BY <1>a DEF TypeOK
      <3>2. DOMAIN lines' \subseteq ToSet(Lines)
        BY <1>3, <1>4, <3>1
      <3>3. QED
        BY <1>2, <3>2, Positions
    <2>2. ASSUME at' >= 2
          PROVE  /\ Total' \in 1..MaxBitmap /\ repeat' \in 0..RowDigits'
                 /\ Len(row') < RowDigits' /\ Len(bitmap') <= Rows'
      <3>1. Total' \in 1..MaxBitmap
        BY <1>7, <2>2 DEF ValidHeader
      <3>2. CASE at >= 2
        BY <1>8, <1>a, <3>1, <3>2, Positions DEF TypeOK
      <3>3. CASE at < 2
        BY <1>9, <1>10, <2>2, <3>1, <3>3, EmptyIsSequence
      <3>4. QED
        BY <1>1, <3>2, <3>3
    <2>3. QED
      BY <1>a, <2>1, <2>2, Positions DEF TypeOK
  <1>12. StageInv'
    BY <1>1, <1>a DEF StageInv
  <1>13. GraphicInv' /\ DecodedAsDrawn'
    <2>1. CASE at >= 2
      BY <1>1, <1>2, <1>8, <1>a, <2>1, Positions DEF GraphicInv, DecodedAsDrawn
    <2>2. CASE at < 2
      <3>1. bitmap = <<>> /\ row = <<>> /\ drawn = <<>> /\ DOMAIN bitmap = {}
        BY <1>9, <2>2, EmptyIsSequence
      <3>2. GraphicInv'
        BY <1>a, <3>1 DEF GraphicInv
      <3>3. DecodedAsDrawn'
        <4> SUFFICES ASSUME at' >= 2 PROVE DecodedAsDrawn'
          BY Positions DEF DecodedAsDrawn
        <4>1. SubSeq(drawn, 0 * RowDigits' + 1, Len(drawn)) = <<>>
          BY <1>10, <3>1, EmptyIsSequence, SubSeqEmpty
        <4>2. QED
          BY <1>10, <3>1, <4>1, EmptyIsSequence DEF DecodedAsDrawn
      <3>4. QED
        BY <3>2, <3>3
    <2>3. QED
      BY <1>1, <2>1, <2>2
  <1>14. PageAt'
    <2>1. at' >= 3 => Complete'
      <3>1. CASE at >= 3
        BY <1>1, <1>8, <1>a, <3>1, Positions DEF PageAt, Complete
      <3>2. CASE at < 3 /\ at' >= 3
        <4>1. command = "XA"
          BY <1>1, <1>2, <3>2, Positions
        <4>2. Complete
          BY <4>1 DEF Valid
        <4>3. at >= 2
          BY <1>1, <1>2, <3>2, Positions
        <4>4. QED
          BY <1>8, <4>2, <4>3 DEF Complete
      <3>3. QED
        BY <1>1, <1>2, <3>1, <3>2
    <2>2. at' >= 4 => "PO" \in DOMAIN lines' /\ lines'["PO"] = "I"
      <3>1. CASE at >= 4
        BY <1>1, <1>2, <1>4, <1>a, <3>1, Positions DEF PageAt
      <3>2. CASE at < 4 /\ at' >= 4
        <4>1. command = "PO"
          BY <1>1, <1>2, <3>2, Positions
        <4>2. QED
          BY <1>4, <4>1 DEF Valid
      <3>3. QED
        BY <1>1, <1>2, <3>1, <3>2
    <2>3. at' >= 5 => "PW" \in DOMAIN lines' /\ ValidWidth(lines["PW"])'
      <3>1. CASE at >= 5
        <4>1. command # "PW" /\ "PW" \in DOMAIN lines /\ ValidWidth(lines["PW"])
          BY <1>1, <1>2, <1>a, <3>1, Positions DEF PageAt
        <4>2. QED
          BY <1>1, <1>4, <1>8, <3>1, <4>1 DEF ValidWidth
      <3>2. CASE at < 5 /\ at' >= 5
        <4>1. command = "PW" /\ at >= 2
          BY <1>1, <1>2, <3>2, Positions
        <4>2. ValidWidth(value)
          BY <4>1 DEF Valid
        <4>3. QED
          BY <1>4, <1>8, <4>1, <4>2 DEF ValidWidth
      <3>3. QED
        BY <1>1, <1>2, <3>1, <3>2
    <2>4. at' < 2 => bitmap' = <<>> /\ row' = <<>> /\ repeat' = 0 /\ drawn' = <<>>
      BY <1>1, <1>2, <1>9
    <2>5. QED
      BY <1>2, <1>7, <2>1, <2>2, <2>3, <2>4, Positions DEF PageAt
  <1>15. PagesInv' /\ OutputInv'
    BY <1>a DEF PagesInv, OutputInv
  <1>16. QED
    BY <1>11, <1>12, <1>13, <1>14, <1>15 DEF RasterInv

-----------------------------------------------------------------------------
(* What is known while codes are read. *)
LEMMA InCode ==
    ASSUME RasterInv, InGraphic
    PROVE  /\ stage = "parse" /\ at = 2 /\ Position("DG") = 2
           /\ RowDigits \in Nat \ {0} /\ Rows \in Nat /\ repeat \in 0..RowDigits
           /\ Len(row) \in Nat /\ Len(row) < RowDigits
           /\ Len(bitmap) \in Nat /\ Len(bitmap) <= Rows /\ DOMAIN bitmap = 1..Len(bitmap)
           /\ Len(drawn) \in Nat
           /\ GraphicInv /\ DecodedAsDrawn
           /\ Len(drawn) = Len(bitmap) * RowDigits + Len(row)
           /\ row = SubSeq(drawn, Len(bitmap) * RowDigits + 1, Len(drawn))
  <1>1. stage = "parse" /\ at = 2 /\ Position("DG") = 2
    BY Positions DEF InGraphic, Parsing
  <1>2. RowBytes \in Nat \ {0} /\ Total \in Nat
    <2>1. ValidHeader(Total, RowBytes)
      BY <1>1 DEF RasterInv, PageAt
    <2>2. QED
      BY <2>1, RasterAssumption DEF ValidHeader
  <1>3. RowDigits \in Nat \ {0} /\ Rows \in Nat
    BY <1>2 DEF RowDigits, Rows
  <1>4. GraphicInv /\ DecodedAsDrawn
    BY DEF RasterInv
  <1>5. Len(row) \in Nat /\ Len(bitmap) \in Nat /\ Len(drawn) \in Nat /\ DOMAIN bitmap = 1..Len(bitmap)
    BY <1>4, LenProperties DEF GraphicInv
  <1>6. repeat \in 0..RowDigits /\ Len(row) < RowDigits /\ Len(bitmap) <= Rows
    BY <1>1 DEF RasterInv, TypeOK
  <1>7. QED
    BY <1>1, <1>3, <1>4, <1>5, <1>6 DEF DecodedAsDrawn

(* The rows b, the begun row r and the digits w drawn so far, d to a row. *)
AsDrawn(b, r, w, d) ==
    /\ Len(w) = Len(b) * d + Len(r)
    /\ \A i \in DOMAIN b : Len(b[i]) = d /\ b[i] = SubSeq(w, (i - 1) * d + 1, i * d)
    /\ r = SubSeq(w, Len(b) * d + 1, Len(w))

(* A row is finished with what is drawn of it. *)
LEMMA RowDrawn ==
    ASSUME NEW S, NEW d \in Nat \ {0}, NEW b \in Seq(Seq(S)), NEW r \in Seq(S),
           NEW w \in Seq(S), NEW s \in Seq(S), AsDrawn(b, r, w, d),
           Len(r) + Len(s) = d
    PROVE  /\ AsDrawn(Append(b, r \o s), <<>>, w \o s, d)
           /\ Append(b, r \o s) \in Seq(Seq(S)) /\ w \o s \in Seq(S)
           /\ Len(Append(b, r \o s)) = Len(b) + 1
  <1> DEFINE n == Len(b)
             from(i) == (i - 1) * d
             to(i) == i * d
             full == r \o s
             more == w \o s
             grown == Append(b, full)
  <1>1. n \in Nat /\ Len(r) \in Nat /\ Len(w) \in Nat /\ Len(s) \in Nat /\ DOMAIN b = 1..n
    BY LenProperties
  <1>2. Len(w) = to(n) + Len(r)
    BY DEF AsDrawn
  <1>3. r = SubSeq(w, to(n) + 1, Len(w))
    BY DEF AsDrawn
  <1>4. \A i \in 1..n : Len(b[i]) = d /\ b[i] = SubSeq(w, from(i) + 1, to(i))
    BY <1>1 DEF AsDrawn
  <1>5. /\ to(n) \in Nat /\ to(n + 1) = to(n) + d /\ from(n + 1) = to(n)
        /\ \A i \in 1..n : from(i) \in Nat /\ to(i) = from(i) + d /\ to(i) <= to(n)
    <2>1. /\ n * d \in Nat /\ (n + 1) * d = n * d + d
          /\ \A i \in 1..n : (i - 1) * d \in Nat /\ i * d = (i - 1) * d + d /\ i * d <= n * d
      BY <1>1, RowStarts
    <2>2. (n + 1) - 1 = n
      BY <1>1
    <2>3. QED
      BY <2>1, <2>2
  <1>6. full \in Seq(S) /\ Len(full) = d
    BY ConcatProperties
  <1> HIDE DEF from, to
  <1>7. /\ more \in Seq(S)
        /\ Len(more) = to(n + 1)
        /\ SubSeq(more, to(n) + 1, to(n + 1)) = full
        /\ \A k \in 1..to(n), l \in 1..to(n) : SubSeq(more, k, l) = SubSeq(w, k, l)
    <2> DEFINE z == to(n)
    <2>1. z \in 0..Len(w) /\ Len(w) + Len(s) = to(n + 1)
      BY <1>1, <1>2, <1>5
    <2> HIDE DEF z
    <2>2. /\ more \in Seq(S)
          /\ Len(more) = Len(w) + Len(s)
          /\ SubSeq(more, z + 1, Len(w) + Len(s)) = SubSeq(w, z + 1, Len(w)) \o s
          /\ \A k \in 1..z, l \in 1..z : SubSeq(more, k, l) = SubSeq(w, k, l)
      <3>1. KeptUpTo(S, w, s, z)
        BY <2>1, Aligned
      <3>2. QED
        BY <3>1 DEF KeptUpTo
    <2> HIDE DEF more
    <2>3. QED
      BY <1>3, <2>1, <2>2 DEF z, full
  <1>8. /\ grown \in Seq(Seq(S))
        /\ Len(grown) = n + 1 /\ DOMAIN grown = 1..(n + 1)
        /\ \A i \in 1..n : grown[i] = b[i]
        /\ grown[n + 1] = full
    <2> HIDE DEF full
    <2>1. /\ grown \in Seq(Seq(S))
          /\ Len(grown) = Len(b) + 1
          /\ \A i \in 1..Len(b) : grown[i] = b[i]
          /\ grown[Len(b) + 1] = full
      BY <1>6, AppendProperties
    <2> HIDE DEF grown
    <2>2. Len(grown) = n + 1 /\ DOMAIN grown = 1..(n + 1)
      <3>1. DOMAIN grown = 1..Len(grown)
        BY <2>1, LenProperties
      <3>2. QED
        BY <2>1, <3>1
    <2>3. QED
      BY <2>1, <2>2
  <1> HIDE DEF more, grown, full
  <1>9. ASSUME NEW i \in 1..(n + 1)
        PROVE  Len(grown[i]) = d /\ grown[i] = SubSeq(more, from(i) + 1, to(i))
    <2>1. CASE i = n + 1
      <3>1. Len(grown[n + 1]) = d /\ grown[n + 1] = SubSeq(more, to(n) + 1, to(n + 1))
        BY <1>6, <1>7, <1>8
      <3>2. from(n + 1) = to(n)
        BY <1>5
      <3>3. QED
        BY <2>1, <3>1, <3>2
    <2>2. CASE i \in 1..n
      <3>1. from(i) + 1 \in 1..to(n) /\ to(i) \in 1..to(n)
        <4> DEFINE low == from(i)
                   high == to(i)
                   z == to(n)
        <4>1. z \in Nat /\ low \in Nat /\ high = low + d /\ high <= z
          BY <1>5, <2>2
        <4> HIDE DEF low, high, z
        <4>2. low + 1 \in 1..z /\ high \in 1..z
          BY <4>1
        <4>3. QED
          BY <4>2 DEF low, high, z
      <3>2. SubSeq(more, from(i) + 1, to(i)) = SubSeq(w, from(i) + 1, to(i))
        BY <1>7, <3>1
      <3>3. QED
        BY <1>4, <1>8, <2>2, <3>2
    <2>3. QED
      BY <1>1, <2>1, <2>2
  <1>10. SubSeq(more, to(n + 1) + 1, Len(more)) = <<>>
    <2>1. to(n + 1) \in Int /\ Len(more) = to(n + 1)
      BY <1>1, <1>5, <1>7
    <2>2. QED
      BY <2>1, SubSeqEmpty
  <1>11. AsDrawn(grown, <<>>, more, d)
    <2>1. Len(more) = to(Len(grown)) + Len(<<>>)
      BY <1>1, <1>5, <1>7, <1>8, EmptyIsSequence
    <2>2. \A i \in DOMAIN grown :
              Len(grown[i]) = d /\ grown[i] = SubSeq(more, from(i) + 1, to(i))
      BY <1>8, <1>9
    <2>3. <<>> = SubSeq(more, to(Len(grown)) + 1, Len(more))
      BY <1>8, <1>10
    <2>4. QED
      BY <2>1, <2>2, <2>3 DEF AsDrawn, from, to
  <1>12. QED
    BY <1>7, <1>8, <1>11 DEF grown, more, full

(* A row goes on. *)
LEMMA DigitsDrawn ==
    ASSUME NEW S, NEW d \in Nat \ {0}, NEW b \in Seq(Seq(S)), NEW r \in Seq(S),
           NEW w \in Seq(S), NEW s \in Seq(S), AsDrawn(b, r, w, d)
    PROVE  /\ AsDrawn(b, r \o s, w \o s, d)
           /\ w \o s \in Seq(S) /\ r \o s \in Seq(S)
           /\ Len(r \o s) = Len(r) + Len(s)
  <1> DEFINE to(i) == i * d
             n == Len(b)
             more == w \o s
             longer == r \o s
             z == to(n)
  <1>1. n \in Nat /\ Len(r) \in Nat /\ Len(w) \in Nat /\ Len(s) \in Nat /\ DOMAIN b = 1..n
    BY LenProperties
  <1>2. Len(w) = z + Len(r)
    BY DEF AsDrawn
  <1>3. r = SubSeq(w, z + 1, Len(w))
    BY DEF AsDrawn
  <1>4. \A i \in 1..n : Len(b[i]) = d /\ b[i] = SubSeq(w, (i - 1) * d + 1, i * d)
    BY <1>1 DEF AsDrawn
  <1>5. /\ z \in Nat
        /\ \A i \in 1..n : (i - 1) * d + 1 \in 1..z /\ i * d \in 1..z
    <2> DEFINE from(i) == (i - 1) * d
    <2>1. /\ to(n) \in Nat
          /\ \A i \in 1..n : from(i) \in Nat /\ to(i) = from(i) + d /\ to(i) <= to(n)
      BY <1>1, RowStarts
    <2> HIDE DEF from, to
    <2>2. ASSUME NEW i \in 1..n PROVE from(i) + 1 \in 1..z /\ to(i) \in 1..z
      <3> DEFINE low == from(i)
                 high == to(i)
      <3>1. z \in Nat /\ low \in Nat /\ high = low + d /\ high <= z
        BY <2>1
      <3> HIDE DEF low, high, z
      <3>2. low + 1 \in 1..z /\ high \in 1..z
        BY <3>1
      <3>3. QED
        BY <3>2 DEF low, high
    <2>3. QED
      BY <2>1, <2>2 DEF from, to
  <1>6. longer \in Seq(S) /\ Len(longer) = Len(r) + Len(s)
    BY ConcatProperties
  <1> HIDE DEF z
  <1>7. /\ more \in Seq(S)
        /\ Len(more) = Len(w) + Len(s)
        /\ SubSeq(more, z + 1, Len(w) + Len(s)) = longer
        /\ \A k \in 1..z, l \in 1..z : SubSeq(more, k, l) = SubSeq(w, k, l)
    <2>1. z \in 0..Len(w)
      BY <1>1, <1>2, <1>5
    <2>2. /\ more \in Seq(S)
          /\ Len(more) = Len(w) + Len(s)
          /\ SubSeq(more, z + 1, Len(w) + Len(s)) = SubSeq(w, z + 1, Len(w)) \o s
          /\ \A k \in 1..z, l \in 1..z : SubSeq(more, k, l) = SubSeq(w, k, l)
      <3>1. KeptUpTo(S, w, s, z)
        BY <2>1, Aligned
      <3>2. QED
        BY <3>1 DEF KeptUpTo
    <2> HIDE DEF more
    <2>3. QED
      BY <1>3, <2>2
  <1> HIDE DEF more, longer
  <1>8. AsDrawn(b, longer, more, d)
    <2>1. Len(more) = z + Len(longer)
      BY <1>1, <1>2, <1>5, <1>6, <1>7
    <2>2. ASSUME NEW i \in DOMAIN b
          PROVE  Len(b[i]) = d /\ b[i] = SubSeq(more, (i - 1) * d + 1, i * d)
      <3> DEFINE m == (i - 1) * d + 1
                 l == i * d
      <3>1. m \in 1..z /\ l \in 1..z /\ Len(b[i]) = d /\ b[i] = SubSeq(w, m, l)
        BY <1>1, <1>4, <1>5
      <3> HIDE DEF m, l
      <3>2. SubSeq(more, m, l) = SubSeq(w, m, l)
        BY <1>7, <3>1
      <3>3. QED
        BY <3>1, <3>2 DEF m, l
    <2>3. longer = SubSeq(more, z + 1, Len(more))
      BY <1>7
    <2>4. QED
      BY <2>1, <2>2, <2>3 DEF AsDrawn, z
  <1>9. QED
    BY <1>6, <1>7, <1>8 DEF more, longer

(* A code that keeps the graphic in order keeps everything. *)
LEMMA CodeStep ==
    ASSUME RasterInv, InGraphic, UNCHANGED <<stage, at, lines, pages, output>>,
           repeat' \in 0..RowDigits,
           row' \in Seq(0..15), Len(row') < RowDigits,
           bitmap' \in Seq(Seq(0..15)), Len(bitmap') <= Rows,
           drawn' \in Seq(0..15),
           AsDrawn(bitmap', row', drawn', RowDigits)
    PROVE  RasterInv'
  <1>a. TypeOK /\ StageInv /\ PageAt /\ PagesInv /\ OutputInv
    BY DEF RasterInv
  <1>1. stage = "parse" /\ at = 2 /\ Position("DG") = 2
    BY InCode
  <1>2. Total' = Total /\ RowBytes' = RowBytes /\ Rows' = Rows /\ RowDigits' = RowDigits
    BY DEF Total, RowBytes, Rows, RowDigits
  <1>3. GraphicInv' /\ DecodedAsDrawn'
    BY <1>2 DEF GraphicInv, DecodedAsDrawn, AsDrawn
  <1>4. TypeOK'
    <2>1. Total \in 1..MaxBitmap
      BY <1>1, <1>a DEF TypeOK
    <2>2. QED
      BY <1>2, <1>a, <2>1 DEF TypeOK
  <1>5. StageInv'
    BY <1>1, <1>a DEF StageInv
  <1>6. PageAt'
    BY <1>1, <1>2, <1>a, Positions DEF PageAt, ValidHeader
  <1>7. PagesInv' /\ OutputInv'
    BY <1>a DEF PagesInv, OutputInv
  <1>8. QED
    BY <1>3, <1>4, <1>5, <1>6, <1>7 DEF RasterInv

(* What is known while codes are read, of the digits. *)
LEMMA CodeDrawn ==
    ASSUME RasterInv, InGraphic
    PROVE  /\ bitmap \in Seq(Seq(0..15)) /\ row \in Seq(0..15) /\ drawn \in Seq(0..15)
           /\ RowDigits \in Nat \ {0}
           /\ AsDrawn(bitmap, row, drawn, RowDigits)
  <1>1. /\ GraphicInv /\ RowDigits \in Nat \ {0}
        /\ DecodedAsDrawn /\ at = 2 /\ Position("DG") = 2
    BY InCode
  <1>2. QED
    BY <1>1 DEF GraphicInv, DecodedAsDrawn, AsDrawn

(* A row is finished: what was begun of it and what the code stands for. *)
LEMMA RowStep ==
    ASSUME RasterInv, InGraphic, Len(bitmap) # Rows,
           NEW strokes \in Seq(0..15), Len(row) + Len(strokes) = RowDigits,
           bitmap' = Append(bitmap, row \o strokes), row' = <<>>, repeat' = 0,
           drawn' = drawn \o strokes,
           UNCHANGED <<stage, at, lines, pages, output>>
    PROVE  RasterInv'
  <1>1. /\ AsDrawn(bitmap', row', drawn', RowDigits)
        /\ bitmap' \in Seq(Seq(0..15)) /\ drawn' \in Seq(0..15)
        /\ Len(bitmap') = Len(bitmap) + 1
    BY CodeDrawn, RowDrawn
  <1>2. Len(bitmap') <= Rows /\ repeat' \in 0..RowDigits /\ RowDigits > 0
    <2> DEFINE m == Len(bitmap)
               l == Len(bitmap')
    <2>1. m \in Nat /\ Rows \in Nat /\ m <= Rows /\ m # Rows /\ l = m + 1
      BY <1>1, InCode
    <2> HIDE DEF m, l
    <2>2. l <= Rows
      BY <2>1
    <2>3. QED
      BY <2>2, InCode DEF l
  <1>3. row' \in Seq(0..15) /\ Len(row') < RowDigits
    BY <1>2, EmptySeq
  <1>4. QED
    BY <1>1, <1>2, <1>3, CodeStep

(* "FinishRow" refuses a row too many; else it adds the row at hand.         *)
LEMMA FinishStep ==
    ASSUME RasterInv, InGraphic, NEW digits, NEW fill, NEW strokes \in Seq(0..15),
           Len(row) + Len(strokes) = RowDigits,
           digits \o Times(fill, RowDigits - Len(digits)) = row \o strokes,
           FinishRow(digits, fill, strokes)
    PROVE  RasterInv'
  <1>1. CASE Len(bitmap) = Rows
    BY <1>1, RestartStep DEF FinishRow, Refuse
  <1>2. CASE Len(bitmap) # Rows
    BY <1>2, RowStep DEF FinishRow
  <1>3. QED
    BY <1>1, <1>2

LEMMA NoDigits == Times(0, 0) = <<>>
  <1>1. Times(0, 0) \in Seq(0..15) /\ Len(Times(0, 0)) = 0
    BY Run
  <1>2. QED
    BY <1>1, EmptySeq

LEMMA CountStep ==
    ASSUME RasterInv, NEW n \in Counts, Count(n)
    PROVE  RasterInv'
  <1>1. InGraphic
    BY DEF Count
  <1>2. CASE repeat + n > RowDigits
    BY <1>2, RestartStep DEF Count, Refuse
  <1>3. CASE ~(repeat + n > RowDigits)
    <2>1. n \in Nat
      BY RasterAssumption DEF Letters
    <2>2. /\ repeat' = repeat + n
          /\ UNCHANGED <<stage, at, lines, bitmap, row, drawn, pages, output>>
      BY <1>3 DEF Count
    <2>3. repeat' \in 0..RowDigits /\ Len(row) < RowDigits /\ Len(bitmap) <= Rows
      <3>1. /\ repeat \in 0..RowDigits /\ RowDigits \in Nat
            /\ Len(row) < RowDigits /\ Len(bitmap) <= Rows
        BY <1>1, InCode
      <3> HIDE DEF RowDigits, Rows
      <3>2. repeat + n \in 0..RowDigits
        BY <1>3, <2>1, <3>1
      <3>3. QED
        BY <2>2, <3>1, <3>2
    <2>4. UNCHANGED <<stage, at, lines, pages, output>>
      BY <2>2
    <2>5. /\ row' = row /\ bitmap' = bitmap /\ drawn' = drawn
          /\ RowDigits' = RowDigits
      BY <2>2 DEF RowDigits, RowBytes
    <2>6. /\ row' \in Seq(0..15) /\ bitmap' \in Seq(Seq(0..15)) /\ drawn' \in Seq(0..15)
          /\ AsDrawn(bitmap', row', drawn', RowDigits)
      BY <1>1, <2>5, CodeDrawn
    <2>7. Len(row') < RowDigits /\ Len(bitmap') <= Rows
      BY <2>3, <2>5
    <2>8. QED
      BY <1>1, <2>3, <2>4, <2>6, <2>7, CodeStep
  <1>4. QED
    BY <1>2, <1>3

LEMMA DigitStep ==
    ASSUME RasterInv, NEW digit \in Digits, Digit(digit)
    PROVE  RasterInv'
  <1> DEFINE run == Times(digit, IF repeat = 0 THEN 1 ELSE repeat)
             digits == row \o run
  <1>1. InGraphic /\ digit \in 0..15
    BY RasterAssumption DEF Digit
  <1>2. run \in Seq(0..15) /\ Len(run) \in Nat
    <2>1. (IF repeat = 0 THEN 1 ELSE repeat) \in Nat
      BY <1>1, InCode
    <2>2. QED
      BY <1>1, <2>1, Run
  <1> HIDE DEF run
  <1>3. /\ AsDrawn(bitmap, digits, drawn \o run, RowDigits)
        /\ drawn \o run \in Seq(0..15) /\ digits \in Seq(0..15)
        /\ Len(digits) = Len(row) + Len(run)
    BY <1>1, <1>2, CodeDrawn, DigitsDrawn
  <1>4. CASE Len(digits) > RowDigits /\ Refuse
    BY <1>4, RestartStep DEF Refuse
  <1>5. CASE Len(digits) = RowDigits /\ FinishRow(digits, 0, run)
    <2>1. RowDigits - Len(digits) = 0
      BY <1>1, <1>5, InCode
    <2>2. digits \o Times(0, RowDigits - Len(digits)) = digits
      BY <1>3, <2>1, NoDigits, ConcatEmptySeq
    <2>3. QED
      BY <1>1, <1>2, <1>3, <1>5, <2>2, FinishStep
  <1>6. CASE /\ Len(digits) < RowDigits
             /\ row' = digits
             /\ repeat' = 0
             /\ drawn' = drawn \o run
             /\ UNCHANGED <<stage, at, lines, bitmap, pages, output>>
    <2>1. repeat' \in 0..RowDigits /\ Len(bitmap) <= Rows
      BY <1>1, <1>6, InCode
    <2>2. QED
      BY <1>1, <1>3, <1>6, <2>1, CodeDrawn, CodeStep
  <1>7. QED
    BY <1>4, <1>5, <1>6 DEF Digit, run

LEMMA FillStep ==
    ASSUME RasterInv, NEW fill \in {0, 15}, Fill(fill)
    PROVE  RasterInv'
  <1>1. InGraphic
    BY DEF Fill
  <1>2. CASE repeat > 0
    BY <1>2, RestartStep DEF Fill, Refuse
  <1>3. CASE ~(repeat > 0)
    <2> DEFINE rest == RowDigits - Len(row)
               strokes == Times(fill, rest)
    <2>1. /\ RowDigits \in Nat \ {0} /\ Len(row) \in Nat /\ Len(row) < RowDigits
          /\ Len(bitmap) \in Nat /\ Len(drawn) = Len(bitmap) * RowDigits + Len(row)
      BY <1>1, InCode
    <2>2. Len(drawn) % RowDigits = Len(row)
      BY <2>1, RowStarts
    <2>3. rest \in Nat /\ fill \in 0..15
      BY <2>1
    <2>4. strokes \in Seq(0..15) /\ Len(strokes) = rest
      BY <2>3, Run
    <2>5. FinishRow(row, fill, strokes)
      BY <1>3, <2>2 DEF Fill
    <2> HIDE DEF strokes
    <2>6. row \o Times(fill, RowDigits - Len(row)) = row \o strokes
      BY DEF strokes
    <2>7. Len(row) + Len(strokes) = RowDigits
      BY <2>1, <2>4
    <2>8. QED
      BY <1>1, <2>4, <2>5, <2>6, <2>7, FinishStep
  <1>4. QED
    BY <1>2, <1>3

LEMMA RepeatStep ==
    ASSUME RasterInv, RepeatRow
    PROVE  RasterInv'
  <1>1. InGraphic
    BY DEF RepeatRow
  <1>2. CASE repeat > 0 \/ row # <<>> \/ bitmap = <<>>
    BY <1>2, RestartStep DEF RepeatRow, Refuse
  <1>3. CASE ~(repeat > 0 \/ row # <<>> \/ bitmap = <<>>)
    <2> DEFINE n == Len(bitmap)
               d == RowDigits
               to(i) == i * d
               above == Last(bitmap)
    <2>1. /\ d \in Nat \ {0} /\ n \in Nat /\ row = <<>> /\ Len(row) = 0
          /\ DOMAIN bitmap = 1..n
      BY <1>1, <1>3, InCode, EmptyIsSequence
    <2>2. n \in 1..n /\ above = bitmap[n]
      <3>1. n # 0
        BY <1>1, <1>3, CodeDrawn, EmptySeq
      <3>2. QED
        BY <2>1, <3>1 DEF Last
    <2>3. /\ Len(drawn) = to(n)
          /\ above \in Seq(0..15) /\ Len(above) = d
          /\ above = SubSeq(drawn, (n - 1) * d + 1, n * d)
      <3>1. AsDrawn(bitmap, row, drawn, d)
        BY <1>1, CodeDrawn
      <3>2. Len(drawn) = to(n) + 0 /\ to(n) \in Nat
        BY <2>1, <3>1, RowStarts DEF AsDrawn
      <3>3. Len(bitmap[n]) = d /\ bitmap[n] = SubSeq(drawn, (n - 1) * d + 1, n * d)
        BY <2>1, <2>2, <3>1 DEF AsDrawn
      <3>4. bitmap[n] \in Seq(0..15)
        BY <1>1, <2>2, CodeDrawn, ElementOfSeq
      <3> HIDE DEF to, above
      <3>5. QED
        BY <2>2, <3>2, <3>3, <3>4
    <2>4. Len(drawn) - d + 1 = (n - 1) * d + 1
      <3>1. n * d = (n - 1) * d + d /\ (n - 1) * d \in Nat
        BY <2>1, <2>2, RowStarts
      <3>2. QED
        BY <2>1, <2>3, <3>1
    <2>5. SubSeq(drawn, Len(drawn) - d + 1, Len(drawn)) = above
      BY <2>3, <2>4
    <2>6. FinishRow(above, 0, above)
      BY <1>3, <2>5 DEF RepeatRow
    <2> HIDE DEF above
    <2>7. above \o Times(0, d - Len(above)) = row \o above
      <3>1. d - Len(above) = 0
        BY <2>1, <2>3
      <3>2. QED
        BY <2>1, <2>3, <3>1, NoDigits, ConcatEmptySeq
    <2>8. Len(row) + Len(above) = d
      BY <2>1, <2>3
    <2>9. QED
      BY <1>1, <2>3, <2>6, <2>7, <2>8, FinishStep
  <1>4. QED
    BY <1>2, <1>3

-----------------------------------------------------------------------------
(* A page is kept only when it was read to its end. *)
LEMMA CloseStep ==
    ASSUME RasterInv, NEW more \in BOOLEAN, Close(more)
    PROVE  RasterInv'
  <1> DEFINE page == [lines |-> lines, bitmap |-> bitmap]
             all == Append(pages, page)
  <1>a. TypeOK /\ StageInv /\ PageAt /\ GraphicInv /\ PagesInv /\ OutputInv
    BY DEF RasterInv
  <1>1. CASE Refuse
    BY <1>1, RestartStep DEF Refuse
  <1>2. CASE ~Refuse
    <2>1. /\ stage = "parse" /\ ~(at < Position("XG"))
          /\ ~(more /\ Len(all) = MaxPages)
          /\ pages' = all /\ NewPage /\ UNCHANGED output
          /\ stage' = IF more THEN "parse" ELSE "write"
      BY <1>2 DEF Close, Parsing
    <2>2. at \in 0..17 /\ at >= 16
      BY <1>a, <2>1, Positions DEF TypeOK
    <2>3. GoodPage(page)
      <3>1. page.lines = lines /\ page.bitmap = bitmap
        OBVIOUS
      <3> HIDE DEF page
      <3>2. /\ "DG" \in DOMAIN lines /\ ValidHeader(Total, RowBytes)
            /\ Complete
            /\ "PO" \in DOMAIN lines /\ lines["PO"] = "I"
            /\ "PW" \in DOMAIN lines /\ ValidWidth(lines["PW"])
        BY <1>a, <2>2, Positions DEF PageAt
      <3>3. DOMAIN lines \subseteq ToSet(Lines)
        BY <1>a DEF TypeOK
      <3>4. /\ Len(bitmap) = Rows /\ Rows \in 1..MaxDots
            /\ lines["PW"] \in 1..MaxDots /\ RowBytes = (lines["PW"] + 7) \div 8
        BY <3>2 DEF Complete, ValidWidth
      <3>5. bitmap \in Seq(Seq(0..15)) /\ \A i \in DOMAIN bitmap : Len(bitmap[i]) = 2 * RowBytes
        BY <1>a DEF GraphicInv, RowDigits
      <3>6. QED
        BY <3>1, <3>2, <3>3, <3>4, <3>5 DEF GoodPage, Total, RowBytes, Rows
    <2> HIDE DEF page
    <2>4. /\ IsSequence(all) /\ Len(all) = Len(pages) + 1 /\ DOMAIN all = 1..(Len(pages) + 1)
          /\ \A i \in 1..Len(pages) : all[i] = pages[i]
          /\ all[Len(pages) + 1] = page
          /\ Len(pages) \in Nat /\ DOMAIN pages = 1..Len(pages)
      BY <1>a, SequenceTypes, Extended DEF PagesInv
    <2> HIDE DEF all
    <2>5. /\ PageAt' /\ GraphicInv' /\ DecodedAsDrawn'
          /\ at' \in 0..Len(Lines) /\ DOMAIN lines' \subseteq ToSet(Lines)
          /\ ~(at' >= Position("DG")) /\ at' = 0
      BY <2>1, FreshPage
    <2>6. PagesInv'
      <3>1. ASSUME NEW i \in DOMAIN all PROVE GoodPage(all[i])
        <4>1. CASE i \in 1..Len(pages)
          BY <1>a, <2>4, <4>1 DEF PagesInv
        <4>2. CASE i = Len(pages) + 1
          BY <2>3, <2>4, <4>2
        <4>3. QED
          BY <2>4, <4>1, <4>2
      <3>2. QED
        BY <2>1, <2>4, <3>1 DEF PagesInv
    <2>7. output = <<>> /\ output' = <<>> /\ Len(pages) < MaxPages
      BY <1>a, <2>1 DEF StageInv
    <2>8. OutputInv'
      BY <2>7, EmptyIsSequence DEF OutputInv
    <2>9. Len(pages') \in Nat /\ Len(pages') = Len(pages) + 1 /\ MaxPages \in Nat
      BY <2>1, <2>4, RasterAssumption
    <2>10. TypeOK'
      BY <2>1, <2>4, <2>5, <2>7, <2>9, EmptyIsSequence DEF TypeOK
    <2>11. StageInv'
      <3>1. more => Len(pages') # MaxPages
        BY <2>1
      <3>2. CASE more
        BY <2>1, <2>4, <2>5, <2>7, <2>9, <3>1, <3>2 DEF StageInv
      <3>3. CASE ~more
        BY <2>1, <2>4, <2>5, <2>7, <2>9, <3>3, EmptyIsSequence DEF StageInv
      <3>4. QED
        BY <3>2, <3>3
    <2>12. QED
      BY <2>5, <2>6, <2>8, <2>10, <2>11 DEF RasterInv
  <1>3. QED
    BY <1>1, <1>2

(* A page is written. *)
LEMMA WriteStep ==
    ASSUME RasterInv, Write
    PROVE  RasterInv'
  <1> DEFINE n == Len(output)
             page == pages[n + 1]
             all == Append(output, Written(page))
  <1>a. TypeOK /\ StageInv /\ PageAt /\ GraphicInv /\ DecodedAsDrawn /\ PagesInv /\ OutputInv
    BY DEF RasterInv
  <1>1. CASE Refuse
    BY <1>1, RestartStep DEF Refuse
  <1>2. CASE ~Refuse
    <2>1. /\ stage = "write" /\ ~StrayPixel(page.bitmap, page.lines["PW"])
          /\ output' = all
          /\ stage' = IF Len(all) = Len(pages) THEN "done" ELSE "write"
          /\ UNCHANGED <<text, pages>>
      BY <1>2 DEF Write
    <2>2. UNCHANGED <<at, lines, bitmap, row, repeat, drawn, pages>>
      BY <2>1 DEF text
    <2>3. Len(pages) \in Nat /\ n \in Nat /\ n < Len(pages) /\ DOMAIN output = 1..n
      BY <1>a, <2>1, SequenceTypes DEF StageInv, PagesInv, OutputInv
    <2>4. /\ IsSequence(all) /\ Len(all) = n + 1 /\ DOMAIN all = 1..(n + 1)
          /\ \A i \in 1..n : all[i] = output[i]
          /\ all[n + 1] = Written(page)
      BY <1>a, Extended DEF OutputInv
    <2> HIDE DEF all
    <2>5. OutputInv'
      <3>1. ASSUME NEW i \in DOMAIN all
            PROVE  /\ all[i] = Written(pages[i])
                   /\ ~StrayPixel(pages[i].bitmap, pages[i].lines["PW"])
        <4>1. CASE i \in 1..n
          BY <1>a, <2>3, <2>4, <4>1 DEF OutputInv
        <4>2. CASE i = n + 1
          BY <2>1, <2>4, <4>2
        <4>3. QED
          BY <2>3, <2>4, <4>1, <4>2
      <3>2. QED
        BY <2>1, <2>2, <2>4, <3>1 DEF OutputInv
    <2>6. Len(output') = n + 1 /\ Len(pages') = Len(pages)
      BY <2>1, <2>2, <2>4
    <2>7. at = 0 /\ ~(at >= Position("DG"))
      BY <1>a, <2>1, Positions DEF StageInv
    <2> HIDE DEF n, page
    <2>8. TypeOK'
      BY <1>a, <2>1, <2>2, <2>3, <2>6, <2>7 DEF TypeOK
    <2>9. StageInv'
      BY <2>1, <2>2, <2>3, <2>4, <2>6, <2>7 DEF StageInv
    <2>10. PageAt' /\ GraphicInv' /\ DecodedAsDrawn' /\ PagesInv'
      <3>1. PageAt'
        BY <1>a, <2>2, <2>7, Positions DEF PageAt
      <3>2. GraphicInv'
        BY <1>a, <2>2 DEF GraphicInv, RowDigits, RowBytes
      <3>3. DecodedAsDrawn'
        BY <2>2, <2>7 DEF DecodedAsDrawn
      <3>4. PagesInv'
        BY <1>a, <2>2 DEF PagesInv
      <3>5. QED
        BY <3>1, <3>2, <3>3, <3>4
    <2>11. QED
      BY <2>5, <2>8, <2>9, <2>10 DEF RasterInv
  <1>3. QED
    BY <1>1, <1>2

(* Every step keeps the invariant. *)
LEMMA RasterStep == RasterInv /\ [Next]_vars => RasterInv'
  <1> SUFFICES ASSUME RasterInv, [Next]_vars PROVE RasterInv'
    OBVIOUS
  <1>1. CASE Convert
    BY <1>1, RestartStep DEF Convert
  <1>2. CASE CopyPPD
    <2>1. CASE Refuse
      BY <2>1, RestartStep DEF Refuse
    <2>2. CASE stage = "copy" /\ stage' = "filter" /\ UNCHANGED <<text, pages, output>>
      BY <2>2, StageStep
    <2>3. QED
      BY <1>2, <2>1, <2>2 DEF CopyPPD
  <1>3. CASE Filter
    BY <1>3, RestartStep, StageStep DEF Filter, Refuse
  <1>4. ASSUME NEW command \in DOMAIN Values, NEW value \in Values[command], Line(command, value)
        PROVE  RasterInv'
    BY <1>4, RestartStep, LineStep DEF Line, Refuse
  <1>5. ASSUME NEW n \in Counts, Count(n) PROVE RasterInv'
    BY <1>5, CountStep
  <1>6. ASSUME NEW digit \in Digits, Digit(digit) PROVE RasterInv'
    BY <1>6, DigitStep
  <1>7. ASSUME NEW fill \in {0, 15}, Fill(fill) PROVE RasterInv'
    BY <1>7, FillStep
  <1>8. CASE RepeatRow
    BY <1>8, RepeatStep
  <1>9. ASSUME NEW more \in BOOLEAN, Close(more) PROVE RasterInv'
    BY <1>9, CloseStep
  <1>10. CASE Write
    BY <1>10, WriteStep
  <1>11. CASE UNCHANGED vars
    <2>1. stage' = stage /\ UNCHANGED <<text, pages, output>>
      BY <1>11 DEF vars, text
    <2>2. QED
      BY <2>1, StageStep
  <1>12. QED
    BY <1>1, <1>2, <1>3, <1>4, <1>5, <1>6, <1>7, <1>8, <1>9, <1>10, <1>11 DEF Next

LEMMA RasterCorrect == Spec => []RasterInv
  BY RasterInit, RasterStep, PTL DEF Spec

(* Every variable of the conversion keeps its type: the decoder stays within *)
(* the row and the bitmap the header declares, whatever codes come, the      *)
(* pages within their limit, and none is written that was not read.          *)
THEOREM TypeCorrect == Spec => []TypeOK
  <1>1. RasterInv => TypeOK
    BY DEF RasterInv
  <1>2. QED
    BY <1>1, RasterCorrect, PTL

(* The rows are the picture that the codes stand for, for every row width    *)
(* and every order of runs, fills and repetitions.                           *)
THEOREM DecodesAsDrawn == Spec => []DecodedAsDrawn
  <1>1. RasterInv => DecodedAsDrawn
    BY DEF RasterInv
  <1>2. QED
    BY <1>1, RasterCorrect, PTL

-----------------------------------------------------------------------------
(* What is written.  s is a sequence of the elements of A.                   *)
SequenceOf(s, A) == IsSequence(s) /\ ToSet(s) = A

LEMMA Joined ==
    ASSUME NEW s, NEW A, NEW t, NEW B, SequenceOf(s, A), SequenceOf(t, B)
    PROVE  /\ SequenceOf(s \o t, A \cup B)
           /\ Len(s) \in Nat /\ Len(t) \in Nat
           /\ Len(s \o t) = Len(s) + Len(t) /\ DOMAIN (s \o t) = 1..(Len(s) + Len(t))
           /\ \A i \in 1..Len(s) : (s \o t)[i] = s[i]
           /\ \A i \in 1..Len(t) : (s \o t)[Len(s) + i] = t[i]
  <1>1. PICK S : s \in Seq(S)
    BY DEF SequenceOf, IsSequence
  <1>2. PICK T : t \in Seq(T)
    BY DEF SequenceOf, IsSequence
  <1> DEFINE U == S \cup T
             st == s \o t
  <1>3. s \in Seq(U) /\ t \in Seq(U)
    BY <1>1, <1>2, SeqMonotonic
  <1> HIDE DEF U
  <1>4. Len(s) \in Nat /\ Len(t) \in Nat /\ DOMAIN s = 1..Len(s) /\ DOMAIN t = 1..Len(t)
    BY <1>3, LenProperties
  <1>5. /\ st \in Seq(U)
        /\ Len(st) = Len(s) + Len(t)
        /\ \A i \in 1..(Len(s) + Len(t)) :
               st[i] = IF i <= Len(s) THEN s[i] ELSE t[i - Len(s)]
    BY <1>3, ConcatProperties
  <1> HIDE DEF st
  <1>6. DOMAIN st = 1..(Len(s) + Len(t))
    BY <1>5, LenProperties
  <1>7. \A i \in 1..Len(s) : st[i] = s[i]
    BY <1>4, <1>5
  <1>8. ASSUME NEW i \in 1..Len(t) PROVE st[Len(s) + i] = t[i]
    <2>1. Len(s) + i \in 1..(Len(s) + Len(t)) /\ ~(Len(s) + i <= Len(s)) /\ (Len(s) + i) - Len(s) = i
      BY <1>4
    <2>2. QED
      BY <1>5, <2>1
  <1>9. ToSet(st) = A \cup B
    <2>1. A = {s[i] : i \in 1..Len(s)} /\ B = {t[i] : i \in 1..Len(t)}
      BY <1>4 DEF SequenceOf, ToSet
    <2>2. ToSet(st) = {st[i] : i \in 1..(Len(s) + Len(t))}
      BY <1>6 DEF ToSet
    <2>3. ASSUME NEW e \in A PROVE e \in ToSet(st)
      <3>1. PICK i \in 1..Len(s) : e = s[i]
        BY <2>1
      <3>2. i \in 1..(Len(s) + Len(t)) /\ e = st[i]
        BY <1>4, <1>7, <3>1
      <3>3. QED
        BY <2>2, <3>2
    <2>4. ASSUME NEW e \in B PROVE e \in ToSet(st)
      <3>1. PICK i \in 1..Len(t) : e = t[i]
        BY <2>1
      <3>2. Len(s) + i \in 1..(Len(s) + Len(t)) /\ e = st[Len(s) + i]
        BY <1>4, <1>8, <3>1
      <3>3. QED
        BY <2>2, <3>2
    <2>5. ASSUME NEW i \in 1..(Len(s) + Len(t)) PROVE st[i] \in A \cup B
      <3>1. CASE i <= Len(s)
        <4>1. i \in 1..Len(s)
          BY <1>4, <3>1
        <4>2. QED
          BY <1>7, <2>1, <4>1
      <3>2. CASE ~(i <= Len(s))
        <4>1. i - Len(s) \in 1..Len(t) /\ st[i] = t[i - Len(s)]
          BY <1>4, <1>5, <3>2
        <4>2. QED
          BY <2>1, <4>1
      <3>3. QED
        BY <3>1, <3>2
    <2>6. QED
      BY <2>2, <2>3, <2>4, <2>5
  <1>10. QED
    BY <1>4, <1>5, <1>6, <1>7, <1>8, <1>9 DEF st, SequenceOf, IsSequence

LEMMA One == \A e : SequenceOf(<<e>>, {e})
  <1>1. ASSUME NEW e PROVE SequenceOf(<<e>>, {e})
    <2>1. <<e>> \in Seq({e}) /\ DOMAIN <<e>> = 1..1 /\ <<e>>[1] = e
      OBVIOUS
    <2> DEFINE s == <<e>>
    <2> HIDE DEF s
    <2>2. s \in Seq({e}) /\ DOMAIN s = 1..1 /\ s[1] = e
      BY <2>1 DEF s
    <2>3. ToSet(s) = {e}
      BY <2>2 DEF ToSet
    <2>4. QED
      BY <2>2, <2>3 DEF s, SequenceOf, IsSequence
  <1>2. QED
    BY <1>1

LEMMA Two == \A e, f : SequenceOf(<<e, f>>, {e, f})
  <1>1. ASSUME NEW e, NEW f PROVE SequenceOf(<<e, f>>, {e, f})
    <2>1. <<e, f>> \in Seq({e, f}) /\ DOMAIN <<e, f>> = 1..2 /\ <<e, f>>[1] = e /\ <<e, f>>[2] = f
      OBVIOUS
    <2> DEFINE s == <<e, f>>
    <2> HIDE DEF s
    <2>2. s \in Seq({e, f}) /\ DOMAIN s = 1..2 /\ s[1] = e /\ s[2] = f
      BY <2>1 DEF s
    <2>3. ToSet(s) = {e, f}
      BY <2>2 DEF ToSet
    <2>4. QED
      BY <2>2, <2>3 DEF s, SequenceOf, IsSequence
  <1>2. QED
    BY <1>1

(* A function over 1..n is a sequence. *)
LEMMA Tabulated ==
    ASSUME NEW n \in Nat, NEW f, f = [i \in 1..n |-> f[i]]
    PROVE  /\ SequenceOf(f, {f[i] : i \in 1..n})
           /\ Len(f) = n /\ DOMAIN f = 1..n
           /\ f \in Seq({f[i] : i \in 1..n})
  <1> DEFINE S == {f[i] : i \in 1..n}
  <1>1. f \in [1..n -> S]
    OBVIOUS
  <1> HIDE DEF S
  <1>2. f \in Seq(S)
    BY <1>1, SeqDef
  <1>3. DOMAIN f = 1..n
    BY <1>1
  <1>4. Len(f) = n
    BY <1>2, <1>3, LenProperties
  <1>5. ToSet(f) = S
    BY <1>3 DEF ToSet, S
  <1>6. QED
    BY <1>2, <1>3, <1>4, <1>5 DEF S, SequenceOf, IsSequence

(* the lines of a page that are passed on, of some commands *)
KeptOf(page, commands) ==
    {<<c, page.lines[c]>> : c \in commands \cap DOMAIN page.lines}

LEMMA KeptIs ==
    ASSUME NEW page, NEW command
    PROVE  SequenceOf(Kept(page, command), KeptOf(page, {command}))
  <1>1. CASE command \in DOMAIN page.lines
    <2>1. Kept(page, command) = << <<command, page.lines[command]>> >>
      BY <1>1 DEF Kept
    <2>2. KeptOf(page, {command}) = {<<command, page.lines[command]>>}
      BY <1>1 DEF KeptOf
    <2>3. QED
      BY <2>1, <2>2, One
  <1>2. CASE command \notin DOMAIN page.lines
    <2>1. Kept(page, command) = <<>>
      BY <1>2 DEF Kept
    <2>2. KeptOf(page, {command}) = {}
      BY <1>2 DEF KeptOf
    <2>3. ToSet(<<>>) = {}
      BY EmptyIsSequence DEF ToSet
    <2>4. QED
      BY <2>1, <2>2, <2>3, EmptyIsSequence DEF SequenceOf
  <1>3. QED
    BY <1>1, <1>2

(* the lines that the conversion adds *)
Added(page) ==
    {<<"XA", "">>, <<"PO", "N">>, <<"LH", "">>, <<"LL", Len(page.bitmap)>>}

Before == {"SD", "PW", "PR", "MN", "LT", "MT", "MM", "TA", "JZ", "PQ"}

LEMMA OpeningIs ==
    ASSUME NEW page
    PROVE  SequenceOf(Opening(page), Added(page) \cup KeptOf(page, Before))
  <1> DEFINE K(c) == KeptOf(page, {c})
             turn == {<<"XA", "">>, <<"PO", "N">>}
             home == {<<"LH", "">>, <<"LL", Len(page.bitmap)>>}
             s1 == Kept(page, "SD") \o << <<"XA", "">>, <<"PO", "N">> >>
             s2 == s1 \o Kept(page, "PW")
             s3 == s2 \o Kept(page, "PR")
             s4 == s3 \o << <<"LH", "">>, <<"LL", Len(page.bitmap)>> >>
             s5 == s4 \o Kept(page, "MN")
             s6 == s5 \o Kept(page, "LT")
             s7 == s6 \o Kept(page, "MT")
             s8 == s7 \o Kept(page, "MM")
             s9 == s8 \o Kept(page, "TA")
             s10 == s9 \o Kept(page, "JZ")
             s11 == s10 \o Kept(page, "PQ")
             k1 == K("SD") \cup turn
             k2 == k1 \cup K("PW")
             k3 == k2 \cup K("PR")
             k4 == k3 \cup home
             k5 == k4 \cup K("MN")
             k6 == k5 \cup K("LT")
             k7 == k6 \cup K("MT")
             k8 == k7 \cup K("MM")
             k9 == k8 \cup K("TA")
             k10 == k9 \cup K("JZ")
             k11 == k10 \cup K("PQ")
  <1>0. \A c : SequenceOf(Kept(page, c), K(c))
    BY KeptIs
  <1>a. SequenceOf(<< <<"XA", "">>, <<"PO", "N">> >>, turn)
    BY Two
  <1>b. SequenceOf(<< <<"LH", "">>, <<"LL", Len(page.bitmap)>> >>, home)
    BY Two
  <1> HIDE DEF K, turn, home
  <1>1. SequenceOf(s1, k1)
    BY <1>0, <1>a, Joined
  <1> HIDE DEF s1, k1
  <1>2. SequenceOf(s2, k2)
    BY <1>0, <1>1, Joined
  <1> HIDE DEF s2, k2
  <1>3. SequenceOf(s3, k3)
    BY <1>0, <1>2, Joined
  <1> HIDE DEF s3, k3
  <1>4. SequenceOf(s4, k4)
    BY <1>b, <1>3, Joined
  <1> HIDE DEF s4, k4
  <1>5. SequenceOf(s5, k5)
    BY <1>0, <1>4, Joined
  <1> HIDE DEF s5, k5
  <1>6. SequenceOf(s6, k6)
    BY <1>0, <1>5, Joined
  <1> HIDE DEF s6, k6
  <1>7. SequenceOf(s7, k7)
    BY <1>0, <1>6, Joined
  <1> HIDE DEF s7, k7
  <1>8. SequenceOf(s8, k8)
    BY <1>0, <1>7, Joined
  <1> HIDE DEF s8, k8
  <1>9. SequenceOf(s9, k9)
    BY <1>0, <1>8, Joined
  <1> HIDE DEF s9, k9
  <1>10. SequenceOf(s10, k10)
    BY <1>0, <1>9, Joined
  <1> HIDE DEF s10, k10
  <1>11. SequenceOf(s11, k11)
    BY <1>0, <1>10, Joined
  <1> HIDE DEF s11, k11
  <1>12. Opening(page) = s11
    BY DEF Opening, s11, s10, s9, s8, s7, s6, s5, s4, s3, s2, s1
  <1>13. k11 = Added(page) \cup KeptOf(page, Before)
    <2>1. k11 = (turn \cup home) \cup UNION {K(c) : c \in Before}
      BY DEF k11, k10, k9, k8, k7, k6, k5, k4, k3, k2, k1, Before
    <2>2. turn \cup home = Added(page)
      BY DEF Added, turn, home
    <2>3. UNION {K(c) : c \in Before} = KeptOf(page, Before)
      BY DEF K, KeptOf
    <2>4. QED
      BY <2>1, <2>2, <2>3
  <1>14. QED
    BY <1>11, <1>12, <1>13

LEMMA ClosingIs ==
    ASSUME NEW page
    PROVE  SequenceOf(Closing(page), {<<"XZ", "">>} \cup KeptOf(page, {"CN"}))
  BY One, KeptIs, Joined DEF Closing

(* A picture of L rows is cut into fields of n, the last of what is left. *)
LEMMA Cuts ==
    ASSUME NEW L \in Nat \ {0}, NEW n \in Nat \ {0}
    PROVE  LET B == (L + n - 1) \div n
           IN /\ B \in Nat \ {0}
              /\ L <= B * n
              /\ \A i \in 1..B : /\ (i - 1) * n \in Nat /\ i * n = (i - 1) * n + n
                                 /\ (i - 1) * n < L
                                 /\ i < B => i * n < L
  <1> DEFINE B == (L + n - 1) \div n
             p == B * n
  <1>1. B \in Nat /\ p \in Nat /\ p <= L + n - 1 /\ L + n - 1 < p + n
    OBVIOUS
  <1>2. B # 0
    <2>1. B = 0 => p = 0
      OBVIOUS
    <2> HIDE DEF B, p
    <2>2. QED
      BY <1>1, <2>1
  <1>3. \A i \in 1..B : (i - 1) * n \in Nat /\ i * n = (i - 1) * n + n /\ i * n <= p
    <2> HIDE DEF B
    <2>1. QED
      BY <1>1, RowStarts
  <1>4. ASSUME NEW i \in 1..B
        PROVE  (i - 1) * n < L /\ (i < B => i * n < L)
    <2> HIDE DEF B, p
    <2>1. (i - 1) * n < L
      <3> DEFINE a == (i - 1) * n
                 b == i * n
      <3>1. a \in Nat /\ b = a + n /\ b <= p
        BY <1>3
      <3> HIDE DEF a, b
      <3>2. a < L
        BY <1>1, <3>1
      <3>3. QED
        BY <3>2 DEF a
    <2>2. ASSUME i < B PROVE i * n < L
      <3> DEFINE b == i * n
                 c == (i + 1) * n
      <3>1. i + 1 \in 1..B /\ (i + 1) - 1 = i
        BY <1>1, <2>2
      <3>2. b \in Nat /\ c = b + n /\ c <= p
        BY <1>3, <3>1
      <3> HIDE DEF b, c
      <3>3. b < L
        BY <1>1, <3>2
      <3>4. QED
        BY <3>3 DEF b
    <2>3. QED
      BY <2>1, <2>2
  <1>5. L <= p
    <2> HIDE DEF p
    <2>1. QED
      BY <1>1
  <1> HIDE DEF B
  <1>6. QED
    BY <1>1, <1>2, <1>3, <1>4, <1>5 DEF p, B

(* A field of as many rows as fit is within the limit. *)
LEMMA FullField ==
    ASSUME NEW rowBytes \in 1..MaxField
    PROVE  /\ RowsPerBand(rowBytes) \in Nat \ {0}
           /\ \A k \in 1..RowsPerBand(rowBytes) : k * rowBytes <= MaxField
  <1> DEFINE n == RowsPerBand(rowBytes)
  <1>1. MaxField \in Nat \ {0} /\ rowBytes \in Nat \ {0} /\ rowBytes <= MaxField
    BY RasterAssumption
  <1>2. n \in Nat /\ n * rowBytes <= MaxField /\ MaxField < n * rowBytes + rowBytes
    BY <1>1 DEF RowsPerBand
  <1> HIDE DEF n
  <1>3. n # 0
    BY <1>1, <1>2
  <1>4. ASSUME NEW k \in 1..n PROVE k * rowBytes <= MaxField
    <2>1. k * rowBytes <= n * rowBytes /\ k * rowBytes \in Nat /\ n * rowBytes \in Nat
      <3>1. k * rowBytes = (k - 1) * rowBytes + rowBytes /\ (k - 1) * rowBytes \in Nat
            /\ k * rowBytes <= n * rowBytes /\ n * rowBytes \in Nat
        BY <1>1, <1>2, RowStarts
      <3>2. QED
        BY <1>1, <3>1
    <2> DEFINE a == k * rowBytes
               b == n * rowBytes
    <2> HIDE DEF a, b
    <2>2. a \in Nat /\ b \in Nat /\ a <= b /\ b <= MaxField
      BY <1>2, <2>1 DEF a, b
    <2>3. a <= MaxField
      BY <1>1, <2>2
    <2>4. QED
      BY <2>3 DEF a
  <1>5. QED
    BY <1>2, <1>3, <1>4 DEF n

(* the picture that is cut: as many rows, each as long *)
Picture(rows, height, digits) ==
    /\ IsSequence(rows) /\ Len(rows) = height
    /\ \A i \in 1..height : IsSequence(rows[i]) /\ Len(rows[i]) = digits

LEMMA RotatedIs ==
    ASSUME NEW rows, NEW width, NEW height \in Nat \ {0}, NEW digits \in Nat,
           Picture(rows, height, digits)
    PROVE  Picture(Rotated(rows, width), height, digits)
  <1> DEFINE Bit(x, y) == IF x < width THEN Pixel(rows, width - 1 - x, Len(rows) - y) ELSE 0
             Byte(y, i) == 8 * Bit(4*i - 4, y) + 4 * Bit(4*i - 3, y)
                               + 2 * Bit(4*i - 2, y) + Bit(4*i - 1, y)
             turned == Rotated(rows, width)
  <1>1. DOMAIN rows = 1..height /\ DOMAIN rows[1] = 1..digits
    BY SequenceTypes DEF Picture
  <1>2. turned = [y \in 1..height |-> [i \in 1..digits |-> Byte(y, i)]]
    BY <1>1 DEF Rotated
  <1> HIDE DEF Byte, turned
  <1>3. turned = [y \in 1..height |-> turned[y]]
    BY <1>2
  <1>4. IsSequence(turned) /\ Len(turned) = height
    BY <1>3, Tabulated DEF SequenceOf
  <1>5. ASSUME NEW y \in 1..height
        PROVE  IsSequence(turned[y]) /\ Len(turned[y]) = digits
    <2> DEFINE f == turned[y]
    <2>1. f = [i \in 1..digits |-> Byte(y, i)]
      BY <1>2
    <2> HIDE DEF f
    <2>2. f = [i \in 1..digits |-> f[i]]
      BY <2>1
    <2>3. IsSequence(f) /\ Len(f) = digits
      BY <2>2, Tabulated DEF SequenceOf
    <2>4. QED
      BY <2>3 DEF f
  <1>6. QED
    BY <1>4, <1>5 DEF Picture, turned

(* The command is field i of n rows: where it is, and its rows those of the *)
(* picture.                                                                 *)
Carries(command, i, n, rows) ==
    LET field == command[2]
        top == (i - 1) * n
    IN /\ command[1] = "GF"
       /\ field.y = top
       /\ IsSequence(field.rows)
       /\ Len(field.rows) = (IF i * n < Len(rows) THEN n ELSE Len(rows) - top)
       /\ \A k \in 1..Len(field.rows) : field.rows[k] = rows[top + k]

LEMMA BandsAre ==
    ASSUME NEW rows, NEW height \in Nat \ {0}, NEW digits, Picture(rows, height, digits),
           NEW rowBytes \in 1..MaxField
    PROVE  LET n == RowsPerBand(rowBytes)
               all == Bands(rows, rowBytes)
               B == (height + n - 1) \div n
           IN /\ SequenceOf(all, {all[i] : i \in 1..B}) /\ Len(all) = B
              /\ \A i \in 1..B : Carries(all[i], i, n, rows)
  <1> DEFINE n == RowsPerBand(rowBytes)
             all == Bands(rows, rowBytes)
             B == (height + n - 1) \div n
             Piece(i) == SubSeq(rows, (i - 1) * n + 1, IF i * n < height THEN i * n ELSE height)
  <1>1. n \in Nat \ {0} /\ Len(rows) = height
    BY FullField DEF Picture
  <1>2. all = [i \in 1..B |-> <<"GF", [y |-> (i - 1) * n, rows |-> Piece(i)]>>]
    BY <1>1 DEF Bands
  <1> HIDE DEF n, all
  <1>3. /\ B \in Nat \ {0}
        /\ \A i \in 1..B : (i - 1) * n \in Nat /\ i * n = (i - 1) * n + n /\ (i - 1) * n < height
    BY <1>1, Cuts
  <1> HIDE DEF B
  <1>4. SequenceOf(all, {all[i] : i \in 1..B}) /\ Len(all) = B
    <2>1. all = [i \in 1..B |-> all[i]]
      BY <1>2
    <2>2. QED
      BY <1>3, <2>1, Tabulated
  <1>5. ASSUME NEW i \in 1..B PROVE Carries(all[i], i, n, rows)
    <2> DEFINE top == (i - 1) * n
               end == IF i * n < height THEN i * n ELSE height
               p == SubSeq(rows, top + 1, end)
    <2>1. top \in Nat /\ i * n = top + n /\ top < height
      BY <1>3
    <2>2. end \in Nat /\ top < end /\ end <= height
          /\ end - top = (IF i * n < height THEN n ELSE height - top)
      <3> DEFINE b == i * n
      <3> HIDE DEF top
      <3>1. b = top + n
        BY <2>1
      <3>2. end = (IF b < height THEN b ELSE height)
        OBVIOUS
      <3> HIDE DEF b, end
      <3>3. end \in Nat /\ top < end /\ end <= height
            /\ end - top = (IF b < height THEN n ELSE height - top)
        BY <1>1, <2>1, <3>1, <3>2
      <3>4. QED
        BY <3>3 DEF b
    <2>3. all[i] = <<"GF", [y |-> top, rows |-> p]>>
      BY <1>2
    <2> DEFINE S == {rows[j] : j \in 1..height}
    <2> HIDE DEF top, end, p
    <2>4. IsSequence(p) /\ Len(p) = end - top /\ \A k \in 1..(end - top) : p[k] = rows[top + k]
      <3>1. ASSUME NEW j \in top + 1..end PROVE rows[j] \in S
        <4>1. j \in 1..height
          BY <1>1, <2>1, <2>2
        <4>2. QED
          BY <4>1
      <3> HIDE DEF S
      <3>2. /\ p \in Seq(S)
            /\ Len(p) = IF top + 1 <= end THEN end - (top + 1) + 1 ELSE 0
            /\ \A k \in 1..(end - (top + 1) + 1) : p[k] = rows[(top + 1) + k - 1]
        BY <2>1, <2>2, <3>1, SubSeqProperties DEF p
      <3>3. /\ end - (top + 1) + 1 = end - top /\ top + 1 <= end
            /\ \A k \in 1..(end - top) : (top + 1) + k - 1 = top + k
        BY <2>1, <2>2
      <3>4. IsSequence(p) /\ Len(p) = end - top
        BY <3>2, <3>3 DEF IsSequence
      <3>5. ASSUME NEW k \in 1..(end - top) PROVE p[k] = rows[top + k]
        <4>1. k \in 1..(end - (top + 1) + 1) /\ (top + 1) + k - 1 = top + k
          BY <3>3
        <4>2. p[k] = rows[(top + 1) + k - 1]
          BY <3>2, <4>1
        <4>3. QED
          BY <4>1, <4>2
      <3>6. QED
        BY <3>4, <3>5
    <2>5. all[i][1] = "GF" /\ all[i][2].y = top /\ all[i][2].rows = p
      BY <2>3
    <2>6. Len(p) = (IF i * n < Len(rows) THEN n ELSE Len(rows) - top)
      BY <1>1, <2>2, <2>4
    <2>7. QED
      BY <2>4, <2>5, <2>6 DEF Carries, top
  <1>6. QED
    BY <1>4, <1>5 DEF n, all, B

-----------------------------------------------------------------------------
(* A picture as the pages that are kept have it. *)
LEMMA KeptPicture ==
    ASSUME NEW page, GoodPage(page)
    PROVE  /\ Len(page.bitmap) \in Nat \ {0}
           /\ page.lines["DG"][2] \in 1..MaxField /\ MaxField \in Nat
           /\ Picture(page.bitmap, Len(page.bitmap), 2 * page.lines["DG"][2])
           /\ \A i \in 1..Len(page.bitmap) : page.bitmap[i] \in Seq(0..15)
  <1> DEFINE rows == page.bitmap
             digits == 2 * page.lines["DG"][2]
  <1>1. /\ rows \in Seq(Seq(0..15)) /\ Len(rows) \in 1..MaxDots
        /\ \A i \in DOMAIN rows : Len(rows[i]) = digits
        /\ page.lines["DG"][2] \in 1..MaxField
    BY DEF GoodPage, ValidHeader
  <1> HIDE DEF rows, digits
  <1>2. DOMAIN rows = 1..Len(rows) /\ Len(rows) \in Nat \ {0}
    BY <1>1, LenProperties
  <1>3. \A i \in 1..Len(rows) : rows[i] \in Seq(0..15)
    BY <1>1, ElementOfSeq
  <1>4. IsSequence(rows) /\ \A i \in 1..Len(rows) : IsSequence(rows[i])
    BY <1>1, <1>3 DEF IsSequence
  <1>5. MaxField \in Nat
    BY RasterAssumption
  <1>6. QED
    BY <1>1, <1>2, <1>3, <1>4, <1>5 DEF Picture, rows, digits

(* What is written of a page: the fields, in order, between the other lines. *)
LEMMA WrittenIs ==
    ASSUME NEW page, GoodPage(page)
    PROVE  LET rows == Rotated(page.bitmap, page.lines["PW"])
               height == Len(page.bitmap)
               rowBytes == page.lines["DG"][2]
               n == RowsPerBand(rowBytes)
               B == (height + n - 1) \div n
               all == Written(page)
               first == Len(Opening(page))
           IN /\ Picture(rows, height, 2 * rowBytes)
              /\ first \in Nat
              /\ {k \in DOMAIN all : all[k][1] = "GF"} = first + 1 .. first + B
              /\ \A i \in 1..B : Carries(all[first + i], i, n, rows)
              /\ ToSet(all) = Added(page) \cup KeptOf(page, Before \cup {"CN"})
                                 \cup {<<"XZ", "">>} \cup {all[first + i] : i \in 1..B}
  <1> DEFINE rows == Rotated(page.bitmap, page.lines["PW"])
             height == Len(page.bitmap)
             rowBytes == page.lines["DG"][2]
             n == RowsPerBand(rowBytes)
             B == (height + n - 1) \div n
             fields == Bands(rows, rowBytes)
             opening == Opening(page)
             closing == Closing(page)
             o == Added(page) \cup KeptOf(page, Before)
             c == {<<"XZ", "">>} \cup KeptOf(page, {"CN"})
             f == {fields[i] : i \in 1..B}
             part == opening \o fields
             all == part \o closing
             first == Len(opening)
  <1>1. Picture(rows, height, 2 * rowBytes)
    BY KeptPicture, RotatedIs
  <1>2. /\ SequenceOf(fields, f) /\ Len(fields) = B
        /\ \A i \in 1..B : Carries(fields[i], i, n, rows)
    BY <1>1, KeptPicture, BandsAre
  <1>3. SequenceOf(opening, o) /\ SequenceOf(closing, c)
    BY OpeningIs, ClosingIs
  <1>4. (\A e \in o : e[1] # "GF") /\ (\A e \in c : e[1] # "GF")
    <2>1. \A e \in Added(page) : e[1] # "GF"
      <3>1. /\ <<"XA", "">>[1] = "XA" /\ <<"PO", "N">>[1] = "PO" /\ <<"LH", "">>[1] = "LH"
            /\ <<"LL", Len(page.bitmap)>>[1] = "LL"
        OBVIOUS
      <3>2. "GF" \notin {"XA", "PO", "LH", "LL"}
        OBVIOUS
      <3>3. QED
        BY <3>1, <3>2 DEF Added
    <2>2. \A d \in KeptOf(page, Before) \cup KeptOf(page, {"CN"}) : d[1] # "GF"
      <3>1. "GF" \notin Before \cup {"CN"}
        BY DEF Before
      <3>2. QED
        BY <3>1 DEF KeptOf
    <2>3. <<"XZ", "">>[1] # "GF"
      OBVIOUS
    <2>4. QED
      BY <2>1, <2>2, <2>3
  <1> HIDE DEF rows, height, rowBytes, n, B, fields, opening, closing, o, c, f
  <1>5. /\ SequenceOf(part, o \cup f)
        /\ first \in Nat /\ B \in Nat
        /\ Len(part) = first + B
        /\ \A i \in 1..first : part[i] = opening[i]
        /\ \A i \in 1..B : part[first + i] = fields[i]
    BY <1>2, <1>3, Joined
  <1> DEFINE last == Len(closing)
  <1> HIDE DEF part
  <1>6. /\ SequenceOf(all, (o \cup f) \cup c)
        /\ last \in Nat
        /\ DOMAIN all = 1..((first + B) + last)
        /\ \A i \in 1..(first + B) : all[i] = part[i]
        /\ \A i \in 1..last : all[(first + B) + i] = closing[i]
    BY <1>3, <1>5, Joined
  <1> HIDE DEF all
  <1>7. (\A i \in 1..first : opening[i] \in o) /\ (\A i \in 1..last : closing[i] \in c)
    BY <1>3, SequenceTypes DEF SequenceOf, ToSet
  <1> HIDE DEF first, last
  <1>8. \A i \in 1..B : all[first + i] = fields[i]
    <2> SUFFICES ASSUME NEW i \in 1..B
                 PROVE  all[first + i] = fields[i]
      OBVIOUS
    <2>1. first + i \in 1..(first + B)
      BY <1>5
    <2>2. all[first + i] = part[first + i]
      BY <1>6, <2>1
    <2>3. QED
      BY <1>5, <2>2
  <1>9. ASSUME NEW k \in DOMAIN all
        PROVE  all[k][1] = "GF" <=> k \in first + 1 .. first + B
    <2>1. CASE k \in 1..first
      <3>1. k \in 1..(first + B) /\ k \notin first + 1 .. first + B
        BY <1>5, <2>1
      <3>2. all[k] = opening[k]
        BY <1>5, <1>6, <2>1, <3>1
      <3>3. all[k] \in o
        BY <1>7, <2>1, <3>2
      <3>4. QED
        BY <1>4, <3>1, <3>3
    <2>2. CASE k \in first + 1 .. first + B
      <3>1. k - first \in 1..B /\ first + (k - first) = k
        BY <1>5, <2>2
      <3>2. all[k] = fields[k - first]
        BY <1>8, <3>1
      <3>3. QED
        BY <1>2, <2>2, <3>1, <3>2 DEF Carries
    <2>3. CASE k > first + B
      <3>1. k - (first + B) \in 1..last /\ (first + B) + (k - (first + B)) = k
        BY <1>5, <1>6, <2>3
      <3>2. all[k] \in c
        BY <1>6, <1>7, <3>1
      <3>3. QED
        BY <1>4, <1>5, <2>3, <3>2
    <2>4. QED
      BY <1>5, <1>6, <2>1, <2>2, <2>3
  <1>10. {k \in DOMAIN all : all[k][1] = "GF"} = first + 1 .. first + B
    <2>1. first + 1 .. first + B \subseteq DOMAIN all
      BY <1>5, <1>6
    <2>2. QED
      BY <1>9, <2>1
  <1>11. \A i \in 1..B : Carries(all[first + i], i, n, rows)
    BY <1>2, <1>8
  <1>12. f = {all[first + i] : i \in 1..B}
    BY <1>8 DEF f
  <1>13. ToSet(all) = (o \cup f) \cup c
    BY <1>6 DEF SequenceOf
  <1>14. o \cup c = Added(page) \cup KeptOf(page, Before \cup {"CN"}) \cup {<<"XZ", "">>}
    BY DEF o, c, KeptOf
  <1>15. ToSet(all) = Added(page) \cup KeptOf(page, Before \cup {"CN"})
                          \cup {<<"XZ", "">>} \cup {all[first + i] : i \in 1..B}
    BY <1>12, <1>13, <1>14
  <1>16. Written(page) = all
    BY DEF Written, all, part, opening, fields, closing, rows, rowBytes
  <1>17. QED
    BY <1>1, <1>5, <1>10, <1>11, <1>15, <1>16 DEF rows, height, rowBytes, n, B, opening, first

(* The fields of a page that is written are cut as ^GF wants them. *)
LEMMA WrittenIsCut ==
    ASSUME NEW page, GoodPage(page)
    PROVE  WellCut(Written(page), Len(page.bitmap))
  <1> DEFINE rows == Rotated(page.bitmap, page.lines["PW"])
             height == Len(page.bitmap)
             rowBytes == page.lines["DG"][2]
             n == RowsPerBand(rowBytes)
             B == (height + n - 1) \div n
             all == Written(page)
             first == Len(Opening(page))
             End(k) == all[k][2].y + Len(all[k][2].rows)
  <1>1. /\ Picture(rows, height, 2 * rowBytes)
        /\ first \in Nat
        /\ {k \in DOMAIN all : all[k][1] = "GF"} = first + 1 .. first + B
        /\ \A i \in 1..B : Carries(all[first + i], i, n, rows)
    BY WrittenIs
  <1>2. height \in Nat \ {0} /\ rowBytes \in 1..MaxField /\ MaxField \in Nat
    BY KeptPicture
  <1>3. n \in Nat \ {0} /\ \A k \in 1..n : k * rowBytes <= MaxField
    BY <1>2, FullField
  <1> HIDE DEF rows, height, rowBytes, n, all, first
  <1>4. /\ B \in Nat \ {0} /\ height <= B * n
        /\ \A i \in 1..B : /\ (i - 1) * n \in Nat /\ i * n = (i - 1) * n + n
                           /\ (i - 1) * n < height /\ (i < B => i * n < height)
    BY <1>2, <1>3, Cuts
  <1> HIDE DEF B
  <1>5. ASSUME NEW i \in 1..B
        PROVE  LET field == all[first + i][2]
               IN /\ field.y = (i - 1) * n
                  /\ Len(field.rows) \in 1..n
                  /\ Len(field.rows) * (Len(field.rows[1]) \div 2) <= MaxField
                  /\ i < B => End(first + i) = i * n
                  /\ i = B => End(first + i) = height
    <2> DEFINE field == all[first + i][2]
               top == (i - 1) * n
               next == i * n
    <2>1. /\ top \in Nat /\ next = top + n /\ top < height
          /\ i < B => next < height
          /\ i = B => height <= next
      BY <1>4
    <2>2. /\ field.y = top
          /\ Len(field.rows) = (IF next < height THEN n ELSE height - top)
          /\ \A k \in 1..Len(field.rows) : field.rows[k] = rows[top + k]
      BY <1>1 DEF Carries, Picture
    <2>3. End(first + i) = field.y + Len(field.rows)
      OBVIOUS
    <2> HIDE DEF field, top, next, End
    <2>4. Len(field.rows) \in 1..n
      BY <1>2, <1>3, <2>1, <2>2
    <2>5. /\ i < B => End(first + i) = next
          /\ i = B => End(first + i) = height
      BY <1>2, <1>3, <2>1, <2>2, <2>3
    <2>6. Len(field.rows) * (Len(field.rows[1]) \div 2) <= MaxField
      <3>1. 1 \in 1..Len(field.rows) /\ top + 1 \in 1..height
        BY <1>2, <1>3, <2>1, <2>4
      <3>2. Len(field.rows[1]) = 2 * rowBytes
        BY <1>1, <2>2, <3>1 DEF Picture
      <3>3. (2 * rowBytes) \div 2 = rowBytes
        BY <1>2
      <3>4. QED
        BY <1>3, <2>4, <3>2, <3>3
    <2>7. QED
      BY <2>2, <2>4, <2>5, <2>6 DEF field, top, next
  <1> HIDE DEF End
  <1> DEFINE fields == first + 1 .. first + B
             last == first + B
  <1>6. first + 1 \in fields /\ last \in fields
    BY <1>1, <1>4
  <1>7. all[first + 1][2].y = 0 /\ End(last) = height
    <2>1. 1 \in 1..B /\ B \in 1..B /\ (1 - 1) * n = 0
      BY <1>3, <1>4
    <2>2. QED
      BY <1>5, <2>1
  <1>8. ASSUME NEW k \in fields
        PROVE  /\ Len(all[k][2].rows) > 0
               /\ Len(all[k][2].rows) * (Len(all[k][2].rows[1]) \div 2) <= MaxField
               /\ k # last => all[k + 1][2].y = End(k)
    <2> DEFINE i == k - first
    <2>1. i \in 1..B /\ first + i = k
      BY <1>1, <1>4
    <2>2. ASSUME k # last PROVE all[k + 1][2].y = End(k)
      <3>1. i < B /\ i + 1 \in 1..B /\ first + (i + 1) = k + 1 /\ (i + 1) - 1 = i
        BY <1>1, <1>4, <2>1, <2>2
      <3> HIDE DEF i
      <3>2. all[first + (i + 1)][2].y = ((i + 1) - 1) * n
        BY <1>5, <3>1
      <3>3. End(first + i) = i * n
        BY <1>5, <2>1, <3>1
      <3>4. QED
        BY <2>1, <3>1, <3>2, <3>3
    <2> HIDE DEF i
    <2>3. Len(all[k][2].rows) \in 1..n
          /\ Len(all[k][2].rows) * (Len(all[k][2].rows[1]) \div 2) <= MaxField
      BY <1>5, <2>1
    <2>4. Len(all[k][2].rows) > 0
      BY <1>3, <2>3
    <2>5. QED
      BY <2>2, <2>3, <2>4
  <1>9. QED
    BY <1>1, <1>6, <1>7, <1>8 DEF WellCut, End, height, all

(* Every field is one that ^GF takes, none is empty, and together they are   *)
(* the page from its first row to its last, for every row width and limit    *)
(* (src/zpl_document.go:465-478).                                            *)
THEOREM FieldsAreCut == Spec => []FieldsFit
  <1>1. RasterInv => FieldsFit
    <2> SUFFICES ASSUME RasterInv, NEW i \in DOMAIN output
                 PROVE  WellCut(output[i], Len(pages[i].bitmap))
      BY DEF FieldsFit
    <2>1. i \in DOMAIN pages /\ output[i] = Written(pages[i])
      <3>1. Len(output) <= Len(pages)
        BY DEF RasterInv, TypeOK
      <3>2. QED
        BY <3>1, SequenceTypes DEF RasterInv, PagesInv, OutputInv
    <2>2. GoodPage(pages[i])
      BY <2>1 DEF RasterInv, PagesInv
    <2>3. QED
      BY <2>1, <2>2, WrittenIsCut
  <1>2. QED
    BY <1>1, RasterCorrect, PTL

-----------------------------------------------------------------------------
(* The bits of a digit. *)
LEMMA Bits ==
    ASSUME NEW a \in 0..1, NEW b \in 0..1, NEW c \in 0..1, NEW d \in 0..1
    PROVE  LET v == 8 * a + 4 * b + 2 * c + d
           IN /\ (v \div Weight[1]) % 2 = a
              /\ (v \div Weight[2]) % 2 = b
              /\ (v \div Weight[3]) % 2 = c
              /\ (v \div Weight[4]) % 2 = d
  <1>1. Weight[1] = 8 /\ Weight[2] = 4 /\ Weight[3] = 2 /\ Weight[4] = 1
    BY DEF Weight
  <1> DEFINE v == 8 * a + 4 * b + 2 * c + d
  <1>2. v \div 8 = a /\ v \div 4 = 2 * a + b /\ v \div 2 = 4 * a + 2 * b + c /\ v \div 1 = v
    OBVIOUS
  <1>3. /\ a % 2 = a /\ (2 * a + b) % 2 = b /\ (4 * a + 2 * b + c) % 2 = c
        /\ (8 * a + 4 * b + 2 * c + d) % 2 = d
    OBVIOUS
  <1>4. QED
    BY <1>1, <1>2, <1>3

(* a picture of digits *)
Drawing(rows, height, digits) ==
    Picture(rows, height, digits) /\ \A i \in 1..height : rows[i] \in Seq(0..15)

LEMMA PixelIsBit ==
    ASSUME NEW rows, NEW height \in Nat \ {0}, NEW digits \in Nat,
           Drawing(rows, height, digits),
           NEW x \in 0 .. 4 * digits - 1, NEW y \in 0 .. height - 1
    PROVE  Pixel(rows, x, y) \in 0..1
  <1>1. (x \div 4) + 1 \in 1..digits /\ (x % 4) + 1 \in 1..4 /\ y + 1 \in 1..height
    OBVIOUS
  <1> DEFINE digit == rows[y + 1][x \div 4 + 1]
             weight == Weight[(x % 4) + 1]
  <1>2. digit \in 0..15
    <2>1. rows[y + 1] \in Seq(0..15) /\ Len(rows[y + 1]) = digits
      BY <1>1 DEF Drawing, Picture
    <2>2. QED
      BY <1>1, <2>1, ElementOfSeq
  <1>3. weight \in {1, 2, 4, 8}
    <2>1. \A k \in 1..4 : Weight[k] \in {1, 2, 4, 8}
      BY DEF Weight
    <2>2. QED
      BY <1>1, <2>1
  <1>4. Pixel(rows, x, y) = (digit \div weight) % 2
    BY DEF Pixel
  <1> HIDE DEF digit, weight
  <1>5. digit \div weight \in Nat
    BY <1>2, <1>3
  <1> DEFINE q == digit \div weight
  <1> HIDE DEF q
  <1>6. q % 2 \in 0..1
    BY <1>5 DEF q
  <1>7. QED
    BY <1>4, <1>6 DEF q

(* The rotated picture shows each dot of the original at the opposite side   *)
(* of the width, and nothing beyond it.                                      *)
LEMMA TurnedPixel ==
    ASSUME NEW rows, NEW height \in Nat \ {0}, NEW digits \in Nat,
           Drawing(rows, height, digits),
           NEW width \in Nat, width <= 4 * digits,
           NEW x \in 0 .. 4 * digits - 1, NEW y \in 0 .. height - 1
    PROVE  Pixel(Rotated(rows, width), x, y) =
               IF x < width THEN Pixel(rows, width - 1 - x, height - 1 - y) ELSE 0
  <1> DEFINE Bit(u, v) == IF u < width THEN Pixel(rows, width - 1 - u, Len(rows) - v) ELSE 0
             Value(v, i) == 8 * Bit(4*i - 4, v) + 4 * Bit(4*i - 3, v)
                                + 2 * Bit(4*i - 2, v) + Bit(4*i - 1, v)
             turned == Rotated(rows, width)
             q == x \div 4
             r == x % 4
  <1>1. q \in 0 .. digits - 1 /\ r \in 0..3 /\ x = 4 * q + r
    OBVIOUS
  <1>2. Len(rows) = height /\ DOMAIN rows = 1..height /\ DOMAIN rows[1] = 1..digits
    BY SequenceTypes DEF Drawing, Picture
  <1>3. turned = [v \in 1..height |-> [i \in 1..digits |-> Value(v, i)]]
    BY <1>2 DEF Rotated
  <1>4. ASSUME NEW u \in Nat, u < 4 * digits PROVE Bit(u, y + 1) \in 0..1
    <2>1. CASE u < width
      <3>1. width - 1 - u \in 0 .. 4 * digits - 1
        BY <1>4, <2>1
      <3>2. Len(rows) - (y + 1) \in 0 .. height - 1
        BY <1>2
      <3>3. Pixel(rows, width - 1 - u, Len(rows) - (y + 1)) \in 0..1
        BY <3>1, <3>2, PixelIsBit
      <3>4. QED
        BY <2>1, <3>3
    <2>2. CASE ~(u < width)
      BY <2>2
    <2>3. QED
      BY <2>1, <2>2
  <1>5. Bit(x, y + 1) = IF x < width THEN Pixel(rows, width - 1 - x, height - 1 - y) ELSE 0
    <2>1. Len(rows) - (y + 1) = height - 1 - y
      BY <1>2
    <2>2. QED
      BY <2>1
  <1> HIDE DEF Bit
  <1>6. turned[y + 1][q + 1] = 8 * Bit(4 * q, y + 1) + 4 * Bit(4 * q + 1, y + 1)
                                   + 2 * Bit(4 * q + 2, y + 1) + Bit(4 * q + 3, y + 1)
    <2> HIDE DEF Value
    <2>1. y + 1 \in 1..height /\ q + 1 \in 1..digits
      BY <1>1
    <2> HIDE DEF turned, q
    <2>2. turned[y + 1][q + 1] = Value(y + 1, q + 1)
      BY <1>3, <2>1
    <2>3. /\ 4 * (q + 1) - 4 = 4 * q /\ 4 * (q + 1) - 3 = 4 * q + 1
          /\ 4 * (q + 1) - 2 = 4 * q + 2 /\ 4 * (q + 1) - 1 = 4 * q + 3
      BY <1>1
    <2>4. QED
      BY <2>2, <2>3 DEF Value
  <1>7. /\ Bit(4 * q, y + 1) \in 0..1 /\ Bit(4 * q + 1, y + 1) \in 0..1
        /\ Bit(4 * q + 2, y + 1) \in 0..1 /\ Bit(4 * q + 3, y + 1) \in 0..1
    BY <1>1, <1>4
  <1>8. Pixel(turned, x, y) = (turned[y + 1][q + 1] \div Weight[r + 1]) % 2
    BY DEF Pixel
  <1> HIDE DEF turned, q, r
  <1>9. Pixel(turned, x, y) = Bit(4 * q + r, y + 1)
    <2> DEFINE a == Bit(4 * q, y + 1)
               b == Bit(4 * q + 1, y + 1)
               c == Bit(4 * q + 2, y + 1)
               d == Bit(4 * q + 3, y + 1)
               v == 8 * a + 4 * b + 2 * c + d
    <2>1. a \in 0..1 /\ b \in 0..1 /\ c \in 0..1 /\ d \in 0..1
      BY <1>7
    <2>2. turned[y + 1][q + 1] = v
      BY <1>6
    <2>3. r \in {0, 1, 2, 3}
      BY <1>1
    <2>4. 4 * q + 0 = 4 * q
      BY <1>1
    <2> HIDE DEF a, b, c, d
    <2>5. /\ (v \div Weight[1]) % 2 = a /\ (v \div Weight[2]) % 2 = b
          /\ (v \div Weight[3]) % 2 = c /\ (v \div Weight[4]) % 2 = d
      BY <2>1, Bits
    <2> HIDE DEF v
    <2>6. CASE r = 0
      BY <1>8, <2>2, <2>4, <2>5, <2>6 DEF a
    <2>7. CASE r = 1
      BY <1>8, <2>2, <2>5, <2>7 DEF b
    <2>8. CASE r = 2
      BY <1>8, <2>2, <2>5, <2>8 DEF c
    <2>9. CASE r = 3
      BY <1>8, <2>2, <2>5, <2>9 DEF d
    <2>10. QED
      BY <2>3, <2>6, <2>7, <2>8, <2>9
  <1>10. QED
    BY <1>1, <1>5, <1>9 DEF turned

LEMMA Coordinates ==
    ASSUME NEW A, NEW B, NEW d \in A \X B
    PROVE  d[1] \in A /\ d[2] \in B
  OBVIOUS

(* the dots of a picture *)
Burnt(rows, height, digits) ==
    {d \in (0 .. 4 * digits - 1) \X (0 .. height - 1) : Pixel(rows, d[1], d[2]) = 1}

LEMMA WholeDots ==
    ASSUME NEW rows, NEW height \in Nat \ {0}, NEW digits \in Nat, Picture(rows, height, digits)
    PROVE  Dots([y |-> 0, rows |-> rows]) = Burnt(rows, height, digits)
  <1> DEFINE field == [y |-> 0, rows |-> rows]
  <1>1. field.y = 0 /\ field.rows = rows /\ Len(rows) = height /\ Len(rows[1]) = digits
    BY DEF Picture
  <1> HIDE DEF field
  <1> DEFINE places == (0 .. 4 * digits - 1) \X (0 .. height - 1)
  <1>2. 0 + height - 1 = height - 1
    OBVIOUS
  <1>3. Dots(field) = {d \in places : Pixel(rows, d[1], d[2] - 0) = 1}
    BY <1>1, <1>2 DEF Dots
  <1>4. \A d \in places : d[2] - 0 = d[2]
    OBVIOUS
  <1> HIDE DEF places
  <1>5. \A d \in places : Pixel(rows, d[1], d[2] - 0) = Pixel(rows, d[1], d[2])
    BY <1>4
  <1>6. Dots(field) = {d \in places : Pixel(rows, d[1], d[2]) = 1}
    BY <1>3, <1>5
  <1>7. QED
    BY <1>6 DEF field, Burnt, places

(* the dots from one row to before another *)
Strip(dots, top, next) == {d \in dots : top <= d[2] /\ d[2] < next}

(* A field burns the dots of its own rows. *)
LEMMA FieldDots ==
    ASSUME NEW rows, NEW height \in Nat \ {0}, NEW digits \in Nat, Picture(rows, height, digits),
           NEW n \in Nat \ {0}, NEW i \in Nat, (i - 1) * n \in Nat, (i - 1) * n < height,
           i * n = (i - 1) * n + n,
           NEW command, Carries(command, i, n, rows)
    PROVE  Dots(command[2]) = Strip(Burnt(rows, height, digits), (i - 1) * n, i * n)
  <1> DEFINE field == command[2]
             top == (i - 1) * n
             next == i * n
             long == Len(field.rows)
             shown == Strip(Burnt(rows, height, digits), top, next)
  <1>1. /\ top \in Nat /\ top < height /\ next = top + n
        /\ Len(rows) = height
    BY DEF Picture
  <1>2. /\ field.y = top
        /\ long = (IF next < height THEN n ELSE height - top)
        /\ \A k \in 1..long : field.rows[k] = rows[top + k]
    BY <1>1 DEF Carries
  <1> HIDE DEF field, top, next, long
  <1>3. long \in Nat \ {0} /\ top + long <= height
        /\ \A y \in 0 .. height - 1 : top <= y /\ y < next <=> y \in top .. top + long - 1
    <2>1. CASE next < height
      <3>1. long = n
        BY <1>2, <2>1
      <3>2. QED
        BY <1>1, <2>1, <3>1
    <2>2. CASE ~(next < height)
      <3>1. long = height - top
        BY <1>2, <2>2
      <3>2. QED
        BY <1>1, <2>2, <3>1
    <2>3. QED
      BY <2>1, <2>2
  <1>4. Len(field.rows[1]) = digits
    <2>1. 1 \in 1..long /\ top + 1 \in 1..height
      BY <1>1, <1>3
    <2>2. QED
      BY <1>2, <2>1 DEF Picture
  <1> DEFINE places == (0 .. 4 * digits - 1) \X (top .. top + long - 1)
             whole == (0 .. 4 * digits - 1) \X (0 .. height - 1)
  <1>5. Dots(field) = {d \in places : Pixel(field.rows, d[1], d[2] - top) = 1}
    BY <1>2, <1>4 DEF Dots, long
  <1>6. ASSUME NEW d \in places
        PROVE  Pixel(field.rows, d[1], d[2] - top) = Pixel(rows, d[1], d[2])
    <2>1. d[2] \in top .. top + long - 1
      BY <1>6, Coordinates
    <2> HIDE DEF places
    <2>2. (d[2] - top) + 1 \in 1..long /\ top + ((d[2] - top) + 1) = d[2] + 1
      <3> DEFINE y == d[2]
      <3>1. y \in top .. top + long - 1 /\ top \in Nat /\ long \in Nat
        BY <1>1, <1>3, <2>1
      <3> HIDE DEF y
      <3>2. (y - top) + 1 \in 1..long /\ top + ((y - top) + 1) = y + 1
        BY <3>1
      <3>3. QED
        BY <3>2 DEF y
    <2>3. field.rows[(d[2] - top) + 1] = rows[d[2] + 1]
      BY <1>2, <2>2
    <2>4. QED
      BY <2>3 DEF Pixel
  <1>7. \A d : d \in places <=> d \in whole /\ top <= d[2] /\ d[2] < next
    <2>1. \A y : y \in top .. top + long - 1 <=> y \in 0 .. height - 1 /\ top <= y /\ y < next
      <3>1. top .. top + long - 1 \subseteq 0 .. height - 1
        BY <1>1, <1>3
      <3>2. QED
        BY <1>3, <3>1
    <2>2. QED
      BY <2>1
  <1>8. shown = {d \in whole : Pixel(rows, d[1], d[2]) = 1 /\ top <= d[2] /\ d[2] < next}
    BY DEF Burnt, Strip
  <1> HIDE DEF places, whole, shown
  <1>9. Dots(field) = shown
    <2>1. \A d : d \in Dots(field) <=> d \in places /\ Pixel(rows, d[1], d[2]) = 1
      BY <1>5, <1>6
    <2>2. \A d : d \in shown <=> d \in places /\ Pixel(rows, d[1], d[2]) = 1
      BY <1>7, <1>8
    <2>3. QED
      BY <1>5, <1>8, <2>1, <2>2
  <1>10. QED
    BY <1>9 DEF field, shown, top, next

(* field[1] to field[B] are all the fields of the picture *)
Covered(rows, height, n, field, B) ==
    B = (height + n - 1) \div n /\ \A i \in 1..B : Carries(field[i], i, n, rows)

(* The fields together burn the picture. *)
LEMMA AllDots ==
    ASSUME NEW rows, NEW height \in Nat \ {0}, NEW digits \in Nat, Picture(rows, height, digits),
           NEW n \in Nat \ {0}, NEW field, NEW B, Covered(rows, height, n, field, B)
    PROVE  UNION {Dots(field[i][2]) : i \in 1..B} = Burnt(rows, height, digits)
  <1>a. B = (height + n - 1) \div n
    BY DEF Covered
  <1>b. \A i \in 1..B : Carries(field[i], i, n, rows)
    BY DEF Covered
  <1>1. /\ B \in Nat \ {0} /\ height <= B * n
        /\ \A i \in 1..B : (i - 1) * n \in Nat /\ i * n = (i - 1) * n + n /\ (i - 1) * n < height
    BY <1>a, Cuts
  <1> DEFINE Shown(i) == Strip(Burnt(rows, height, digits), (i - 1) * n, i * n)
  <1>2. ASSUME NEW i \in 1..B PROVE Dots(field[i][2]) = Shown(i)
    <2>1. /\ i \in Nat /\ (i - 1) * n \in Nat /\ (i - 1) * n < height
          /\ i * n = (i - 1) * n + n /\ Carries(field[i], i, n, rows)
      BY <1>b, <1>1
    <2>2. QED
      BY <2>1, FieldDots
  <1>3. ASSUME NEW d \in Burnt(rows, height, digits)
        PROVE  \E i \in 1..B : d \in Shown(i)
    <2> DEFINE y == d[2]
               q == y \div n
               a == q * n
               b == (q + 1) * n
               e == B * n
    <2>1. y \in 0 .. height - 1
      BY DEF Burnt
    <2> HIDE DEF y
    <2>2. q \in Nat /\ a \in Nat /\ a <= y /\ y < a + n
      BY <2>1
    <2> HIDE DEF q
    <2>3. b = a + n
      BY <2>2
    <2>4. q + 1 \in 1..B
      <3>1. SUFFICES ASSUME q >= B PROVE FALSE
        BY <1>1, <2>2
      <3>2. e <= a
        <4>1. CASE B = q
          BY <2>2, <4>1
        <4>2. CASE B # q
          <5>1. B \in 1..q
            BY <1>1, <2>2, <3>1
          <5>2. QED
            BY <2>2, <5>1, RowStarts
        <4>3. QED
          BY <4>1, <4>2
      <3>3. height <= e /\ e \in Nat
        BY <1>1
      <3> HIDE DEF a, e
      <3>4. QED
        BY <2>1, <2>2, <3>2, <3>3
    <2>5. ((q + 1) - 1) * n = a
      <3>1. (q + 1) - 1 = q
        BY <2>2
      <3>2. QED
        BY <3>1
    <2> HIDE DEF a, b
    <2>6. a <= y /\ y < b
      BY <2>1, <2>2, <2>3
    <2>7. d \in Shown(q + 1)
      BY <2>5, <2>6 DEF y, b, Strip
    <2>8. QED
      BY <2>4, <2>7
  <1>4. \A i \in 1..B : Shown(i) \subseteq Burnt(rows, height, digits)
    BY DEF Strip
  <1> HIDE DEF Shown
  <1>5. QED
    BY <1>2, <1>3, <1>4

(* what an inverted label of this size makes of dots *)
Mirrored(dots, width, height) ==
    {<<width - 1 - d[1], height - 1 - d[2]>> : d \in dots}

(* Turned over, the picture is the original as the inverted label shows it. *)
LEMMA Inverted ==
    ASSUME NEW rows, NEW height \in Nat \ {0}, NEW digits \in Nat, Drawing(rows, height, digits),
           NEW width \in Nat, width <= 4 * digits, ~StrayPixel(rows, width)
    PROVE  Burnt(Rotated(rows, width), height, digits) =
               Mirrored(Burnt(rows, height, digits), width, height)
  <1>0. \A x \in 0 .. 4 * digits - 1, y \in 0 .. height - 1 :
            Pixel(Rotated(rows, width), x, y) =
                IF x < width THEN Pixel(rows, width - 1 - x, height - 1 - y) ELSE 0
    BY TurnedPixel
  <1> DEFINE turned == Burnt(Rotated(rows, width), height, digits)
             plain == Burnt(rows, height, digits)
             mirrored == {<<width - 1 - d[1], height - 1 - d[2]>> : d \in plain}
  <1>1. Len(rows) = height /\ Len(rows[1]) = digits
    BY DEF Drawing, Picture
  <1>2. ASSUME NEW d \in turned PROVE d \in mirrored
    <2>1. PICK x \in 0 .. 4 * digits - 1, y \in 0 .. height - 1 :
              d = <<x, y>> /\ Pixel(Rotated(rows, width), x, y) = 1
      BY <1>2 DEF Burnt
    <2>2. x < width /\ Pixel(rows, width - 1 - x, height - 1 - y) = 1
      <3>1. Pixel(Rotated(rows, width), x, y) =
                IF x < width THEN Pixel(rows, width - 1 - x, height - 1 - y) ELSE 0
        BY <1>0
      <3>2. QED
        BY <2>1, <3>1
    <2> DEFINE u == width - 1 - x
               v == height - 1 - y
    <2>3. u \in 0 .. 4 * digits - 1 /\ v \in 0 .. height - 1
          /\ x = width - 1 - u /\ y = height - 1 - v
      BY <2>2
    <2> HIDE DEF u, v
    <2>4. <<u, v>> \in plain
      BY <2>2, <2>3 DEF Burnt, u, v
    <2>5. d = <<width - 1 - <<u, v>>[1], height - 1 - <<u, v>>[2]>>
      BY <2>1, <2>3
    <2>6. QED
      BY <2>4, <2>5
  <1>3. ASSUME NEW d \in mirrored PROVE d \in turned
    <2>1. PICK e \in plain : d = <<width - 1 - e[1], height - 1 - e[2]>>
      BY <1>3
    <2>2. PICK u \in 0 .. 4 * digits - 1, v \in 0 .. height - 1 :
              e = <<u, v>> /\ Pixel(rows, u, v) = 1
      BY DEF Burnt
    <2>3. u < width
      <3>1. SUFFICES ASSUME u >= width PROVE FALSE
        OBVIOUS
      <3>2. u \in width .. 4 * Len(rows[1]) - 1 /\ v \in 0 .. Len(rows) - 1
        BY <1>1, <3>1
      <3>3. QED
        BY <2>2, <3>2 DEF StrayPixel
    <2> DEFINE x == width - 1 - u
               y == height - 1 - v
    <2>4. /\ x \in 0 .. 4 * digits - 1 /\ y \in 0 .. height - 1 /\ x < width
          /\ u = width - 1 - x /\ v = height - 1 - y
      BY <2>3
    <2>5. d = <<x, y>>
      BY <2>1, <2>2
    <2> HIDE DEF x, y
    <2>6. Pixel(Rotated(rows, width), x, y) = 1
      <3>1. x \in 0 .. 4 * digits - 1 /\ y \in 0 .. height - 1
        BY <2>4
      <3>2. Pixel(Rotated(rows, width), x, y) =
                IF x < width THEN Pixel(rows, width - 1 - x, height - 1 - y) ELSE 0
        BY <1>0, <3>1
      <3>3. Pixel(rows, width - 1 - x, height - 1 - y) = 1
        BY <2>2, <2>4
      <3>4. QED
        BY <2>4, <3>2, <3>3
    <2>7. QED
      BY <2>4, <2>5, <2>6 DEF Burnt
  <1>4. mirrored = Mirrored(plain, width, height)
    BY DEF Mirrored
  <1> HIDE DEF turned, plain, mirrored
  <1>5. turned = mirrored
    BY <1>2, <1>3
  <1>6. QED
    BY <1>4, <1>5 DEF turned, plain

(* the commands that are in force on a label, the graphic aside *)
Ruling == Settings \cup {"SD", "PW", "PR", "CN"}

LEMMA RulingIs == Ruling = Before \cup {"CN"}
  BY DEF Ruling, Settings, Before

(* No line that the conversion adds rules, draws, or inverts the label. *)
LEMMA AddedIsQuiet ==
    ASSUME NEW page, NEW e \in Added(page) \cup {<<"XZ", "">>}
    PROVE  e[1] # "GF" /\ e[1] \notin Before \cup {"CN"} /\ e # <<"PO", "I">>
  <1>1. ASSUME e \in Added(page) PROVE e[1] \in {"XA", "PO", "LH", "LL"} /\ e # <<"PO", "I">>
    <2>1. e = <<"XA", "">> \/ e = <<"PO", "N">> \/ e = <<"LH", "">> \/ e = <<"LL", Len(page.bitmap)>>
      BY <1>1 DEF Added
    <2>2. /\ <<"XA", "">>[1] = "XA" /\ <<"PO", "N">>[1] = "PO" /\ <<"LH", "">>[1] = "LH"
          /\ <<"LL", Len(page.bitmap)>>[1] = "LL"
      OBVIOUS
    <2>3. e[1] \in {"XA", "PO", "LH", "LL"}
      BY <2>1, <2>2
    <2>4. ASSUME e = <<"PO", "I">> PROVE FALSE
      <3>1. e[1] = "PO" /\ e[2] = "I"
        BY <2>4
      <3>2. e = <<"PO", "N">>
        BY <2>1, <2>2, <3>1
      <3>3. e[2] = "N"
        BY <3>2
      <3>4. QED
        BY <3>1, <3>3
    <2>5. QED
      BY <2>3, <2>4
  <1>2. ASSUME e = <<"XZ", "">> PROVE e[1] = "XZ" /\ e # <<"PO", "I">>
    BY <1>2
  <1>3. \A c \in {"XA", "PO", "LH", "LL", "XZ"} : c # "GF" /\ c \notin Before \cup {"CN"}
    BY DEF Before
  <1>4. QED
    BY <1>1, <1>2, <1>3

(* What the page written prints is what the filter's text would print. *)
LEMMA SameLabel ==
    ASSUME NEW page, GoodPage(page), ~StrayPixel(page.bitmap, page.lines["PW"])
    PROVE  Label(ToSet(Written(page)), page.lines["PW"], Len(page.bitmap))
               = Label(FilterSent(page), page.lines["PW"], Len(page.bitmap))
  <1> DEFINE bits == page.bitmap
             width == page.lines["PW"]
             height == Len(bits)
             rowBytes == page.lines["DG"][2]
             digits == 2 * rowBytes
             rows == Rotated(bits, width)
             n == RowsPerBand(rowBytes)
             B == (height + n - 1) \div n
             all == Written(page)
             first == Len(Opening(page))
             fields == {all[first + i] : i \in 1..B}
             sent == ToSet(all)
             others == Added(page) \cup {<<"XZ", "">>}
             kept == KeptOf(page, Before \cup {"CN"})
             graphic == <<"GF", [y |-> 0, rows |-> bits]>>
             own == {<<c, page.lines[c]>> : c \in DOMAIN page.lines}
             plain == Burnt(bits, height, digits)
             turned == Burnt(rows, height, digits)
  <1>1. /\ Picture(rows, height, digits)
        /\ \A i \in 1..B : Carries(all[first + i], i, n, rows)
        /\ sent = others \cup kept \cup fields
    <2>1. sent = Added(page) \cup kept \cup {<<"XZ", "">>} \cup fields
      BY WrittenIs
    <2>2. sent = others \cup kept \cup fields
      <3> HIDE DEF sent, kept, fields
      <3>1. QED
        BY <2>1
    <2>3. QED
      BY <2>2, WrittenIs
  <1>2. /\ height \in Nat \ {0} /\ rowBytes \in 1..MaxField /\ MaxField \in Nat
        /\ Drawing(bits, height, digits)
    BY KeptPicture DEF Drawing
  <1>3. /\ n \in Nat \ {0} /\ digits \in Nat
    BY <1>2, FullField
  <1>4. /\ width \in Nat /\ width <= 4 * digits
    <2>1. width \in 1..MaxDots /\ rowBytes = (width + 7) \div 8 /\ MaxDots \in Nat
      BY RasterAssumption DEF GoodPage
    <2> HIDE DEF width, rowBytes
    <2>2. QED
      BY <1>2, <2>1
  <1>5. /\ {"DG", "PO", "PW"} \subseteq DOMAIN page.lines /\ page.lines["PO"] = "I"
        /\ DOMAIN page.lines \subseteq ToSet(Lines)
    BY DEF GoodPage
  <1>6. FilterSent(page) = {graphic} \cup own
    BY DEF FilterSent
  <1>7. graphic[1] = "GF" /\ graphic[2] = [y |-> 0, rows |-> bits]
    OBVIOUS
  <1>8. \A c \in own : c[1] # "GF"
    <2>1. "GF" \notin ToSet(Lines)
      <3>1. \A i \in 1..17 : Lines[i] # "GF"
        BY DEF Lines
      <3>2. DOMAIN Lines = 1..17
        BY DEF Lines
      <3> HIDE DEF Lines
      <3>3. QED
        BY <3>1, <3>2 DEF ToSet
    <2>2. QED
      BY <1>5, <2>1
  <1>9. <<"PO", "I">> \in own
    BY <1>5
  <1>10. \A c \in others : c[1] # "GF" /\ c[1] \notin Before \cup {"CN"} /\ c # <<"PO", "I">>
    BY AddedIsQuiet
  <1>11. \A c \in kept : c[1] # "GF" /\ c # <<"PO", "I">>
    <2>1. "GF" \notin Before \cup {"CN"} /\ "PO" \notin Before \cup {"CN"}
      BY DEF Before
    <2>2. \A c \in kept : c[1] \in Before \cup {"CN"}
      BY DEF KeptOf
    <2> HIDE DEF kept
    <2>3. <<"PO", "I">>[1] = "PO"
      OBVIOUS
    <2>4. QED
      BY <2>1, <2>2, <2>3
  <1>12. \A c \in fields : c[1] = "GF"
    BY <1>1 DEF Carries
  <1>13. kept = {c \in own : c[1] \in Before \cup {"CN"}}
    BY DEF KeptOf
  <1>14. UNION {Dots(c[2]) : c \in fields} = turned
    <2> DEFINE field == [i \in 1..B |-> all[first + i]]
    <2>1. \A i \in 1..B : field[i] = all[first + i]
      OBVIOUS
    <2>2. \A i \in 1..B : Carries(field[i], i, n, rows)
      BY <1>1, <2>1
    <2>3. B = (height + n - 1) \div n
      OBVIOUS
    <2>4. Picture(rows, height, digits) /\ height \in Nat \ {0} /\ n \in Nat \ {0} /\ digits \in Nat
      BY <1>1, <1>2, <1>3
    <2> HIDE DEF field, rows, height, digits, n, all, first, B
    <2>5. UNION {Dots(field[i][2]) : i \in 1..B} = Burnt(rows, height, digits)
      <3>1. Covered(rows, height, n, field, B)
        BY <2>2, <2>3 DEF Covered
      <3>2. QED
        BY <2>4, <3>1, AllDots
    <2>6. fields = {field[i] : i \in 1..B}
      BY <2>1
    <2> DEFINE Of(c) == Dots(c[2])
    <2> HIDE DEF fields, Of
    <2>7. {Of(c) : c \in fields} = {Of(field[i]) : i \in 1..B}
      BY <2>6
    <2>8. QED
      BY <2>5, <2>7 DEF Of
  <1>15. Dots([y |-> 0, rows |-> bits]) = plain
    BY <1>2, <1>3, WholeDots DEF Drawing
  <1>16. turned = {<<width - 1 - d[1], height - 1 - d[2]>> : d \in plain}
    <2>1. ~StrayPixel(bits, width)
      OBVIOUS
    <2> HIDE DEF bits, width, height, digits
    <2>2. turned = Mirrored(plain, width, height)
      BY <1>2, <1>3, <1>4, <2>1, Inverted
    <2>3. QED
      BY <2>2 DEF Mirrored
  <1> HIDE DEF bits, width, height, digits, rows, n, B, all, first, fields, sent, others,
               kept, graphic, own, plain, turned
  <1> DEFINE heard == FilterSent(page)
             Graphics(s) == {d \in s : d[1] = "GF"}
             InForce(s) == {c \in s : c[1] \in Settings \cup {"SD", "PW", "PR", "CN"}}
             Shown(s) == UNION {Dots(c[2]) : c \in Graphics(s)}
  <1>17. Graphics(sent) = fields /\ Graphics(heard) = {graphic}
    BY <1>1, <1>6, <1>7, <1>8, <1>10, <1>11, <1>12
  <1>18. Shown(sent) = turned /\ Shown(heard) = plain
    <2>1. Shown(heard) = UNION {Dots(graphic[2])}
      BY <1>17
    <2>2. QED
      BY <1>7, <1>14, <1>15, <1>17, <2>1
  <1>19. <<"PO", "I">> \notin sent /\ <<"PO", "I">> \in heard
    BY <1>1, <1>6, <1>9, <1>10, <1>11, <1>12
  <1>20. InForce(sent) = InForce(heard)
    <2>1. Settings \cup {"SD", "PW", "PR", "CN"} = Before \cup {"CN"}
      BY RulingIs DEF Ruling
    <2>2. "GF" \notin Before \cup {"CN"}
      BY DEF Before
    <2> DEFINE ruling == Before \cup {"CN"}
    <2>3. \A s : InForce(s) = {c \in s : c[1] \in ruling}
      BY <2>1
    <2>4. "GF" \notin ruling /\ kept = {c \in own : c[1] \in ruling} /\ \A c \in others : c[1] \notin ruling
      BY <2>2, <1>10, <1>13
    <2> HIDE DEF ruling, InForce
    <2>5. {c \in sent : c[1] \in ruling} = kept
      BY <1>1, <1>12, <2>4
    <2>6. {c \in heard : c[1] \in ruling} = kept
      BY <1>6, <1>7, <2>4
    <2>7. QED
      BY <2>3, <2>5, <2>6
  <1>21. Label(sent, width, height) = [dots |-> turned, inForce |-> InForce(sent)]
    BY <1>18, <1>19 DEF Label
  <1>22. Label(heard, width, height) =
             [dots |-> {<<width - 1 - d[1], height - 1 - d[2]>> : d \in plain},
              inForce |-> InForce(heard)]
    BY <1>18, <1>19 DEF Label
  <1>23. Label(sent, width, height) = Label(heard, width, height)
    <2> HIDE DEF InForce, heard
    <2>1. QED
      BY <1>16, <1>20, <1>21, <1>22
  <1>24. QED
    BY <1>23 DEF sent, width, height, heard, all, bits

(* Whatever the driver draws, the inline graphics print the picture the      *)
(* stored graphic would have printed under ^POI: every dot on its place, for *)
(* every width, row length and cut, under the same settings.                 *)
THEOREM SamePicturePrinted == Spec => []SamePicture
  <1>1. RasterInv => SamePicture
    <2> SUFFICES ASSUME RasterInv, NEW i \in DOMAIN output
                 PROVE  Label(ToSet(output[i]), pages[i].lines["PW"], Len(pages[i].bitmap))
                            = Label(FilterSent(pages[i]), pages[i].lines["PW"], Len(pages[i].bitmap))
      BY DEF SamePicture
    <2>1. i \in DOMAIN pages
      <3>1. Len(output) <= Len(pages)
        BY DEF RasterInv, TypeOK
      <3>2. QED
        BY <3>1, SequenceTypes DEF RasterInv, PagesInv, OutputInv
    <2>2. /\ GoodPage(pages[i]) /\ output[i] = Written(pages[i])
          /\ ~StrayPixel(pages[i].bitmap, pages[i].lines["PW"])
      BY <2>1 DEF RasterInv, PagesInv, OutputInv
    <2>3. QED
      BY <2>2, SameLabel
  <1>2. QED
    BY <1>1, RasterCorrect, PTL
=============================================================================
