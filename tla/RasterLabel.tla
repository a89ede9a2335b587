------------------------------ MODULE RasterLabel ------------------------------
(***************************************************************************)
(* The offline conversion of a document for the stock Zebra driver           *)
(* (src/zpl_document.go): the queue's PPD is copied and validated,           *)
(* cupsfilter draws the document with the copy, and the filter's text, one   *)
(* stored graphic per page recalled under ^POI, is parsed line by line,      *)
(* decoded, rotated and written again as inline graphics under ^PON.         *)
(*                                                                         *)
(* A line is its command and its argument, and the five fixed lines that     *)
(* recall and delete the graphic are one, "XG".  A row of a bitmap is its    *)
(* hexadecimal digits, two per byte.  The filter may send any line and any   *)
(* code of Values, Digits and Counts, in any order: what does not fit is     *)
(* refused, and a refused document prints nothing.                           *)
(***************************************************************************)
EXTENDS Integers, SequencesExt

CONSTANTS Drivers,      \* PPDs the queue may have: [lines, bytes]
          Values,       \* per command, the arguments the filter may send
          Digits,       \* hexadecimal digits it may send
          Counts,       \* run lengths its letters may stand for
          MaxPPD,       \* maxQueuePPDBytes
          MaxBitmap,    \* maxDecodedBitmapBytes
          MaxField,     \* maxGraphicFieldBytes
          MaxDots,      \* maxRasterDimensionDots
          MaxPages,     \* maxRasterPages
          MaxBody,      \* maxWriteBody
          CommandBytes  \* length of a written command, its graphic data aside

Lines == <<"SD", "DG", "XA", "PO", "PW", "PR", "LH", "LL", "MN", "LT", "MT",
           "MM", "TA", "JZ", "PQ", "XG", "CN">>
Optional == {"SD", "PR", "LL", "LT", "MT", "MM", "TA", "JZ", "PQ", "CN"}
Settings == {"MN", "LT", "MT", "MM", "TA", "JZ", "PQ"}
Directives == {"nickname", "model", "filter"}

(* run letters: G to Y count 1 to 19, g to z count 20 to 400 *)
Letters == 1..19 \cup {20 * n : n \in 1..20}

ASSUME RasterAssumption ==
    /\ Drivers \subseteq [lines : SUBSET Directives, bytes : Nat]
    /\ DOMAIN Values \subseteq STRING
    /\ Digits \subseteq 0..15 /\ Counts \subseteq Letters
    /\ {MaxPPD, MaxBitmap, MaxField, MaxDots, MaxPages, MaxBody, CommandBytes}
           \subseteq Nat \ {0}

VARIABLES stage,    \* "copy", "filter", "parse", "write", "done" or "refused"
          at,       \* position in Lines of the last line of this page
          lines,    \* command |-> argument, for the lines of this page
          bitmap,   \* its finished rows
          row,      \* the digits of the row at hand
          repeat,   \* run length read so far
          drawn,    \* the digits the codes of this page stand for
          pages,    \* finished pages
          output    \* per page, the commands written

text == <<at, lines, bitmap, row, repeat, drawn>>
vars == <<stage, at, lines, bitmap, row, repeat, drawn,
          pages, output>>

-----------------------------------------------------------------------------
Position(command) == CHOOSE i \in DOMAIN Lines : Lines[i] = command
Total == lines["DG"][1]
RowBytes == lines["DG"][2]
Rows == Total \div RowBytes
RowDigits == 2 * RowBytes

(* A line may follow another if nothing between the two is mandatory. *)
Follows(command) ==
    /\ command \in ToSet(Lines)
    /\ Position(command) > at
    /\ \A i \in at + 1 .. Position(command) - 1 : Lines[i] \in Optional

(* parseDownloadHeader *)
ValidHeader(total, rowBytes) ==
    total \in 1..MaxBitmap /\ rowBytes \in 1..MaxField /\ total % rowBytes = 0

ValidWidth(width) ==
    /\ width \in 1..MaxDots
    /\ RowBytes = (width + 7) \div 8
    /\ Rows \in 1..MaxDots

(* ^XA ends the graphic, which must be complete. *)
Complete == repeat = 0 /\ row = <<>> /\ Len(bitmap) = Rows

(* the lines that are passed on, or say nothing about the graphic *)
ValidSetting(command, value) ==
    /\ command = "SD" => value \in 0..30
    /\ command = "PR" => value \in 1..99
    /\ command = "MN" => value \in {"N", "Y", "M"}
    /\ command \in {"LT", "TA"} => value \in -10000..10000
    /\ command = "MT" => value \in {"T", "D"}
    /\ command = "MM" => value \in {"T", "P", "R", "A", "C"}
    /\ command = "JZ" => value \in {"Y", "N"}
    /\ command = "PQ" => value \in 2..99999999

Valid(command, value) ==
    /\ command = "DG" => ValidHeader(value[1], value[2])
    /\ command = "XA" => Complete
    /\ command = "PO" => value = "I"
    /\ command = "PW" => ValidWidth(value)
    /\ command = "LL" => value \in 1..MaxDots /\ value = Rows
    /\ ValidSetting(command, value)

-----------------------------------------------------------------------------
(* The bit of a bitmap at column x and line y, both from 0. *)
Weight == <<8, 4, 2, 1>>
Pixel(rows, x, y) == (rows[y + 1][x \div 4 + 1] \div Weight[(x % 4) + 1]) % 2

(* Fault: the padding takes part in the rotation. *)
RotatedWithPadding(rows, width) ==
    LET digits == Len(rows[1])
        Bit(x, y) == Pixel(rows, 4 * digits - 1 - x, Len(rows) - y)
    IN [y \in DOMAIN rows |-> [i \in 1..digits |->
           8 * Bit(4*i - 4, y) + 4 * Bit(4*i - 3, y) + 2 * Bit(4*i - 2, y) + Bit(4*i - 1, y)]]

(* rotateBitmap180: padding beyond the width stays blank *)
Rotated(rows, width) ==
    LET Bit(x, y) == IF x < width THEN Pixel(rows, width - 1 - x, Len(rows) - y) ELSE 0
    IN [y \in DOMAIN rows |-> [i \in DOMAIN rows[1] |->
           8 * Bit(4*i - 4, y) + 4 * Bit(4*i - 3, y) + 2 * Bit(4*i - 2, y) + Bit(4*i - 1, y)]]

StrayPixel(rows, width) ==
    \E y \in 0 .. Len(rows) - 1, x \in width .. 4 * Len(rows[1]) - 1 : Pixel(rows, x, y) = 1

(* Fault: the limit is taken for the first size ^GF refuses. *)
RowsPerBandOffByOne(rowBytes) == (MaxField + 1) \div rowBytes

RowsPerBand(rowBytes) == MaxField \div rowBytes

Bands(rows, rowBytes) ==
    LET n == RowsPerBand(rowBytes)
    IN [i \in 1 .. (Len(rows) + n - 1) \div n |->
           <<"GF", [y |-> (i - 1) * n,
                    rows |-> SubSeq(rows, (i - 1) * n + 1,
                                    IF i * n < Len(rows) THEN i * n ELSE Len(rows))]>>]

(* writeZPLLine of a line the page may not have *)
Kept(page, command) ==
    IF command \in DOMAIN page.lines THEN << <<command, page.lines[command]>> >> ELSE <<>>

(* appendInlineRasterPage: the lines before the graphic, and after it *)
Opening(page) ==
    Kept(page, "SD") \o << <<"XA", "">>, <<"PO", "N">> >>
    \o Kept(page, "PW") \o Kept(page, "PR")
    \o << <<"LH", "">>, <<"LL", Len(page.bitmap)>> >>
    \o Kept(page, "MN") \o Kept(page, "LT") \o Kept(page, "MT") \o Kept(page, "MM")
    \o Kept(page, "TA") \o Kept(page, "JZ") \o Kept(page, "PQ")

Closing(page) == << <<"XZ", "">> >> \o Kept(page, "CN")

Written(page) ==
    Opening(page)
    \o Bands(Rotated(page.bitmap, page.lines["PW"]), page.lines["DG"][2])
    \o Closing(page)

(* the sum of what Of counts in each element *)
SumOf(Of(_), elements) == FoldLeft(LAMBDA n, e : n + Of(e), 0, elements)

PageBytes(page) == page.lines["DG"][1]
BitmapBytes(all) == SumOf(PageBytes, all)
(* each byte of a graphic is written as two digits *)
CommandLength(c) ==
    CommandBytes + (IF c[1] = "GF" THEN Len(c[2].rows) * Len(c[2].rows[1]) ELSE 0)
Bytes(commands) == SumOf(CommandLength, commands)
OutputBytes(all) == SumOf(Bytes, all)

-----------------------------------------------------------------------------
NewPage ==
    /\ at' = 0
    /\ lines' = <<>>
    /\ bitmap' = <<>>
    /\ row' = <<>>
    /\ repeat' = 0
    /\ drawn' = <<>>

Restart(next) == stage' = next /\ NewPage /\ pages' = <<>> /\ output' = <<>>

Refuse == Restart("refused")

Init ==
    /\ stage = "copy"
    /\ at = 0 /\ lines = <<>>
    /\ bitmap = <<>> /\ row = <<>> /\ repeat = 0 /\ drawn = <<>>
    /\ pages = <<>> /\ output = <<>>

(* the next document *)
Convert == stage \in {"done", "refused"} /\ Restart("copy")

(* readBoundedFile and validateRasterToLabelPPD *)
Stock(driver) == driver.bytes <= MaxPPD /\ driver.lines = Directives

(* The queue's PPD is whatever it is when it is copied. *)
CopyPPD ==
    /\ stage = "copy"
    /\ \E driver \in Drivers :
           IF Stock(driver) THEN stage' = "filter" /\ UNCHANGED <<text, pages, output>>
                            ELSE Refuse

(* cupsfilter with the copy; it may fail, time out, or print nothing *)
Filter ==
    /\ stage = "filter"
    /\ \/ stage' = "parse" /\ UNCHANGED <<text, pages, output>>
       \/ Refuse

-----------------------------------------------------------------------------
Parsing == stage = "parse"

With(read, command, value) ==
    [c \in DOMAIN read \cup {command} |-> IF c = command THEN value ELSE read[c]]

(* a command of the page, or something else *)
Line(command, value) ==
    /\ Parsing
    /\ IF Follows(command) /\ Valid(command, value)
       THEN /\ at' = Position(command)
            /\ lines' = With(lines, command, value)
            /\ UNCHANGED <<stage, bitmap, row, repeat, drawn, pages, output>>
       ELSE Refuse

(* the graphic codes, between the header and ^XA *)
InGraphic == Parsing /\ at = Position("DG")

Times(digit, n) == [i \in 1..n |-> digit]

(* finishRow; "strokes" is what the code at hand stands for in ZPL *)
FinishRow(digits, fill, strokes) ==
    IF Len(bitmap) = Rows THEN Refuse
    ELSE /\ bitmap' = Append(bitmap, digits \o Times(fill, RowDigits - Len(digits)))
         /\ row' = <<>>
         /\ repeat' = 0
         /\ drawn' = drawn \o strokes
         /\ UNCHANGED <<stage, at, lines, pages, output>>

(* Fault: the length of a run is not bounded. *)
CountFreely(n) ==
    /\ InGraphic
    /\ repeat <= RowDigits
    /\ repeat' = repeat + n
    /\ UNCHANGED <<stage, at, lines, bitmap, row, drawn, pages, output>>

(* a letter: the lengths of several add up *)
Count(n) ==
    /\ InGraphic
    /\ IF repeat + n > RowDigits THEN Refuse
       ELSE /\ repeat' = repeat + n
            /\ UNCHANGED <<stage, at, lines, bitmap, row, drawn, pages, output>>

(* a digit, once or as often as the letters before it say; a full row ends *)
Digit(digit) ==
    LET run == Times(digit, IF repeat = 0 THEN 1 ELSE repeat)
        digits == row \o run
    IN /\ InGraphic
       /\ \/ Len(digits) > RowDigits /\ Refuse
          \/ Len(digits) = RowDigits /\ FinishRow(digits, 0, run)
          \/ /\ Len(digits) < RowDigits
             /\ row' = digits
             /\ repeat' = 0
             /\ drawn' = drawn \o run
             /\ UNCHANGED <<stage, at, lines, bitmap, pages, output>>

(* "," and "!": the rest of the row, or a whole one, is blank or black *)
Fill(fill) ==
    /\ InGraphic
    /\ IF repeat > 0 THEN Refuse
       ELSE FinishRow(row, fill, Times(fill, RowDigits - (Len(drawn) % RowDigits)))

(* Fault: the row that is repeated is never renewed. *)
RepeatFirstRow ==
    /\ InGraphic
    /\ IF repeat > 0 \/ row # <<>> \/ bitmap = <<>> THEN Refuse
       ELSE FinishRow(Head(bitmap), 0, SubSeq(drawn, Len(drawn) - RowDigits + 1, Len(drawn)))

(* ":", the row above once more *)
RepeatRow ==
    /\ InGraphic
    /\ IF repeat > 0 \/ row # <<>> \/ bitmap = <<>> THEN Refuse
       ELSE FinishRow(Last(bitmap), 0, SubSeq(drawn, Len(drawn) - RowDigits + 1, Len(drawn)))

-----------------------------------------------------------------------------
(* The page is complete, and more text follows or none. *)
Close(more) ==
    LET all == Append(pages, [lines |-> lines, bitmap |-> bitmap])
    IN /\ Parsing
       /\ more => at >= Position("XG")
       /\ IF \/ at < Position("XG")
             \/ BitmapBytes(all) > MaxBitmap
             \/ more /\ Len(all) = MaxPages
          THEN Refuse
          ELSE /\ pages' = all
               /\ stage' = IF more THEN "parse" ELSE "write"
               /\ NewPage
               /\ UNCHANGED output

Write ==
    LET page == pages[Len(output) + 1]
        all == Append(output, Written(page))
    IN /\ stage = "write"
       /\ IF \/ StrayPixel(page.bitmap, page.lines["PW"])
             \/ OutputBytes(all) > MaxBody
          THEN Refuse
          ELSE /\ output' = all
               /\ stage' = IF Len(all) = Len(pages) THEN "done" ELSE "write"
               /\ UNCHANGED <<text, pages>>

Next ==
    \/ Convert \/ CopyPPD \/ Filter
    \/ \E command \in DOMAIN Values : \E value \in Values[command] : Line(command, value)
    \/ \E n \in Counts : Count(n)
    \/ \E digit \in Digits : Digit(digit)
    \/ \E fill \in {0, 15} : Fill(fill)
    \/ RepeatRow
    \/ \E more \in BOOLEAN : Close(more)
    \/ Write

Spec == Init /\ [][Next]_vars

-----------------------------------------------------------------------------
TypeOK ==
    /\ stage \in {"copy", "filter", "parse", "write", "done", "refused"}
    /\ at \in 0 .. Len(Lines)
    /\ DOMAIN lines \subseteq ToSet(Lines)
    /\ at >= Position("DG") =>
           /\ Total \in 1..MaxBitmap /\ repeat \in 0..RowDigits
           /\ Len(row) < RowDigits /\ Len(bitmap) <= Rows
    /\ Len(pages) <= MaxPages
    /\ Len(output) <= Len(pages)

(* The rows the decoder has built (src/zpl_document.go:349-446), of runs,    *)
(* fills and repetitions in any combination, are the picture the codes stand *)
(* for in ZPL, where a graphic is one line of digits without rows.           *)
DecodedAsDrawn ==
    at >= Position("DG") =>
        /\ Len(drawn) = Len(bitmap) * RowDigits + Len(row)
        /\ \A i \in DOMAIN bitmap :
               bitmap[i] = SubSeq(drawn, (i - 1) * RowDigits + 1, i * RowDigits)
        /\ row = SubSeq(drawn, Len(bitmap) * RowDigits + 1, Len(drawn))

(* What a printer makes of commands: the dots it burns, inverted or not, and *)
(* the other commands in force.  A label is as long as its graphic.          *)
Dots(field) ==
    {d \in (0 .. 4 * Len(field.rows[1]) - 1) \X (field.y .. field.y + Len(field.rows) - 1) :
        Pixel(field.rows, d[1], d[2] - field.y) = 1}

Label(sent, width, height) ==
    LET burnt == UNION {Dots(c[2]) : c \in {d \in sent : d[1] = "GF"}}
    IN [dots |-> IF <<"PO", "I">> \in sent
                 THEN {<<width - 1 - d[1], height - 1 - d[2]>> : d \in burnt}
                 ELSE burnt,
        inForce |-> {c \in sent : c[1] \in Settings \cup {"SD", "PW", "PR", "CN"}}]

FilterSent(page) ==
    {<<"GF", [y |-> 0, rows |-> page.bitmap]>>}
        \cup {<<command, page.lines[command]>> : command \in DOMAIN page.lines}

(* What is written prints what the filter's text would have printed: the     *)
(* picture the right way up dot for dot, at a width that is no whole number  *)
(* of bytes and over several fields, with the same settings, darkness,       *)
(* quantity and cut (src/zpl_document.go:448-513).                           *)
SamePicture ==
    \A i \in DOMAIN output :
        LET width == pages[i].lines["PW"]
            height == Len(pages[i].bitmap)
        IN Label(ToSet(output[i]), width, height)
               = Label(FilterSent(pages[i]), width, height)

(* No field is larger than ^GF takes or empty, and each begins where the one *)
(* before it ends, down to the last row (src/zpl_document.go:465-478).       *)
WellCut(commands, height) ==
    LET fields == {k \in DOMAIN commands : commands[k][1] = "GF"}
        Field(k) == commands[k][2]
        End(k) == Field(k).y + Len(Field(k).rows)
    IN \E first, last \in fields :
           /\ fields = first..last
           /\ Field(first).y = 0
           /\ End(last) = height
           /\ \A k \in fields :
                  /\ Len(Field(k).rows) > 0
                  /\ Len(Field(k).rows) * (Len(Field(k).rows[1]) \div 2) <= MaxField
                  /\ k # last => Field(k + 1).y = End(k)

FieldsFit == \A i \in DOMAIN output : WellCut(output[i], Len(pages[i].bitmap))
=============================================================================
