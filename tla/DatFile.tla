------------------------------ MODULE DatFile ------------------------------
(***************************************************************************)
(* How the wavefront tool reads a table of Zernike coefficients            *)
(* (wfs_read/readdat.c): a header with names of columns, and a line with   *)
(* numbers for each image.  The reader goes through the text with strtod,  *)
(* for which the end of a line is a space like any other.                  *)
(***************************************************************************)
EXTENDS Sequences, FiniteSetsExt

CONSTANT Files  \* texts: sequences of words, spaces and ends of lines

Blank == {"sp", "nl"}
Headings == {"time", "piston", "word"}  \* none of which is a number
Items == {"num"} \cup Headings \cup Blank

ASSUME FilesAssumption ==
  \A f \in Files :
    /\ f \in Seq(Items)
    /\ \A i \in 2 .. Len(f) : ~({f[i - 1], f[i]} \subseteq {"num"})

VARIABLES
  file,         \* the text
  firstcolumn,  \* columns before "piston"
  curptr,       \* where the next line is looked for from
  begin,        \* where the next word of the line is read (buf)
  skipfst,      \* columns that are still to be skipped
  row,          \* the values of the line, each by its place in the text
  rows,         \* what the function has returned
  reader        \* "open", "idle", "line", "eof", or "bad" without a table

dat_vars == <<file, firstcolumn, curptr, begin, skipfst, row, rows, reader>>

DatInit ==
  /\ file \in Files /\ firstcolumn = 0 /\ curptr = 1
  /\ begin = 1 /\ skipfst = 0 /\ row = <<>> /\ rows = <<>> /\ reader = "open"

end == Len(file) + 1

(* The first place, from i on, of an item that is not one of those.        *)
Past(i, those) ==
  Min({end} \cup {j \in i .. Len(file) : file[j] \notin those})

-----------------------------------------------------------------------------
(* Where a word of the text begins.                                        *)
Begins(j) == file[j] \notin Blank /\ (j = 1 \/ file[j - 1] \in Blank)

(* The number of the first word in the first line that begins with a name, *)
(* or -1.                                                                  *)
get_hdrval(name) ==
  LET headings == {j \in 1 .. Past(1, Items \ {"nl"}) - 1 : Begins(j)}
      found == {j \in headings : file[j] = name}
  IN IF found = {} THEN -1
     ELSE Cardinality({j \in headings : j < Min(found)})

(* Time comes first, and there are coefficients.                           *)
open_dat_file ==
  /\ reader = "open"
  /\ IF Past(1, {}) < end /\ file[1] = "time" /\ get_hdrval("piston") >= 0
     THEN reader' = "idle" /\ firstcolumn' = get_hdrval("piston")
     ELSE reader' = "bad" /\ UNCHANGED firstcolumn
  /\ UNCHANGED <<file, curptr, begin, skipfst, row, rows>>

(* The first word behind the end of this line; empty lines are passed.     *)
nextline(start) ==
  LET newline == Past(start, Items \ {"nl"})
  IN IF newline = end THEN end ELSE Past(newline + 1, Blank)

(* dat_read_next_line looks for a line, and finds none at the end.         *)
BeginLine ==
  /\ reader = "idle"
  /\ IF nextline(curptr) = end
     THEN reader' = "eof" /\ UNCHANGED <<begin, skipfst, row>>
     ELSE /\ reader' = "line" /\ begin' = nextline(curptr)
          /\ skipfst' = firstcolumn /\ row' = <<>>
  /\ UNCHANGED <<file, firstcolumn, curptr, rows>>

(* read_double: strtod passes all spaces, and a number counts only with a  *)
(* space behind it.  Behind that of a file it is taken to find none.       *)
Value == Past(begin, Blank)
IsNumber ==
  /\ Value < end /\ file[Value] = "num"
  /\ Value + 1 < end /\ file[Value + 1] \in Blank
Behind == Past(Value + 1, {"sp"})

(* Mutant: the end of the line is passed with the line.                    *)
ReturnLineBehind(next, values) ==
  /\ reader' = "idle" /\ curptr' = Min({next + 1, end})
  /\ rows' = Append(rows, values)

(* The line is over: the function returns its values.                      *)
ReturnLine(next, values) ==
  /\ reader' = "idle" /\ curptr' = next /\ rows' = Append(rows, values)

Skip ==
  /\ reader = "line" /\ begin < end /\ IsNumber /\ skipfst > 0
  /\ skipfst' = skipfst - 1 /\ begin' = Behind
  /\ UNCHANGED <<file, firstcolumn, curptr, row, rows, reader>>

Take ==
  /\ reader = "line" /\ begin < end /\ IsNumber /\ skipfst = 0
  /\ row' = Append(row, Value) /\ begin' = Behind
  /\ IF Behind < end /\ file[Behind] = "nl" THEN ReturnLine(Behind, row')
     ELSE UNCHANGED <<reader, curptr, rows>>
  /\ UNCHANGED <<file, firstcolumn, skipfst>>

(* Something else than a number, or the end of the file.                   *)
Break ==
  /\ reader = "line" /\ (begin >= end \/ ~IsNumber)
  /\ ReturnLine(begin, row)
  /\ UNCHANGED <<file, firstcolumn, begin, skipfst, row>>

DatNext == open_dat_file \/ BeginLine \/ Skip \/ Take \/ Break

DatSpec == DatInit /\ [][DatNext]_dat_vars

-----------------------------------------------------------------------------
(* Properties.                                                             *)

DatTypeOK ==
  /\ file \in Seq(Items) /\ firstcolumn \in 0 .. Len(file)
  /\ {curptr, begin} \subseteq 1 .. end /\ skipfst \in 0 .. firstcolumn
  /\ row \in Seq(DOMAIN file) /\ rows \in Seq(Seq(DOMAIN file))
  /\ reader \in {"open", "idle", "line", "eof", "bad"}

(* The lines behind the header that are not empty, by their first places.  *)
StartsLine(i) ==
  /\ file[i] \notin Blank
  /\ \E j \in 1 .. i - 1 :
       file[j] = "nl" /\ \A k \in j .. i - 1 : file[k] \in Blank
Lines == {i \in DOMAIN file : StartsLine(i)}
Words(i) == {j \in i .. Past(i, Items \ {"nl"}) - 1 : file[j] # "sp"}

(* The numbers of a line, up to the first word that is none.               *)
Whole(j) ==
  /\ file[j] = "num" /\ file[j - 1] \in Blank
  /\ j < Len(file) => file[j + 1] \in Blank
Numbers(i) == {j \in Words(i) : \A k \in Words(i) : k <= j => Whole(k)}

(* How many of a set of places there are up to one of them.                *)
Rank(j, places) == Cardinality({k \in places : k <= j})

(* A sequence has the places of a set in their order.                      *)
InOrder(s, places) ==
  /\ Len(s) = Cardinality(places)
  /\ \A j \in places : s[Rank(j, places)] = j

(* The coefficients of a line are its numbers behind those to be skipped.  *)
Coefficients(i) == {j \in Numbers(i) : Rank(j, Numbers(i)) > firstcolumn}

(* The rows are those of some lines, in the order of the lines.            *)
RowsOf(lines) ==
  /\ Len(rows) = Cardinality(lines)
  /\ \A i \in lines : InOrder(rows[Rank(i, lines)], Coefficients(i))

(* The file does not end in a number, and no line in the columns that are  *)
(* skipped.                                                                *)
WellFormed ==
  /\ file[Len(file)] # "num"
  /\ \A i \in Lines : Cardinality(Numbers(i)) > firstcolumn

(* Each line of a table gives its own coefficients and no others, with     *)
(* empty lines, spaces and words that are no numbers anywhere between.     *)
LinesAreRows == reader = "eof" /\ WellFormed => RowsOf(Lines)

(* How many steps are left at most: each number and each end of a line     *)
(* brings the reader two steps nearer to the end of the text.              *)
ReadsLeft ==
  CASE reader = "open" -> 2 * end
    [] reader = "idle" -> 1 + 2 * (end - curptr)
    [] reader = "line" -> 2 + 2 * (end - begin)
    [] OTHER -> 0

(* The reader comes to the end, the only way out of the loop that calls it *)
(* (wfs_read/main.c:97): it never looks again for a line or a number where *)
(* it was.                                                                 *)
ReaderAdvances ==
  [][ReadsLeft' \in Nat /\ ReadsLeft' < ReadsLeft]_dat_vars
=============================================================================
