------------------------------- MODULE NextCard -------------------------------
(***************************************************************************)
(* The next card of a deck: srsModel_Card_GetNextID (src/src/model.c)      *)
(* reads a line number from the deck's .at file (srsString_ToU32,          *)
(* src/src/string.c) and that line of its .schedule file                   *)
(* (srsFile_ReadLineByNumber, src/src/filesystem.c).  A file is the        *)
(* sequence of its characters; what .at holds is the decimal number at its *)
(* beginning, whatever follows that.                                       *)
(***************************************************************************)
EXTENDS Integers, FiniteSets, SequencesExt

CONSTANTS
    LF, CR,   \* the newline and the carriage return
    Missing   \* what is read from a file that is not there

INT32_MAX == 2147483647
INT32_MIN == -2147483647 - 1

\* What fgets gets of .at.  Without digits strtoll gives 0.
NoDigits == [digits |-> FALSE, number |-> 0]
Number(n) == [digits |-> TRUE, number |-> n]

\* srsString_ToU32 takes neither of the bounds; GetNextID then wants a line.
ToU32(text) == text.digits /\ text.number < INT32_MAX /\ text.number > INT32_MIN
NamesLine(text) == text # Missing /\ ToU32(text) /\ text.number >= 1

-----------------------------------------------------------------------------
(* srsFile_ReadLineByNumber                                                *)

Newlines(content) == {i \in DOMAIN content : content[i] = LF}

\* The place after linenum - 1 newlines, if there are so many.
Seek_OneMore(content, linenum) ==
    LET passed(i) == Cardinality({j \in Newlines(content) : j < i})
    IN  {i \in DOMAIN content : passed(i) = linenum /\ (i = 1 \/ content[i - 1] = LF)}
Seek(content, linenum) ==
    LET passed(i) == Cardinality({j \in Newlines(content) : j < i})
    IN  {i \in DOMAIN content : passed(i) = linenum - 1 /\ (i = 1 \/ content[i - 1] = LF)}

\* From there to the next newline, without carriage returns.
LineFrom(content, first) ==
    LET ends == {i \in Newlines(content) : i >= first}
        end  == IF ends = {} THEN Len(content) + 1 ELSE CHOOSE i \in ends : \A j \in ends : i <= j
    IN  SelectSeq(SubSeq(content, first, end - 1), LAMBDA ch : ch # CR)

\* The length, or -1, and the line as far as the buffer has room for it.
ReadLineByNumber(content, linenum, size) ==
    IF content = Missing \/ linenum < 1 \/ size = 0 THEN [length |-> -1, line |-> <<>>]
    ELSE IF Seek(content, linenum) = {} THEN [length |-> -1, line |-> <<>>]
    ELSE LET whole == LineFrom(content, CHOOSE i \in Seek(content, linenum) : TRUE)
             line  == SubSeq(whole, 1, IF Len(whole) < size THEN Len(whole) ELSE size - 1)
         IN  [length |-> Len(line), line |-> line]

\* The end of srsModel_Card_GetNextID: an empty line is no card, and the
\* caller's buffer has to hold the line with its terminator.
NextID(content, linenum, max, size) ==
    LET read == ReadLineByNumber(content, linenum, max)
    IN  [found |-> read.length > 0 /\ size >= read.length + 1, id |-> read.line]

-----------------------------------------------------------------------------
(* What a line is: what stands between two newlines, or an end of the file *)
(* and a newline.                                                          *)

LineSet(content, linenum) ==
    LET cut(i, j) == /\ i <= j
                     /\ i = 0 \/ content[i] = LF
                     /\ j = Len(content) \/ content[j + 1] = LF
                     /\ \A k \in (i + 1)..j : content[k] # LF
                     /\ Len(SelectSeq(SubSeq(content, 1, i), LAMBDA ch : ch = LF)) = linenum - 1
        cuts == {c \in (0..(Len(content) - 1)) \X (0..Len(content)) : cut(c[1], c[2])}
    IN  {SelectSeq(SubSeq(content, c[1] + 1, c[2]), LAMBDA ch : ch # CR) : c \in cuts}
=============================================================================
