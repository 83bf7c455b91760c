-------------------------------- MODULE Paths --------------------------------
(***************************************************************************)
(* The path arithmetic of src/src/filesystem.c, on strings as sequences of *)
(* characters, of which Sep is the directory separator.  Offsets count     *)
(* from 0 as they do in C; the null terminator is at offset Len(path).     *)
(***************************************************************************)
EXTENDS Integers, SequencesExt

CONSTANT Sep

Char(path, i)       == path[i + 1]
IsSep(path, i)      == i < Len(path) /\ Char(path, i) = Sep
Slice(path, i, end) == SubSeq(path, i + 1, IF end <= Len(path) THEN end ELSE Len(path))
Greatest(S)         == CHOOSE i \in S : \A j \in S : j <= i
Least(S)            == CHOOSE i \in S : \A j \in S : i <= j

-----------------------------------------------------------------------------
(* kioku_path_trimpoints: the last character that is no separator, and the *)
(* first one or the separator before it.  Of a path of separators the      *)
(* first is kept.                                                          *)

TrimEnd(path) == Greatest({0} \cup {i \in 0..(Len(path) - 1) : ~IsSep(path, i)})
FirstName(path) == Least({TrimEnd(path)} \cup {i \in 0..TrimEnd(path) : ~IsSep(path, i)})
TrimStart(path) == IF FirstName(path) > 0 THEN FirstName(path) - 1 ELSE 0

-----------------------------------------------------------------------------
(* kioku_path_concat                                                       *)

\* What is left of path1, and of path2 after one leading separator.
Left(path)  == Slice(path, TrimStart(path), TrimEnd(path) + 1)
Skipped(path) == IF IsSep(path, TrimStart(path)) THEN TrimStart(path) + 1 ELSE TrimStart(path)
Right(path) == Slice(path, Skipped(path), TrimEnd(path) + 1)

\* A separator goes between two paths that have content, unless the first one
\* ends with it.
Joint_Never(path1, path2) == <<>>
Joint(path1, path2) ==
    IF Left(path1) # <<>> /\ Last(Left(path1)) # Sep /\ Skipped(path2) < Len(path2)
    THEN <<Sep>> ELSE <<>>

Concat(path1, path2) == Left(path1) \o Joint(path1, path2) \o Right(path2)

\* What dest holds: as much as it has room for, with the null terminator.
Stored(path, size) == Slice(path, 0, IF size > 0 THEN size - 1 ELSE 0)

-----------------------------------------------------------------------------
(* kioku_path_up_index: the offset of the separator before the last name,  *)
(* or -1 if there is no name before it.                                    *)

\* March back from i to the last offset that is, or is not, a separator.
BackToName(path, i) == Greatest({-1} \cup {j \in 0..i : ~IsSep(path, j)})
BackToSep(path, i)  == Greatest({-1} \cup {j \in 0..i : IsSep(path, j)})

PathUpIndex_KeepsName(path, start) ==
    LET last == IF start < Len(path) THEN start ELSE Len(path) - 1
    IN  BackToSep(path, BackToName(path, last))
PathUpIndex(path, start) ==
    LET last == IF start < Len(path) THEN start ELSE Len(path) - 1
        up   == BackToName(path, BackToSep(path, BackToName(path, last)))
    IN  IF up >= 0 THEN up + 1 ELSE -1

-----------------------------------------------------------------------------
(* srsPath_GetFull: joins the working directory and the path in the        *)
(* caller's buffer, and resolves what the buffer has room for.  real is    *)
(* realpath's answer to that: the absolute name of what exists, or <<>>.   *)

Asked(cwd, relative, size) == Stored(Concat(cwd, relative), size)
GetFull(cwd, relative, size, real) ==
    LET joined == Concat(cwd, relative)
    IN  IF size = 0 \/ cwd = <<>> THEN [needed |-> 0, text |-> <<>>]
        ELSE IF real = <<>> THEN [needed |-> Len(joined), text |-> Stored(joined, size)]
        ELSE [needed |-> Len(real), text |-> real]

-----------------------------------------------------------------------------
(* srsModel_Card_GetPath (src/src/model.c) joins the deck and the card, and *)
(* appends the extension if there is room for it with its terminator and    *)
(* one more.                                                                *)

CardPath(deck, card, extension, size) ==
    LET joined == Concat(deck, card)
    IN  IF joined = <<>> \/ Len(joined) + (Len(extension) + 1) + 1 > size
        THEN [needed |-> 0, text |-> Stored(joined, size)]
        ELSE [needed |-> Len(joined \o extension), text |-> joined \o extension]

-----------------------------------------------------------------------------
(* What a path means: the names along it, whether it begins at the top.    *)

\* names, when the path has become k characters long.
Longer(path, k, names) ==
    IF IsSep(path, k - 1) THEN names
    ELSE IF k = 1 \/ IsSep(path, k - 2) THEN Append(names, <<Char(path, k - 1)>>)
    ELSE [names EXCEPT ![Len(names)] = Append(@, Char(path, k - 1))]
Along(path) == LET names[k \in 0..Len(path)] ==
                       IF k = 0 THEN <<>> ELSE Longer(path, k, names[k - 1])
               IN  names
Names(path) == Along(path)[Len(path)]
Absolute(path) == IsSep(path, 0)
=============================================================================
