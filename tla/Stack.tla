------------------------------- MODULE Stack -------------------------------
(***************************************************************************)
(* What a memory stack promises its user (include/kioku/datastructure.h):  *)
(* a last-in first-out list.  An operation either does its whole work and  *)
(* returns true, or returns false and leaves the list as it was.           *)
(***************************************************************************)
EXTENDS Sequences, SequencesExt

CONSTANTS Value, Zero

VARIABLES
    open,      \* the stack holds memory: pushing can succeed
    contents,  \* the pushed elements, oldest first
    result,    \* what the last operation returned
    data_out   \* the popping user's variable

vars == <<open, contents, result, data_out>>

Init == open = FALSE /\ contents = <<>> /\ result = FALSE /\ data_out = Zero

Open == ~open /\ open' = TRUE /\ contents' = <<>> /\ result' = TRUE
             /\ UNCHANGED data_out

\* A stack that is torn down loses its elements, whatever the call returns.
Close == /\ open' = FALSE /\ contents' = <<>> /\ result' \in BOOLEAN
         /\ UNCHANGED data_out

Push == /\ open
        /\ \E v \in Value : contents' = Append(contents, v)
        /\ result' = TRUE
        /\ UNCHANGED <<open, data_out>>

Pop == /\ open /\ contents # <<>>
       /\ contents' = Front(contents)
       /\ data_out' \in {data_out, Last(contents)}
       /\ result' = TRUE
       /\ UNCHANGED open

Fail == /\ result' = FALSE
        /\ data_out' \in {data_out, Zero}
        /\ UNCHANGED <<open, contents>>

Next == Open \/ Close \/ Push \/ Pop \/ Fail

Spec == Init /\ [][Next]_vars
=============================================================================
