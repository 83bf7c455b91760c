------------------------------ MODULE MemStack ------------------------------
(***************************************************************************)
(* srsMEMSTACK (src/src/datastructure.c): a stack in one malloc'ed array   *)
(* that doubles when it fills and halves when it is under a quarter full.  *)
(* The allocator may refuse any malloc or realloc, and a realloc may move  *)
(* the array, which is what the saved `top' pointer has to survive.        *)
(***************************************************************************)
EXTENDS Integers, Sequences

CONSTANTS
    Value,              \* elements a user pushes
    Block,              \* addresses the allocator hands out
    NULL, Zero, Junk,   \* null pointer; zeroed bytes; uninitialised bytes
    InitialCapacities,  \* values of initial_capacity users pass
    MaxCount            \* bound: a user pushes onto fewer than this many elements

MINIMUM_CAPACITY == 2

ASSUME DistinctAssumption == NULL \notin Block /\ Zero \notin Value /\ Junk \notin Value
ASSUME InitialAssumption  == InitialCapacities \subseteq Int
ASSUME MaxCountAssumption == MaxCount \in Nat

VARIABLES
    stack,     \* the struct; stack.cells is what stack.memory points to
    data_out,  \* the user's variable behind Pop's data_out
    result,    \* what the last call returned
    status     \* "running", "aborted" (srsASSERT) or "crashed" (SIGSEGV)

vars == <<stack, data_out, result, status>>

Zeroed == [element_size |-> 0, capacity |-> 0, count |-> 0,
           memory |-> NULL, cells |-> <<>>, top |-> NULL]

Init == /\ stack = Zeroed
        /\ data_out = Zero
        /\ result = FALSE
        /\ status = "running"

-----------------------------------------------------------------------------
(* Helpers: all work on a struct value, as the C helpers work through a    *)
(* pointer.  A pointer to element n of the array is the pair <<block, n>>. *)

ElementPointerByNumber(s, n) == IF s.count = 0 THEN NULL ELSE <<s.memory, n>>

WithTop(s) == [s EXCEPT !.top = ElementPointerByNumber(s, s.count)]

SetCapacity_GrowsLate(s) == IF s.count > s.capacity THEN 2 * s.capacity ELSE s.capacity
SetCapacity_ShrinksAtHalf(s) ==
    IF s.count = s.capacity THEN 2 * s.capacity
    ELSE IF s.count < s.capacity \div 2 THEN s.capacity \div 2 ELSE s.capacity

\* The capacity srsMemStack_UpdateCapacity wants for the current count.
SetCapacity(s) ==
    IF s.count = s.capacity THEN 2 * s.capacity
    ELSE IF s.count < s.capacity \div 4
         THEN LET half == s.capacity \div 2
              IN  IF half < MINIMUM_CAPACITY THEN MINIMUM_CAPACITY ELSE half
         ELSE s.capacity

\* The asserts at the head of srsMemStack_UpdateCapacity.
CapacityAsserts(s) == s.capacity > 0 /\ s.count <= s.capacity

\* realloc is called only for a new capacity; NULL is its refusal.
Realloc(s) == IF SetCapacity(s) = s.capacity THEN {s.memory} ELSE Block \cup {NULL}

\* The struct srsMemStack_UpdateCapacity leaves when realloc returned mem.
UpdateCapacity(s, mem) ==
    IF mem = NULL THEN s
    ELSE WithTop([s EXCEPT
            !.memory   = mem,
            !.capacity = SetCapacity(s),
            !.cells    = [i \in 1..SetCapacity(s) |->
                            IF i \in DOMAIN s.cells THEN s.cells[i] ELSE Junk]])

Revert_CountLost ==
    \E mem \in Realloc(stack) :
        stack' = WithTop(UpdateCapacity([stack EXCEPT !.count = IF @ = 0 THEN 0 ELSE @ - 1], mem))

\* The `revert' label of Push and Pop: count restored, capacity retried.
Revert == \E mem \in Realloc(stack) : stack' = WithTop(UpdateCapacity(stack, mem))

-----------------------------------------------------------------------------
(* Operations                                                              *)

\* srsMemStack_Init.  Users initialise a struct that holds no memory, except
\* by the mistake of a zero element_size, which tears the stack down.
MemStack_Init(element_size, initial_capacity) ==
    /\ status = "running"
    /\ element_size > 0 => stack.memory = NULL
    /\ LET cap == IF initial_capacity > 0 THEN initial_capacity ELSE MINIMUM_CAPACITY
       IN  \E mem \in Block \cup {NULL} :
             IF element_size = 0 \/ mem = NULL
             THEN stack' = Zeroed /\ result' = FALSE
             ELSE /\ stack' = [element_size |-> element_size, capacity |-> cap,
                               count |-> 0, memory |-> mem,
                               cells |-> [i \in 1..cap |-> Junk], top |-> NULL]
                  /\ result' = TRUE
    /\ UNCHANGED <<data_out, status>>

FreeContents ==
    /\ status = "running"
    /\ result' = ~(stack.capacity = 0 \/ stack.element_size = 0)
    /\ stack' = IF result' THEN Zeroed ELSE stack
    /\ UNCHANGED <<data_out, status>>

PushRejected(data) ==
    /\ status = "running"
    /\ data = NULL \/ stack.memory = NULL
    /\ result' = FALSE
    /\ UNCHANGED <<stack, data_out, status>>

Push(data) ==
    /\ status = "running"
    /\ data # NULL /\ stack.memory # NULL
    /\ stack.count < MaxCount
    /\ LET counted == [stack EXCEPT !.count = @ + 1]
       IN  /\ status' = IF CapacityAsserts(counted) THEN "running" ELSE "aborted"
           /\ \E mem \in Realloc(counted) :
                \/ /\ mem # NULL
                   /\ LET s == UpdateCapacity(counted, mem)
                      IN  stack' = WithTop([s EXCEPT !.cells = [@ EXCEPT ![s.count] = data]])
                   /\ result' = TRUE
                \/ mem = NULL /\ Revert /\ result' = FALSE
    /\ UNCHANGED data_out

PopRejected ==
    /\ status = "running"
    /\ stack.memory = NULL \/ stack.count = 0
    /\ result' = FALSE
    /\ UNCHANGED <<stack, data_out, status>>

\* wanted: the user passed a data_out.  Without one the revert path still
\* calls memset on it.
Pop(wanted) ==
    /\ status = "running"
    /\ stack.memory # NULL /\ stack.count # 0
    /\ LET counted == [stack EXCEPT !.count = @ - 1]
           asserts == /\ stack.top = ElementPointerByNumber(stack, stack.count)
                      /\ CapacityAsserts(counted)
       IN  \E mem \in Realloc(counted) :
             \/ /\ mem # NULL
                /\ stack' = WithTop(UpdateCapacity(counted, mem))
                /\ data_out' = IF wanted THEN stack.cells[stack.count] ELSE data_out
                /\ result' = TRUE
                /\ status' = IF asserts THEN "running" ELSE "aborted"
             \/ /\ mem = NULL /\ Revert
                /\ IF wanted
                   THEN /\ data_out' = Zero
                        /\ result' = FALSE
                        /\ status' = IF asserts THEN "running" ELSE "aborted"
                   ELSE /\ status' = IF asserts THEN "crashed" ELSE "aborted"
                        /\ UNCHANGED <<data_out, result>>

Next == \/ \E e \in {0, 1}, c \in InitialCapacities : MemStack_Init(e, c)
        \/ FreeContents
        \/ \E d \in Value \cup {NULL} : PushRejected(d) \/ Push(d)
        \/ PopRejected
        \/ \E wanted \in BOOLEAN : Pop(wanted)

Spec == Init /\ [][Next]_vars

-----------------------------------------------------------------------------
(* Properties                                                              *)

Struct == [element_size : Nat, capacity : Nat, count : Nat,
           memory : Block \cup {NULL}, cells : Seq(Value \cup {Junk}),
           top : {NULL} \cup (Block \X Nat)]

\* Type invariant of the struct and of the user's view of it.
TypeOK == /\ stack \in Struct
          /\ data_out \in Value \cup {Zero}
          /\ result \in BOOLEAN
          /\ status \in {"running", "aborted", "crashed"}

\* A stack with memory always has room for one more element, and its capacity
\* is the size of its array (UpdateCapacity grows at equality).
RoomForOne == stack.memory # NULL =>
                 /\ stack.count < stack.capacity
                 /\ stack.capacity = Len(stack.cells)
                 /\ stack.element_size > 0

\* No element the user can reach is uninitialised memory: growing, shrinking
\* and reverting keep every pushed element.
NoJunkBelowTop == \A i \in 1..stack.count : stack.cells[i] # Junk

\* top points into the current array at the newest element, however often
\* realloc moved it: what Pop reads through and PopCWD dereferences.
TopIsCurrent == stack.top = ElementPointerByNumber(stack, stack.count)

\* A struct without memory is the zeroed struct.
NoMemoryIsZeroed == stack.memory = NULL => stack = Zeroed

\* None of the srsASSERTs of datastructure.c can fail.
NoAssertFails == status # "aborted"

\* The inductive invariant: everything an operation relies on.
Inv == /\ TypeOK
       /\ RoomForOne
       /\ NoJunkBelowTop
       /\ TopIsCurrent
       /\ NoMemoryIsZeroed
       /\ NoAssertFails

\* The gap between the two thresholds ("a reasonable space within which to
\* grow before increasing the size again", UpdateCapacity): after a shrink one
\* push does not grow, after a growth one pop does not shrink.
NoThrash ==
    [][LET old == stack.capacity
           new == stack'.capacity
       IN  (old > 0 /\ new > 0) =>
             /\ new < old => stack'.count + 1 < new
             /\ new > old => stack'.count - 1 >= new \div 4]_vars

\* The memory stack keeps what the abstract stack promises.
contents == [i \in 1..stack.count |-> stack.cells[i]]
Abstract == INSTANCE Stack WITH open <- stack.memory # NULL
ImplementsStack == Abstract!Spec
=============================================================================
