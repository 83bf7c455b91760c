--------------------------- MODULE MemStackProofs ---------------------------
(***************************************************************************)
(* Inv of MemStack is inductive: whatever the allocator answers, the array *)
(* has room, top is current and no srsASSERT of datastructure.c fails.     *)
(* The capacity keeps its distance from both thresholds, and the struct    *)
(* implements the list that Stack specifies.                               *)
(***************************************************************************)
EXTENDS MemStack, SequenceTheorems, TLAPS

Cell == Value \cup {Junk}

\* A struct with memory as srsMemStack_UpdateCapacity may meet it: a counted
\* element may have no room yet.
Usable(s) == /\ s \in Struct
             /\ s.memory \in Block
             /\ s.capacity > 0
             /\ s.count <= s.capacity
             /\ s.element_size > 0
             /\ s.cells \in [1..s.capacity -> Cell]

\* What every struct with memory is between two operations.
Sound(s) == /\ Usable(s)
            /\ s.count < s.capacity
            /\ \A i \in 1..s.count : s.cells[i] # Junk
            /\ s.top = ElementPointerByNumber(s, s.count)

\* The capacity chosen by srsMemStack_UpdateCapacity exceeds the count.
LEMMA CapacityExceedsCount ==
    ASSUME NEW s, Usable(s)
    PROVE  SetCapacity(s) \in Nat /\ s.count < SetCapacity(s)
  BY DEF Usable, Struct, SetCapacity, MINIMUM_CAPACITY

\* After a resize the count is away from both thresholds.
Hysteresis(old, new, count) ==
    old > 0 /\ new > 0 => /\ new < old => count + 1 < new
                          /\ new > old => count - 1 >= new \div 4

LEMMA SetCapacityKeepsDistance ==
    ASSUME NEW s, Usable(s)
    PROVE  Hysteresis(s.capacity, SetCapacity(s), s.count)
  BY DEF Usable, Struct, SetCapacity, MINIMUM_CAPACITY, Hysteresis

\* srsMemStack_UpdateCapacity keeps every counted element that was there and
\* leaves room for one more.
LEMMA UpdateCapacityKeeps ==
    ASSUME NEW s, Usable(s),
           NEW mem \in Realloc(s), mem # NULL
    PROVE  LET u == UpdateCapacity(s, mem)
           IN  /\ Usable(u)
               /\ u.count = s.count
               /\ u.count < u.capacity
               /\ u.top = ElementPointerByNumber(u, u.count)
               /\ u.memory = mem
               /\ Hysteresis(s.capacity, u.capacity, s.count)
               /\ \A i \in 1..s.count : u.cells[i] = s.cells[i]
<1> DEFINE u == UpdateCapacity(s, mem)
           cap == SetCapacity(s)
<1>1. cap \in Nat /\ s.count < cap
  BY CapacityExceedsCount
<1>2. mem \in Block
  BY DEF Realloc, Usable
<1>3. s \in Struct /\ s.count \in Nat /\ s.capacity \in Nat
  BY DEF Usable, Struct
<1>4. DOMAIN s.cells = 1..s.capacity
  BY DEF Usable
<1> DEFINE c == [i \in 1..cap |-> IF i \in DOMAIN s.cells THEN s.cells[i] ELSE Junk]
<1>5. c \in [1..cap -> Cell]
  BY <1>4 DEF Usable, Cell
<1>6. c \in Seq(Cell)
  BY <1>1, <1>5, SeqDef
<1>7. u = [element_size |-> s.element_size, capacity |-> cap, count |-> s.count,
           memory |-> mem, cells |-> c,
           top |-> IF s.count = 0 THEN NULL ELSE <<mem, s.count>>]
  BY <1>3 DEF UpdateCapacity, WithTop, ElementPointerByNumber, Struct
<1>8. \A i \in 1..s.count : u.cells[i] = s.cells[i]
  <2>1. \A i \in 1..s.count : i \in 1..cap /\ i \in 1..s.capacity
    BY <1>1, <1>3 DEF Usable
  <2>2. QED
    BY <2>1, <1>4, <1>7
<1>9. u \in Struct
  BY <1>1, <1>2, <1>3, <1>6, <1>7 DEF Struct, Cell
<1>10. Usable(u) /\ u.count = s.count /\ u.count < u.capacity /\ u.memory = mem
       /\ u.top = ElementPointerByNumber(u, u.count)
  BY <1>1, <1>2, <1>3, <1>5, <1>7, <1>9 DEF Usable, ElementPointerByNumber
<1>11. Hysteresis(s.capacity, u.capacity, s.count)
  BY <1>7, SetCapacityKeepsDistance
<1>12. QED
  BY <1>8, <1>10, <1>11

-----------------------------------------------------------------------------
(* One lemma per operation.                                                *)

\* Inv of a struct with memory is Sound and back.
LEMMA InvGivesSound ==
    ASSUME Inv, stack.memory # NULL
    PROVE  Sound(stack) /\ CapacityAsserts(stack)
<1>1. stack \in Struct /\ stack.memory \in Block
  BY DEF Inv, TypeOK, Struct
<1>2. stack.cells \in [1..stack.capacity -> Cell]
  BY <1>1, LenProperties DEF Inv, RoomForOne, Struct, Cell
<1>3. stack.count \in Nat /\ stack.capacity \in Nat /\ stack.element_size \in Nat
  BY <1>1 DEF Struct
<1>4. QED
  BY <1>1, <1>2, <1>3 DEF Inv, RoomForOne, NoJunkBelowTop, TopIsCurrent,
     Sound, Usable, CapacityAsserts

\* A Sound struct satisfies the parts of Inv about the struct.
LEMMA SoundGivesInv ==
    ASSUME NEW s, Sound(s)
    PROVE  /\ s \in Struct
           /\ s.count < s.capacity /\ s.capacity = Len(s.cells) /\ s.element_size > 0
           /\ \A i \in 1..s.count : s.cells[i] # Junk
           /\ s.top = ElementPointerByNumber(s, s.count)
           /\ s.memory # NULL
<1>1. s \in Struct /\ s.memory \in Block /\ s.cells \in [1..s.capacity -> Cell]
  BY DEF Sound, Usable
<1>2. s.capacity \in Nat /\ s.cells \in Seq(Cell)
  BY <1>1 DEF Struct, Cell
<1>3. s.capacity = Len(s.cells)
  BY <1>1, <1>2
<1>4. QED
  BY <1>1, <1>3, DistinctAssumption DEF Sound, Usable

\* WithTop keeps every field but top, which it makes current.
LEMMA WithTopSound ==
    ASSUME NEW s, Usable(s), s.count < s.capacity,
           \A i \in 1..s.count : s.cells[i] # Junk
    PROVE  Sound(WithTop(s))
<1>1. s \in Struct /\ s.memory \in Block /\ s.count \in Nat
  BY DEF Usable, Struct
<1> DEFINE w == WithTop(s)
<1>2. w = [element_size |-> s.element_size, capacity |-> s.capacity, count |-> s.count,
           memory |-> s.memory, cells |-> s.cells,
           top |-> IF s.count = 0 THEN NULL ELSE <<s.memory, s.count>>]
  BY <1>1 DEF WithTop, ElementPointerByNumber, Struct
<1>3. w \in Struct
  BY <1>1, <1>2 DEF Struct
<1>4. QED
  BY <1>2, <1>3 DEF Sound, Usable, ElementPointerByNumber

\* The revert label: the struct is Sound again whether or not the second
\* realloc succeeds, and holds the same elements.
LEMMA RevertSound ==
    ASSUME Sound(stack), Revert
    PROVE  /\ Sound(stack')
           /\ stack'.count = stack.count
           /\ \A i \in 1..stack.count : stack'.cells[i] = stack.cells[i]
           /\ Hysteresis(stack.capacity, stack'.capacity, stack'.count)
<1>1. PICK mem \in Realloc(stack) : stack' = WithTop(UpdateCapacity(stack, mem))
  BY DEF Revert
<1> DEFINE u == UpdateCapacity(stack, mem)
<1>2. Usable(stack) /\ stack.count < stack.capacity
  BY DEF Sound
<1>3. /\ Usable(u) /\ u.count = stack.count /\ u.count < u.capacity
      /\ \A i \in 1..stack.count : u.cells[i] = stack.cells[i]
      /\ Hysteresis(stack.capacity, u.capacity, stack.count)
  <2>1. CASE mem = NULL
    BY <1>2, <2>1 DEF UpdateCapacity, Usable, Struct, Hysteresis
  <2>2. CASE mem # NULL
    BY <1>2, <2>2, UpdateCapacityKeeps
  <2>3. QED
    BY <2>1, <2>2
<1>4. \A i \in 1..u.count : u.cells[i] # Junk
  BY <1>3 DEF Sound
<1>5. Sound(WithTop(u))
  BY <1>3, <1>4, WithTopSound
<1>6. /\ WithTop(u).count = u.count /\ WithTop(u).cells = u.cells
      /\ WithTop(u).capacity = u.capacity
  BY <1>3 DEF WithTop, Usable, Struct
<1>7. /\ Sound(stack') /\ stack'.count = stack.count /\ stack'.capacity = u.capacity
      /\ \A i \in 1..stack.count : stack'.cells[i] = stack.cells[i]
  <2> HIDE DEF u
  <2>1. QED
    BY <1>1, <1>3, <1>5, <1>6 DEF u
<1>8. Hysteresis(stack.capacity, stack'.capacity, stack'.count)
  BY <1>3, <1>7
<1>9. QED
  BY <1>7, <1>8

\* The user's side of a step.
UserOK == data_out \in Value \cup {Zero} /\ result \in BOOLEAN /\ status \in {"running", "crashed"}

\* A step that leaves a Sound struct keeps Inv.
LEMMA SoundStep ==
    ASSUME Sound(stack'), UserOK'
    PROVE  Inv'
  BY SoundGivesInv DEF UserOK, Inv, TypeOK, RoomForOne, NoJunkBelowTop,
     TopIsCurrent, NoMemoryIsZeroed, NoAssertFails

\* The zeroed struct satisfies the parts of Inv about the struct.
LEMMA ZeroedStruct ==
    Zeroed \in Struct /\ Zeroed.memory = NULL /\ Zeroed.count = 0 /\ Zeroed.top = NULL
<1>1. <<>> \in Seq(Value \cup {Junk})
  OBVIOUS
<1>2. QED
  BY <1>1 DEF Zeroed, Struct

\* A step that tears the stack down keeps Inv.
LEMMA ZeroedStep ==
    ASSUME stack' = Zeroed, UserOK'
    PROVE  Inv'
<1>1. \A i \in 1..stack'.count : stack'.cells[i] # Junk
  BY ZeroedStruct
<1>2. QED
  BY <1>1, ZeroedStruct DEF UserOK, Inv, TypeOK, RoomForOne, NoJunkBelowTop,
     TopIsCurrent, NoMemoryIsZeroed, NoAssertFails, ElementPointerByNumber

\* A step that leaves the struct alone keeps Inv.
LEMMA UnchangedStep ==
    ASSUME Inv, UNCHANGED stack, UserOK'
    PROVE  Inv'
  BY DEF UserOK, Inv, TypeOK, RoomForOne, NoJunkBelowTop,
     TopIsCurrent, NoMemoryIsZeroed, NoAssertFails

LEMMA MemStack_InitStep ==
    ASSUME Inv, NEW e \in {0, 1}, NEW c \in InitialCapacities, MemStack_Init(e, c)
    PROVE  Inv'
<1> DEFINE cap == IF c > 0 THEN c ELSE MINIMUM_CAPACITY
<1>1. cap \in Nat /\ cap > 0
  BY InitialAssumption DEF MINIMUM_CAPACITY
<1>2. UserOK'
  BY DEF MemStack_Init, UserOK, Inv, TypeOK
<1>3. CASE stack' = Zeroed
  BY <1>2, <1>3, ZeroedStep
<1>4. CASE stack' # Zeroed
  <2>1. PICK mem \in Block :
          stack' = [element_size |-> e, capacity |-> cap, count |-> 0, memory |-> mem,
                    cells |-> [i \in 1..cap |-> Junk], top |-> NULL]
    BY <1>4 DEF MemStack_Init
  <2>2. e = 1
    BY <1>4 DEF MemStack_Init
  <2>3. [i \in 1..cap |-> Junk] \in [1..cap -> Cell]
    BY DEF Cell
  <2>4. [i \in 1..cap |-> Junk] \in Seq(Cell)
    BY <1>1, <2>3, SeqDef
  <2>5. stack' \in Struct
    BY <1>1, <2>1, <2>2, <2>4 DEF Struct, Cell
  <2>6. Sound(stack')
    BY <1>1, <2>1, <2>2, <2>3, <2>5 DEF Sound, Usable, ElementPointerByNumber
  <2>7. QED
    BY <1>2, <2>6, SoundStep
<1>5. QED
  BY <1>3, <1>4

LEMMA FreeContentsStep ==
    ASSUME Inv, FreeContents
    PROVE  Inv'
<1>1. UserOK'
  BY DEF FreeContents, UserOK, Inv, TypeOK
<1>2. stack' = Zeroed \/ stack' = stack
  BY DEF FreeContents
<1>3. QED
  BY <1>1, <1>2, ZeroedStep, UnchangedStep

\* The memcpy of srsMemStack_Push into the slot it has just counted.
LEMMA StoreAtTop ==
    ASSUME NEW s, Usable(s), s.count > 0, s.count < s.capacity,
           NEW d \in Cell, d # Junk,
           \A i \in 1..(s.count - 1) : s.cells[i] # Junk
    PROVE  LET w == WithTop([s EXCEPT !.cells = [@ EXCEPT ![s.count] = d]])
           IN  /\ Sound(w)
               /\ w.count = s.count /\ w.capacity = s.capacity
               /\ \A i \in 1..s.count : w.cells[i] = IF i = s.count THEN d ELSE s.cells[i]
<1> DEFINE c == [s.cells EXCEPT ![s.count] = d]
           p == [s EXCEPT !.cells = c]
<1>1. /\ s \in Struct /\ s.count \in Nat /\ s.capacity \in Nat
      /\ s.cells \in [1..s.capacity -> Cell]
  BY DEF Usable, Struct
<1>2. s.count \in 1..s.capacity
  BY <1>1
<1>3. p = [element_size |-> s.element_size, capacity |-> s.capacity,
           count |-> s.count, memory |-> s.memory, cells |-> c, top |-> s.top]
  <2> HIDE DEF c
  <2>1. QED
    BY <1>1 DEF Struct
<1>4. c \in [1..s.capacity -> Cell]
  BY <1>1
<1>5. c \in Seq(Cell)
  BY <1>1, <1>4, SeqDef
<1>6. p \in Struct
  BY <1>1, <1>3, <1>5 DEF Struct, Cell
<1>7. Usable(p) /\ p.count < p.capacity
  BY <1>3, <1>4, <1>6 DEF Usable
<1>8. \A i \in 1..s.count : i \in 1..s.capacity /\ (i # s.count => i \in 1..(s.count - 1))
  BY <1>1
<1>9. \A i \in 1..s.count : c[i] = IF i = s.count THEN d ELSE s.cells[i]
  BY <1>1, <1>8
<1>10. \A i \in 1..p.count : p.cells[i] # Junk
  BY <1>3, <1>8, <1>9
<1>11. Sound(WithTop(p))
  BY <1>7, <1>10, WithTopSound
<1>12. WithTop(p).count = s.count /\ WithTop(p).capacity = s.capacity /\ WithTop(p).cells = c
  <2> HIDE DEF c
  <2>1. QED
    BY <1>3 DEF WithTop
<1>13. QED
  BY <1>9, <1>11, <1>12

\* The struct has been left with the same elements.
Kept == /\ stack'.count = stack.count
        /\ \A i \in 1..stack.count : stack'.cells[i] = stack.cells[i]

\* A push stores the element in the slot UpdateCapacity made sure of, on top of
\* the others, or leaves them as they were and returns false.
LEMMA PushOutcome ==
    ASSUME Inv, NEW d \in Value \cup {NULL}, Push(d)
    PROVE  /\ Sound(stack) /\ Sound(stack') /\ UserOK' /\ d \in Value
           /\ Hysteresis(stack.capacity, stack'.capacity, stack'.count)
           /\ \/ result' = FALSE /\ Kept
              \/ /\ result' = TRUE
                 /\ stack'.count = stack.count + 1
                 /\ stack'.cells[stack.count + 1] = d
                 /\ \A i \in 1..stack.count : stack'.cells[i] = stack.cells[i]
<1> DEFINE counted == [stack EXCEPT !.count = @ + 1]
<1>1. Sound(stack)
  BY InvGivesSound DEF Push
<1>2. /\ stack \in Struct /\ stack.count \in Nat /\ stack.capacity \in Nat
      /\ stack.count < stack.capacity
  BY <1>1 DEF Sound, Usable, Struct
<1>3. /\ counted = [element_size |-> stack.element_size, capacity |-> stack.capacity,
                    count |-> stack.count + 1, memory |-> stack.memory,
                    cells |-> stack.cells, top |-> stack.top]
  BY <1>2 DEF Struct
<1>4. Usable(counted)
  <2>1. counted \in Struct
    BY <1>2, <1>3 DEF Struct
  <2>2. QED
    BY <1>1, <1>2, <1>3, <2>1 DEF Sound, Usable
<1>5. CapacityAsserts(counted)
  BY <1>4 DEF Usable, CapacityAsserts
<1>6. PICK mem \in Realloc(counted) :
        \/ /\ mem # NULL
           /\ LET s == UpdateCapacity(counted, mem)
              IN  stack' = WithTop([s EXCEPT !.cells = [@ EXCEPT ![s.count] = d]])
           /\ result' = TRUE
        \/ mem = NULL /\ Revert /\ result' = FALSE
  BY DEF Push
<1>7. UserOK'
  BY <1>5, <1>6 DEF Push, UserOK, Inv, TypeOK
<1>8. d \in Value
  BY DEF Push
<1>9. CASE mem = NULL
  <2>1. Revert /\ result' = FALSE
    BY <1>6, <1>9
  <2>2. Sound(stack') /\ Kept /\ Hysteresis(stack.capacity, stack'.capacity, stack'.count)
    BY <1>1, <2>1, RevertSound DEF Kept
  <2>3. QED
    BY <1>1, <1>7, <1>8, <2>1, <2>2
<1>10. CASE mem # NULL
  <2> DEFINE s == UpdateCapacity(counted, mem)
             p == [s EXCEPT !.cells = [@ EXCEPT ![s.count] = d]]
  <2>1. /\ Usable(s) /\ s.count = stack.count + 1 /\ s.count < s.capacity
        /\ \A i \in 1..s.count : s.cells[i] = stack.cells[i]
        /\ Hysteresis(stack.capacity, s.capacity, s.count)
    BY <1>3, <1>4, <1>10, UpdateCapacityKeeps
  <2>2. d \in Cell /\ d # Junk
    BY <1>8, DistinctAssumption DEF Cell
  <2> HIDE DEF s
  <2>3. s.count > 0
    BY <1>2, <2>1
  <2>4. \A i \in 1..(s.count - 1) : s.cells[i] # Junk
    <3>1. \A i \in 1..(s.count - 1) : i \in 1..stack.count /\ i \in 1..s.count
      BY <1>2, <2>1
    <3>2. QED
      BY <1>1, <2>1, <3>1 DEF Sound
  <2>5. stack' = WithTop(p)
    BY <1>6, <1>10 DEF s
  <2>6. /\ Sound(stack') /\ stack'.count = s.count /\ stack'.capacity = s.capacity
        /\ \A i \in 1..s.count : stack'.cells[i] = IF i = s.count THEN d ELSE s.cells[i]
    BY <2>1, <2>2, <2>3, <2>4, <2>5, StoreAtTop
  <2>7. /\ stack'.cells[stack.count + 1] = d
        /\ \A i \in 1..stack.count : stack'.cells[i] = stack.cells[i]
    <3>1. \A i \in 1..stack.count : i \in 1..s.count /\ i # s.count
      BY <1>2, <2>1
    <3>2. stack.count + 1 \in 1..s.count
      BY <1>2, <2>1
    <3>3. QED
      BY <2>1, <2>6, <3>1, <3>2
  <2>8. result' = TRUE
    BY <1>6, <1>10
  <2>9. Hysteresis(stack.capacity, stack'.capacity, stack'.count)
    BY <2>1, <2>6
  <2>10. QED
    BY <1>1, <1>7, <1>8, <2>1, <2>6, <2>7, <2>8, <2>9
<1>11. QED
  BY <1>9, <1>10

LEMMA PushStep ==
    ASSUME Inv, NEW d \in Value \cup {NULL}, Push(d)
    PROVE  Inv'
  BY PushOutcome, SoundStep

\* A pop takes the newest element off and hands it over if it is wanted, or
\* leaves the elements as they were; it does not return true for less.
LEMMA PopOutcome ==
    ASSUME Inv, NEW wanted \in BOOLEAN, Pop(wanted)
    PROVE  /\ Sound(stack) /\ Sound(stack') /\ UserOK' /\ stack.count # 0
           /\ Hysteresis(stack.capacity, stack'.capacity, stack'.count)
           /\ \/ /\ Kept
                 /\ \/ result' = FALSE /\ data_out' = Zero
                    \/ UNCHANGED <<result, data_out>>
              \/ /\ result' = TRUE
                 /\ stack'.count = stack.count - 1
                 /\ \A i \in 1..stack'.count : stack'.cells[i] = stack.cells[i]
                 /\ data_out' \in {data_out, stack.cells[stack.count]}
<1> DEFINE counted == [stack EXCEPT !.count = @ - 1]
           asserts == /\ stack.top = ElementPointerByNumber(stack, stack.count)
                      /\ CapacityAsserts(counted)
<1>1. Sound(stack) /\ stack.count # 0
  BY InvGivesSound DEF Pop
<1>2. /\ stack \in Struct /\ stack.count \in Nat /\ stack.capacity \in Nat
      /\ stack.count < stack.capacity
  BY <1>1 DEF Sound, Usable, Struct
<1>3. counted = [element_size |-> stack.element_size, capacity |-> stack.capacity,
                 count |-> stack.count - 1, memory |-> stack.memory,
                 cells |-> stack.cells, top |-> stack.top]
  BY <1>2 DEF Struct
<1>4. Usable(counted)
  <2>1. counted \in Struct
    BY <1>1, <1>2, <1>3 DEF Struct
  <2>2. QED
    BY <1>1, <1>2, <1>3, <2>1 DEF Sound, Usable
<1>5. asserts
  BY <1>1, <1>4 DEF Sound, Usable, CapacityAsserts
<1>6. stack.cells[stack.count] \in Value
  <2>1. stack.count \in 1..stack.capacity /\ stack.count \in 1..stack.count
    BY <1>1, <1>2
  <2>2. stack.cells[stack.count] \in Cell /\ stack.cells[stack.count] # Junk
    BY <1>1, <2>1 DEF Sound, Usable
  <2>3. QED
    BY <2>2 DEF Cell
<1>7. PICK mem \in Realloc(counted) :
        \/ /\ mem # NULL
           /\ stack' = WithTop(UpdateCapacity(counted, mem))
           /\ data_out' = IF wanted THEN stack.cells[stack.count] ELSE data_out
           /\ result' = TRUE
           /\ status' = IF asserts THEN "running" ELSE "aborted"
        \/ /\ mem = NULL /\ Revert
           /\ IF wanted
              THEN /\ data_out' = Zero
                   /\ result' = FALSE
                   /\ status' = IF asserts THEN "running" ELSE "aborted"
              ELSE /\ status' = IF asserts THEN "crashed" ELSE "aborted"
                   /\ UNCHANGED <<data_out, result>>
  BY DEF Pop
<1>8. UserOK'
  <2> HIDE DEF asserts
  <2>1. data_out \in Value \cup {Zero} /\ result \in BOOLEAN
    BY DEF Inv, TypeOK
  <2>2. QED
    BY <1>5, <1>6, <1>7, <2>1 DEF UserOK
<1>9. CASE mem = NULL
  <2>1. /\ Revert
        /\ \/ result' = FALSE /\ data_out' = Zero
           \/ UNCHANGED <<result, data_out>>
    <3> HIDE DEF asserts
    <3>1. QED
      BY <1>7, <1>9
  <2>2. Sound(stack') /\ Kept /\ Hysteresis(stack.capacity, stack'.capacity, stack'.count)
    BY <1>1, <2>1, RevertSound DEF Kept
  <2>3. QED
    BY <1>1, <1>8, <2>1, <2>2
<1>10. CASE mem # NULL
  <2> DEFINE s == UpdateCapacity(counted, mem)
  <2>1. /\ Usable(s) /\ s.count = stack.count - 1 /\ s.count < s.capacity
        /\ \A i \in 1..s.count : s.cells[i] = stack.cells[i]
        /\ Hysteresis(stack.capacity, s.capacity, s.count)
    BY <1>3, <1>4, <1>10, UpdateCapacityKeeps
  <2>2. \A i \in 1..s.count : i \in 1..stack.count
    BY <1>2, <2>1
  <2>3. \A i \in 1..s.count : s.cells[i] # Junk
    BY <1>1, <2>1, <2>2 DEF Sound
  <2>4. Sound(WithTop(s))
    BY <2>1, <2>3, WithTopSound
  <2>5. /\ stack' = WithTop(s) /\ result' = TRUE
        /\ data_out' \in {data_out, stack.cells[stack.count]}
    <3> HIDE DEF asserts, s
    <3>1. QED
      BY <1>7, <1>10 DEF s
  <2>6. stack'.count = s.count /\ stack'.capacity = s.capacity /\ stack'.cells = s.cells
    <3> HIDE DEF s
    <3>1. QED
      BY <2>1, <2>5 DEF WithTop, Usable, Struct
  <2> HIDE DEF s
  <2>7. QED
    BY <1>1, <1>8, <2>1, <2>4, <2>5, <2>6
<1>11. QED
  BY <1>9, <1>10

LEMMA PopStep ==
    ASSUME Inv, NEW wanted \in BOOLEAN, Pop(wanted)
    PROVE  Inv'
  BY PopOutcome, SoundStep

-----------------------------------------------------------------------------
\* Inv holds in every reachable state of every memory stack: the array always
\* has room for one more element, no element below top is uninitialised, top
\* follows every realloc, and no srsASSERT of datastructure.c can fail.
THEOREM InvAlways == Spec => []Inv
<1>1. Init => Inv
  <2> SUFFICES ASSUME Init PROVE Inv
    OBVIOUS
  <2>1. \A i \in 1..stack.count : stack.cells[i] # Junk
    BY ZeroedStruct DEF Init
  <2>2. QED
    BY <2>1, ZeroedStruct DEF Init, Inv, TypeOK, RoomForOne, NoJunkBelowTop,
       TopIsCurrent, NoMemoryIsZeroed, NoAssertFails, ElementPointerByNumber
<1>2. Inv /\ [Next]_vars => Inv'
  <2> SUFFICES ASSUME Inv, [Next]_vars PROVE Inv'
    OBVIOUS
  <2>1. ASSUME NEW e \in {0, 1}, NEW c \in InitialCapacities, MemStack_Init(e, c) PROVE Inv'
    BY <2>1, MemStack_InitStep
  <2>2. CASE FreeContents
    BY <2>2, FreeContentsStep
  <2>3. ASSUME NEW d \in Value \cup {NULL}, PushRejected(d) PROVE Inv'
    <3>1. UNCHANGED stack /\ UserOK'
      BY <2>3 DEF PushRejected, UserOK, Inv, TypeOK
    <3>2. QED
      BY <3>1, UnchangedStep
  <2>4. ASSUME NEW d \in Value \cup {NULL}, Push(d) PROVE Inv'
    BY <2>4, PushStep
  <2>5. CASE PopRejected
    <3>1. UNCHANGED stack /\ UserOK'
      BY <2>5 DEF PopRejected, UserOK, Inv, TypeOK
    <3>2. QED
      BY <3>1, UnchangedStep
  <2>6. ASSUME NEW wanted \in BOOLEAN, Pop(wanted) PROVE Inv'
    BY <2>6, PopStep
  <2>7. CASE UNCHANGED vars
    <3>1. UNCHANGED stack /\ UserOK'
      BY <2>7 DEF vars, UserOK, Inv, TypeOK, NoAssertFails
    <3>2. QED
      BY <3>1, UnchangedStep
  <2>8. QED
    BY <2>1, <2>2, <2>3, <2>4, <2>5, <2>6, <2>7 DEF Next
<1>3. QED
  BY <1>1, <1>2, PTL DEF Spec

-----------------------------------------------------------------------------
(* The two thresholds of srsMemStack_UpdateCapacity.                       *)

\* NoThrash of one step.
NoThrashStep == Hysteresis(stack.capacity, stack'.capacity, stack'.count)

\* A capacity that stays, or one that begins or ends at zero, keeps its distance.
LEMMA NoResize ==
    ASSUME \/ stack'.capacity = stack.capacity
           \/ stack'.capacity = 0
           \/ stack.capacity = 0,
           stack.capacity \in Nat
    PROVE  NoThrashStep
  BY DEF NoThrashStep, Hysteresis

\* NoThrash: a resize leaves the count at a distance from both thresholds, so
\* that no stack, of any size, is reallocated by each of two opposite calls.
THEOREM CapacityKeepsDistance == Spec => NoThrash
<1>1. Inv /\ [Next]_vars => [NoThrashStep]_vars
  <2> SUFFICES ASSUME Inv, [Next]_vars PROVE NoThrashStep \/ UNCHANGED vars
    OBVIOUS
  <2>1. stack.capacity \in Nat
    BY DEF Inv, TypeOK, Struct
  <2>2. Zeroed.capacity = 0
    BY DEF Zeroed
  <2>3. ASSUME NEW e \in {0, 1}, NEW c \in InitialCapacities, MemStack_Init(e, c)
        PROVE  NoThrashStep
    <3>1. CASE e = 0
      <4>1. stack' = Zeroed
        BY <2>3, <3>1 DEF MemStack_Init
      <4>2. QED
        BY <2>1, <2>2, <4>1, NoResize
    <3>2. CASE e = 1
      <4>1. stack = Zeroed
        BY <2>3, <3>2 DEF MemStack_Init, Inv, NoMemoryIsZeroed
      <4>2. QED
        BY <2>1, <2>2, <4>1, NoResize
    <3>3. QED
      BY <3>1, <3>2
  <2>4. CASE FreeContents
    <3>1. stack' = Zeroed \/ stack' = stack
      BY <2>4 DEF FreeContents
    <3>2. QED
      BY <2>1, <2>2, <3>1, NoResize
  <2>5. ASSUME NEW d \in Value \cup {NULL}, PushRejected(d) PROVE NoThrashStep
    BY <2>1, <2>5, NoResize DEF PushRejected
  <2>6. ASSUME NEW d \in Value \cup {NULL}, Push(d) PROVE NoThrashStep
    BY <2>6, PushOutcome DEF NoThrashStep
  <2>7. CASE PopRejected
    BY <2>1, <2>7, NoResize DEF PopRejected
  <2>8. ASSUME NEW wanted \in BOOLEAN, Pop(wanted) PROVE NoThrashStep
    BY <2>8, PopOutcome DEF NoThrashStep
  <2>9. QED
    BY <2>3, <2>4, <2>5, <2>6, <2>7, <2>8 DEF Next
<1>2. [NoThrashStep]_vars =>
        [LET old == stack.capacity
             new == stack'.capacity
         IN  (old > 0 /\ new > 0) =>
               /\ new < old => stack'.count + 1 < new
               /\ new > old => stack'.count - 1 >= new \div 4]_vars
  BY DEF NoThrashStep, Hysteresis
<1>3. QED
  BY <1>1, <1>2, InvAlways, PTL DEF Spec, NoThrash

-----------------------------------------------------------------------------
(* The memory stack implements the list of Stack.                          *)

LEMMA ContentsOfSound ==
    ASSUME Sound(stack)
    PROVE  /\ stack.memory # NULL
           /\ stack.count \in Nat
           /\ contents \in Seq(Value)
           /\ Len(contents) = stack.count
<1>1. stack.count \in Nat /\ stack.capacity \in Nat /\ stack.count < stack.capacity
  BY DEF Sound, Usable, Struct
<1>2. \A i \in 1..stack.count : stack.cells[i] \in Value
  <2> SUFFICES ASSUME NEW i \in 1..stack.count PROVE stack.cells[i] \in Value
    OBVIOUS
  <2>1. i \in 1..stack.capacity
    BY <1>1
  <2>2. stack.cells[i] \in Cell /\ stack.cells[i] # Junk
    BY <2>1 DEF Sound, Usable
  <2>3. QED
    BY <2>2 DEF Cell
<1>3. contents \in [1..stack.count -> Value]
  BY <1>2 DEF contents
<1>4. contents \in Seq(Value)
  BY <1>1, <1>3, SeqDef
<1>5. Len(contents) = stack.count
  BY <1>1, <1>3, <1>4
<1>6. QED
  BY <1>1, <1>4, <1>5, DistinctAssumption DEF Sound, Usable

\* The zeroed struct stands for the closed, empty stack.
LEMMA ZeroedContents ==
    stack = Zeroed => stack.memory = NULL /\ contents = <<>>
<1> SUFFICES ASSUME stack = Zeroed PROVE stack.memory = NULL /\ contents = <<>>
  OBVIOUS
<1>1. contents = [i \in 1..0 |-> stack.cells[i]]
  BY ZeroedStruct DEF contents
<1>2. QED
  BY <1>1, ZeroedStruct

\* A struct with the same elements stands for the same list.
LEMMA KeptContents ==
    ASSUME Kept
    PROVE  contents' = contents
  BY DEF Kept, contents

LEMMA InitRefines ==
    ASSUME Inv, NEW e \in {0, 1}, NEW c \in InitialCapacities, MemStack_Init(e, c)
    PROVE  Abstract!Next
<1>1. CASE stack' = Zeroed
  <2>1. (stack.memory)' = NULL /\ contents' = <<>>
    BY <1>1, ZeroedStruct, ZeroedContents DEF contents
  <2>2. result' \in BOOLEAN /\ UNCHANGED data_out
    BY DEF MemStack_Init
  <2>3. QED
    BY <2>1, <2>2 DEF Abstract!Next, Abstract!Close
<1>2. CASE stack' # Zeroed
  <2>1. e = 1 /\ stack.memory = NULL /\ result' = TRUE /\ UNCHANGED data_out
    BY <1>2 DEF MemStack_Init
  <2>2. stack'.memory \in Block /\ stack'.count = 0
    BY <1>2 DEF MemStack_Init
  <2>3. contents' = [i \in 1..0 |-> stack'.cells[i]]
    BY <2>2 DEF contents
  <2>4. contents' = <<>>
    BY <2>3
  <2>5. stack'.memory # NULL
    BY <2>2, DistinctAssumption
  <2>6. QED
    BY <2>1, <2>4, <2>5 DEF Abstract!Next, Abstract!Open
<1>3. QED
  BY <1>1, <1>2

LEMMA PushRefines ==
    ASSUME Inv, NEW d \in Value \cup {NULL}, Push(d)
    PROVE  Abstract!Next
<1>1. Sound(stack) /\ Sound(stack') /\ d \in Value /\ UNCHANGED data_out
  BY PushOutcome DEF Push
<1>2. /\ stack.memory # NULL /\ stack.count \in Nat
      /\ contents \in Seq(Value) /\ Len(contents) = stack.count
  BY <1>1, ContentsOfSound
<1>3. stack'.memory # NULL
  BY <1>1, SoundGivesInv
<1>4. CASE result' = FALSE /\ Kept
  BY <1>1, <1>2, <1>3, <1>4, KeptContents DEF Abstract!Next, Abstract!Fail
<1>5. CASE /\ result' = TRUE
           /\ stack'.count = stack.count + 1
           /\ stack'.cells[stack.count + 1] = d
           /\ \A i \in 1..stack.count : stack'.cells[i] = stack.cells[i]
  <2>1. contents' = [i \in 1..(stack.count + 1) |-> stack'.cells[i]]
    BY <1>5 DEF contents
  <2>2. \A i \in 1..(stack.count + 1) :
          stack'.cells[i] = IF i \in 1..stack.count THEN contents[i] ELSE d
    BY <1>2, <1>5 DEF contents
  <2>3. Append(contents, d) =
          [i \in 1..(stack.count + 1) |-> IF i \in 1..stack.count THEN contents[i] ELSE d]
    <3>1. /\ Append(contents, d) \in Seq(Value)
          /\ Len(Append(contents, d)) = stack.count + 1
          /\ \A i \in 1..stack.count : Append(contents, d)[i] = contents[i]
          /\ Append(contents, d)[stack.count + 1] = d
      BY <1>1, <1>2, AppendProperties
    <3>2. \A i \in 1..(stack.count + 1) :
            Append(contents, d)[i] = IF i \in 1..stack.count THEN contents[i] ELSE d
      BY <1>2, <3>1
    <3>3. Append(contents, d) \in [1..(stack.count + 1) -> Value]
      BY <3>1, LenProperties
    <3>4. QED
      BY <3>2, <3>3
  <2>4. contents' = Append(contents, d)
    BY <2>1, <2>2, <2>3
  <2>5. QED
    BY <1>1, <1>2, <1>3, <1>5, <2>4 DEF Abstract!Next, Abstract!Push
<1>6. QED
  BY <1>4, <1>5, PushOutcome

LEMMA PopRefines ==
    ASSUME Inv, NEW wanted \in BOOLEAN, Pop(wanted)
    PROVE  Abstract!Next \/ UNCHANGED Abstract!vars
<1>1. Sound(stack) /\ Sound(stack') /\ stack.count # 0
  BY PopOutcome
<1>2. /\ stack.memory # NULL /\ stack.count \in Nat
      /\ contents \in Seq(Value) /\ Len(contents) = stack.count
  BY <1>1, ContentsOfSound
<1>3. stack'.memory # NULL
  BY <1>1, SoundGivesInv
<1>4. CASE Kept /\ result' = FALSE /\ data_out' = Zero
  BY <1>2, <1>3, <1>4, KeptContents DEF Abstract!Next, Abstract!Fail
<1>5. CASE Kept /\ UNCHANGED <<result, data_out>>
  BY <1>2, <1>3, <1>5, KeptContents DEF Abstract!vars
<1>6. CASE /\ result' = TRUE
           /\ stack'.count = stack.count - 1
           /\ \A i \in 1..stack'.count : stack'.cells[i] = stack.cells[i]
           /\ data_out' \in {data_out, stack.cells[stack.count]}
  <2>1. contents' = [i \in 1..(stack.count - 1) |-> contents[i]]
    <3>1. contents' = [i \in 1..(stack.count - 1) |-> stack'.cells[i]]
      BY <1>6 DEF contents
    <3>2. \A i \in 1..(stack.count - 1) : stack'.cells[i] = contents[i]
      BY <1>2, <1>6 DEF contents
    <3>3. QED
      BY <3>1, <3>2
  <2>2. contents' = Abstract!Front(contents)
    BY <1>1, <1>2, <2>1 DEF Abstract!Front
  <2>3. stack.cells[stack.count] = Abstract!Last(contents)
    BY <1>1, <1>2 DEF Abstract!Last, contents
  <2>4. contents # <<>>
    BY <1>1, <1>2
  <2>5. QED
    BY <1>2, <1>3, <1>6, <2>2, <2>3, <2>4 DEF Abstract!Next, Abstract!Pop
<1>7. QED
  BY <1>4, <1>5, <1>6, PopOutcome

\* The array that moves, grows and shrinks is the last-in first-out list of
\* Stack: every operation does the whole of its abstract counterpart or fails
\* with the elements as they were, for every allocator and every user.
THEOREM ImplementsStackAlways == Spec => ImplementsStack
<1>1. Init => Abstract!Init
  BY ZeroedStruct, ZeroedContents DEF Init, Abstract!Init
<1>2. Inv /\ [Next]_vars => [Abstract!Next]_(Abstract!vars)
  <2> SUFFICES ASSUME Inv, [Next]_vars
               PROVE  Abstract!Next \/ UNCHANGED Abstract!vars
    OBVIOUS
  <2>1. ASSUME NEW e \in {0, 1}, NEW c \in InitialCapacities, MemStack_Init(e, c)
        PROVE  Abstract!Next
    BY <2>1, InitRefines
  <2>2. CASE FreeContents
    <3>1. CASE stack' = Zeroed
      <4>1. (stack.memory)' = NULL /\ contents' = <<>>
        BY <3>1, ZeroedStruct DEF contents
      <4>2. QED
        BY <2>2, <4>1 DEF Abstract!Next, Abstract!Close, FreeContents
    <3>2. CASE stack' = stack /\ result' = FALSE
      BY <2>2, <3>2 DEF Abstract!Next, Abstract!Fail, FreeContents, contents
    <3>3. QED
      BY <2>2, <3>1, <3>2 DEF FreeContents
  <2>3. ASSUME NEW d \in Value \cup {NULL}, PushRejected(d) PROVE Abstract!Next
    BY <2>3 DEF Abstract!Next, Abstract!Fail, PushRejected, contents
  <2>4. ASSUME NEW d \in Value \cup {NULL}, Push(d) PROVE Abstract!Next
    BY <2>4, PushRefines
  <2>5. CASE PopRejected
    BY <2>5 DEF Abstract!Next, Abstract!Fail, PopRejected, contents
  <2>6. ASSUME NEW wanted \in BOOLEAN, Pop(wanted)
        PROVE  Abstract!Next \/ UNCHANGED Abstract!vars
    BY <2>6, PopRefines
  <2>7. CASE UNCHANGED vars
    BY <2>7 DEF vars, Abstract!vars, contents
  <2>8. QED
    BY <2>1, <2>2, <2>3, <2>4, <2>5, <2>6, <2>7 DEF Next
<1>3. QED
  BY <1>1, <1>2, InvAlways, PTL DEF Spec, ImplementsStack, Abstract!Spec
=============================================================================
