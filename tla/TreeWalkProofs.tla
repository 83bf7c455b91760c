--------------------------- MODULE TreeWalkProofs ---------------------------
(***************************************************************************)
(* What a directory walk guarantees for every tree, every callback and     *)
(* every interference: an Iterate that returns true has restored its       *)
(* caller; where nothing vanishes and nothing is denied every Iterate has, *)
(* it has shown all below its start unless it was stopped, and nothing     *)
(* twice.                                                                  *)
(***************************************************************************)
EXTENDS TreeWalk, DirStackProofs

-----------------------------------------------------------------------------
(* The walk as a caller of the stack, and its types.                       *)

FrameType == [todo : SUBSET (Name \cup FileName), result : BOOLEAN]

\* A path that is pushed has been a directory's, and a walk at work has a frame.
WalkTypes == /\ WalkTypeOK
             /\ wpc = "push" => entry \in Argument
             /\ wpc \in {"loop", "visit", "done", "popped"} => frames # <<>>
             /\ wpc = "visit" => entry \in Name \cup FileName
             /\ wpc \in {"idle", "unwind", "returned"} => frames = <<>>
             /\ wpc \in {"idle", "returned"} => depth = 0

LEMMA WalkIsStack ==
    ASSUME WalkTypes, [WalkNext]_allVars
    PROVE  [Next]_vars
<1>1. CASE Caller
  <2>1. ASSUME NEW path \in Dir \cup Name, CallerPush(path) PROVE Next
    BY <2>1 DEF CallerPush, Next, Calls, Argument
  <2>2. (\E path \in IterateArgs : Iterate(path)) => UNCHANGED vars
    BY DEF Iterate
  <2>3. QED
    BY <1>1, <2>1, <2>2 DEF Caller
<1>2. CASE EnterPush
  <2>1. entry \in Argument
    BY <1>2 DEF EnterPush, Walking, WalkTypes
  <2>2. QED
    BY <1>2, <2>1 DEF EnterPush, Next, Calls
<1>3. CASE Done \/ Unwind
  BY <1>3 DEF Done, Unwind, Next, Calls
<1>4. CASE WalkStep /\ ~EnterPush /\ ~Done /\ ~Unwind
  BY <1>4 DEF WalkStep, Enter, Opened, LoopEnd, LoopSkip, LoopRead, Popped, IterateReturn
<1>5. CASE \E action \in Actions : Visited(action)
  BY <1>5 DEF Visited
<1>6. CASE Background
  BY <1>6 DEF Background, Next
<1>7. CASE UNCHANGED allVars
  BY <1>7 DEF allVars
<1>8. QED
  BY <1>1, <1>2, <1>3, <1>4, <1>5, <1>6, <1>7 DEF WalkNext

\* The frame on top, and what is left without it.
LEMMA TopType ==
    ASSUME frames \in Seq(FrameType), frames # <<>>
    PROVE  /\ Top \in FrameType /\ Front(frames) \in Seq(FrameType)
           /\ Len(frames) \in Nat \ {0} /\ Len(Front(frames)) = Len(frames) - 1
  BY FrontProperties, LenProperties DEF Top

LEMMA PushFrame ==
    ASSUME NEW s \in Seq(FrameType), NEW frame \in FrameType
    PROVE  /\ Append(s, frame) \in Seq(FrameType)
           /\ Append(s, frame) # <<>>
           /\ Len(Append(s, frame)) = Len(s) + 1
           /\ Last(Append(s, frame)) = frame
<1>1. /\ Append(s, frame) \in Seq(FrameType)
      /\ Len(Append(s, frame)) = Len(s) + 1
  BY AppendProperties
<1>2. Append(s, frame) # <<>> /\ Last(Append(s, frame)) = frame
  BY FrontOfAppend
<1>3. QED
  BY <1>1, <1>2

\* A frame that is read on.
LEMMA SetTopType ==
    ASSUME frames \in Seq(FrameType), frames # <<>>, NEW todo \in SUBSET (Name \cup FileName),
           SetTop([Top EXCEPT !.todo = todo])
    PROVE  /\ frames' \in Seq(FrameType) /\ frames' # <<>> /\ Len(frames') = Len(frames)
           /\ Top'.result = Top.result
<1> DEFINE frame == [Top EXCEPT !.todo = todo]
<1>1. frame \in FrameType /\ frame.result = Top.result
  BY TopType DEF FrameType
<1> HIDE DEF frame
<1>2. frames' = Append(Front(frames), frame)
  BY DEF SetTop, frame
<1>3. /\ frames' \in Seq(FrameType) /\ frames' # <<>>
      /\ Len(frames') = Len(Front(frames)) + 1 /\ Top' = frame
  BY <1>1, <1>2, TopType, PushFrame DEF Top
<1>4. QED
  BY <1>1, <1>3, TopType

LEMMA EntriesType ==
    ASSUME NEW d \in Dir \cup {NULL}
    PROVE  Entries(d) \subseteq Name \cup FileName
  BY FilesAssumption DEF Entries

LEMMA CounterType ==
    \A n \in Int : n % SizeModulus \in 0..(SizeModulus - 1)
  BY SizeAssumption

LEMMA WalkTypesInit == WalkInit => WalkTypes
<1> SUFFICES ASSUME WalkInit PROVE WalkTypes
  OBVIOUS
<1>1. TypeOK
  BY IInvInit DEF WalkInit, IInv
<1>2. depth \in 0..(SizeModulus - 1)
  BY SizeAssumption DEF WalkInit
<1>3. QED
  BY <1>1, <1>2, EmptySeq DEF WalkInit, WalkTypes, WalkTypeOK, Argument

LEMMA WalkTypesStep == IInv /\ WalkTypes /\ [WalkNext]_allVars => WalkTypes'
<1> SUFFICES ASSUME IInv, WalkTypes, [WalkNext]_allVars PROVE WalkTypes'
  OBVIOUS
<1>1. TypeOK'
  BY WalkIsStack, IInvStep DEF IInv
<1>2. /\ frames \in Seq(FrameType) /\ entry \in Argument \cup FileName
      /\ depth \in 0..(SizeModulus - 1) /\ depth \in Nat /\ sysCwd \in Dir \cup {NULL}
      /\ present \subseteq Dir /\ dirstack \in Seq(Dir)
  BY SizeAssumption DEF WalkTypes, WalkTypeOK, TypeOK, FrameType
<1> DEFINE FramesOK == /\ frames' \in Seq(FrameType)
                       /\ wpc' \in {"loop", "visit", "done", "popped"} => frames' # <<>>
                       /\ wpc' \in {"idle", "unwind", "returned"} => frames' = <<>>
           EntryOK  == /\ entry' \in Argument \cup FileName
                       /\ wpc' = "push" => entry' \in Argument
                       /\ wpc' = "visit" => entry' \in Name \cup FileName
           RestOK   == /\ wpc' \in {"enter", "push", "pushed", "loop", "visit", "done",
                                    "popped", "unwind", "returned"}
                       /\ depth' \in 0..(SizeModulus - 1)
                       /\ wpc' \in {"idle", "returned"} => depth' = 0
                       /\ exit' \in BOOLEAN /\ outcome' \in BOOLEAN /\ cut' \in BOOLEAN
                       /\ base' \in [cwd : Dir \cup {NULL}, stack : Seq(Dir),
                                     start : Dir \cup {NULL}]
                       /\ visited' \subseteq ((Dir \cup {NULL}) \X (Name \cup FileName) \X Actions)
<1>3. ASSUME FramesOK, EntryOK, RestOK PROVE WalkTypes'
  BY <1>1, <1>3 DEF WalkTypes, WalkTypeOK, FrameType
<1>4. ASSUME UNCHANGED <<frames, wpc>> PROVE FramesOK
  BY <1>2, <1>4 DEF WalkTypes
<1>5. ASSUME UNCHANGED <<depth, exit, outcome, base, visited, cut>>,
             wpc' \in {"enter", "push", "pushed", "loop", "visit", "done",
                       "popped", "unwind", "returned"},
             wpc' = "returned" => depth = 0
      PROVE  RestOK
  BY <1>5 DEF WalkTypes, WalkTypeOK
<1>6. \A frame \in FrameType : /\ Append(frames, frame) \in Seq(FrameType)
                               /\ Append(frames, frame) # <<>>
  BY <1>2, PushFrame
<1>7. Frame({}, FALSE) \in FrameType
  BY DEF Frame, FrameType
<1> HIDE DEF FramesOK, EntryOK, RestOK
<1>8. CASE \E path \in IterateArgs : Iterate(path)
  <2>1. PICK path \in IterateArgs : Iterate(path)
    BY <1>8
  <2>2. FramesOK /\ EntryOK
    BY <1>2, <2>1, ArgsAssumption DEF Iterate, FramesOK, EntryOK
  <2>3. base' \in [cwd : Dir \cup {NULL}, stack : Seq(Dir), start : Dir \cup {NULL}]
    BY <1>2, <2>1, ResolveType DEF Iterate, IInv
  <2>4. RestOK
    BY <2>1, <2>3 DEF Iterate, RestOK, WalkTypes, WalkTypeOK, history
  <2>5. QED
    BY <1>3, <2>2, <2>4
<1>9. CASE Enter
  <2>1. UNCHANGED <<entry, depth, exit, outcome, base, visited, cut>> /\ wpc' \in {"push", "done"}
    BY <1>9 DEF Enter, history
  <2>2. wpc' = "push" => entry \in Argument
    BY <1>2, <1>9, NullAssumption DEF Enter, Dir_Exists, Resolve, Argument
  <2>3. FramesOK
    BY <1>2, <1>6, <1>7, <1>9 DEF Enter, FramesOK
  <2>4. QED
    BY <1>2, <1>3, <1>5, <2>1, <2>2, <2>3 DEF EntryOK
<1>10. CASE EnterPush
  <2>1. UNCHANGED walkVars /\ wpc' = "pushed"
    BY <1>10 DEF EnterPush
  <2>2. FramesOK /\ EntryOK
    BY <1>2, <2>1 DEF walkVars, FramesOK, EntryOK
  <2>3. QED
    BY <1>3, <1>5, <2>1, <2>2 DEF walkVars
<1>11. CASE Opened
  <2>1. UNCHANGED <<entry, exit, outcome, base, visited, cut>> /\ wpc' \in {"loop", "done"}
    BY <1>11 DEF Opened, history
  <2>2. \A ok \in ReadOutcome : Frame(IF ok THEN Entries(sysCwd) ELSE {}, ok) \in FrameType
    BY <1>2, EntriesType, ReadAssumption DEF Frame, FrameType
  <2>3. FramesOK
    BY <1>6, <1>7, <1>11, <2>2 DEF Opened, FramesOK
  <2>4. depth' \in 0..(SizeModulus - 1)
    <3>1. (depth + 1) % SizeModulus \in 0..(SizeModulus - 1)
      BY <1>2, CounterType
    <3>2. QED
      BY <1>2, <1>11, <3>1 DEF Opened
  <2>5. EntryOK /\ RestOK
    BY <1>2, <2>1, <2>4 DEF EntryOK, RestOK, WalkTypes, WalkTypeOK
  <2>6. QED
    BY <1>3, <2>3, <2>5
<1>12. CASE LoopEnd
  <2>1. UNCHANGED walkVars /\ wpc' = "done" /\ frames # <<>>
    BY <1>12 DEF LoopEnd, Walking, WalkTypes
  <2>2. FramesOK /\ EntryOK
    BY <1>2, <2>1 DEF walkVars, FramesOK, EntryOK
  <2>3. QED
    BY <1>3, <1>5, <2>1, <2>2 DEF walkVars
<1>13. ASSUME NEW e \in Name \cup FileName, LoopSkip(e) \/ LoopRead(e) PROVE WalkTypes'
  <2>1. frames # <<>> /\ Top.todo \ {e} \in SUBSET (Name \cup FileName)
    BY <1>2, <1>13, TopType DEF LoopSkip, LoopRead, Walking, WalkTypes, FrameType
  <2>2. SetTop([Top EXCEPT !.todo = Top.todo \ {e}])
    BY <1>13 DEF LoopSkip, LoopRead
  <2>3. frames' \in Seq(FrameType) /\ frames' # <<>>
    BY <1>2, <2>1, <2>2, SetTopType
  <2>4. /\ UNCHANGED <<depth, exit, outcome, base, visited, cut>> /\ wpc' \in {"loop", "visit"}
        /\ \/ entry' = e
           \/ UNCHANGED entry /\ wpc' = "loop"
    BY <1>13 DEF LoopSkip, LoopRead, Walking, history
  <2>5. EntryOK
    BY <1>2, <2>4 DEF EntryOK, Argument
  <2>6. QED
    BY <1>3, <1>5, <2>3, <2>4, <2>5 DEF FramesOK
<1>14. CASE Done
  <2>1. UNCHANGED walkVars /\ wpc' = "popped" /\ frames # <<>>
    BY <1>14 DEF Done, Walking, WalkTypes
  <2>2. FramesOK /\ EntryOK
    BY <1>2, <2>1 DEF walkVars, FramesOK, EntryOK
  <2>3. QED
    BY <1>3, <1>5, <2>1, <2>2 DEF walkVars
<1>15. CASE Popped
  <2>1. frames # <<>> /\ Top \in FrameType /\ Front(frames) \in Seq(FrameType)
    BY <1>2, <1>15, TopType DEF Popped, Walking, WalkTypes
  <2>2. Top.result \in BOOLEAN
    BY <2>1 DEF FrameType
  <2>3. depth' \in 0..(SizeModulus - 1) /\ UNCHANGED <<entry, exit, base, visited>>
    <3>1. (depth - 1) % SizeModulus \in 0..(SizeModulus - 1)
      BY <1>2, CounterType
    <3>2. DepthAfterPop \in 0..(SizeModulus - 1)
      BY <1>2, <3>1 DEF DepthAfterPop
    <3>3. QED
      BY <1>15, <3>2 DEF Popped
  <2>4. CASE Len(frames) = 1
    <3>1. frames' = <<>> /\ outcome' = Top.result /\ wpc' = "unwind" /\ UNCHANGED cut
      BY <1>15, <2>4 DEF Popped
    <3>2. FramesOK /\ EntryOK
      BY <1>2, <2>3, <3>1 DEF FramesOK, EntryOK
    <3>3. RestOK
      BY <2>2, <2>3, <3>1 DEF RestOK, WalkTypes, WalkTypeOK
    <3>4. QED
      BY <1>3, <3>2, <3>3
  <2>5. CASE Len(frames) # 1
    <3> DEFINE parent == Last(Front(frames))
               frame == [parent EXCEPT !.result = Top.result]
    <3>1. Front(frames) # <<>>
      BY <1>2, <2>1, <2>5, TopType
    <3>2. parent \in FrameType /\ Front(Front(frames)) \in Seq(FrameType)
      BY <2>1, <3>1, FrontProperties
    <3>3. frame \in FrameType
      BY <2>2, <3>2 DEF FrameType
    <3>4. /\ frames' = Append(Front(Front(frames)), frame)
          /\ wpc' \in {"loop", "done"} /\ UNCHANGED outcome
          /\ cut' \in BOOLEAN
      BY <1>15, <2>5, ReadAssumption DEF Popped, Advance, WalkTypes, WalkTypeOK
    <3> HIDE DEF frame
    <3>5. FramesOK
      BY <3>2, <3>3, <3>4, PushFrame DEF FramesOK
    <3>6. EntryOK
      BY <1>2, <2>3, <3>4 DEF EntryOK
    <3>7. RestOK
      BY <2>3, <3>4 DEF RestOK, WalkTypes, WalkTypeOK
    <3>8. QED
      BY <1>3, <3>5, <3>6, <3>7
  <2>6. QED
    BY <2>4, <2>5
<1>16. CASE Unwind
  <2>1. /\ depth' = depth - 1 /\ depth > 0 /\ wpc = "unwind"
        /\ UNCHANGED <<wpc, frames, entry, exit, outcome, base, visited, cut>>
    BY <1>16 DEF Unwind, Walking, history
  <2>2. depth' \in 0..(SizeModulus - 1)
    BY <1>2, <2>1, SizeAssumption
  <2>3. EntryOK /\ RestOK
    BY <1>2, <2>1, <2>2 DEF EntryOK, RestOK, WalkTypes, WalkTypeOK
  <2>4. QED
    BY <1>3, <1>4, <2>1, <2>3
<1>17. CASE IterateReturn
  <2>1. UNCHANGED walkVars /\ wpc' = "returned" /\ frames = <<>> /\ depth = 0
    BY <1>17 DEF IterateReturn, Walking, WalkTypes
  <2>2. FramesOK /\ EntryOK
    BY <1>2, <2>1 DEF walkVars, FramesOK, EntryOK
  <2>3. QED
    BY <1>3, <1>5, <2>1, <2>2 DEF walkVars
<1>18. ASSUME NEW action \in Actions, Visited(action) PROVE WalkTypes'
  <2>1. /\ UNCHANGED <<frames, entry, depth, outcome, base>> /\ wpc = "visit"
        /\ exit' = (exit \/ action = "EXIT")
        /\ visited' = visited \cup {<<sysCwd, entry, action>>}
    BY <1>18 DEF Visited, Walking
  <2>2. entry \in Name \cup FileName /\ frames # <<>> /\ exit \in BOOLEAN /\ cut \in BOOLEAN
    BY <2>1 DEF WalkTypes, WalkTypeOK
  <2>3. wpc' \in {"enter", "loop", "done"} /\ cut' \in BOOLEAN
    <3>1. CASE Descends(action)
      BY <1>18, <2>2, <3>1 DEF Visited
    <3>2. CASE ~Descends(action) /\ action \in {"STOP", "EXIT"}
      BY <1>18, <2>2, <3>2 DEF Visited
    <3>3. CASE ~Descends(action) /\ action \notin {"STOP", "EXIT"}
      <4>1. Advance
        BY <1>18, <3>3 DEF Visited
      <4>2. QED
        BY <2>2, <4>1, ReadAssumption DEF Advance
    <3>4. QED
      BY <3>1, <3>2, <3>3
  <2>4. FramesOK /\ EntryOK
    BY <1>2, <2>1, <2>2, <2>3 DEF FramesOK, EntryOK
  <2>5. visited' \subseteq ((Dir \cup {NULL}) \X (Name \cup FileName) \X Actions)
    BY <1>2, <2>1, <2>2 DEF WalkTypes, WalkTypeOK
  <2>6. RestOK
    BY <2>1, <2>2, <2>3, <2>5 DEF RestOK, WalkTypes, WalkTypeOK
  <2>7. QED
    BY <1>3, <2>4, <2>6
<1>19. CASE UNCHANGED walk
  BY <1>1, <1>19 DEF walk, WalkTypes, WalkTypeOK
<1>20. Background \/ UNCHANGED allVars \/ (\E path \in Dir \cup Name : CallerPush(path)) =>
         UNCHANGED walk
  BY DEF Background, allVars, CallerPush
<1>21. QED
  BY <1>8, <1>9, <1>10, <1>11, <1>12, <1>13, <1>14, <1>15, <1>16, <1>17, <1>18, <1>19, <1>20
     DEF WalkNext, Caller, WalkStep

-----------------------------------------------------------------------------
(* depth counts the pushes of the walk, as far as a size_t can.            *)

Counts(d, n) == \E q \in Nat : n = d + q * SizeModulus

LEMMA CountUp ==
    ASSUME NEW d \in 0..(SizeModulus - 1), NEW n \in Nat, Counts(d, n)
    PROVE  Counts((d + 1) % SizeModulus, n + 1)
<1> DEFINE M == SizeModulus
<1>1. M \in Nat /\ M > 0
  BY SizeAssumption
<1>2. PICK q \in Nat : n = d + q * M
  BY DEF Counts
<1>3. CASE d + 1 < M
  <2>1. (d + 1) % M = d + 1
    BY <1>1, <1>3
  <2>2. n + 1 = (d + 1) + q * M
    BY <1>1, <1>2
  <2>3. QED
    BY <2>1, <2>2 DEF Counts
<1>4. CASE d + 1 = M
  <2>1. (d + 1) % M = 0
    BY <1>1, <1>4
  <2>2. (q + 1) * M = q * M + M
    BY <1>1
  <2>3. n + 1 = 0 + (q + 1) * M
    BY <1>1, <1>2, <1>4, <2>2
  <2>4. QED
    BY <2>1, <2>3 DEF Counts
<1>5. QED
  BY <1>1, <1>3, <1>4

LEMMA CountDown ==
    ASSUME NEW d \in 0..(SizeModulus - 1), NEW n \in Nat \ {0}, Counts(d, n)
    PROVE  Counts((d - 1) % SizeModulus, n - 1)
<1> DEFINE M == SizeModulus
<1>1. M \in Nat /\ M > 0
  BY SizeAssumption
<1>2. PICK q \in Nat : n = d + q * M
  BY DEF Counts
<1>3. CASE d > 0
  <2>1. (d - 1) % M = d - 1
    BY <1>1, <1>3
  <2>2. n - 1 = (d - 1) + q * M
    BY <1>1, <1>2
  <2>3. QED
    BY <2>1, <2>2 DEF Counts
<1>4. CASE d = 0
  <2>1. (d - 1) % M = M - 1
    BY <1>1, <1>4
  <2>2. q # 0
    BY <1>1, <1>2, <1>4
  <2>3. q - 1 \in Nat /\ (q - 1) * M = q * M - M
    BY <1>1, <2>2
  <2>4. n - 1 = (M - 1) + (q - 1) * M
    BY <1>1, <1>2, <1>4, <2>3
  <2>5. QED
    BY <2>1, <2>3, <2>4 DEF Counts
<1>5. QED
  BY <1>1, <1>3, <1>4

LEMMA CountZero ==
    ASSUME NEW d \in 0..(SizeModulus - 1)
    PROVE  Counts(d, 0) <=> d = 0
<1>1. SizeModulus \in Nat /\ SizeModulus > 0
  BY SizeAssumption
<1>2. \A q \in Nat : q * SizeModulus >= 0
  BY <1>1
<1>3. 0 = 0 + 0 * SizeModulus
  BY <1>1
<1>4. QED
  BY <1>1, <1>2, <1>3 DEF Counts

-----------------------------------------------------------------------------
(* What is on the stack: the caller's entries below those of the walk, the *)
(* first of which is the caller's directory.                               *)

OwnOf(b, k) ==
    /\ Len(dirstack) = Len(b.stack) + k
    /\ \A i \in 1..Len(b.stack) : dirstack[i] = b.stack[i]
    /\ b.cwd # NULL =>
         IF k = 0 THEN sysCwd \in {b.cwd, NULL} /\ directory_current \in {b.cwd, NULL}
         ELSE dirstack[Len(b.stack) + 1] = b.cwd

Own(k) == OwnOf(base, k)

LEMMA OwnOfNone ==
    ASSUME TypeOK, NEW b, b.stack \in Seq(Dir), OwnOf(b, 0)
    PROVE  dirstack = b.stack
<1>1. dirstack \in Seq(Dir)
  BY DEF TypeOK
<1>2. Len(dirstack) = Len(b.stack) /\ Len(b.stack) \in Nat
  BY <1>1, LenProperties DEF OwnOf
<1>3. QED
  BY <1>1, <1>2, SeqEqual DEF OwnOf

LEMMA OwnNone ==
    ASSUME TypeOK, WalkTypes, Own(0)
    PROVE  dirstack = base.stack
  BY OwnOfNone DEF Own, WalkTypes, WalkTypeOK

\* A directory that is saved, and one that is popped.
LEMMA OwnOfOneMore ==
    ASSUME TypeOK, CacheCoherent, NEW b, b.stack \in Seq(Dir), NEW k \in Nat, OwnOf(b, k),
           NEW cwd \in CachedOrSystem, cwd # NULL, dirstack' = Append(dirstack, cwd)
    PROVE  OwnOf(b, k + 1)'
<1>1. /\ dirstack \in Seq(Dir) /\ Len(dirstack) \in Nat /\ Len(b.stack) \in Nat
      /\ Len(dirstack) = Len(b.stack) + k
      /\ cwd \in Dir /\ (cwd = directory_current \/ cwd = sysCwd)
  BY LenProperties, CachedOrSystemType DEF TypeOK, OwnOf
<1>2. /\ Len(dirstack') = Len(dirstack) + 1
      /\ \A i \in 1..Len(dirstack) : dirstack'[i] = dirstack[i]
      /\ dirstack'[Len(dirstack) + 1] = cwd
  BY <1>1, AppendProperties
<1>3. Len(dirstack') = Len(b.stack) + (k + 1)
  <2>1. \A x, y, z \in Nat : x = y + k /\ z = x + 1 => z = y + (k + 1)
    OBVIOUS
  <2>2. Len(dirstack') \in Nat
    BY <1>1, <1>2
  <2>3. QED
    BY <1>1, <1>2, <2>1, <2>2
<1>4. \A i \in 1..Len(b.stack) : dirstack'[i] = b.stack[i]
  BY <1>1, <1>2 DEF OwnOf
<1>5. ASSUME b.cwd # NULL PROVE dirstack'[Len(b.stack) + 1] = b.cwd
  <2>1. CASE k = 0
    BY <1>1, <1>2, <1>5, <2>1 DEF OwnOf
  <2>2. CASE k # 0
    <3>1. Len(b.stack) + 1 \in 1..Len(dirstack)
      BY <1>1, <2>2
    <3>2. QED
      BY <1>2, <1>5, <2>2, <3>1 DEF OwnOf
  <2>3. QED
    BY <2>1, <2>2
<1>6. QED
  BY <1>3, <1>4, <1>5 DEF OwnOf

LEMMA OwnOfOneLess ==
    ASSUME TypeOK, NEW b, b.stack \in Seq(Dir), NEW k \in Nat \ {0}, OwnOf(b, k),
           dirstack' = Front(dirstack), sysCwd' = Last(dirstack), directory_current' = NULL
    PROVE  OwnOf(b, k - 1)'
<1>1. /\ dirstack \in Seq(Dir) /\ Len(dirstack) \in Nat /\ Len(b.stack) \in Nat
      /\ Len(dirstack) = Len(b.stack) + k
  BY LenProperties DEF TypeOK, OwnOf
<1>2. dirstack # <<>>
  BY <1>1, EmptySeq
<1>3. /\ Len(dirstack') = Len(dirstack) - 1
      /\ \A i \in 1..(Len(dirstack) - 1) : dirstack'[i] = dirstack[i]
      /\ sysCwd' = dirstack[Len(dirstack)]
  BY <1>1, <1>2, FrontElements
<1>4. Len(dirstack') = Len(b.stack) + (k - 1)
  BY <1>1, <1>3
<1>5. \A i \in 1..Len(b.stack) : dirstack'[i] = b.stack[i]
  BY <1>1, <1>3 DEF OwnOf
<1>6. CASE k = 1
  BY <1>1, <1>3, <1>4, <1>5, <1>6 DEF OwnOf
<1>7. CASE k # 1
  <2>1. Len(b.stack) + 1 \in 1..(Len(dirstack) - 1)
    BY <1>1, <1>7
  <2>2. b.cwd # NULL => dirstack'[Len(b.stack) + 1] = b.cwd
    BY <1>3, <2>1 DEF OwnOf
  <2>3. QED
    BY <1>4, <1>5, <1>7, <2>2 DEF OwnOf
<1>8. QED
  BY <1>6, <1>7

\* What may happen to the directory meanwhile.
LEMMA OwnOfStays ==
    ASSUME NEW b, NEW k \in Nat, OwnOf(b, k), UNCHANGED dirstack,
           k = 0 => sysCwd' \in {sysCwd, NULL} /\ directory_current' \in {directory_current, NULL}
    PROVE  OwnOf(b, k)'
  BY DEF OwnOf

LEMMA OwnOneMore ==
    ASSUME TypeOK, CacheCoherent, WalkTypes, NEW k \in Nat, Own(k),
           NEW cwd \in CachedOrSystem, cwd # NULL, dirstack' = Append(dirstack, cwd),
           UNCHANGED base
    PROVE  Own(k + 1)'
<1>1. PICK b : b = base
  OBVIOUS
<1>2. OwnOf(b, k + 1)'
  BY <1>1, OwnOfOneMore DEF Own, WalkTypes, WalkTypeOK
<1>3. QED
  BY <1>1, <1>2 DEF Own

LEMMA OwnOneLess ==
    ASSUME TypeOK, WalkTypes, NEW k \in Nat \ {0}, Own(k),
           dirstack' = Front(dirstack), sysCwd' = Last(dirstack), directory_current' = NULL,
           UNCHANGED base
    PROVE  Own(k - 1)'
<1>1. PICK b : b = base
  OBVIOUS
<1>2. OwnOf(b, k - 1)'
  BY <1>1, OwnOfOneLess DEF Own, WalkTypes, WalkTypeOK
<1>3. QED
  BY <1>1, <1>2 DEF Own

LEMMA OwnStays ==
    ASSUME NEW k \in Nat, Own(k), UNCHANGED <<dirstack, base>>,
           k = 0 => sysCwd' \in {sysCwd, NULL} /\ directory_current' = directory_current
    PROVE  Own(k)'
<1>1. PICK b : b = base
  OBVIOUS
<1>2. OwnOf(b, k)'
  BY <1>1, OwnOfStays DEF Own
<1>3. QED
  BY <1>1, <1>2 DEF Own

-----------------------------------------------------------------------------
(* A walk keeps its course: depth and the stack agree with the frames as   *)
(* long as no frame has failed, or none can fail without having pushed.    *)

Calm == /\ Removable = {} /\ Unreadable = {} /\ Unsearchable = {}
        /\ AllocOutcome = {TRUE}
        /\ IterateArgs \subseteq Dir

Good == Top.result \/ Calm

Course ==
    LET n == Len(frames)
    IN  /\ wpc \in {"enter", "push", "loop", "visit"} =>
             pc = "idle" /\ Counts(depth, n) /\ Own(n)
        /\ wpc = "pushed" =>
             /\ Counts(depth, n)
             /\ \/ pc = "push" /\ Own(n)
                \/ pc \in {"chdir", "refresh"} /\ Own(n + 1)
                \/ pc = "idle" /\ ret = NULL /\ Own(n)
                \/ pc = "idle" /\ ret # NULL /\ Own(n + 1)
        /\ wpc = "done" /\ Good => pc = "idle" /\ Counts(depth, n) /\ Own(n)
        /\ wpc = "popped" /\ Good =>
             /\ Counts(depth, n)
             /\ \/ pc = "pop" /\ Own(n)
                \/ pc = "idle" /\ ret = TRUE /\ Own(n - 1)
        /\ wpc \in {"unwind", "returned"} /\ (outcome \/ Calm) =>
             pc = "idle" /\ depth = 0 /\ Own(0)

CourseInv == ~disturbed /\ status = "running" => Course

\* What a caller does before it calls Iterate, and the call itself.
LEMMA CourseBegins ==
    ASSUME IInv, WalkTypes, NEW path, Iterate(path)
    PROVE  Course'
<1>1. /\ wpc' = "enter" /\ pc' = "idle" /\ frames' = <<>> /\ depth' = 0
      /\ base' = [cwd |-> sysCwd, stack |-> dirstack, start |-> Resolve(path)]
      /\ UNCHANGED <<dirstack, sysCwd, directory_current>>
  BY DEF Iterate, Walking, At, vars, WalkTypes
<1>2. Counts(depth', 0)
  BY <1>1, CountZero, SizeAssumption
<1>3. dirstack \in Seq(Dir) /\ Len(dirstack) \in Nat
  BY LenProperties DEF IInv, TypeOK
<1>4. Own(0)'
  BY <1>1, <1>3 DEF Own, OwnOf, IInv, CacheCoherent
<1>5. Len(frames') = 0
  BY <1>1, EmptySeq
<1>6. QED
  BY <1>1, <1>2, <1>4, <1>5 DEF Course

\* The steps of the pushes and pops themselves.
LEMMA CourseSteps ==
    ASSUME IInv, WalkTypes, Course, Steps, UNCHANGED walk, ~disturbed', status' = "running"
    PROVE  Course'
<1> DEFINE n == Len(frames)
<1>1. /\ UNCHANGED <<wpc, frames, depth, outcome, base>> /\ Top' = Top
      /\ TypeOK /\ CacheCoherent
  BY DEF walk, Top, IInv
<1>2. n \in Nat /\ (frames # <<>> => n \in Nat \ {0})
  BY TopType, LenProperties DEF WalkTypes, WalkTypeOK, FrameType
<1>3. pc # "idle"
  BY DEF Steps, SetCWD_Refresh, PushCWD_Save, PushCWD_Chdir, PushCWD_Refresh,
     PopCWD_Empty, PopCWD_Enter, PopCWD_Skip, At
<1>4. CASE wpc = "pushed"
  <2>1. pc \in {"push", "chdir", "refresh"} /\ Counts(depth, n)
    BY <1>3, <1>4 DEF Course
  <2>2. CASE pc = "push"
    <3>1. PICK cwd \in CachedOrSystem : /\ pc' = "chdir" /\ cwd # NULL
                                        /\ dirstack' = Append(dirstack, cwd)
      BY <2>2 DEF Steps, SetCWD_Refresh, PushCWD_Save, PushCWD_Chdir, PushCWD_Refresh,
         PopCWD_Empty, PopCWD_Enter, PopCWD_Skip, At
    <3>2. Own(n)
      BY <1>4, <2>2 DEF Course
    <3>3. Own(n + 1)'
      BY <1>1, <1>2, <3>1, <3>2, OwnOneMore
    <3>4. QED
      BY <1>1, <1>4, <2>1, <3>1, <3>3 DEF Course
  <2>3. CASE pc \in {"chdir", "refresh"}
    <3>1. /\ UNCHANGED dirstack
          /\ \/ pc' = "refresh"
             \/ pc' = "idle" /\ ret' # NULL
      BY <2>3 DEF Steps, SetCWD_Refresh, PushCWD_Save, PushCWD_Chdir, PushCWD_Refresh,
         PopCWD_Empty, PopCWD_Enter, PopCWD_Skip, At, Return
    <3>2. Own(n + 1)
      BY <1>4, <2>3 DEF Course
    <3>3. Own(n + 1)'
      BY <1>1, <1>2, <3>1, <3>2, OwnStays
    <3>4. QED
      BY <1>1, <1>4, <2>1, <3>1, <3>3 DEF Course
  <2>4. QED
    BY <2>1, <2>2, <2>3
<1>5. CASE wpc = "popped" /\ Good
  <2>1. pc = "pop" /\ Counts(depth, n) /\ Own(n) /\ n \in Nat \ {0}
    BY <1>2, <1>3, <1>5 DEF Course, WalkTypes
  <2>2. Len(dirstack) > 0
    <3>1. Len(dirstack) = Len(base.stack) + n /\ Len(base.stack) \in Nat
      BY <2>1, LenProperties DEF Own, OwnOf, WalkTypes, WalkTypeOK
    <3>2. QED
      BY <2>1, <3>1
  <2>3. /\ dirstack' = Front(dirstack) /\ sysCwd' = Last(dirstack) /\ directory_current' = NULL
        /\ pc' = "idle" /\ ret' = TRUE
    BY <2>1, <2>2, EmptySeq DEF Steps, SetCWD_Refresh, PushCWD_Save, PushCWD_Chdir,
       PushCWD_Refresh, PopCWD_Empty, PopCWD_Enter, PopCWD_Skip, At, Return, Entered, PopSaved
  <2>4. Own(n - 1)'
    BY <1>1, <2>1, <2>3, OwnOneLess
  <2>5. QED
    BY <1>1, <1>5, <2>1, <2>3, <2>4 DEF Course
<1>6. CASE wpc = "popped" /\ ~Good
  BY <1>1, <1>6 DEF Course, Good
<1>7. CASE wpc \notin {"pushed", "popped"}
  BY <1>1, <1>3, <1>7 DEF Course, Good
<1>8. QED
  BY <1>4, <1>5, <1>6, <1>7

\* Other processes move nothing of it.
LEMMA CourseInterrupted ==
    ASSUME WalkTypes, Course, Environment, UNCHANGED walk
    PROVE  Course'
<1>1. /\ UNCHANGED <<wpc, frames, depth, outcome, base>> /\ Top' = Top /\ (Good' <=> Good)
      /\ UNCHANGED <<dirstack, directory_current, pc, ret>>
      /\ sysCwd' \in {sysCwd, NULL}
  BY DEF walk, Top, Good, Environment, DirRemoved, DirCreated
<1>2. Len(frames) \in Nat
  BY LenProperties DEF WalkTypes, WalkTypeOK
<1>3. \A k \in Nat : Own(k) => Own(k)'
  BY <1>1, OwnStays
<1>4. frames # <<>> => Len(frames) - 1 \in Nat
  BY TopType DEF WalkTypes, WalkTypeOK, FrameType
<1>5. wpc = "popped" => frames # <<>>
  BY DEF WalkTypes
<1>6. QED
  BY <1>1, <1>2, <1>3, <1>4, <1>5 DEF Course

\* The steps of the walk itself.  Where all is calm, no existence check and no
\* push fails.
CalmWalk == Calm => /\ wpc = "enter" => Dir_Exists(entry)
                    /\ wpc = "pushed" /\ pc = "idle" => ret # NULL

LEMMA CourseGoesOn ==
    ASSUME WalkTypes, Course, CalmWalk, WalkStep \/ \E action \in Actions : Visited(action)
    PROVE  Course'
<1>0. PICK n \in Nat : n = Len(frames)
  BY LenProperties DEF WalkTypes, WalkTypeOK, FrameType
<1> USE <1>0
<1>1. /\ frames \in Seq(FrameType) /\ depth \in 0..(SizeModulus - 1)
      /\ Frame({}, FALSE) \in FrameType
  BY LenProperties DEF WalkTypes, WalkTypeOK, FrameType, Frame
<1>2. \A k \in Nat : UNCHANGED <<dirstack, base, sysCwd, directory_current>> /\ Own(k) => Own(k)'
  BY OwnStays
<1>3. \A frame \in FrameType :
        frames' = Append(frames, frame) =>
            Len(frames') = n + 1 /\ Top' = frame
  BY <1>1, PushFrame DEF Top
<1>4. ASSUME frames' = Append(frames, Frame({}, FALSE)), wpc' = "done", ~Calm
      PROVE  Course'
  <2>1. Top'.result = FALSE
    BY <1>1, <1>3, <1>4 DEF Frame
  <2>2. QED
    BY <1>4, <2>1 DEF Course, Good
<1>5. CASE Enter
  <2>1. /\ UNCHANGED <<dirstack, base, sysCwd, directory_current, pc, depth>>
        /\ pc = "idle" /\ Counts(depth, n) /\ Own(n)
    BY <1>5 DEF Enter, vars, Walking, Course
  <2>2. CASE Dir_Exists(entry)
    <3>1. wpc' = "push" /\ UNCHANGED frames
      BY <1>5, <2>2 DEF Enter
    <3>2. QED
      BY <1>1, <1>2, <2>1, <3>1 DEF Course
  <2>3. CASE ~Dir_Exists(entry)
    BY <1>4, <1>5, <2>3 DEF Enter, CalmWalk, Walking
  <2>4. QED
    BY <2>2, <2>3
<1>6. CASE EnterPush
  <2>1. /\ UNCHANGED <<dirstack, base, sysCwd, directory_current, frames, depth>>
        /\ Counts(depth, n) /\ Own(n) /\ wpc' = "pushed"
        /\ pc' = "push" \/ (pc' = "idle" /\ ret' = NULL)
    BY <1>6 DEF EnterPush, Walking, Course, PushCWD_Missing, PushCWD, Return, walkVars, fsVars
  <2>2. QED
    BY <1>1, <1>2, <2>1 DEF Course
<1>7. CASE Opened
  <2>1. UNCHANGED <<dirstack, base, sysCwd, directory_current, pc>> /\ pc = "idle"
    BY <1>7 DEF Opened, vars, Walking, At
  <2>2. CASE ret = NULL
    BY <1>4, <1>7, <2>1, <2>2 DEF Opened, CalmWalk, Walking
  <2>3. CASE ret # NULL
    <3>1. Counts(depth, n) /\ Own(n + 1)
      BY <1>7, <2>1, <2>3 DEF Opened, Walking, Course
    <3>2. PICK ok \in ReadOutcome :
            /\ frames' = Append(frames, Frame(IF ok THEN Entries(sysCwd) ELSE {}, ok))
            /\ wpc' = IF ok THEN "loop" ELSE "done"
      BY <1>7, <2>3 DEF Opened
    <3>3. Frame(IF ok THEN Entries(sysCwd) ELSE {}, ok) \in FrameType
      BY EntriesType, ReadAssumption DEF Frame, FrameType, WalkTypes, WalkTypeOK, TypeOK
    <3>4. Len(frames') = n + 1
      BY <1>3, <3>2, <3>3
    <3>5. Counts(depth', n + 1)
      <4>1. Counts((depth + 1) % SizeModulus, n + 1)
        BY <1>1, <3>1, CountUp
      <4>2. QED
        BY <1>7, <2>3, <4>1 DEF Opened
    <3>6. Own(n + 1)'
      <4>1. n + 1 \in Nat
        BY <1>1
      <4>2. QED
        BY <1>2, <2>1, <3>1, <4>1
    <3>7. wpc' \in {"loop", "done"}
      BY <3>2
    <3>8. QED
      BY <2>1, <3>4, <3>5, <3>6, <3>7 DEF Course
  <2>4. QED
    BY <2>2, <2>3
<1>8. CASE LoopEnd
  <2>1. /\ UNCHANGED <<dirstack, base, sysCwd, directory_current, pc, depth, frames>>
        /\ pc = "idle" /\ Counts(depth, n) /\ Own(n) /\ wpc' = "done"
    BY <1>8 DEF LoopEnd, vars, walkVars, Walking, Course
  <2>2. QED
    BY <1>1, <1>2, <2>1 DEF Course
<1>9. ASSUME NEW e \in Name \cup FileName, LoopSkip(e) \/ LoopRead(e) PROVE Course'
  <2>1. /\ UNCHANGED <<dirstack, base, sysCwd, directory_current, pc, depth>>
        /\ pc = "idle" /\ Counts(depth, n) /\ Own(n) /\ wpc' \in {"loop", "visit"}
        /\ frames # <<>> /\ SetTop([Top EXCEPT !.todo = Top.todo \ {e}])
    BY <1>9 DEF LoopSkip, LoopRead, vars, Walking, Course, WalkTypes
  <2>2. Top.todo \ {e} \in SUBSET (Name \cup FileName)
    BY <1>1, <2>1, TopType DEF FrameType
  <2>3. Len(frames') = n
    BY <1>1, <2>1, <2>2, SetTopType
  <2>4. QED
    BY <1>1, <1>2, <2>1, <2>3 DEF Course
<1>10. ASSUME NEW action \in Actions, Visited(action) PROVE Course'
  <2>1. /\ UNCHANGED <<dirstack, base, sysCwd, directory_current, pc, depth, frames>>
        /\ pc = "idle" /\ Counts(depth, n) /\ Own(n)
    BY <1>10 DEF Visited, vars, Walking, Course
  <2>2. wpc' \in {"enter", "loop", "done"}
    <3>1. CASE Descends(action) \/ action \in {"STOP", "EXIT"}
      BY <1>10, <3>1 DEF Visited
    <3>2. CASE ~Descends(action) /\ action \notin {"STOP", "EXIT"}
      <4>1. Advance
        BY <1>10, <3>2 DEF Visited
      <4>2. QED
        BY <4>1 DEF Advance
    <3>3. QED
      BY <3>1, <3>2
  <2>3. QED
    BY <1>1, <1>2, <2>1, <2>2 DEF Course
<1>11. CASE Done
  <2>1. /\ UNCHANGED <<dirstack, base, sysCwd, directory_current, depth, frames>>
        /\ pc' = "pop" /\ wpc = "done" /\ wpc' = "popped"
    BY <1>11 DEF Done, PopCWD, Walking, walkVars, fsVars
  <2>2. Good' <=> Good
    BY <2>1 DEF Good, Top
  <2>3. QED
    BY <1>1, <1>2, <2>1, <2>2 DEF Course
<1>12. CASE Popped
  <2>1. /\ UNCHANGED <<dirstack, base, sysCwd, directory_current, pc>>
        /\ pc = "idle" /\ wpc = "popped" /\ frames # <<>> /\ depth' = DepthAfterPop
    BY <1>12 DEF Popped, vars, Walking, At, WalkTypes
  <2>2. Top \in FrameType /\ Front(frames) \in Seq(FrameType) /\ n \in Nat \ {0}
        /\ Len(Front(frames)) = n - 1 /\ n - 1 \in Nat
    BY <1>1, <2>1, TopType
  <2>3. ASSUME Good PROVE Counts(depth', n - 1) /\ Own(n - 1)'
    <3>1. Counts(depth, n) /\ ret = TRUE /\ Own(n - 1)
      BY <2>1, <2>3 DEF Course
    <3>2. Counts((depth - 1) % SizeModulus, n - 1)
      BY <1>1, <2>2, <3>1, CountDown
    <3>3. QED
      BY <1>2, <2>1, <2>2, <3>1, <3>2 DEF DepthAfterPop
  <2>4. CASE n = 1
    <3>1. wpc' = "unwind" /\ outcome' = Top.result
      BY <1>12, <2>4 DEF Popped
    <3>2. ASSUME Good PROVE depth' = 0 /\ Own(0)'
      <4>1. (depth - 1) % SizeModulus \in 0..(SizeModulus - 1)
        BY <1>1, CounterType
      <4>2. depth' \in 0..(SizeModulus - 1)
        BY <1>1, <2>1, <4>1 DEF DepthAfterPop
      <4>3. Counts(depth', 0) /\ Own(0)'
        BY <2>3, <2>4, <3>2
      <4>4. QED
        BY <4>2, <4>3, CountZero
    <3>3. QED
      BY <2>1, <3>1, <3>2 DEF Course, Good
  <2>5. CASE n # 1
    <3> DEFINE parent == Last(Front(frames))
               frame == [parent EXCEPT !.result = Top.result]
    <3>1. Front(frames) # <<>>
      BY <2>2, <2>5, EmptySeq
    <3>2. /\ parent \in FrameType /\ Front(Front(frames)) \in Seq(FrameType)
          /\ Len(Front(Front(frames))) = (n - 1) - 1
      BY <2>2, <3>1, FrontProperties
    <3>3. frame \in FrameType /\ frame.result = Top.result
      BY <2>2, <3>2 DEF FrameType
    <3>4. /\ frames' = Append(Front(Front(frames)), frame)
          /\ wpc' \in {"loop", "done"}
          /\ wpc' = "loop" => Top.result
      BY <1>12, <2>5 DEF Popped, Advance
    <3> HIDE DEF frame
    <3>5. Top' = frame /\ Len(frames') = n - 1
      <4>1. Top' = frame /\ Len(frames') = ((n - 1) - 1) + 1
        BY <3>2, <3>3, <3>4, PushFrame DEF Top
      <4>2. QED
        BY <2>2, <4>1
    <3>6. wpc' = "loop" \/ Good' => Good
      BY <3>3, <3>4, <3>5 DEF Good
    <3>7. QED
      BY <2>1, <2>3, <3>4, <3>5, <3>6 DEF Course
  <2>6. QED
    BY <2>4, <2>5
<1>13. CASE Unwind
  <2>1. wpc' = "unwind" /\ wpc = "unwind" /\ depth # 0 /\ UNCHANGED outcome
    BY <1>1, <1>13 DEF Unwind, Walking
  <2>2. ~(outcome' \/ Calm)
    BY <2>1 DEF Course
  <2>3. QED
    BY <2>1, <2>2 DEF Course
<1>14. CASE IterateReturn
  <2>1. /\ UNCHANGED <<dirstack, base, sysCwd, directory_current, pc, depth, outcome>>
        /\ wpc = "unwind" /\ wpc' = "returned"
    BY <1>14 DEF IterateReturn, Walking, vars, walkVars
  <2>2. QED
    BY <1>2, <2>1 DEF Course
<1>15. QED
  BY <1>5, <1>6, <1>7, <1>8, <1>9, <1>10, <1>11, <1>12, <1>13, <1>14 DEF WalkStep

-----------------------------------------------------------------------------
(* Where nothing vanishes and nothing is denied, nothing fails: paths that *)
(* are entered stay directories until they are.                            *)

CalmInv ==
    /\ present = Dir /\ sysCwd \in Dir
    /\ ~disturbed /\ status = "running"
    /\ pc # "set_refresh"
    /\ pc \in {"push", "chdir"} => Resolve(call.path) \in Dir
    /\ wpc \in {"enter", "push"} => Resolve(entry) \in Dir
    /\ wpc = "visit" => entry \in Entries(sysCwd)
    /\ wpc = "pushed" /\ pc = "idle" => ret # NULL
    /\ wpc # "idle" => base.cwd \in Dir

LEMMA CalmInit == WalkInit => CalmInv
  BY StartAssumption DEF WalkInit, Init, CalmInv

\* An operation of the stack goes on.
LEMMA CalmSteps ==
    ASSUME IInv, WalkTypes, Calm, CalmInv, Course, Steps, UNCHANGED walk
    PROVE  CalmInv'
<1>1. /\ UNCHANGED <<wpc, entry, base>> /\ present = Dir /\ sysCwd \in Dir /\ NULL \notin Dir
      /\ AllocOutcome = {TRUE} /\ Unreadable = {} /\ Unsearchable = {}
      /\ pc \in {"push", "chdir", "refresh", "pop"} /\ dirstack \in Seq(Dir)
      /\ ~disturbed /\ status = "running" /\ TypeOK /\ CacheCoherent
  BY NullAssumption DEF walk, Calm, CalmInv, IInv, TypeOK, Steps, SetCWD_Refresh, PushCWD_Save,
     PushCWD_Chdir, PushCWD_Refresh, PopCWD_Empty, PopCWD_Enter, PopCWD_Skip, At
<1>2. /\ wpc \notin {"enter", "push", "visit"}
      /\ wpc = "pushed" => pc # "pop"
      /\ wpc # "idle" => base.cwd \in Dir
  BY <1>1 DEF Course, CalmInv
<1>3. \A cwd \in CachedOrSystem : cwd # NULL /\ cwd \in Dir
  BY <1>1 DEF CachedOrSystem, TypeOK
<1>4. dirstack # <<>> => Last(dirstack) \in Dir
  BY <1>1, FrontProperties
<1>5. ASSUME /\ sysCwd' \in Dir /\ present' = present
             /\ UNCHANGED <<disturbed, status>>
             /\ pc' = "chdir" => UNCHANGED <<call, sysCwd>> /\ pc = "push"
             /\ pc' \notin {"set_refresh", "push"}
             /\ wpc = "pushed" /\ pc' = "idle" => ret' # NULL
      PROVE  CalmInv'
  <2>1. pc' = "chdir" => Resolve(call.path)' \in Dir
    BY <1>5 DEF CalmInv, Resolve
  <2>2. QED
    BY <1>1, <1>2, <1>5, <2>1 DEF CalmInv
<1>6. CASE PushCWD_Save
  <2>1. /\ UNCHANGED <<call, sysCwd, present, disturbed, status>> /\ pc' = "chdir" /\ pc = "push"
    <3>1. PICK initOk \in (IF ready THEN {TRUE} ELSE AllocOutcome), dupOk \in AllocOutcome,
               pushOk \in AllocOutcome, cwd \in CachedOrSystem :
            /\ IF ~initOk \/ cwd = NULL \/ ~dupOk
               THEN /\ status' = "aborted"
                    /\ UNCHANGED <<dirstack, pc, call, ret, disturbed>>
               ELSE /\ dirstack' = IF pushOk THEN Append(dirstack, cwd) ELSE dirstack
                    /\ IF pushOk
                       THEN pc' = "chdir" /\ ret' = cwd /\ UNCHANGED call
                       ELSE Return(NULL)
                    /\ disturbed' = (disturbed \/ ~pushOk)
                    /\ UNCHANGED status
      BY <1>6 DEF PushCWD_Save
    <3>2. initOk = TRUE /\ dupOk = TRUE /\ pushOk = TRUE /\ cwd # NULL
      BY <1>1, <1>3
    <3>3. UNCHANGED <<call, status>> /\ pc' = "chdir" /\ disturbed' = FALSE
      BY <1>1, <3>1, <3>2
    <3>4. QED
      BY <1>1, <1>6, <3>3 DEF PushCWD_Save, fsVars, At, TypeOK
  <2>2. QED
    BY <1>1, <1>5, <2>1
<1>7. CASE PushCWD_Chdir
  <2>1. CanEnter(call.path) /\ Resolve(call.path) \in Dir
    BY <1>1, <1>7 DEF PushCWD_Chdir, CanEnter, CalmInv, At
  <2>2. /\ sysCwd' \in Dir /\ UNCHANGED <<present, status, disturbed>> /\ pc' = "refresh"
    BY <1>7, <2>1 DEF PushCWD_Chdir, Entered
  <2>3. QED
    BY <1>5, <2>2
<1>8. CASE PushCWD_Refresh
  <2>1. /\ UNCHANGED <<present, sysCwd, status, disturbed>> /\ pc' = "idle" /\ ret' # NULL
    BY <1>3, <1>8 DEF PushCWD_Refresh, fsVars, Return
  <2>2. QED
    BY <1>1, <1>5, <2>1
<1>9. CASE PopCWD_Empty
  <2>1. /\ UNCHANGED <<present, sysCwd, status, disturbed>> /\ pc = "pop" /\ pc' = "idle"
    BY <1>9 DEF PopCWD_Empty, fsVars, Return, At
  <2>2. QED
    BY <1>1, <1>2, <1>5, <2>1
<1>10. CASE PopCWD_Enter
  <2>1. /\ UNCHANGED <<present, disturbed>> /\ pc = "pop" /\ pc' = "idle"
        /\ sysCwd' = Last(dirstack) /\ dirstack # <<>> /\ status' = "running"
    BY <1>1, <1>10 DEF PopCWD_Enter, Entered, Return, At, PopSaved
  <2>2. QED
    BY <1>1, <1>2, <1>4, <1>5, <2>1
<1>11. ~PopCWD_Skip
  BY <1>1, <1>4 DEF PopCWD_Skip, CanEnter, Resolve
<1>12. ~SetCWD_Refresh
  BY <1>1 DEF SetCWD_Refresh, At
<1>13. QED
  BY <1>6, <1>7, <1>8, <1>9, <1>10, <1>11, <1>12 DEF Steps

\* A push or a pop that begins.
LEMMA CalmCalls ==
    ASSUME Calm, CalmInv, NEW path, Resolve(path) \in Dir
    PROVE  /\ ~PushCWD_Missing(path)
           /\ PushCWD(path) => /\ UNCHANGED <<present, sysCwd, status, disturbed>>
                               /\ pc' = "push" /\ Resolve(call.path)' \in Dir
<1>1. present = Dir /\ Unreadable = {}
  BY DEF Calm, CalmInv
<1>2. ASSUME PushCWD(path) PROVE call'.path = path /\ sysCwd' = sysCwd
  BY <1>2 DEF PushCWD, NoCall, fsVars
<1>3. ASSUME PushCWD(path) PROVE Resolve(call.path)' \in Dir
  BY <1>2, <1>3 DEF Resolve
<1>4. QED
  BY <1>1, <1>3 DEF PushCWD_Missing, PushCWD, Dir_Exists, fsVars, histVars

LEMMA CalmPop ==
    ASSUME Calm, CalmInv, PopCWD
    PROVE  UNCHANGED <<present, sysCwd, status, disturbed>> /\ pc' = "pop"
  BY DEF Calm, CalmInv, PopCWD, InitStack, fsVars, histVars, At

LEMMA CalmStep ==
    ASSUME IInv, WalkTypes, Calm, CalmInv, Course, [WalkNext]_allVars
    PROVE  CalmInv'
<1>1. ASSUME UNCHANGED <<present, sysCwd, status, disturbed>>,
             wpc' \notin {"enter", "push", "visit", "pushed"},
             wpc # "idle", UNCHANGED base,
             pc' = "pop" \/ UNCHANGED <<pc, call>>
      PROVE  CalmInv'
  BY <1>1 DEF CalmInv, Resolve
<1>2. CASE UNCHANGED allVars
  BY <1>2 DEF allVars, vars, walk, CalmInv, Resolve, Entries
<1>3. ASSUME NEW path \in Dir \cup Name, CallerPush(path) PROVE CalmInv'
  <2>1. UNCHANGED <<wpc, entry, base>> /\ wpc = "idle" /\ PushCWD(path)
    BY <1>3 DEF CallerPush, walk
  <2>2. Resolve(path) \in Dir
    BY <2>1 DEF PushCWD, Dir_Exists, CalmInv
  <2>3. QED
    BY <2>1, <2>2, CalmCalls DEF CalmInv
<1>4. ASSUME NEW path \in IterateArgs, Iterate(path) PROVE CalmInv'
  BY <1>4 DEF Iterate, Walking, At, vars, CalmInv, Calm, Resolve
<1>5. CASE Enter
  <2>1. Dir_Exists(entry)
    BY <1>5 DEF Enter, Walking, Dir_Exists, Calm, CalmInv
  <2>2. wpc' = "push" /\ UNCHANGED <<vars, entry, base>> /\ wpc = "enter" /\ pc = "idle"
    BY <1>5, <2>1 DEF Enter, Walking, At
  <2>3. QED
    BY <2>2 DEF vars, CalmInv, Resolve
<1>6. CASE EnterPush
  <2>1. UNCHANGED <<entry, base>> /\ wpc = "push" /\ wpc' = "pushed"
    BY <1>6 DEF EnterPush, Walking, walkVars
  <2>2. Resolve(entry) \in Dir
    BY <2>1 DEF CalmInv
  <2>3. PushCWD(entry)
    BY <1>6, <2>2, CalmCalls DEF EnterPush
  <2>4. QED
    BY <2>1, <2>2, <2>3, CalmCalls DEF CalmInv
<1>7. CASE Opened \/ LoopEnd \/ IterateReturn
  <2>1. /\ UNCHANGED <<vars, base>> /\ wpc \in {"pushed", "loop", "unwind"}
        /\ wpc' \in {"done", "loop", "returned"}
    BY <1>7 DEF Opened, LoopEnd, IterateReturn, Walking, walkVars
  <2>2. QED
    BY <1>1, <2>1 DEF vars
<1>8. CASE Popped
  <2>1. /\ UNCHANGED <<vars, base>> /\ wpc = "popped" /\ wpc' \in {"unwind", "done", "loop"}
    BY <1>8 DEF Popped, Walking, Advance
  <2>2. QED
    BY <1>1, <2>1 DEF vars
<1>9. ASSUME NEW e \in Name \cup FileName, LoopSkip(e) \/ LoopRead(e) PROVE CalmInv'
  <2>1. /\ UNCHANGED <<vars, base>> /\ wpc = "loop" /\ pc = "idle"
        /\ \/ wpc' = "loop"
           \/ wpc' = "visit" /\ entry' = e /\ e \in Entries(sysCwd)
    BY <1>9 DEF LoopSkip, LoopRead, Walking, At
  <2>2. Entries(sysCwd)' = Entries(sysCwd)
    BY <2>1 DEF Entries, vars
  <2>3. QED
    BY <2>1, <2>2 DEF CalmInv, vars
<1>10. ASSUME NEW action \in Actions, Visited(action) PROVE CalmInv'
  <2>1. UNCHANGED <<vars, entry, base>> /\ wpc = "visit" /\ pc = "idle"
    BY <1>10 DEF Visited, Walking, At
  <2>2. \/ wpc' = "enter" /\ entry \in Name
        \/ wpc' \in {"done", "loop"}
    <3>1. CASE Descends(action)
      BY <1>10, <3>1 DEF Visited, Descends
    <3>2. CASE ~Descends(action) /\ action \in {"STOP", "EXIT"}
      BY <1>10, <3>2 DEF Visited
    <3>3. CASE ~Descends(action) /\ action \notin {"STOP", "EXIT"}
      <4>1. Advance
        BY <1>10, <3>3 DEF Visited
      <4>2. QED
        BY <4>1 DEF Advance
    <3>4. QED
      BY <3>1, <3>2, <3>3
  <2>3. CASE wpc' \in {"done", "loop"}
    BY <1>1, <2>1, <2>3 DEF vars
  <2>4. CASE wpc' = "enter" /\ entry \in Name
    <3>1. entry \in Entries(sysCwd) /\ sysCwd \in Dir /\ present = Dir /\ NULL \notin Dir
      BY <2>1, NullAssumption DEF CalmInv
    <3>2. entry \notin Files[sysCwd]
      BY <2>4, <3>1, FilesAssumption, FileNameAssumption
    <3>3. Child[sysCwd][entry] \in Dir
      BY <3>1, <3>2 DEF Entries
    <3>4. entry \notin Dir
      BY <2>4, NullAssumption
    <3>5. Resolve(entry) \in Dir
      BY <2>4, <3>1, <3>3, <3>4 DEF Resolve
    <3>6. QED
      BY <2>1, <2>4, <3>5 DEF CalmInv, Resolve, vars
  <2>5. QED
    BY <2>2, <2>3, <2>4
<1>11. CASE Done \/ Unwind
  <2>1. PopCWD /\ UNCHANGED base /\ wpc \in {"done", "unwind"} /\ wpc' \in {"popped", "unwind"}
    BY <1>11 DEF Done, Unwind, Walking, walkVars
  <2>2. QED
    BY <1>1, <2>1, CalmPop
<1>12. ASSUME Steps /\ UNCHANGED walk PROVE CalmInv'
  BY <1>12, CalmSteps
<1>13. ~Environment
  BY DEF Environment, DirRemoved, DirCreated, Calm
<1>14. QED
  BY <1>2, <1>3, <1>4, <1>5, <1>6, <1>7, <1>8, <1>9, <1>10, <1>11, <1>12, <1>13
     DEF WalkNext, WalkStep, Caller, Background

-----------------------------------------------------------------------------
(* The invariant of the walk, and what follows from it.                    *)

WalkInductive == IInv /\ WalkTypes /\ CourseInv /\ (Calm => CalmInv)

LEMMA WalkInductiveInit == WalkInit => WalkInductive
<1> SUFFICES ASSUME WalkInit PROVE WalkInductive
  OBVIOUS
<1>1. IInv /\ WalkTypes /\ CalmInv
  BY IInvInit, WalkTypesInit, CalmInit DEF WalkInit
<1>2. wpc = "idle"
  BY DEF WalkInit
<1>3. Course
  BY <1>2 DEF Course
<1>4. QED
  BY <1>1, <1>3 DEF WalkInductive, CourseInv

LEMMA WalkInductiveStep == WalkInductive /\ [WalkNext]_allVars => WalkInductive'
<1> SUFFICES ASSUME WalkInductive, [WalkNext]_allVars PROVE WalkInductive'
  OBVIOUS
<1>1. IInv /\ WalkTypes /\ TypeOK /\ [Next]_vars
  BY WalkIsStack DEF WalkInductive, IInv
<1>2. IInv' /\ WalkTypes'
  BY <1>1, IInvStep, WalkTypesStep
<1>3. ASSUME ~disturbed', status' = "running" PROVE Course
  <2>1. ~disturbed
    BY <1>1, <1>3, StaysUndisturbed
  <2>2. status = "running"
    BY <1>1, <1>3, NextRuns DEF vars
  <2>3. QED
    BY <2>1, <2>2 DEF WalkInductive, CourseInv
<1>4. Calm => CalmInv /\ CalmInv'
  <2>1. Calm => CalmInv /\ Course
    BY DEF WalkInductive, CalmInv, CourseInv
  <2>2. QED
    BY <1>1, <2>1, CalmStep
<1>5. ASSUME ~disturbed', status' = "running" PROVE Course'
  <2>1. Course
    BY <1>3, <1>5
  <2>2. CASE UNCHANGED allVars
    BY <2>1, <2>2 DEF allVars, vars, walk, Course, Good, Own, OwnOf, Top, Counts
  <2>3. ASSUME NEW path \in IterateArgs, Iterate(path) PROVE Course'
    BY <1>1, <2>3, CourseBegins
  <2>4. ASSUME NEW path \in Dir \cup Name, CallerPush(path) PROVE Course'
    BY <2>4 DEF CallerPush, walk, Course
  <2>5. CASE WalkStep \/ \E action \in Actions : Visited(action)
    <3>1. CalmWalk
      BY <1>4 DEF CalmWalk, CalmInv, Calm, Dir_Exists
    <3>2. QED
      BY <1>1, <2>1, <2>5, <3>1, CourseGoesOn
  <2>6. CASE Background
    BY <1>1, <1>5, <2>1, <2>6, CourseSteps, CourseInterrupted DEF Background
  <2>7. QED
    BY <2>2, <2>3, <2>4, <2>5, <2>6 DEF WalkNext, Caller
<1>6. QED
  BY <1>2, <1>4, <1>5 DEF WalkInductive, CourseInv

LEMMA WalkInductiveAlways == WalkSpec => []WalkInductive
  BY WalkInductiveInit, WalkInductiveStep, PTL DEF WalkSpec

\* While directories come and go and allocations fail, an Iterate that returns
\* true has restored the caller's stack and directory, unless a chdir or a push
\* has failed on the way: for every tree, callback and size of the counter.
THEOREM TrueAlwaysMeansRestored == WalkSpec => TrueMeansRestored
<1>1. ASSUME WalkInductive, [WalkNext]_allVars,
             wpc' = "returned", wpc # "returned", outcome, ~disturbed
      PROVE  dirstack = base.stack /\ (base.cwd # NULL => sysCwd \in {base.cwd, NULL})
  <2>1. wpc = "unwind" /\ status = "running"
    <3>1. CASE Caller \/ Background \/ UNCHANGED allVars
      BY <1>1, <3>1 DEF Caller, CallerPush, Iterate, Background, allVars, walk
    <3>2. CASE \E action \in Actions : Visited(action)
      BY <1>1, <3>2 DEF Visited, Advance
    <3>3. CASE WalkStep
      BY <1>1, <3>3 DEF WalkStep, Enter, EnterPush, Opened, LoopEnd, LoopSkip, LoopRead, Done,
         Popped, Unwind, IterateReturn, Advance, Walking, At
    <3>4. QED
      BY <1>1, <3>1, <3>2, <3>3 DEF WalkNext
  <2>2. Own(0) /\ TypeOK /\ WalkTypes
    BY <1>1, <2>1 DEF WalkInductive, CourseInv, Course, IInv
  <2>3. QED
    BY <2>2, OwnNone DEF Own, OwnOf
<1>2. WalkInductive /\ [WalkNext]_allVars =>
        [wpc' = "returned" /\ wpc # "returned" /\ outcome /\ ~disturbed =>
            /\ dirstack = base.stack
            /\ base.cwd # NULL => sysCwd \in {base.cwd, NULL}]_allVars
  BY <1>1
<1>3. QED
  BY <1>2, WalkInductiveAlways, PTL DEF WalkSpec, TrueMeansRestored

\* Where nothing vanishes and nothing is denied, Iterate leaves the caller's
\* directory and stack as they were, whatever it returns, whatever the callback
\* answers and however reading fails.
THEOREM CalmRestores ==
    ASSUME Calm
    PROVE  WalkSpec => []CwdRestored
<1>1. ASSUME WalkInductive PROVE CwdRestored
  <2> SUFFICES ASSUME wpc = "returned", status = "running"
               PROVE  sysCwd = base.cwd /\ dirstack = base.stack
    BY DEF CwdRestored
  <2>1. CalmInv /\ Own(0) /\ TypeOK /\ WalkTypes
    BY <1>1 DEF WalkInductive, CourseInv, Course, CalmInv, IInv
  <2>2. sysCwd \in Dir /\ base.cwd \in Dir /\ NULL \notin Dir
    BY <2>1, NullAssumption DEF CalmInv
  <2>3. sysCwd = base.cwd
    BY <2>1, <2>2 DEF Own, OwnOf
  <2>4. QED
    BY <2>1, <2>3, OwnNone
<1>2. QED
  BY <1>1, WalkInductiveAlways, PTL

-----------------------------------------------------------------------------
(* The counter never wraps, since callers nest no deeper than MaxDepth.    *)

LEMMA CountSmall ==
    ASSUME NEW d \in 0..(SizeModulus - 1), NEW n \in Nat, n < SizeModulus, Counts(d, n)
    PROVE  d = n
<1>1. SizeModulus \in Nat /\ SizeModulus > 0
  BY SizeAssumption
<1>2. PICK q \in Nat : n = d + q * SizeModulus
  BY DEF Counts
<1>3. q # 0 => q * SizeModulus >= SizeModulus
  BY <1>1
<1>4. q = 0
  BY <1>1, <1>2, <1>3
<1>5. 0 * SizeModulus = 0
  BY <1>1
<1>6. QED
  BY <1>2, <1>4, <1>5

OwedBounded == /\ Len(owed) <= MaxDepth
               /\ pc \in {"push", "chdir", "refresh"} => Len(owed) < MaxDepth

LEMMA OwedBoundedStep ==
    ASSUME TypeOK, OwedBounded, [Next]_vars
    PROVE  OwedBounded'
<1>1. owed \in Seq(Dir \cup {NULL}) /\ Len(owed) \in Nat /\ MaxDepth \in Nat
      /\ call.from \in Dir \cup {NULL} /\ Len(<<>>) = 0
  BY LenProperties, EmptySeq, DepthAssumption DEF TypeOK
<1>2. ASSUME UNCHANGED owed, pc' \in {"push", "chdir", "refresh"} => Len(owed) < MaxDepth
      PROVE  OwedBounded'
  BY <1>2 DEF OwedBounded
<1>3. ASSUME owed' = Append(owed, call.from), pc' = "idle",
             pc \in {"push", "chdir", "refresh"}
      PROVE  OwedBounded'
  <2>1. Len(owed') = Len(owed) + 1 /\ Len(owed) < MaxDepth
    BY <1>1, <1>3, AppendProperties DEF OwedBounded
  <2>2. QED
    BY <1>1, <1>3, <2>1 DEF OwedBounded
<1>4. ASSUME owed' = OweOneLess, pc' = "idle" PROVE OwedBounded'
  <2>1. Len(OweOneLess) <= Len(owed) /\ Len(OweOneLess) \in Nat
    BY <1>1, OweOneLessProperties, FrontProperties DEF OweOneLess
  <2>2. QED
    BY <1>1, <1>4, <2>1 DEF OwedBounded
<1>5. CASE UNCHANGED vars
  BY <1>2, <1>5 DEF vars, OwedBounded
<1>6. CASE Environment
  BY <1>2, <1>6 DEF Environment, DirRemoved, DirCreated, histVars, OwedBounded
<1>7. CASE GetCWD \/ PopCWD \/ SetCWD_Refresh \/ PopCWD_Skip
  BY <1>2, <1>7 DEF GetCWD, PopCWD, SetCWD_Refresh, PopCWD_Skip, histVars, Return, At
<1>8. CASE \E path \in Argument : PushCWD_Missing(path) \/ PushCWD(path)
  BY <1>2, <1>8 DEF PushCWD_Missing, PushCWD, histVars, Return, At
<1>9. CASE \E path \in Argument : SetCWD(path)
  <2>1. PICK path \in Argument : SetCWD(path)
    BY <1>9
  <2>2. CASE status' = "aborted"
    BY <1>2, <2>1, <2>2 DEF SetCWD, histVars, At
  <2>3. CASE status' # "aborted"
    BY <1>1, <2>1, <2>3 DEF SetCWD, ClearDirectoryStack, Return, OwedBounded
  <2>4. QED
    BY <2>2, <2>3
<1>10. CASE PushCWD_Save
  BY <1>2, <1>10 DEF PushCWD_Save, Return, At, OwedBounded
<1>11. CASE PushCWD_Chdir
  BY <1>2, <1>3, <1>11 DEF PushCWD_Chdir, Return, At, OwedBounded
<1>12. CASE PushCWD_Refresh
  BY <1>2, <1>3, <1>12 DEF PushCWD_Refresh, Return, At, OwedBounded
<1>13. CASE PopCWD_Empty \/ PopCWD_Enter
  BY <1>4, <1>13 DEF PopCWD_Empty, PopCWD_Enter, Return
<1>14. QED
  BY <1>5, <1>6, <1>7, <1>8, <1>9, <1>10, <1>11, <1>12, <1>13 DEF Next, Calls, Steps

LEMMA OwedAlwaysBounded == WalkSpec => []OwedBounded
<1>1. WalkInit => OwedBounded
  BY EmptySeq, DepthAssumption DEF WalkInit, Init, OwedBounded
<1>2. WalkInductive /\ OwedBounded /\ [WalkNext]_allVars => OwedBounded'
  BY WalkIsStack, OwedBoundedStep DEF WalkInductive, IInv
<1>3. QED
  BY <1>1, <1>2, WalkInductiveAlways, PTL DEF WalkSpec

LEMMA DepthIsExact ==
    ASSUME MaxDepth < SizeModulus, WalkInductive, OwedBounded, ~disturbed
    PROVE  WalkInv
<1>1. WalkTypeOK /\ TypeOK
  BY DEF WalkInductive, WalkTypes, IInv
<1>2. ASSUME Walking("loop") \/ Walking("visit")
      PROVE  depth = Len(frames) /\ Len(dirstack) = Len(base.stack) + depth
  <2>1. Counts(depth, Len(frames)) /\ Own(Len(frames)) /\ pc = "idle" /\ status = "running"
    BY <1>2 DEF WalkInductive, CourseInv, Course, Walking, At
  <2>3. dirstack = owed
    BY <2>1 DEF WalkInductive, IInv, Matched, Saving
  <2>4. /\ Len(frames) \in Nat /\ Len(base.stack) \in Nat /\ MaxDepth \in Nat
        /\ SizeModulus \in Nat \ {0} /\ depth \in 0..(SizeModulus - 1)
    BY <1>1, LenProperties, DepthAssumption, SizeAssumption DEF WalkTypeOK
  <2>5. Len(dirstack) = Len(base.stack) + Len(frames) /\ Len(dirstack) <= MaxDepth
    BY <2>1, <2>3 DEF Own, OwnOf, OwedBounded
  <2>6. Len(frames) < SizeModulus
    BY <2>4, <2>5
  <2>7. depth = Len(frames)
    BY <2>1, <2>4, <2>6, CountSmall
  <2>8. QED
    BY <2>5, <2>7
<1>3. QED
  BY <1>1, <1>2 DEF WalkInv, DepthCountsPushes

\* As long as no chdir and no push has failed, depth is the number of entries
\* the walk has on the stack whenever it reads or visits an entry.
THEOREM DepthIsAlwaysExact ==
    ASSUME MaxDepth < SizeModulus
    PROVE  WalkSpec => [](~disturbed => WalkInv)
<1>1. WalkInductive /\ OwedBounded => (~disturbed => WalkInv)
  BY DepthIsExact
<1>2. QED
  BY <1>1, WalkInductiveAlways, OwedAlwaysBounded, PTL

\* Where nothing vanishes and nothing is denied, it always is.
THEOREM CalmCountsExactly ==
    ASSUME Calm, MaxDepth < SizeModulus
    PROVE  WalkSpec => []WalkInv
<1>1. WalkInductive /\ OwedBounded => WalkInv
  BY DepthIsExact DEF WalkInductive, CalmInv
<1>2. QED
  BY <1>1, WalkInductiveAlways, OwedAlwaysBounded, PTL

-----------------------------------------------------------------------------
(* The trail of a walk: the directories of its frames, outermost first,    *)
(* and the one it is about to enter.                                       *)

Place(i) == IF i <= Len(dirstack) THEN dirstack[i] ELSE sysCwd
Trail(k) == Place(Len(base.stack) + 1 + k)

\* The inner call has left its directory once its pop is done.
Held == IF wpc = "popped" /\ pc = "idle" THEN Len(frames) - 1 ELSE Len(frames)

Descending == wpc \in {"enter", "push", "pushed"}
Entering == IF wpc \in {"enter", "push"} THEN Resolve(entry)
            ELSE IF pc \in {"push", "chdir"} THEN Resolve(call.path)
            ELSE sysCwd

\* No frame has failed so far.
Going == \/ wpc \in {"enter", "push", "pushed", "loop", "visit"}
         \/ wpc \in {"done", "popped"} /\ Top.result
         \/ wpc \in {"unwind", "returned"} /\ outcome

\* A step that reads nothing, shows nothing and enters no other directory.
Quiet == /\ UNCHANGED <<present, entry, base, exit, visited>>
         /\ Going' => Going
         /\ Descending' <=> Descending
         /\ Descending => Held' = Held /\ Entering' = Entering
         /\ "visit" \in {wpc, wpc'} => UNCHANGED <<wpc, frames, sysCwd>>
         /\ wpc' # "idle" \/ UNCHANGED wpc
         /\ Held \in Nat /\ Held' \in Nat /\ Held' <= Held
         /\ \A k \in 1..Held' : Trail(k)' = Trail(k) /\ frames'[k].todo = frames[k].todo

LEMMA TrailStays ==
    UNCHANGED <<dirstack, sysCwd, base>> => \A k \in Nat : Trail(k)' = Trail(k)
  BY DEF Trail, Place

\* Saving the directory moves it from the process to the stack, and a pop
\* brings it back.
LEMMA PlaceSaved ==
    ASSUME dirstack \in Seq(Dir), sysCwd \in Dir, dirstack' = Append(dirstack, sysCwd),
           NEW i \in Nat \ {0}, i <= Len(dirstack) + 1
    PROVE  Place(i)' = Place(i)
<1>1. /\ Len(dirstack) \in Nat /\ Len(dirstack') = Len(dirstack) + 1
      /\ \A j \in 1..Len(dirstack) : dirstack'[j] = dirstack[j]
      /\ dirstack'[Len(dirstack) + 1] = sysCwd
  BY AppendProperties, LenProperties
<1>2. CASE i <= Len(dirstack)
  BY <1>1, <1>2 DEF Place
<1>3. CASE i = Len(dirstack) + 1
  BY <1>1, <1>3 DEF Place
<1>4. QED
  BY <1>1, <1>2, <1>3

LEMMA PlacePopped ==
    ASSUME dirstack \in Seq(Dir), dirstack # <<>>, dirstack' = Front(dirstack),
           sysCwd' = Last(dirstack), NEW i \in Nat \ {0}, i <= Len(dirstack)
    PROVE  Place(i)' = Place(i)
<1>1. /\ Len(dirstack) \in Nat /\ Len(dirstack') = Len(dirstack) - 1
      /\ \A j \in 1..(Len(dirstack) - 1) : dirstack'[j] = dirstack[j]
      /\ sysCwd' = dirstack[Len(dirstack)]
  BY FrontElements, LenProperties
<1>2. CASE i <= Len(dirstack) - 1
  BY <1>1, <1>2 DEF Place
<1>3. CASE i = Len(dirstack)
  BY <1>1, <1>3 DEF Place
<1>4. QED
  BY <1>1, <1>2, <1>3

\* Where all is calm, the operations the walk calls have one outcome each.
LEMMA CalmOperation ==
    ASSUME IInv, WalkTypes, Calm, CalmInv, Course, Steps, UNCHANGED walk, wpc # "idle"
    PROVE  /\ UNCHANGED present
           /\ \/ /\ wpc = "pushed" /\ pc = "push" /\ pc' = "chdir"
                 /\ dirstack' = Append(dirstack, sysCwd) /\ UNCHANGED <<sysCwd, call>>
              \/ /\ wpc = "pushed" /\ pc = "chdir" /\ pc' = "refresh"
                 /\ sysCwd' = Resolve(call.path) /\ UNCHANGED dirstack
              \/ /\ wpc = "pushed" /\ pc = "refresh" /\ pc' = "idle"
                 /\ UNCHANGED <<sysCwd, dirstack>>
              \/ /\ wpc = "popped" /\ pc = "pop" /\ pc' = "idle" /\ dirstack # <<>>
                 /\ dirstack' = Front(dirstack) /\ sysCwd' = Last(dirstack)
<1>1. /\ present = Dir /\ sysCwd \in Dir /\ NULL \notin Dir /\ TRUE \notin {FALSE}
      /\ AllocOutcome = {TRUE} /\ Unreadable = {} /\ Unsearchable = {}
      /\ dirstack \in Seq(Dir) /\ CacheCoherent /\ TypeOK
  BY NullAssumption DEF Calm, CalmInv, IInv, TypeOK
<1>2. \A cwd \in CachedOrSystem : cwd # NULL /\ cwd = sysCwd
  BY <1>1 DEF CachedOrSystem, CacheCoherent
<1>3. pc # "idle" /\ wpc \in {"pushed", "popped"} /\ (wpc = "popped" <=> pc = "pop")
  <2>1. pc \in {"push", "chdir", "refresh", "pop"}
    BY DEF Steps, SetCWD_Refresh, PushCWD_Save, PushCWD_Chdir, PushCWD_Refresh,
       PopCWD_Empty, PopCWD_Enter, PopCWD_Skip, At, CalmInv
  <2>2. QED
    BY <2>1 DEF Course, Good, WalkTypes, WalkTypeOK
<1>4. CASE PushCWD_Save
  <2>1. PICK initOk \in (IF ready THEN {TRUE} ELSE AllocOutcome), dupOk \in AllocOutcome,
             pushOk \in AllocOutcome, cwd \in CachedOrSystem :
          IF ~initOk \/ cwd = NULL \/ ~dupOk
          THEN /\ status' = "aborted"
               /\ UNCHANGED <<dirstack, pc, call, ret, disturbed>>
          ELSE /\ dirstack' = IF pushOk THEN Append(dirstack, cwd) ELSE dirstack
               /\ IF pushOk
                  THEN pc' = "chdir" /\ ret' = cwd /\ UNCHANGED call
                  ELSE Return(NULL)
               /\ disturbed' = (disturbed \/ ~pushOk)
               /\ UNCHANGED status
    BY <1>4 DEF PushCWD_Save
  <2>2. initOk = TRUE /\ dupOk = TRUE /\ pushOk = TRUE /\ cwd # NULL /\ cwd = sysCwd
    BY <1>1, <1>2
  <2>3. dirstack' = Append(dirstack, sysCwd) /\ pc' = "chdir" /\ UNCHANGED call
    BY <2>1, <2>2
  <2>4. QED
    BY <1>3, <1>4, <2>3 DEF PushCWD_Save, fsVars, At
<1>5. CASE PushCWD_Chdir
  <2>1. CanEnter(call.path)
    BY <1>1, <1>5 DEF PushCWD_Chdir, CanEnter, CalmInv, At
  <2>2. QED
    BY <1>3, <1>5, <2>1 DEF PushCWD_Chdir, Entered, At
<1>6. CASE PushCWD_Refresh
  BY <1>2, <1>3, <1>6 DEF PushCWD_Refresh, fsVars, Return, At
<1>7. ~PopCWD_Empty
  <2>1. ASSUME PopCWD_Empty PROVE FALSE
    <3>1. wpc = "popped" /\ pc = "pop" /\ dirstack = <<>> /\ Own(Len(frames)) /\ frames # <<>>
      BY <1>3, <2>1 DEF PopCWD_Empty, At, Course, Good, WalkTypes
    <3>2. Len(frames) \in Nat \ {0}
      BY <3>1, TopType DEF WalkTypes, WalkTypeOK, FrameType
    <3>3. Len(base.stack) \in Nat /\ Len(dirstack) = 0
      BY <3>1, LenProperties, EmptySeq DEF WalkTypes, WalkTypeOK
    <3>4. QED
      BY <3>1, <3>2, <3>3 DEF Own, OwnOf
  <2>2. QED
    BY <2>1
<1>8. CASE PopCWD_Enter
  BY <1>3, <1>8 DEF PopCWD_Enter, Entered, Return, At, PopSaved
<1>9. dirstack # <<>> => Last(dirstack) \in Dir
  BY <1>1, FrontProperties
<1>10. ~PopCWD_Skip
  BY <1>1, <1>9 DEF PopCWD_Skip, CanEnter, Resolve
<1>11. ~SetCWD_Refresh
  BY DEF SetCWD_Refresh, At, CalmInv
<1>12. QED
  BY <1>4, <1>5, <1>6, <1>7, <1>8, <1>10, <1>11 DEF Steps

LEMMA HeldType ==
    ASSUME WalkTypes
    PROVE  /\ Len(frames) \in Nat /\ Held \in Nat /\ Held <= Len(frames)
           /\ wpc \in {"loop", "visit", "done", "popped"} => Len(frames) \in Nat \ {0}
           /\ wpc \in {"idle", "unwind", "returned"} => Held = 0
<1>1. frames \in Seq(FrameType) /\ Len(frames) \in Nat
  BY LenProperties DEF WalkTypes, WalkTypeOK, FrameType
<1>2. frames # <<>> => Len(frames) \in Nat \ {0}
  BY <1>1, TopType
<1>3. frames = <<>> => Len(frames) = 0
  BY EmptySeq
<1>4. QED
  BY <1>1, <1>2, <1>3 DEF Held, WalkTypes

LEMMA QuietStill ==
    ASSUME WalkTypes, WalkTypes',
           UNCHANGED <<present, entry, base, exit, visited, frames, dirstack, sysCwd>>,
           Going' => Going, Descending' <=> Descending, Descending => Entering' = Entering,
           UNCHANGED wpc \/ (wpc # "visit" /\ wpc' \notin {"visit", "idle"}), Held' = Held
    PROVE  Quiet
<1>1. \A k \in 1..Held' : Trail(k)' = Trail(k) /\ frames'[k].todo = frames[k].todo
  BY TrailStays
<1>2. QED
  BY <1>1, HeldType DEF Quiet

\* Before the walk and after it there is no trail to disturb.
LEMMA QuietOutside ==
    ASSUME WalkTypes, UNCHANGED <<present, walk>>, wpc = "idle"
    PROVE  Quiet
<1>1. /\ UNCHANGED <<wpc, frames, entry, base, exit, visited>> /\ frames = <<>>
  BY DEF walk, WalkTypes
<1>2. Held = 0 /\ Held' = 0
  BY <1>1, EmptySeq DEF Held
<1>3. \A k \in 1..Held' : FALSE
  BY <1>2
<1>4. QED
  BY <1>1, <1>2, <1>3 DEF Quiet, Going, Descending

LEMMA QuietOperation ==
    ASSUME IInv, WalkTypes, Calm, CalmInv, Course, Steps, UNCHANGED walk, wpc # "idle"
    PROVE  Quiet
<1>1. PICK n \in Nat : n = Len(frames)
  BY HeldType
<1>2. PICK b \in Nat : b = Len(base.stack)
  BY LenProperties DEF WalkTypes, WalkTypeOK
<1>3. /\ UNCHANGED <<present, wpc, frames, entry, base, exit, visited, outcome>>
      /\ (Going' <=> Going) /\ (Descending' <=> Descending)
      /\ dirstack \in Seq(Dir) /\ Len(dirstack) \in Nat /\ sysCwd \in Dir /\ Len(base.stack)' = b
  BY <1>2, CalmOperation, LenProperties
     DEF walk, Going, Descending, Top, IInv, TypeOK, CalmInv
<1>4. CASE wpc = "pushed"
  <2>1. Held = n /\ Held' = n /\ Descending
    BY <1>1, <1>3, <1>4 DEF Held, Descending
  <2>2. ASSUME Entering' = Entering, \A k \in 1..n : Trail(k)' = Trail(k) PROVE Quiet
    BY <1>3, <1>4, <2>1, <2>2 DEF Quiet
  <2>3. CASE pc = "push"
    <3>1. /\ pc' = "chdir" /\ dirstack' = Append(dirstack, sysCwd)
          /\ UNCHANGED <<sysCwd, call>>
      BY <1>4, <2>3, CalmOperation
    <3>2. Len(dirstack) = b + n
      BY <1>1, <1>2, <1>4, <2>3 DEF Course, Own, OwnOf
    <3>3. \A i \in Nat \ {0} : i <= Len(dirstack) + 1 => Place(i)' = Place(i)
      BY <1>3, <3>1, PlaceSaved
    <3>4. ASSUME NEW k \in 1..n PROVE Trail(k)' = Trail(k)
      <4>1. b + 1 + k \in Nat \ {0} /\ b + 1 + k <= Len(dirstack) + 1
        BY <3>2
      <4>2. QED
        BY <1>2, <1>3, <3>3, <4>1 DEF Trail
    <3>5. Entering' = Entering
      BY <1>3, <1>4, <2>3, <3>1 DEF Entering, Resolve
    <3>6. QED
      BY <2>2, <3>4, <3>5
  <2>4. CASE pc \in {"chdir", "refresh"}
    <3>1. /\ UNCHANGED dirstack
          /\ \/ pc = "chdir" /\ pc' = "refresh" /\ sysCwd' = Resolve(call.path)
             \/ pc = "refresh" /\ pc' = "idle" /\ sysCwd' = sysCwd
      BY <1>4, <2>4, CalmOperation
    <3>2. Len(dirstack) = b + (n + 1)
      BY <1>1, <1>2, <1>4, <2>4 DEF Course, Own, OwnOf
    <3>3. ASSUME NEW k \in 1..n PROVE Trail(k)' = Trail(k)
      <4>1. b + 1 + k <= Len(dirstack)
        BY <3>2
      <4>2. QED
        BY <1>2, <1>3, <3>1, <4>1 DEF Trail, Place
    <3>4. Entering' = Entering
      BY <1>3, <1>4, <3>1 DEF Entering
    <3>5. QED
      BY <2>2, <3>3, <3>4
  <2>5. QED
    BY <1>4, <2>3, <2>4, CalmOperation
<1>5. CASE wpc = "popped"
  <2>1. /\ pc = "pop" /\ pc' = "idle" /\ dirstack # <<>>
        /\ dirstack' = Front(dirstack) /\ sysCwd' = Last(dirstack)
    BY <1>5, CalmOperation
  <2>2. n \in Nat \ {0} /\ Len(dirstack) = b + n
    BY <1>1, <1>2, <1>5, <2>1, HeldType DEF Course, Good, Own, OwnOf
  <2>3. Held = n /\ Held' = n - 1
    BY <1>1, <1>3, <1>5, <2>1 DEF Held
  <2>4. \A i \in Nat \ {0} : i <= Len(dirstack) => Place(i)' = Place(i)
    BY <1>3, <2>1, PlacePopped
  <2>5. ASSUME NEW k \in 1..(n - 1) PROVE Trail(k)' = Trail(k)
    <3>1. b + 1 + k \in Nat \ {0} /\ b + 1 + k <= Len(dirstack)
      BY <2>2
    <3>2. QED
      BY <1>2, <1>3, <2>4, <3>1 DEF Trail
  <2>6. Held' \in Nat /\ Held' <= Held /\ ~Descending /\ ~Descending'
    BY <1>3, <1>5, <2>2, <2>3 DEF Descending
  <2>7. QED
    BY <1>3, <1>5, <2>2, <2>3, <2>5, <2>6 DEF Quiet
<1>6. QED
  BY <1>4, <1>5, CalmOperation

\* An inner call returns: the frame it leaves goes, the one below stays.
LEMMA QuietPopped ==
    ASSUME WalkTypes, WalkTypes', Popped
    PROVE  /\ Quiet /\ Held' = Held /\ wpc' \in {"unwind", "loop", "done"}
           /\ wpc' = "done" => Top'.result = Top.result /\ (~Top.result \/ exit \/ cut')
           /\ cut => cut'
<1>0. PICK n \in Nat : n = Len(frames)
  BY HeldType
<1>1. /\ UNCHANGED <<vars, entry, exit, base, visited>> /\ pc = "idle" /\ wpc = "popped"
      /\ frames # <<>> /\ frames \in Seq(FrameType) /\ cut \in BOOLEAN
  BY DEF Popped, Walking, At, WalkTypes, WalkTypeOK, FrameType
<1>2. /\ Top \in FrameType /\ Front(frames) \in Seq(FrameType) /\ n \in Nat \ {0}
      /\ Len(Front(frames)) = n - 1 /\ n - 1 \in Nat /\ Held = n - 1
      /\ \A k \in 1..(n - 1) : Front(frames)[k] = frames[k]
  BY <1>0, <1>1, TopType, FrontElements DEF Held
<1>3. \A k \in 1..Held : Trail(k)' = Trail(k)
  BY <1>1, <1>2, TrailStays DEF vars
<1>4. CASE n = 1
  <2>1. frames' = <<>> /\ outcome' = Top.result /\ wpc' = "unwind" /\ UNCHANGED cut
    BY <1>0, <1>4 DEF Popped
  <2>2. Held' = 0
    BY <2>1, EmptySeq DEF Held
  <2>3. (Going' => Going) /\ ~Descending /\ ~Descending'
    BY <1>1, <2>1 DEF Going, Descending
  <2>4. QED
    BY <1>1, <1>2, <1>4, <2>1, <2>2, <2>3 DEF Quiet, vars
<1>5. CASE n # 1
  <2> DEFINE parent == Last(Front(frames))
             frame == [parent EXCEPT !.result = Top.result]
  <2>1. Front(frames) # <<>>
    BY <1>2, <1>5, EmptySeq
  <2>2. /\ parent \in FrameType /\ Front(Front(frames)) \in Seq(FrameType)
        /\ Len(Front(Front(frames))) = (n - 1) - 1
        /\ \A k \in 1..((n - 1) - 1) : Front(Front(frames))[k] = Front(frames)[k]
        /\ parent = Front(frames)[n - 1]
    BY <1>2, <2>1, FrontProperties, FrontElements
  <2>3. frame \in FrameType /\ frame.result = Top.result /\ frame.todo = parent.todo
    BY <1>2, <2>2 DEF FrameType
  <2>4. /\ frames' = Append(Front(Front(frames)), frame)
        /\ wpc' \in {"loop", "done"}
        /\ wpc' = "loop" => Top.result
        /\ wpc' = "done" => ~Top.result \/ exit \/ cut'
        /\ cut => cut'
    <3>1. /\ frames' = Append(Front(Front(frames)), frame)
          /\ IF ~Top.result \/ exit THEN wpc' = "done" /\ UNCHANGED cut ELSE Advance
      BY <1>0, <1>5 DEF Popped
    <3>2. CASE ~Top.result \/ exit
      BY <3>1, <3>2
    <3>3. CASE ~(~Top.result \/ exit)
      <4>1. PICK ok \in ReadOutcome : /\ wpc' = IF ok THEN "loop" ELSE "done"
                                      /\ cut' = (cut \/ ~ok)
        BY <3>1, <3>3 DEF Advance
      <4>2. ok \in BOOLEAN
        BY ReadAssumption
      <4>3. QED
        BY <1>1, <3>1, <3>3, <4>1, <4>2
    <3>4. QED
      BY <3>2, <3>3
  <2> HIDE DEF frame
  <2>5. /\ Top' = frame /\ Len(frames') = ((n - 1) - 1) + 1
        /\ \A k \in 1..((n - 1) - 1) : frames'[k] = Front(Front(frames))[k]
        /\ frames'[((n - 1) - 1) + 1] = frame
    BY <2>2, <2>3, <2>4, PushFrame, AppendProperties DEF Top
  <2>6. Len(frames') = n - 1 /\ n - 1 \in Nat \ {0}
    BY <1>2, <1>5, <2>5
  <2>7. ASSUME NEW k \in 1..(n - 1) PROVE frames'[k].todo = frames[k].todo
    <3>1. CASE k = n - 1
      BY <1>2, <2>2, <2>3, <2>5, <2>6, <3>1
    <3>2. CASE k # n - 1
      BY <1>2, <2>2, <2>5, <2>6, <3>2
    <3>3. QED
      BY <3>1, <3>2
  <2>8. Held' = Held
    BY <1>2, <2>4, <2>6 DEF Held
  <2>9. (Going' => Going) /\ ~Descending /\ ~Descending'
    BY <1>1, <2>3, <2>4, <2>5 DEF Going, Descending
  <2>10. QED
    BY <1>1, <1>2, <1>3, <2>3, <2>4, <2>5, <2>7, <2>8, <2>9 DEF Quiet, vars
<1>6. QED
  BY <1>4, <1>5

\* The steps that only go on.
QuietStep == \/ \E path \in Dir \cup Name : CallerPush(path)
             \/ Enter \/ EnterPush \/ LoopEnd \/ Done \/ Popped \/ Unwind \/ IterateReturn
             \/ Background \/ UNCHANGED allVars

LEMMA StepsAreQuiet ==
    ASSUME IInv, WalkTypes, WalkTypes', Calm, CalmInv, Course, QuietStep
    PROVE  Quiet
<1>1. ASSUME NEW path \in Dir \cup Name, CallerPush(path) PROVE Quiet
  BY <1>1, QuietOutside DEF CallerPush, PushCWD, fsVars
<1>2. CASE Enter
  <2>1. Dir_Exists(entry)
    BY <1>2 DEF Enter, Walking, Dir_Exists, Calm, CalmInv
  <2>2. /\ wpc = "enter" /\ wpc' = "push" /\ UNCHANGED <<vars, frames, entry, base, exit, visited>>
    BY <1>2, <2>1 DEF Enter, Walking, history
  <2>3. Entering' = Entering /\ Held' = Held /\ Going /\ Descending /\ Descending'
    BY <2>2 DEF Entering, Resolve, Held, Going, Descending, vars
  <2>4. QED
    BY <2>2, <2>3, QuietStill DEF vars
<1>3. CASE EnterPush
  <2>1. wpc = "push" /\ wpc' = "pushed" /\ UNCHANGED walkVars /\ Resolve(entry) \in Dir
    BY <1>3 DEF EnterPush, Walking, CalmInv
  <2>2. PushCWD(entry)
    BY <1>3, <2>1, CalmCalls DEF EnterPush
  <2>3. UNCHANGED <<present, sysCwd, dirstack>> /\ pc' = "push" /\ call'.path = entry
    BY <2>2 DEF PushCWD, NoCall, fsVars
  <2>4. Entering' = Entering /\ Held' = Held /\ Going /\ Descending /\ Descending'
    BY <2>1, <2>3 DEF Entering, Resolve, Held, Going, Descending, walkVars
  <2>5. QED
    BY <2>1, <2>3, <2>4, QuietStill DEF walkVars
<1>4. CASE LoopEnd
  <2>1. wpc = "loop" /\ wpc' = "done" /\ UNCHANGED <<vars, walkVars>>
    BY <1>4 DEF LoopEnd, Walking
  <2>2. Held' = Held /\ Going /\ ~Descending /\ ~Descending'
    BY <2>1 DEF Held, Going, Descending, walkVars
  <2>3. QED
    BY <2>1, <2>2, QuietStill DEF vars, walkVars
<1>5. CASE Done
  <2>1. /\ wpc = "done" /\ wpc' = "popped" /\ UNCHANGED walkVars
        /\ UNCHANGED <<present, sysCwd, dirstack>> /\ pc' = "pop"
    BY <1>5 DEF Done, Walking, PopCWD, fsVars
  <2>2. Held' = Held /\ (Going' => Going) /\ ~Descending /\ ~Descending'
    BY <2>1 DEF Held, Going, Top, Descending, walkVars
  <2>3. QED
    BY <2>1, <2>2, QuietStill DEF walkVars
<1>6. CASE Popped
  BY <1>6, QuietPopped
<1>7. CASE Unwind
  BY <1>7, SizeAssumption DEF Unwind, Walking, Course, WalkTypes, WalkTypeOK
<1>8. CASE IterateReturn
  <2>1. wpc = "unwind" /\ wpc' = "returned" /\ UNCHANGED <<vars, walkVars>>
    BY <1>8 DEF IterateReturn, Walking
  <2>2. Held' = Held /\ (Going' => Going) /\ ~Descending /\ ~Descending'
    BY <2>1 DEF Held, Going, Descending, walkVars
  <2>3. QED
    BY <2>1, <2>2, QuietStill DEF vars, walkVars
<1>9. CASE Background
  <2>1. Steps /\ UNCHANGED walk
    BY <1>9 DEF Background, Environment, DirRemoved, DirCreated, Calm
  <2>2. CASE wpc = "idle"
    <3>1. UNCHANGED present
      BY <2>1 DEF Steps, SetCWD_Refresh, PushCWD_Save, PushCWD_Chdir, PushCWD_Refresh,
         PopCWD_Empty, PopCWD_Enter, PopCWD_Skip, fsVars
    <3>2. QED
      BY <2>1, <2>2, <3>1, QuietOutside
  <2>3. QED
    BY <2>1, <2>2, QuietOperation
<1>10. CASE UNCHANGED allVars
  <2>1. UNCHANGED <<vars, walk>>
    BY <1>10 DEF allVars
  <2>2. /\ Held' = Held /\ (Going' => Going) /\ (Descending' <=> Descending)
        /\ Entering' = Entering
    BY <2>1 DEF vars, walk, Held, Going, Top, Descending, Entering, Resolve
  <2>3. QED
    BY <2>1, <2>2, QuietStill DEF vars, walk
<1>11. QED
  BY <1>1, <1>2, <1>3, <1>4, <1>5, <1>6, <1>7, <1>8, <1>9, <1>10 DEF QuietStep

LEMMA TrailTop ==
    ASSUME WalkTypes, TypeOK, NEW k \in Nat, Own(k)
    PROVE  Trail(k) = sysCwd
<1>1. Len(dirstack) = Len(base.stack) + k /\ Len(base.stack) \in Nat
  BY LenProperties DEF Own, OwnOf, WalkTypes, WalkTypeOK
<1>2. ~(Len(base.stack) + 1 + k <= Len(dirstack))
  BY <1>1
<1>3. QED
  BY <1>2 DEF Trail, Place

\* What opening the directory stream adds to the trail.
LEMMA OpenedTrail ==
    ASSUME IInv, WalkTypes, WalkTypes', Calm, CalmInv, Course, Opened
    PROVE  /\ UNCHANGED <<present, entry, base, exit, visited, cut, sysCwd>>
           /\ wpc = "pushed" /\ Going /\ Descending /\ ~Descending' /\ wpc' \in {"loop", "done"}
           /\ Len(frames) \in Nat /\ Held = Len(frames) /\ Held' = Held + 1
           /\ Entering = sysCwd /\ Trail(Held)' = sysCwd
           /\ \A k \in 1..Held : Trail(k)' = Trail(k) /\ frames'[k].todo = frames[k].todo
           /\ Going' => wpc' = "loop" /\ frames'[Held + 1].todo = Entries(sysCwd)
<1>0. PICK n \in Nat : n = Len(frames)
  BY HeldType
<1>1. /\ UNCHANGED <<vars, entry, exit, base, visited, cut>> /\ pc = "idle" /\ wpc = "pushed"
      /\ frames \in Seq(FrameType) /\ ret # NULL
  BY DEF Opened, Walking, At, WalkTypes, WalkTypeOK, FrameType, CalmInv, history
<1>2. PICK ok \in ReadOutcome :
        /\ frames' = Append(frames, Frame(IF ok THEN Entries(sysCwd) ELSE {}, ok))
        /\ wpc' = IF ok THEN "loop" ELSE "done"
  BY <1>1 DEF Opened
<1>3. /\ Frame(IF ok THEN Entries(sysCwd) ELSE {}, ok) \in FrameType /\ ok \in BOOLEAN
      /\ TypeOK
  BY EntriesType, ReadAssumption DEF Frame, FrameType, WalkTypes, WalkTypeOK, TypeOK
<1>4. /\ Len(frames') = n + 1 /\ Top' = Frame(IF ok THEN Entries(sysCwd) ELSE {}, ok)
      /\ \A k \in 1..n : frames'[k] = frames[k]
      /\ frames'[n + 1] = Frame(IF ok THEN Entries(sysCwd) ELSE {}, ok)
  BY <1>0, <1>1, <1>2, <1>3, PushFrame, AppendProperties DEF Top
<1>5. Own(n + 1)
  BY <1>0, <1>1 DEF Course
<1>6. Trail(n + 1) = sysCwd
  <2>1. n + 1 \in Nat
    OBVIOUS
  <2>2. QED
    BY <1>3, <1>5, <2>1, TrailTop
<1>7. \A k \in Nat : Trail(k)' = Trail(k)
  BY <1>1, TrailStays DEF vars
<1>8. Held = n /\ Held' = n + 1 /\ wpc' \in {"loop", "done"} /\ Entering = sysCwd
  BY <1>0, <1>1, <1>2, <1>4 DEF Held, Entering
<1>9. Going' => ok
  <2>1. ~ok => wpc' = "done" /\ Top'.result = FALSE
    BY <1>2, <1>3, <1>4 DEF Frame
  <2>2. QED
    BY <2>1 DEF Going
<1>10. ok => wpc' = "loop" /\ frames'[n + 1].todo = Entries(sysCwd)
  BY <1>2, <1>4 DEF Frame
<1>11. Going /\ Descending /\ ~Descending'
  BY <1>1, <1>8 DEF Going, Descending
<1>12. Trail(n + 1)' = sysCwd
  <2>1. n + 1 \in Nat
    OBVIOUS
  <2>2. QED
    BY <1>6, <1>7, <2>1
<1>13. \A k \in 1..n : Trail(k)' = Trail(k) /\ frames'[k].todo = frames[k].todo
  BY <1>4, <1>7
<1>14. Going' => wpc' = "loop" /\ frames'[n + 1].todo = Entries(sysCwd)
  BY <1>9, <1>10
<1>15. UNCHANGED <<present, entry, base, exit, visited, cut, sysCwd>> /\ wpc = "pushed"
  BY <1>1 DEF vars
<1>16. Trail(Held)' = sysCwd
  BY <1>8, <1>12
<1>17. QED
  BY <1>0, <1>8, <1>11, <1>13, <1>14, <1>15, <1>16

\* Reading an entry takes it from those that are to come.
LEMMA ReadTrail ==
    ASSUME IInv, WalkTypes, WalkTypes', Course, NEW e \in Name \cup FileName,
           LoopSkip(e) \/ LoopRead(e)
    PROVE  /\ UNCHANGED <<present, base, exit, visited, cut, sysCwd>>
           /\ wpc = "loop" /\ Going /\ ~Descending' /\ e \in Top.todo
           /\ Len(frames) \in Nat \ {0} /\ Held = Len(frames) /\ Held' = Held
           /\ Len(frames') = Len(frames)
           /\ Trail(Held) = sysCwd /\ Top = frames[Held] /\ Top' = frames'[Held]
           /\ \A k \in 1..Held : Trail(k)' = Trail(k)
           /\ \A k \in 1..Held : k # Held => frames'[k].todo = frames[k].todo
           /\ frames'[Held].todo = frames[Held].todo \ {e}
           /\ \/ wpc' = "loop" /\ e \notin Entries(sysCwd)
              \/ wpc' = "visit" /\ e \in Entries(sysCwd) /\ entry' = e
<1>1. /\ UNCHANGED <<vars, base, exit, visited, cut>> /\ wpc = "loop" /\ pc = "idle"
      /\ e \in Top.todo /\ frames # <<>> /\ frames \in Seq(FrameType)
      /\ frames' = Append(Front(frames), [Top EXCEPT !.todo = Top.todo \ {e}])
      /\ \/ wpc' = "loop" /\ e \notin Entries(sysCwd)
         \/ wpc' = "visit" /\ e \in Entries(sysCwd) /\ entry' = e
  BY DEF LoopSkip, LoopRead, Walking, At, WalkTypes, WalkTypeOK, FrameType, SetTop, history
<1>2. PICK n \in Nat \ {0} : n = Len(frames)
  BY <1>1, TopType
<1> DEFINE frame == [Top EXCEPT !.todo = Top.todo \ {e}]
<1>3. Top \in FrameType /\ frame \in FrameType /\ frame.todo = Top.todo \ {e}
  BY <1>1, TopType DEF FrameType
<1> HIDE DEF frame
<1>4. /\ Front(frames) \in Seq(FrameType) /\ Len(Front(frames)) = n - 1 /\ n - 1 \in Nat
      /\ Top = frames[n] /\ \A k \in 1..(n - 1) : Front(frames)[k] = frames[k]
  BY <1>1, <1>2, TopType, FrontProperties, FrontElements DEF Top
<1>5. frames' = Append(Front(frames), frame)
  BY <1>1 DEF frame
<1>6. /\ Len(frames') = (n - 1) + 1 /\ Top' = frame
      /\ \A k \in 1..(n - 1) : frames'[k] = Front(frames)[k]
      /\ frames'[(n - 1) + 1] = frame
  BY <1>3, <1>4, <1>5, PushFrame, AppendProperties DEF Top
<1>7. Len(frames') = n /\ frames'[n] = frame
  BY <1>4, <1>6
<1>8. Held = n /\ Held' = n /\ Going /\ ~Descending'
  BY <1>1, <1>2, <1>7 DEF Held, Going, Descending
<1>9. Trail(n) = sysCwd
  BY <1>1, <1>2, TrailTop DEF Course, IInv
<1>10. \A k \in 1..n : Trail(k)' = Trail(k)
  BY <1>1, TrailStays DEF vars
<1>11. \A k \in 1..n : k # n => frames'[k].todo = frames[k].todo
  BY <1>4, <1>6
<1>12. frames'[n].todo = frames[n].todo \ {e}
  BY <1>3, <1>4, <1>7
<1>13. QED
  BY <1>1, <1>2, <1>4, <1>6, <1>7, <1>8, <1>9, <1>10, <1>11, <1>12 DEF vars

\* An answer of the callback leaves the trail, and may ask for one directory
\* more.
LEMMA VisitedTrail ==
    ASSUME IInv, WalkTypes, WalkTypes', CalmInv, CalmInv', Course, NEW action \in Actions,
           Visited(action)
    PROVE  /\ UNCHANGED <<present, entry, base, frames, sysCwd>>
           /\ visited' = visited \cup {<<sysCwd, entry, action>>}
           /\ exit' = (exit \/ action = "EXIT")
           /\ wpc = "visit" /\ Going /\ wpc' \in {"enter", "loop", "done"}
           /\ Len(frames) \in Nat \ {0} /\ Held = Len(frames) /\ Held' = Held
           /\ Trail(Held) = sysCwd /\ Top = frames[Held]
           /\ \A k \in 1..Held : Trail(k)' = Trail(k)
           /\ sysCwd \in Dir /\ entry \in Name \cup FileName
           /\ wpc' = "done" => cut'
           /\ cut => cut'
           /\ action = "EXIT" => cut'
           /\ Descending' => /\ action = "RECURSE" /\ entry \in Name /\ wpc' = "enter"
                             /\ Entering' = Child[sysCwd][entry] /\ Child[sysCwd][entry] \in Dir
           /\ action = "RECURSE" /\ entry \in Name => Descending'
<1>1. /\ UNCHANGED <<vars, entry, base, frames>> /\ wpc = "visit" /\ pc = "idle"
      /\ visited' = visited \cup {<<sysCwd, entry, action>>}
      /\ exit' = (exit \/ action = "EXIT")
      /\ frames # <<>> /\ frames \in Seq(FrameType) /\ cut \in BOOLEAN /\ sysCwd \in Dir
      /\ entry \in Name \cup FileName
  BY DEF Visited, Walking, At, WalkTypes, WalkTypeOK, FrameType, CalmInv
<1>2. PICK n \in Nat \ {0} : n = Len(frames)
  BY <1>1, TopType
<1>3. /\ wpc' \in {"enter", "loop", "done"}
      /\ wpc' = "done" => cut'
      /\ cut => cut'
      /\ action = "EXIT" => cut'
      /\ wpc' = "enter" <=> action = "RECURSE" /\ entry \in Name
  <2>1. CASE Descends(action)
    BY <2>1 DEF Visited, Descends
  <2>2. CASE ~Descends(action) /\ action \in {"STOP", "EXIT"}
    BY <2>2 DEF Visited, Descends
  <2>3. CASE ~Descends(action) /\ action \notin {"STOP", "EXIT"}
    <3>1. PICK ok \in ReadOutcome : /\ wpc' = IF ok THEN "loop" ELSE "done"
                                    /\ cut' = (cut \/ ~ok)
      BY <2>3 DEF Visited, Advance
    <3>2. ok \in BOOLEAN
      BY ReadAssumption
    <3>3. QED
      BY <1>1, <2>3, <3>1, <3>2 DEF Descends
  <2>4. QED
    BY <2>1, <2>2, <2>3
<1>4. Top = frames[n] /\ Held = n /\ Held' = n /\ Going
  <2>1. Top = frames[n]
    BY <1>2 DEF Top, Last
  <2>2. Held = n /\ Held' = n /\ Going
    BY <1>1, <1>2, <1>3 DEF Held, Going
  <2>3. QED
    BY <2>1, <2>2
<1>5. Trail(n) = sysCwd
  BY <1>1, <1>2, TrailTop DEF Course, IInv
<1>6. \A k \in 1..n : Trail(k)' = Trail(k)
  BY <1>1, TrailStays DEF vars
<1>7. Descending' <=> wpc' = "enter"
  BY <1>3 DEF Descending
<1>8. ASSUME wpc' = "enter"
      PROVE  Entering' = Child[sysCwd][entry] /\ Child[sysCwd][entry] \in Dir
  <2>1. Entering' = Resolve(entry)' /\ Resolve(entry)' = Resolve(entry) /\ Resolve(entry)' \in Dir
    BY <1>1, <1>8 DEF Entering, Resolve, vars, CalmInv
  <2>2. entry \in Name /\ entry \notin Dir /\ sysCwd # NULL
    BY <1>1, <1>3, <1>8, NullAssumption
  <2>3. QED
    BY <2>1, <2>2 DEF Resolve
<1>9. QED
  BY <1>1, <1>2, <1>3, <1>4, <1>5, <1>6, <1>7, <1>8 DEF vars

-----------------------------------------------------------------------------
(* The whole tree: a directory that has been asked for is complete, on the *)
(* trail or the next one.                                                  *)

Asked(d) == \/ d = base.start
            \/ \E p \in Dir, n \in Name : <<p, n, "RECURSE">> \in visited /\ d = Child[p][n]

Complete(d) == \A e \in Entries(d) : Seen(d, e)

WholeSoFar ==
    /\ ~exit
    /\ wpc \in {"done", "popped"} => Top.todo = {}
    /\ \A k \in 1..Held : \A e \in Entries(Trail(k)) :
          \/ e \in frames[k].todo
          \/ Seen(Trail(k), e)
          \/ wpc = "visit" /\ k = Held /\ e = entry
    /\ \A d \in Dir \cup {NULL} : Asked(d) =>
          \/ Complete(d)
          \/ \E k \in 1..Held : d = Trail(k)
          \/ Descending /\ d = Entering

Whole == /\ wpc = "idle" => visited = {} /\ ~exit
         /\ \A v \in visited : v[1] \in Dir
         /\ Going /\ ~cut => WholeSoFar

LEMMA SeenStays ==
    ASSUME UNCHANGED present, visited \subseteq visited'
    PROVE  /\ \A d, e : Seen(d, e) => Seen(d, e)'
           /\ \A d : Entries(d)' = Entries(d)
           /\ \A d : Complete(d) => Complete(d)'
<1>1. \A d, e : Seen(d, e) => Seen(d, e)'
  BY DEF Seen
<1>2. \A d : Entries(d)' = Entries(d)
  BY DEF Entries
<1>3. QED
  BY <1>1, <1>2 DEF Complete

LEMMA WholeQuiet ==
    ASSUME Whole, Quiet, cut => cut',
           WholeSoFar /\ Going' /\ ~cut' /\ wpc' \in {"done", "popped"} => Top'.todo = {},
           Held' # Held /\ Going' =>
              wpc = "popped" /\ Held' = Held - 1 /\ Top = frames[Held]
    PROVE  Whole'
<1>1. /\ UNCHANGED <<present, entry, base, exit, visited>>
      /\ Held \in Nat /\ Held' \in Nat /\ Held' <= Held
      /\ \A k \in 1..Held' : Trail(k)' = Trail(k) /\ frames'[k].todo = frames[k].todo
      /\ Descending' <=> Descending
      /\ Descending => Held' = Held /\ Entering' = Entering
  BY DEF Quiet
<1>2. /\ \A d, e : Seen(d, e)' <=> Seen(d, e)
      /\ \A d : Entries(d)' = Entries(d)
      /\ \A d : Complete(d) => Complete(d)'
      /\ \A d : Asked(d)' <=> Asked(d)
  BY <1>1, SeenStays DEF Asked, Seen
<1>3. ASSUME Going', ~cut' PROVE WholeSoFar'
  <2>1. WholeSoFar
    BY <1>3 DEF Whole, Quiet
  <2>2. ASSUME NEW k \in 1..Held', NEW e \in Entries(Trail(k))'
        PROVE  \/ e \in frames'[k].todo
               \/ Seen(Trail(k), e)'
               \/ wpc' = "visit" /\ k = Held' /\ e = entry'
    <3>1. k \in 1..Held /\ e \in Entries(Trail(k)) /\ Trail(k)' = Trail(k)
      BY <1>1, <1>2, <2>2
    <3>2. CASE wpc = "visit"
      BY <1>1, <1>2, <1>3, <2>1, <3>1, <3>2 DEF WholeSoFar, Quiet
    <3>3. CASE wpc # "visit"
      <4>1. e \in frames[k].todo \/ Seen(Trail(k), e)
        BY <2>1, <3>1, <3>3 DEF WholeSoFar
      <4>2. Seen(Trail(k), e) => Seen(Trail(k), e)'
        BY <1>1, <3>1 DEF Seen
      <4>3. QED
        BY <1>1, <4>1, <4>2
    <3>4. QED
      BY <3>2, <3>3
  <2>3. ASSUME NEW d \in Dir \cup {NULL}, Asked(d)'
        PROVE  \/ Complete(d)'
               \/ \E k \in 1..Held' : d = Trail(k)'
               \/ Descending' /\ d = Entering'
    <3>1. CASE Complete(d)
      BY <1>2, <3>1
    <3>2. CASE Descending /\ d = Entering
      BY <1>1, <3>2
    <3>3. CASE \E k \in 1..Held : d = Trail(k)
      <4>1. PICK k \in 1..Held : d = Trail(k)
        BY <3>3
      <4>2. CASE k \in 1..Held'
        BY <1>1, <4>1, <4>2
      <4>3. CASE k \notin 1..Held'
        <5>1. wpc = "popped" /\ k = Held /\ Top = frames[Held]
          BY <1>1, <1>3, <4>1, <4>3
        <5>2. frames[k].todo = {}
          BY <2>1, <5>1 DEF WholeSoFar
        <5>3. Complete(d)
          BY <2>1, <4>1, <5>1, <5>2 DEF WholeSoFar, Complete
        <5>4. QED
          BY <1>2, <5>3
      <4>4. QED
        BY <4>2, <4>3
    <3>4. QED
      BY <1>2, <2>1, <2>3, <3>1, <3>2, <3>3 DEF WholeSoFar
  <2>4. ~exit'
    BY <1>1, <2>1 DEF WholeSoFar
  <2>5. QED
    BY <1>3, <2>1, <2>2, <2>3, <2>4 DEF WholeSoFar
<1>4. wpc' = "idle" => visited' = {} /\ ~exit'
  BY <1>1 DEF Whole, Quiet
<1>5. QED
  BY <1>1, <1>3, <1>4 DEF Whole

\* The quiet steps of a whole walk.
LEMMA WholeQuietStep ==
    ASSUME IInv, WalkTypes, WalkTypes', Calm, CalmInv, Course, Whole, QuietStep
    PROVE  Whole'
<1>1. Quiet
  BY StepsAreQuiet
<1>2. CASE Popped
  <2>1. /\ Held' = Held /\ wpc' \in {"unwind", "loop", "done"} /\ (cut => cut')
        /\ wpc' = "done" => Top'.result = Top.result /\ (~Top.result \/ exit \/ cut')
    BY <1>2, QuietPopped
  <2>2. ~(WholeSoFar /\ Going' /\ ~cut' /\ wpc' \in {"done", "popped"})
    BY <2>1 DEF WholeSoFar, Going
  <2>3. QED
    BY <1>1, <2>1, <2>2, WholeQuiet
<1>3. CASE LoopEnd
  <2>1. /\ UNCHANGED <<frames, cut>> /\ Top.todo = {} /\ Top' = Top
        /\ wpc = "loop" /\ wpc' = "done"
    BY <1>3 DEF LoopEnd, walkVars, history, Top, Walking
  <2>2. Held' = Held
    BY <2>1 DEF Held
  <2>3. QED
    BY <1>1, <2>1, <2>2, WholeQuiet
<1>4. CASE Done
  <2>1. /\ UNCHANGED <<frames, cut>> /\ Top' = Top /\ wpc = "done" /\ wpc' = "popped" /\ pc' = "pop"
    BY <1>4 DEF Done, walkVars, history, Top, Walking, PopCWD
  <2>2. Held' = Held
    BY <2>1 DEF Held
  <2>3. WholeSoFar => Top'.todo = {}
    BY <2>1 DEF WholeSoFar
  <2>4. QED
    BY <1>1, <2>1, <2>2, <2>3, WholeQuiet
<1>5. CASE Enter
  <2>1. Dir_Exists(entry)
    BY <1>5 DEF Enter, Walking, Dir_Exists, Calm, CalmInv
  <2>2. wpc = "enter" /\ wpc' = "push" /\ UNCHANGED <<frames, cut>>
    BY <1>5, <2>1 DEF Enter, Walking, history
  <2>3. Held' = Held
    BY <2>2 DEF Held
  <2>4. QED
    BY <1>1, <2>2, <2>3, WholeQuiet
<1>6. CASE EnterPush \/ IterateReturn
  <2>1. wpc \in {"push", "unwind"} /\ wpc' \in {"pushed", "returned"} /\ UNCHANGED <<frames, cut>>
    BY <1>6 DEF EnterPush, IterateReturn, Walking, walkVars, history
  <2>2. Held' = Held
    BY <2>1 DEF Held
  <2>3. QED
    BY <1>1, <2>1, <2>2, WholeQuiet
<1>7. CASE Unwind
  BY <1>7, SizeAssumption DEF Unwind, Walking, Course, WalkTypes, WalkTypeOK
<1>8. CASE Background \/ UNCHANGED allVars \/ \E path \in Dir \cup Name : CallerPush(path)
  <2>1. UNCHANGED walk
    BY <1>8 DEF Background, allVars, CallerPush
  <2>2. UNCHANGED <<wpc, frames, cut>> /\ Top' = Top
    BY <2>1 DEF walk, Top
  <2>3. WholeSoFar /\ wpc' \in {"done", "popped"} => Top'.todo = {}
    BY <2>2 DEF WholeSoFar
  <2>4. ASSUME Held' # Held
        PROVE  wpc = "popped" /\ Held' = Held - 1 /\ Top = frames[Held]
    <3>1. wpc = "popped" /\ wpc' = "popped" /\ (Held' = Len(frames) \/ Held = Len(frames))
      BY <2>2, <2>4 DEF Held
    <3>2. Held' <= Held /\ Held \in Nat /\ Held' \in Nat /\ Len(frames) \in Nat
      BY <1>1, HeldType DEF Quiet
    <3>3. Held = Len(frames) /\ Held' = Len(frames) - 1
      BY <2>2, <2>4, <3>1, <3>2 DEF Held
    <3>4. QED
      BY <3>1, <3>3 DEF Top, Last
  <2>5. QED
    BY <1>1, <2>2, <2>3, <2>4, WholeQuiet
<1>9. QED
  BY <1>2, <1>3, <1>4, <1>5, <1>6, <1>7, <1>8 DEF QuietStep

LEMMA WholeBegins ==
    ASSUME WalkTypes, Whole, CalmInv', NEW path \in IterateArgs, Iterate(path)
    PROVE  Whole'
<1>1. /\ wpc = "idle" /\ wpc' = "enter" /\ UNCHANGED <<vars, frames, exit, visited, cut>>
      /\ entry' = path /\ base'.start = Resolve(path)
  BY DEF Iterate, Walking, history
<1>2. Held' = 0 /\ Descending' /\ visited' = {} /\ ~exit'
  BY <1>1, EmptySeq DEF Held, Descending, WalkTypes, Whole
<1>3. Entering' = base'.start
  BY <1>1 DEF Entering, Resolve, vars
<1>4. \A d : Asked(d)' => d = Entering'
  BY <1>2, <1>3 DEF Asked
<1>5. \A k \in 1..Held' : FALSE
  BY <1>2
<1>6. WholeSoFar'
  BY <1>1, <1>2, <1>4, <1>5 DEF WholeSoFar
<1>7. QED
  BY <1>1, <1>2, <1>6 DEF Whole

LEMMA WholeOpened ==
    ASSUME IInv, WalkTypes, WalkTypes', Calm, CalmInv, Course, Whole, Opened
    PROVE  Whole'
<1>1. /\ UNCHANGED <<present, entry, base, exit, visited, cut, sysCwd>>
      /\ wpc = "pushed" /\ Going /\ Descending /\ ~Descending' /\ wpc' \in {"loop", "done"}
      /\ Held \in Nat /\ Held' = Held + 1
      /\ Entering = sysCwd /\ Trail(Held)' = sysCwd
      /\ \A k \in 1..Held : Trail(k)' = Trail(k) /\ frames'[k].todo = frames[k].todo
      /\ Going' => wpc' = "loop" /\ frames'[Held + 1].todo = Entries(sysCwd)
  BY OpenedTrail
<1>2. /\ \A d, e : Seen(d, e)' <=> Seen(d, e)
      /\ \A d : Entries(d)' = Entries(d)
      /\ \A d : Complete(d) => Complete(d)'
      /\ \A d : Asked(d)' <=> Asked(d)
  BY <1>1, SeenStays DEF Asked, Seen
<1>3. ASSUME Going', ~cut' PROVE WholeSoFar'
  <2>1. WholeSoFar
    BY <1>1, <1>3 DEF Whole
  <2>2. ASSUME NEW k \in 1..Held', NEW e \in Entries(Trail(k))'
        PROVE  e \in frames'[k].todo \/ Seen(Trail(k), e)'
    <3>1. CASE k = Held + 1
      <4>1. Trail(k)' = sysCwd
        BY <1>1, <3>1
      <4>2. Entries(Trail(k))' = Entries(sysCwd)
        BY <1>1, <1>2, <4>1 DEF Entries
      <4>3. QED
        BY <1>1, <1>3, <2>2, <3>1, <4>2
    <3>2. CASE k # Held + 1
      <4>1. k \in 1..Held
        BY <1>1, <3>2
      <4>2. Trail(k)' = Trail(k) /\ frames'[k].todo = frames[k].todo
        BY <1>1, <4>1
      <4>3. Entries(Trail(k))' = Entries(Trail(k)) /\ (Seen(Trail(k), e)' <=> Seen(Trail(k), e))
        BY <1>1, <4>2 DEF Entries, Seen
      <4>4. QED
        BY <1>1, <2>1, <2>2, <4>1, <4>2, <4>3 DEF WholeSoFar
    <3>3. QED
      BY <3>1, <3>2
  <2>3. ASSUME NEW d \in Dir \cup {NULL}, Asked(d)'
        PROVE  Complete(d)' \/ \E k \in 1..Held' : d = Trail(k)'
    <3>1. \/ Complete(d)
          \/ \E k \in 1..Held : d = Trail(k)
          \/ d = sysCwd
      BY <1>1, <1>2, <2>1, <2>3 DEF WholeSoFar
    <3>2. Held' \in 1..Held' /\ \A k \in 1..Held : k \in 1..Held'
      BY <1>1
    <3>3. QED
      BY <1>1, <1>2, <3>1, <3>2
  <2>4. QED
    BY <1>1, <1>3, <2>1, <2>2, <2>3 DEF WholeSoFar
<1>4. QED
  BY <1>1, <1>3 DEF Whole

LEMMA WholeRead ==
    ASSUME IInv, WalkTypes, WalkTypes', Course, Whole, NEW e \in Name \cup FileName,
           LoopSkip(e) \/ LoopRead(e)
    PROVE  Whole'
<1>1. /\ UNCHANGED <<present, base, exit, visited, cut, sysCwd>>
      /\ wpc = "loop" /\ Going /\ ~Descending' /\ e \in Top.todo
      /\ Held \in Nat \ {0} /\ Held' = Held
      /\ Trail(Held) = sysCwd
      /\ \A k \in 1..Held : Trail(k)' = Trail(k)
      /\ \A k \in 1..Held : k # Held => frames'[k].todo = frames[k].todo
      /\ frames'[Held].todo = frames[Held].todo \ {e}
      /\ \/ wpc' = "loop" /\ e \notin Entries(sysCwd)
         \/ wpc' = "visit" /\ e \in Entries(sysCwd) /\ entry' = e
  BY ReadTrail
<1>2. /\ \A d, x : Seen(d, x)' <=> Seen(d, x)
      /\ \A d : Complete(d) => Complete(d)'
      /\ \A d : Asked(d)' <=> Asked(d)
  BY <1>1, SeenStays DEF Asked, Seen
<1>3. ASSUME ~cut' PROVE WholeSoFar'
  <2>1. WholeSoFar /\ ~Descending
    BY <1>1, <1>3 DEF Whole, Descending
  <2>2. ASSUME NEW k \in 1..Held', NEW x \in Entries(Trail(k))'
        PROVE  \/ x \in frames'[k].todo
               \/ Seen(Trail(k), x)'
               \/ wpc' = "visit" /\ k = Held' /\ x = entry'
    <3>1. k \in 1..Held /\ Trail(k)' = Trail(k)
      BY <1>1
    <3>2. Entries(Trail(k))' = Entries(Trail(k)) /\ (Seen(Trail(k), x)' <=> Seen(Trail(k), x))
      BY <1>1, <3>1 DEF Entries, Seen
    <3>3. x \in frames[k].todo \/ Seen(Trail(k), x)
      BY <1>1, <2>1, <2>2, <3>1, <3>2 DEF WholeSoFar
    <3>4. CASE k # Held \/ x # e
      BY <1>1, <3>1, <3>2, <3>3, <3>4
    <3>5. CASE k = Held /\ x = e
      <4>1. e \in Entries(sysCwd)
        BY <1>1, <2>2, <3>2, <3>5
      <4>2. QED
        BY <1>1, <3>5, <4>1
    <3>6. QED
      BY <3>4, <3>5
  <2>3. ASSUME NEW d \in Dir \cup {NULL}, Asked(d)'
        PROVE  Complete(d)' \/ \E k \in 1..Held' : d = Trail(k)'
    BY <1>1, <1>2, <2>1, <2>3 DEF WholeSoFar
  <2>4. QED
    BY <1>1, <2>1, <2>2, <2>3 DEF WholeSoFar
<1>4. QED
  BY <1>1, <1>3 DEF Whole

LEMMA WholeVisited ==
    ASSUME IInv, WalkTypes, WalkTypes', CalmInv, CalmInv', Course, Whole,
           NEW action \in Actions, Visited(action)
    PROVE  Whole'
<1>1. /\ UNCHANGED <<present, entry, base, frames, sysCwd>>
      /\ visited' = visited \cup {<<sysCwd, entry, action>>}
      /\ exit' = (exit \/ action = "EXIT")
      /\ wpc = "visit" /\ Going /\ wpc' \in {"enter", "loop", "done"}
      /\ Held \in Nat \ {0} /\ Held' = Held /\ Trail(Held) = sysCwd
      /\ \A k \in 1..Held : Trail(k)' = Trail(k)
      /\ sysCwd \in Dir /\ entry \in Name \cup FileName
      /\ wpc' = "done" => cut'
      /\ cut => cut'
      /\ action = "EXIT" => cut'
      /\ Descending' => Entering' = Child[sysCwd][entry]
      /\ action = "RECURSE" /\ entry \in Name => Descending'
  BY VisitedTrail
<1>2. /\ \A d, e : Seen(d, e) => Seen(d, e)'
      /\ \A d : Complete(d) => Complete(d)'
      /\ Seen(sysCwd, entry)'
  <2>1. visited \subseteq visited' /\ <<sysCwd, entry, action>> \in visited'
    BY <1>1
  <2>2. Seen(sysCwd, entry)'
    BY <1>1, <2>1 DEF Seen
  <2>3. QED
    BY <1>1, <2>1, <2>2, SeenStays
<1>3. ASSUME NEW d, Asked(d)' PROVE Asked(d) \/ (Descending' /\ d = Entering')
  <2>1. CASE d = base'.start
    BY <1>1, <2>1 DEF Asked
  <2>2. CASE d # base'.start
    <3>1. PICK p \in Dir, n \in Name : <<p, n, "RECURSE">> \in visited' /\ d = Child[p][n]
      BY <1>3, <2>2 DEF Asked
    <3>2. CASE <<p, n, "RECURSE">> \in visited
      BY <3>1, <3>2 DEF Asked
    <3>3. CASE <<p, n, "RECURSE">> = <<sysCwd, entry, action>>
      BY <1>1, <3>1, <3>3
    <3>4. QED
      BY <1>1, <3>1, <3>2, <3>3
  <2>3. QED
    BY <2>1, <2>2
<1>4. ASSUME ~cut' PROVE WholeSoFar'
  <2>1. WholeSoFar /\ ~Descending
    BY <1>1, <1>4 DEF Whole, Descending
  <2>2. ASSUME NEW k \in 1..Held', NEW e \in Entries(Trail(k))'
        PROVE  e \in frames'[k].todo \/ Seen(Trail(k), e)'
    <3>1. k \in 1..Held /\ Trail(k)' = Trail(k)
      BY <1>1
    <3>2. Entries(Trail(k))' = Entries(Trail(k)) /\ (Seen(Trail(k), e) => Seen(Trail(k), e)')
      BY <1>1, <3>1 DEF Entries, Seen
    <3>3. e \in frames[k].todo \/ Seen(Trail(k), e) \/ (k = Held /\ e = entry)
      BY <2>1, <2>2, <3>1, <3>2 DEF WholeSoFar
    <3>4. CASE k = Held /\ e = entry
      <4>1. Trail(k)' = sysCwd /\ sysCwd' = sysCwd /\ entry' = entry
        BY <1>1, <3>1, <3>4
      <4>2. Seen(Trail(k), e)' <=> Seen(sysCwd, entry)'
        BY <3>4, <4>1 DEF Seen
      <4>3. QED
        BY <1>2, <4>2
    <3>5. QED
      BY <1>1, <3>2, <3>3, <3>4
  <2>3. ASSUME NEW d \in Dir \cup {NULL}, Asked(d)'
        PROVE  \/ Complete(d)'
               \/ \E k \in 1..Held' : d = Trail(k)'
               \/ Descending' /\ d = Entering'
    <3>1. CASE Asked(d)
      <4>1. Complete(d) \/ \E k \in 1..Held : d = Trail(k)
        BY <2>1, <3>1 DEF WholeSoFar
      <4>2. QED
        BY <1>1, <1>2, <4>1
    <3>2. QED
      BY <1>3, <2>3, <3>1
  <2>4. ~exit' /\ wpc' \notin {"done", "popped"}
    BY <1>1, <1>4, <2>1 DEF WholeSoFar
  <2>5. QED
    BY <2>2, <2>3, <2>4 DEF WholeSoFar
<1>5. \A v \in visited' : v[1] \in Dir
  BY <1>1 DEF Whole
<1>6. QED
  BY <1>1, <1>4, <1>5 DEF Whole

\* Where nothing vanishes and nothing is denied, an Iterate that returns true
\* and was never cut short has shown the callback every entry of its start and
\* of every directory it was asked to recurse into: in every tree.
THEOREM CalmVisitsTheWholeTree ==
    ASSUME Calm
    PROVE  WalkSpec => []WholeTreeVisited
<1>1. WalkInit => Whole
  BY DEF WalkInit, Whole, Going
<1>2. ASSUME WalkInductive, WalkInductive', Whole, [WalkNext]_allVars PROVE Whole'
  <2>1. IInv /\ WalkTypes /\ WalkTypes' /\ CalmInv /\ CalmInv' /\ Course
    BY <1>2 DEF WalkInductive, CourseInv, CalmInv
  <2>2. CASE QuietStep
    BY <1>2, <2>1, <2>2, WholeQuietStep
  <2>3. CASE \E path \in IterateArgs : Iterate(path)
    BY <1>2, <2>1, <2>3, WholeBegins
  <2>4. CASE Opened
    BY <1>2, <2>1, <2>4, WholeOpened
  <2>5. CASE \E e \in Name \cup FileName : LoopSkip(e) \/ LoopRead(e)
    BY <1>2, <2>1, <2>5, WholeRead
  <2>6. CASE \E action \in Actions : Visited(action)
    BY <1>2, <2>1, <2>6, WholeVisited
  <2>7. QED
    BY <1>2, <2>2, <2>3, <2>4, <2>5, <2>6 DEF WalkNext, Caller, WalkStep, QuietStep
<1>3. ASSUME WalkInductive, Whole PROVE WholeTreeVisited
  <2> SUFFICES ASSUME wpc = "returned", outcome, ~cut
               PROVE  /\ Complete(base.start)
                      /\ \A v \in visited : v[2] \in Name /\ v[3] = "RECURSE" =>
                            Complete(Child[v[1]][v[2]])
    BY DEF WholeTreeVisited, TreeShown, Complete
  <2>1. WalkTypes /\ WholeSoFar /\ ~Descending /\ Held = 0
    BY <1>3, HeldType DEF WalkInductive, Whole, Going, Descending
  <2>2. \A d \in Dir \cup {NULL} : Asked(d) => Complete(d)
    BY <2>1 DEF WholeSoFar
  <2>3. base.start \in Dir \cup {NULL}
    BY <2>1 DEF WalkTypes, WalkTypeOK
  <2>4. ASSUME NEW v \in visited, v[2] \in Name, v[3] = "RECURSE"
        PROVE  Complete(Child[v[1]][v[2]])
    <3>1. v \in (Dir \cup {NULL}) \X (Name \cup FileName) \X Actions /\ v[1] \in Dir
      BY <1>3, <2>1, <2>4 DEF WalkTypes, WalkTypeOK, Whole
    <3>2. v = <<v[1], v[2], v[3]>> /\ Child[v[1]][v[2]] \in Dir \cup {NULL}
      BY <2>4, <3>1, ChildAssumption
    <3>3. Asked(Child[v[1]][v[2]])
      BY <2>4, <3>1, <3>2 DEF Asked
    <3>4. QED
      BY <2>2, <3>2, <3>3
  <2>5. Asked(base.start)
    BY DEF Asked
  <2>6. QED
    BY <2>2, <2>3, <2>4, <2>5
<1>4. QED
  BY <1>1, <1>2, <1>3, WalkInductiveAlways, PTL DEF WalkSpec

-----------------------------------------------------------------------------
(* Each entry once: in a tree, whose directories have one parent and lie   *)
(* below it, what is still to be read has not been shown.                  *)

Ranks(rank) == \A d \in Dir, n \in Name : Child[d][n] # NULL => rank[d] < rank[Child[d][n]]

Tree == /\ \E rank \in [Dir -> Nat] : Ranks(rank)
        /\ \A d, p \in Dir, n, m \in Name :
              Child[d][n] # NULL /\ Child[d][n] = Child[p][m] => d = p /\ n = m

Level == CHOOSE rank \in [Dir -> Nat] : Ranks(rank)

FreshSoFar ==
    /\ \A k \in 1..Held : /\ Trail(k) \in Dir /\ Asked(Trail(k))
                          /\ \A e \in frames[k].todo : ~Seen(Trail(k), e)
    /\ \A j, k \in 1..Held : j < k => Level[Trail(j)] < Level[Trail(k)]
    /\ Held > 0 => Trail(1) = base.start
    /\ wpc = "visit" => ~Seen(sysCwd, entry) /\ entry \notin frames[Held].todo
    /\ Descending => /\ Entering \in Dir /\ Asked(Entering)
                     /\ \A v \in visited : v[1] # Entering
                     /\ \A k \in 1..Held : Level[Trail(k)] < Level[Entering]
                     /\ Held = 0 => Entering = base.start
    /\ \A v \in visited : Asked(v[1])

Fresh == /\ wpc = "idle" => visited = {}
         /\ Going => FreshSoFar

LEMMA LevelRanks ==
    ASSUME Tree
    PROVE  Level \in [Dir -> Nat] /\ Ranks(Level)
  BY DEF Tree, Level

LEMMA FreshQuiet ==
    ASSUME Fresh, Quiet, WalkTypes, WalkTypes'
    PROVE  Fresh'
<1>1. /\ UNCHANGED <<present, entry, base, exit, visited>>
      /\ Held \in Nat /\ Held' \in Nat /\ Held' <= Held
      /\ \A k \in 1..Held' : Trail(k)' = Trail(k) /\ frames'[k].todo = frames[k].todo
      /\ Descending' <=> Descending
      /\ Descending => Held' = Held /\ Entering' = Entering
      /\ wpc' = "visit" => UNCHANGED <<wpc, frames, sysCwd>>
  BY DEF Quiet
<1>2. /\ \A d, e : Seen(d, e)' <=> Seen(d, e)
      /\ \A d : Asked(d)' <=> Asked(d)
  BY <1>1 DEF Asked, Seen
<1>3. ASSUME Going' PROVE FreshSoFar'
  <2>1. FreshSoFar
    BY <1>3 DEF Fresh, Quiet
  <2>2. \A k \in 1..Held' : k \in 1..Held
    BY <1>1
  <2>3. ASSUME NEW k \in 1..Held'
        PROVE  /\ Trail(k)' \in Dir /\ Asked(Trail(k))'
               /\ \A e \in frames'[k].todo : ~Seen(Trail(k), e)'
    <3>1. Trail(k)' = Trail(k) /\ frames'[k].todo = frames[k].todo
      BY <1>1
    <3>2. /\ Asked(Trail(k))' <=> Asked(Trail(k))
          /\ \A e : Seen(Trail(k), e)' <=> Seen(Trail(k), e)
      BY <1>1, <3>1 DEF Asked, Seen
    <3>3. QED
      BY <2>1, <2>2, <3>1, <3>2 DEF FreshSoFar
  <2>4. \A j, k \in 1..Held' : j < k => Level[Trail(j)'] < Level[Trail(k)']
    BY <1>1, <2>1, <2>2 DEF FreshSoFar
  <2>5. Held' > 0 => Trail(1)' = base'.start
    <3>1. Held' > 0 => 1 \in 1..Held' /\ Held > 0
      BY <1>1
    <3>2. QED
      BY <1>1, <2>1, <3>1 DEF FreshSoFar
  <2>6. wpc' = "visit" => ~Seen(sysCwd, entry)' /\ entry' \notin frames'[Held'].todo
    <3>1. ASSUME wpc' = "visit" PROVE Held' = Held /\ UNCHANGED <<sysCwd, entry, frames>> /\ wpc = "visit"
      BY <1>1, <3>1 DEF Held
    <3>2. wpc' = "visit" => (Seen(sysCwd, entry)' <=> Seen(sysCwd, entry))
      BY <1>1, <3>1 DEF Seen
    <3>3. QED
      BY <2>1, <3>1, <3>2 DEF FreshSoFar
  <2>7. ASSUME Descending'
        PROVE  /\ Entering' \in Dir /\ Asked(Entering)'
               /\ \A v \in visited' : v[1] # Entering'
               /\ \A k \in 1..Held' : Level[Trail(k)'] < Level[Entering']
               /\ Held' = 0 => Entering' = base'.start
    <3>1. Asked(Entering)' <=> Asked(Entering)
      BY <1>1, <2>7 DEF Asked
    <3>2. QED
      BY <1>1, <2>1, <2>7, <3>1 DEF FreshSoFar
  <2>8. \A v \in visited' : Asked(v[1])'
    BY <1>1, <1>2, <2>1 DEF FreshSoFar
  <2>9. QED
    BY <2>3, <2>4, <2>5, <2>6, <2>7, <2>8 DEF FreshSoFar
<1>4. QED
  BY <1>1, <1>3 DEF Fresh, Quiet

LEMMA FreshBegins ==
    ASSUME WalkTypes, Fresh, CalmInv', NEW path \in IterateArgs, Iterate(path)
    PROVE  Fresh'
<1>1. /\ wpc = "idle" /\ wpc' = "enter" /\ UNCHANGED <<vars, frames, visited>>
      /\ entry' = path /\ base'.start = Resolve(path)
  BY DEF Iterate, Walking, history
<1>2. Held' = 0 /\ Descending' /\ visited' = {}
  BY <1>1, EmptySeq DEF Held, Descending, WalkTypes, Fresh
<1>3. Entering' = base'.start /\ Entering' \in Dir
  BY <1>1 DEF Entering, Resolve, vars, CalmInv
<1>4. Asked(Entering)'
  BY <1>3 DEF Asked
<1>5. \A k \in 1..Held' : FALSE
  BY <1>2
<1>6. ~(Held' > 0) /\ wpc' # "visit"
  BY <1>1, <1>2
<1>7. FreshSoFar'
  BY <1>2, <1>3, <1>4, <1>5, <1>6 DEF FreshSoFar
<1>8. QED
  BY <1>1, <1>7 DEF Fresh

LEMMA FreshOpened ==
    ASSUME IInv, WalkTypes, WalkTypes', Calm, CalmInv, Course, Fresh, Opened
    PROVE  Fresh'
<1>0. PICK n \in Nat : n = Held
  BY HeldType
<1>1. /\ UNCHANGED <<base, visited, sysCwd>>
      /\ wpc = "pushed" /\ Going /\ Descending /\ ~Descending' /\ wpc' \in {"loop", "done"}
      /\ Held' = n + 1 /\ Entering = sysCwd
      /\ \A k \in 1..n : Trail(k)' = Trail(k) /\ frames'[k].todo = frames[k].todo
  BY <1>0, OpenedTrail
<1>2. Trail(n + 1)' = sysCwd
  BY <1>1, OpenedTrail
<1>3. FreshSoFar
  BY <1>1 DEF Fresh
<1>4. /\ sysCwd \in Dir /\ Asked(sysCwd) /\ \A v \in visited : v[1] # sysCwd
      /\ \A k \in 1..n : Level[Trail(k)] < Level[sysCwd]
      /\ n = 0 => sysCwd = base.start
  BY <1>0, <1>1, <1>3 DEF FreshSoFar
<1>5. ASSUME Going' PROVE FreshSoFar'
  <2>1. wpc' = "loop"
    BY <1>5, OpenedTrail
  <2>2. ASSUME NEW k \in 1..(n + 1)
        PROVE  /\ Trail(k)' \in Dir /\ Asked(Trail(k))'
               /\ \A e \in frames'[k].todo : ~Seen(Trail(k), e)'
    <3>1. CASE k = n + 1
      <4>1. Trail(k)' = sysCwd
        BY <1>2, <3>1
      <4>2. Asked(Trail(k))' /\ \A e : ~Seen(Trail(k), e)'
        BY <1>1, <1>4, <4>1 DEF Asked, Seen
      <4>3. QED
        BY <1>4, <4>1, <4>2
    <3>2. CASE k # n + 1
      <4>1. k \in 1..n
        BY <3>2
      <4>2. Trail(k)' = Trail(k) /\ frames'[k].todo = frames[k].todo
        BY <1>1, <4>1
      <4>3. /\ Asked(Trail(k))' <=> Asked(Trail(k))
            /\ \A e : Seen(Trail(k), e)' <=> Seen(Trail(k), e)
        BY <1>1, <4>2 DEF Asked, Seen
      <4>4. QED
        BY <1>0, <1>3, <4>1, <4>2, <4>3 DEF FreshSoFar
    <3>3. QED
      BY <3>1, <3>2
  <2>3. ASSUME NEW j \in 1..(n + 1), NEW k \in 1..(n + 1), j < k
        PROVE  Level[Trail(j)'] < Level[Trail(k)']
    <3>1. j \in 1..n /\ Trail(j)' = Trail(j)
      BY <1>1, <2>3
    <3>2. CASE k = n + 1
      BY <1>2, <1>4, <3>1, <3>2
    <3>3. CASE k # n + 1
      <4>1. k \in 1..n
        BY <3>3
      <4>2. Trail(k)' = Trail(k)
        BY <1>1, <4>1
      <4>3. QED
        BY <1>0, <1>3, <2>3, <3>1, <4>1, <4>2 DEF FreshSoFar
    <3>4. QED
      BY <3>2, <3>3
  <2>4. Trail(1)' = base'.start
    <3>1. CASE n = 0
      BY <1>1, <1>2, <1>4, <3>1
    <3>2. CASE n # 0
      <4>1. 1 \in 1..n /\ n > 0
        BY <3>2
      <4>2. QED
        BY <1>0, <1>1, <1>3, <4>1 DEF FreshSoFar
    <3>3. QED
      BY <3>1, <3>2
  <2>5. \A v \in visited' : Asked(v[1])'
    BY <1>1, <1>3 DEF FreshSoFar, Asked
  <2>6. QED
    BY <1>1, <2>1, <2>2, <2>3, <2>4, <2>5 DEF FreshSoFar
<1>6. QED
  BY <1>1, <1>5 DEF Fresh

LEMMA FreshRead ==
    ASSUME IInv, WalkTypes, WalkTypes', Course, Fresh, NEW e \in Name \cup FileName,
           LoopSkip(e) \/ LoopRead(e)
    PROVE  /\ Fresh'
           /\ wpc' = "visit" => ~Seen(sysCwd, entry')
<1>1. /\ UNCHANGED <<base, visited, sysCwd>>
      /\ wpc = "loop" /\ Going /\ ~Descending' /\ e \in Top.todo
      /\ Held \in Nat \ {0} /\ Held' = Held
      /\ Trail(Held) = sysCwd /\ Top = frames[Held]
      /\ \A k \in 1..Held : Trail(k)' = Trail(k)
      /\ \A k \in 1..Held : k # Held => frames'[k].todo = frames[k].todo
      /\ frames'[Held].todo = frames[Held].todo \ {e}
      /\ \/ wpc' = "loop"
         \/ wpc' = "visit" /\ entry' = e
  BY ReadTrail
<1>2. FreshSoFar
  BY <1>1 DEF Fresh
<1>3. ~Seen(sysCwd, e)
  BY <1>1, <1>2 DEF FreshSoFar
<1>4. ASSUME NEW k \in 1..Held
      PROVE  /\ Trail(k)' \in Dir /\ Asked(Trail(k))'
             /\ \A x \in frames'[k].todo : ~Seen(Trail(k), x)'
  <2>1. Trail(k)' = Trail(k) /\ frames'[k].todo \subseteq frames[k].todo
    BY <1>1
  <2>2. /\ Asked(Trail(k))' <=> Asked(Trail(k))
        /\ \A x : Seen(Trail(k), x)' <=> Seen(Trail(k), x)
    BY <1>1, <2>1 DEF Asked, Seen
  <2>3. QED
    BY <1>2, <2>1, <2>2 DEF FreshSoFar
<1>5. \A j, k \in 1..Held : j < k => Level[Trail(j)'] < Level[Trail(k)']
  BY <1>1, <1>2 DEF FreshSoFar
<1>6. Trail(1)' = base'.start
  <2>1. 1 \in 1..Held /\ Held > 0
    BY <1>1
  <2>2. QED
    BY <1>1, <1>2, <2>1 DEF FreshSoFar
<1>7. wpc' = "visit" => ~Seen(sysCwd, entry)' /\ entry' \notin frames'[Held'].todo
  BY <1>1, <1>3 DEF Seen
<1>8. \A v \in visited' : Asked(v[1])'
  BY <1>1, <1>2 DEF FreshSoFar, Asked
<1>9. FreshSoFar'
  BY <1>1, <1>4, <1>5, <1>6, <1>7, <1>8 DEF FreshSoFar
<1>10. QED
  BY <1>1, <1>3, <1>9 DEF Fresh

LEMMA FreshVisited ==
    ASSUME Tree, IInv, WalkTypes, WalkTypes', CalmInv, CalmInv', Course, Fresh,
           NEW action \in Actions, Visited(action)
    PROVE  Fresh'
<1>1. /\ UNCHANGED <<entry, base, frames, sysCwd>>
      /\ visited' = visited \cup {<<sysCwd, entry, action>>}
      /\ wpc = "visit" /\ Going /\ wpc' \in {"enter", "loop", "done"}
      /\ Held \in Nat \ {0} /\ Held' = Held /\ Trail(Held) = sysCwd
      /\ \A k \in 1..Held : Trail(k)' = Trail(k)
      /\ sysCwd \in Dir /\ entry \in Name \cup FileName
      /\ Descending' => /\ action = "RECURSE" /\ entry \in Name
                        /\ Entering' = Child[sysCwd][entry] /\ Child[sysCwd][entry] \in Dir
  BY VisitedTrail
<1>2. FreshSoFar
  BY <1>1 DEF Fresh
<1>3. Level \in [Dir -> Nat] /\ Ranks(Level) /\ NULL \notin Dir
  BY LevelRanks, NullAssumption
<1>4. \A d : Asked(d) => Asked(d)'
  BY <1>1 DEF Asked
<1>5. Held \in 1..Held /\ 1 \in 1..Held /\ Held > 0
  BY <1>1
<1>6. ASSUME NEW k \in 1..Held, k # Held PROVE Level[Trail(k)] < Level[sysCwd]
  <2>1. k < Held
    BY <1>1, <1>6
  <2>2. QED
    BY <1>1, <1>2, <1>5, <2>1 DEF FreshSoFar
<1>7. ASSUME NEW k \in 1..Held
      PROVE  /\ Trail(k)' \in Dir /\ Asked(Trail(k))'
             /\ \A x \in frames'[k].todo : ~Seen(Trail(k), x)'
  <2>1. /\ Trail(k)' = Trail(k) /\ frames' = frames
        /\ Trail(k) \in Dir /\ Asked(Trail(k))
        /\ \A x \in frames[k].todo : ~Seen(Trail(k), x)
    BY <1>1, <1>2 DEF FreshSoFar
  <2>2. Asked(Trail(k))'
    BY <1>1, <2>1 DEF Asked
  <2>3. ASSUME NEW x \in frames[k].todo, Seen(Trail(k), x)' PROVE FALSE
    <3>1. PICK a \in Actions : <<Trail(k), x, a>> \in visited'
      BY <2>1, <2>3 DEF Seen
    <3>2. <<Trail(k), x, a>> \notin visited
      BY <2>1 DEF Seen
    <3>3. Trail(k) = sysCwd /\ x = entry
      BY <1>1, <3>1, <3>2
    <3>4. k = Held
      BY <1>3, <1>6, <2>1, <3>3
    <3>5. QED
      BY <1>1, <1>2, <3>3, <3>4 DEF FreshSoFar
  <2>4. QED
    BY <2>1, <2>2, <2>3
<1>8. \A j, k \in 1..Held : j < k => Level[Trail(j)'] < Level[Trail(k)']
  BY <1>1, <1>2 DEF FreshSoFar
<1>9. Trail(1)' = base'.start
  BY <1>1, <1>2, <1>5 DEF FreshSoFar
<1>10. \A v \in visited' : Asked(v[1])'
  <2>1. Asked(sysCwd)
    BY <1>1, <1>2, <1>5 DEF FreshSoFar
  <2>2. QED
    BY <1>1, <1>2, <1>4, <2>1 DEF FreshSoFar
<1>11. ASSUME Descending'
       PROVE  /\ Entering' \in Dir /\ Asked(Entering)'
              /\ \A v \in visited' : v[1] # Entering'
              /\ \A k \in 1..Held' : Level[Trail(k)'] < Level[Entering']
              /\ Held' = 0 => Entering' = base'.start
  <2>1. PICK d : d = Child[sysCwd][entry]
    OBVIOUS
  <2>2. /\ action = "RECURSE" /\ entry \in Name /\ Entering' = d /\ d \in Dir /\ d # NULL
        /\ Level[sysCwd] < Level[d]
    BY <1>1, <1>3, <1>11, <2>1 DEF Ranks
  <2>3. \A k \in 1..Held : Trail(k) \in Dir /\ Level[Trail(k)] < Level[d]
    <3>1. ASSUME NEW k \in 1..Held PROVE Trail(k) \in Dir /\ Level[Trail(k)] < Level[d]
      <4>1. Trail(k) \in Dir
        BY <1>2 DEF FreshSoFar
      <4>2. Level[Trail(k)] <= Level[sysCwd]
        BY <1>1, <1>3, <1>6, <4>1
      <4>3. QED
        BY <1>1, <1>3, <2>2, <4>1, <4>2
    <3>2. QED
      BY <3>1
  <2>4. Asked(Entering)'
    <3>1. <<sysCwd, entry, "RECURSE">> \in visited'
      BY <1>1, <2>2
    <3>2. QED
      BY <1>1, <2>1, <2>2, <3>1 DEF Asked
  <2>5. ASSUME NEW v \in visited', v[1] = d PROVE FALSE
    <3>1. v \in visited
      BY <1>1, <1>3, <2>2, <2>5
    <3>2. Asked(d)
      BY <1>2, <2>5, <3>1 DEF FreshSoFar
    <3>3. d # base.start
      <4>1. Trail(1) = base.start /\ Level[Trail(1)] < Level[d] /\ Trail(1) \in Dir
        BY <1>2, <1>5, <2>3 DEF FreshSoFar
      <4>2. QED
        BY <1>3, <4>1
    <3>4. PICK p \in Dir, n \in Name : <<p, n, "RECURSE">> \in visited /\ d = Child[p][n]
      BY <3>2, <3>3 DEF Asked
    <3>5. p = sysCwd /\ n = entry
      <4>1. sysCwd \in Dir /\ entry \in Name
        BY <1>1, <2>2
      <4>2. Child[sysCwd][entry] # NULL /\ Child[sysCwd][entry] = Child[p][n]
        BY <2>1, <2>2, <3>4
      <4>3. \A q, r \in Dir, a, b \in Name :
              Child[q][a] # NULL /\ Child[q][a] = Child[r][b] => q = r /\ a = b
        BY DEF Tree
      <4>4. QED
        BY <3>4, <4>1, <4>2, <4>3
    <3>6. Seen(sysCwd, entry)
      BY <2>2, <3>4, <3>5 DEF Seen
    <3>7. QED
      BY <1>1, <1>2, <3>6 DEF FreshSoFar
  <2>6. QED
    BY <1>1, <2>2, <2>3, <2>4, <2>5
<1>12. wpc' # "visit"
  BY <1>1
<1>13. FreshSoFar'
  BY <1>1, <1>7, <1>8, <1>9, <1>10, <1>11, <1>12 DEF FreshSoFar
<1>14. QED
  BY <1>1, <1>13 DEF Fresh

\* Where nothing vanishes and nothing is denied, and directories form a tree,
\* no entry is shown to the callback twice.
THEOREM CalmVisitsOnce ==
    ASSUME Calm, Tree
    PROVE  WalkSpec => VisitedOnce
<1>1. WalkInit => Fresh
  BY DEF WalkInit, Fresh, Going
<1>2. ASSUME WalkInductive, WalkInductive', Fresh, [WalkNext]_allVars
      PROVE  Fresh' /\ (wpc = "loop" /\ wpc' = "visit" => ~Seen(sysCwd, entry'))
  <2>1. IInv /\ WalkTypes /\ WalkTypes' /\ CalmInv /\ CalmInv' /\ Course
    BY <1>2 DEF WalkInductive, CourseInv, CalmInv
  <2>2. CASE QuietStep
    <3>1. Quiet
      BY <2>1, <2>2, StepsAreQuiet
    <3>2. Fresh'
      BY <1>2, <2>1, <3>1, FreshQuiet
    <3>3. QED
      BY <3>1, <3>2 DEF Quiet
  <2>3. CASE \E path \in IterateArgs : Iterate(path)
    BY <1>2, <2>1, <2>3, FreshBegins DEF Iterate, Walking
  <2>4. CASE Opened
    BY <1>2, <2>1, <2>4, FreshOpened DEF Opened, Walking
  <2>5. CASE \E e \in Name \cup FileName : LoopSkip(e) \/ LoopRead(e)
    BY <1>2, <2>1, <2>5, FreshRead
  <2>6. CASE \E action \in Actions : Visited(action)
    BY <1>2, <2>1, <2>6, FreshVisited DEF Visited, Walking
  <2>7. QED
    BY <1>2, <2>2, <2>3, <2>4, <2>5, <2>6 DEF WalkNext, Caller, WalkStep, QuietStep
<1>3. WalkSpec => [](WalkInductive /\ Fresh)
  <2>1. WalkInductive /\ WalkInductive' /\ Fresh /\ [WalkNext]_allVars => Fresh'
    BY <1>2
  <2>2. QED
    BY <1>1, <2>1, WalkInductiveAlways, PTL DEF WalkSpec
<1>4. ASSUME WalkInductive, WalkInductive', Fresh, [WalkNext]_allVars
      PROVE  [wpc = "loop" /\ wpc' = "visit" => ~Seen(sysCwd, entry')]_allVars
  BY <1>2, <1>4
<1>5. QED
  BY <1>3, <1>4, PTL DEF WalkSpec, VisitedOnce
=============================================================================
