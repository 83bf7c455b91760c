--------------------------- MODULE DirStackProofs ---------------------------
(***************************************************************************)
(* What the working-directory stack guarantees for every directory tree,   *)
(* every caller and every interference: the cache is coherent, and nested  *)
(* push/pop pairs leave nothing behind and stay matched.                   *)
(***************************************************************************)
EXTENDS DirStack, SequenceTheorems, TLAPS

\* Between a PushCWD's save and its return, its string is one more than owed.
Saving == pc \in {"chdir", "refresh"}

ResidueBound == Len(dirstack) <= Len(owed) + (IF Saving THEN 1 ELSE 0)

\* The strings saved are those owed, and the one about to be saved is the
\* directory the running PushCWD was called from.
Matched ==
    ~disturbed /\ status = "running" =>
        /\ dirstack = IF Saving THEN Append(owed, call.from) ELSE owed
        /\ pc = "push" => /\ directory_current # NULL => directory_current = call.from
                          /\ sysCwd # NULL => sysCwd = call.from

IInv == TypeOK /\ CacheCoherent /\ ResidueBound /\ Matched

\* Front drops one element of a nonempty sequence.
LEMMA FrontProperties ==
    ASSUME NEW S, NEW s \in Seq(S)
    PROVE  /\ Front(s) \in Seq(S)
           /\ s # <<>> => Len(Front(s)) = Len(s) - 1 /\ Last(s) \in S /\ Len(s) > 0
           /\ Len(Front(s)) <= Len(s)
<1>1. Len(s) \in Nat /\ \A i \in 1..(Len(s) - 1) : s[i] \in S
  BY ElementOfSeq, LenProperties
<1>2. /\ Front(s) \in Seq(S)
      /\ Len(Front(s)) = IF 1 <= Len(s) - 1 THEN Len(s) - 1 ELSE 0
  BY <1>1, SubSeqProperties DEF Front
<1>3. s # <<>> => Len(s) > 0 /\ Last(s) \in S
  BY <1>1, EmptySeq, ElementOfSeq DEF Last
<1> DEFINE n == Len(s)
           f == Len(Front(s))
<1>a. n \in Nat /\ f = IF 1 <= n - 1 THEN n - 1 ELSE 0
  BY <1>1, <1>2
<1>b. s # <<>> => n > 0
  BY <1>3
<1> HIDE DEF n, f
<1>4. s # <<>> => f = n - 1
  BY <1>a, <1>b
<1>5. f <= n
  BY <1>a
<1> USE DEF n, f
<1>6. QED
  BY <1>2, <1>3, <1>4, <1>5

\* A path resolves to a directory or to nothing.
LEMMA ResolveType ==
    ASSUME TypeOK, NEW path
    PROVE  Resolve(path) \in Dir \cup {NULL}
  BY ChildAssumption DEF TypeOK, Resolve

\* GetCWD answers the coherent cache, or the working directory itself.
LEMMA CachedOrSystemType ==
    ASSUME TypeOK, CacheCoherent, NEW cwd \in CachedOrSystem
    PROVE  /\ cwd \in Dir \cup {NULL}
           /\ cwd # NULL /\ sysCwd # NULL => cwd = sysCwd
           /\ cwd # NULL => cwd = directory_current \/ cwd = sysCwd
           /\ directory_current # NULL => cwd = directory_current
  BY DEF TypeOK, CacheCoherent, CachedOrSystem

LEMMA NoCallType ==
    NoCall \in [path : Argument, from : Dir \cup {NULL}]
  BY DEF NoCall, Argument

-----------------------------------------------------------------------------
(* One lemma per action.                                                   *)

LEMMA DirRemovedStep ==
    ASSUME IInv, NEW d \in Dir, DirRemoved(d)
    PROVE  IInv'
<1>1. TypeOK'
  BY DEF IInv, TypeOK, DirRemoved, histVars
<1>2. CacheCoherent'
  BY DEF IInv, TypeOK, CacheCoherent, DirRemoved
<1>3. ResidueBound' /\ Matched'
  BY DEF IInv, ResidueBound, Matched, Saving, DirRemoved, histVars
<1>4. QED
  BY <1>1, <1>2, <1>3 DEF IInv

LEMMA DirCreatedStep ==
    ASSUME IInv, NEW d \in Dir, DirCreated(d)
    PROVE  IInv'
<1>1. TypeOK'
  BY DEF IInv, TypeOK, DirCreated, histVars
<1>2. CacheCoherent' /\ ResidueBound' /\ Matched'
  BY DEF IInv, CacheCoherent, ResidueBound, Matched, Saving, DirCreated, histVars
<1>3. QED
  BY <1>1, <1>2 DEF IInv

LEMMA GetCWDStep ==
    ASSUME IInv, GetCWD
    PROVE  IInv'
<1>1. PICK cwd \in CachedOrSystem : directory_current' = cwd /\ ret' = cwd
  BY DEF GetCWD
<1>2. TypeOK /\ CacheCoherent
  BY DEF IInv
<1>3. TypeOK'
  BY <1>1, <1>2, CachedOrSystemType DEF TypeOK, GetCWD, fsVars, histVars
<1>4. CacheCoherent'
  BY <1>1, <1>2, CachedOrSystemType DEF CacheCoherent, GetCWD, fsVars
<1>5. ResidueBound' /\ Matched'
  BY DEF IInv, ResidueBound, Matched, Saving, GetCWD, At, histVars, fsVars
<1>6. QED
  BY <1>3, <1>4, <1>5 DEF IInv

LEMMA SetCWDStep ==
    ASSUME IInv, NEW path \in Argument, SetCWD(path)
    PROVE  IInv'
<1>1. TypeOK /\ pc = "idle"
  BY DEF IInv, SetCWD, At
<1>2. /\ ready' \in BOOLEAN /\ status' \in {"running", "aborted"}
      /\ UNCHANGED present
  BY AllocAssumption DEF SetCWD, InitStack
<1>3. CASE status' = "aborted"
  <2>1. UNCHANGED <<sysCwd, directory_current, dirstack, pc, call, ret, owed, disturbed>>
    BY <1>3 DEF SetCWD, histVars
  <2>2. TypeOK'
    BY <1>1, <1>2, <2>1 DEF TypeOK
  <2>3. CacheCoherent' /\ ResidueBound' /\ Matched'
    BY <1>3, <2>1 DEF IInv, CacheCoherent, ResidueBound, Matched, Saving
  <2>4. QED
    BY <2>2, <2>3 DEF IInv
<1>4. CASE status' # "aborted"
  <2>1. /\ dirstack' = <<>> /\ owed' = <<>> /\ directory_current' = NULL
        /\ pc' \in {"idle", "set_refresh"}
    BY <1>4 DEF SetCWD, ClearDirectoryStack, Entered, Return
  <2>2. sysCwd' \in Dir \cup {NULL}
    BY <1>1, <1>4, ResolveType DEF SetCWD, Entered, TypeOK
  <2>3. /\ call' \in [path : Argument, from : Dir \cup {NULL}]
        /\ ret' \in Dir \cup {NULL} \cup BOOLEAN
        /\ disturbed' \in BOOLEAN
    BY <1>1, <1>4, NoCallType DEF SetCWD, Return, TypeOK
  <2>4. TypeOK'
    BY <1>1, <1>2, <2>1, <2>2, <2>3, EmptySeq DEF TypeOK
  <2>5. CacheCoherent' /\ ResidueBound' /\ Matched'
    BY <2>1 DEF CacheCoherent, ResidueBound, Matched, Saving
  <2>6. QED
    BY <2>4, <2>5 DEF IInv
<1>5. QED
  BY <1>3, <1>4

LEMMA SetCWD_RefreshStep ==
    ASSUME IInv, SetCWD_Refresh
    PROVE  IInv'
<1>1. PICK cwd \in CachedOrSystem : directory_current' = cwd /\ Return(cwd)
  BY DEF SetCWD_Refresh
<1>2. TypeOK /\ CacheCoherent
  BY DEF IInv
<1>3. TypeOK'
  BY <1>1, <1>2, CachedOrSystemType, NoCallType
     DEF TypeOK, SetCWD_Refresh, Return, fsVars, histVars
<1>4. CacheCoherent'
  BY <1>1, <1>2, CachedOrSystemType DEF CacheCoherent, SetCWD_Refresh, fsVars
<1>5. ResidueBound' /\ Matched'
  BY <1>1 DEF IInv, ResidueBound, Matched, Saving, SetCWD_Refresh, At, Return, histVars
<1>6. QED
  BY <1>3, <1>4, <1>5 DEF IInv

LEMMA PushCWD_MissingStep ==
    ASSUME IInv, NEW path \in Argument, PushCWD_Missing(path)
    PROVE  IInv'
<1>1. TypeOK'
  BY NoCallType DEF IInv, TypeOK, PushCWD_Missing, Return, fsVars, histVars
<1>2. CacheCoherent' /\ ResidueBound' /\ Matched'
  BY DEF IInv, CacheCoherent, ResidueBound, Matched, Saving, PushCWD_Missing,
     At, Return, fsVars, histVars
<1>3. QED
  BY <1>1, <1>2 DEF IInv

LEMMA PushCWDStep ==
    ASSUME IInv, NEW path \in Argument, PushCWD(path)
    PROVE  IInv'
<1>1. TypeOK /\ CacheCoherent
  BY DEF IInv
<1> DEFINE from == IF sysCwd # NULL THEN sysCwd ELSE directory_current
<1>2. /\ call' = [path |-> path, from |-> from]
      /\ pc = "idle" /\ pc' = "push"
  BY DEF PushCWD, NoCall, At
<1>3. call' \in [path : Argument, from : Dir \cup {NULL}]
  BY <1>1, <1>2 DEF TypeOK
<1>4. TypeOK'
  BY <1>1, <1>2, <1>3 DEF TypeOK, PushCWD, fsVars, histVars
<1>5. CacheCoherent' /\ ResidueBound'
  BY <1>2 DEF IInv, CacheCoherent, ResidueBound, Saving, PushCWD, fsVars, histVars
<1>6. Matched'
  BY <1>1, <1>2 DEF IInv, CacheCoherent, Matched, Saving, PushCWD, fsVars, histVars
<1>7. QED
  BY <1>4, <1>5, <1>6 DEF IInv

\* The string PushCWD saves is the directory its caller was in.
LEMMA PushCWD_SaveStep ==
    ASSUME IInv, PushCWD_Save
    PROVE  IInv'
<1>1. TypeOK /\ CacheCoherent /\ pc = "push" /\ status = "running"
  BY DEF IInv, PushCWD_Save, At
<1>2. PICK initOk \in (IF ready THEN {TRUE} ELSE AllocOutcome), dupOk \in AllocOutcome,
          pushOk \in AllocOutcome, cwd \in CachedOrSystem :
         /\ ready' = initOk
         /\ directory_current' = cwd
         /\ IF ~initOk \/ cwd = NULL \/ ~dupOk
            THEN /\ status' = "aborted"
                 /\ UNCHANGED <<dirstack, pc, call, ret, disturbed>>
            ELSE /\ dirstack' = IF pushOk THEN Append(dirstack, cwd) ELSE dirstack
                 /\ IF pushOk
                    THEN pc' = "chdir" /\ ret' = cwd /\ UNCHANGED call
                    ELSE Return(NULL)
                 /\ disturbed' = (disturbed \/ ~pushOk)
                 /\ UNCHANGED status
  BY DEF PushCWD_Save
<1>3. UNCHANGED <<present, sysCwd, owed>>
  BY DEF PushCWD_Save, fsVars
<1>4. /\ initOk \in BOOLEAN /\ dupOk \in BOOLEAN /\ pushOk \in BOOLEAN
      /\ cwd \in Dir \cup {NULL}
      /\ cwd # NULL /\ sysCwd # NULL => cwd = sysCwd
      /\ cwd # NULL => cwd = directory_current \/ cwd = sysCwd
  BY <1>1, AllocAssumption, CachedOrSystemType
<1>5. CacheCoherent'
  BY <1>2, <1>3, <1>4 DEF CacheCoherent
<1>6. Len(dirstack) \in Nat /\ Len(owed) \in Nat /\ Len(dirstack) <= Len(owed)
  BY <1>1, LenProperties DEF IInv, TypeOK, ResidueBound, Saving
<1>7. CASE ~initOk \/ cwd = NULL \/ ~dupOk
  <2>1. TypeOK'
    BY <1>1, <1>2, <1>3, <1>4, <1>7 DEF TypeOK
  <2>2. ResidueBound'
    BY <1>2, <1>3, <1>6, <1>7, <1>1 DEF ResidueBound, Saving
  <2>3. Matched'
    BY <1>2, <1>7 DEF Matched
  <2>4. QED
    BY <1>5, <2>1, <2>2, <2>3 DEF IInv
<1>8. CASE initOk /\ cwd # NULL /\ dupOk /\ pushOk
  <2>1. /\ dirstack' = Append(dirstack, cwd) /\ pc' = "chdir" /\ ret' = cwd
        /\ UNCHANGED <<call, status, disturbed>>
    BY <1>1, <1>2, <1>8 DEF TypeOK
  <2>2. /\ Append(dirstack, cwd) \in Seq(Dir)
        /\ Len(Append(dirstack, cwd)) = Len(dirstack) + 1
    BY <1>1, <1>4, <1>8, AppendProperties DEF TypeOK
  <2>3. TypeOK'
    BY <1>1, <1>2, <1>3, <1>4, <2>1, <2>2 DEF TypeOK
  <2>4. ResidueBound'
    BY <1>3, <1>6, <2>1, <2>2 DEF ResidueBound, Saving
  <2>5. Matched'
    <3>1. SUFFICES ASSUME ~disturbed, status = "running"
                   PROVE  dirstack' = Append(owed', call'.from)
      BY <2>1 DEF Matched, Saving
    <3>2. dirstack = owed /\ cwd = call.from
      BY <1>1, <1>4, <1>8, <3>1 DEF IInv, Matched, Saving
    <3>3. QED
      BY <1>3, <2>1, <3>2
  <2>6. QED
    BY <1>5, <2>3, <2>4, <2>5 DEF IInv
<1>9. CASE initOk /\ cwd # NULL /\ dupOk /\ ~pushOk
  <2>1. /\ pc' = "idle" /\ ret' = NULL /\ call' = NoCall /\ disturbed' = TRUE
        /\ UNCHANGED <<dirstack, status>>
    BY <1>1, <1>2, <1>9 DEF Return
  <2>2. TypeOK'
    BY <1>1, <1>2, <1>3, <1>4, <2>1, NoCallType DEF TypeOK
  <2>3. ResidueBound' /\ Matched'
    BY <1>3, <1>6, <2>1 DEF ResidueBound, Saving, Matched
  <2>4. QED
    BY <1>5, <2>2, <2>3 DEF IInv
<1>10. QED
  BY <1>4, <1>7, <1>8, <1>9

\* What PopSaved does to the stack.
LEMMA PopSavedProperties ==
    ASSUME TypeOK, PopSaved
    PROVE  /\ dirstack' \in Seq(Dir)
           /\ Len(dirstack) \in Nat /\ Len(dirstack') \in Nat
           /\ dirstack # <<>> => Len(dirstack') = Len(dirstack) - 1 /\ Last(dirstack) \in Dir
           /\ Len(dirstack') <= Len(dirstack)
           /\ status' \in {"running", "crashed"}
  BY FrontProperties, LenProperties DEF TypeOK, PopSaved

LEMMA PushCWD_ChdirStep ==
    ASSUME IInv, PushCWD_Chdir
    PROVE  IInv'
<1>1. TypeOK /\ pc = "chdir" /\ status = "running"
  BY DEF IInv, PushCWD_Chdir, At
<1>2. Len(dirstack) \in Nat /\ Len(owed) \in Nat /\ Len(dirstack) <= Len(owed) + 1
  BY <1>1, LenProperties DEF IInv, TypeOK, ResidueBound, Saving
<1>3. CASE CanEnter(call.path)
  <2>1. /\ sysCwd' = Resolve(call.path) /\ directory_current' = NULL /\ pc' = "refresh"
        /\ UNCHANGED <<present, ready, dirstack, call, ret, status, owed, disturbed>>
    BY <1>3 DEF PushCWD_Chdir, Entered
  <2>2. TypeOK'
    BY <1>1, <2>1, ResolveType DEF TypeOK
  <2>3. CacheCoherent'
    BY <2>1 DEF CacheCoherent
  <2>4. ResidueBound' /\ Matched'
    BY <1>1, <2>1 DEF IInv, ResidueBound, Matched, Saving
  <2>5. QED
    BY <2>2, <2>3, <2>4 DEF IInv
<1>4. CASE ~CanEnter(call.path)
  <2>1. /\ PopSaved /\ pc' = "idle" /\ ret' = ret /\ call' = NoCall
        /\ owed' = Append(owed, call.from) /\ disturbed' = TRUE
        /\ UNCHANGED <<present, ready, sysCwd, directory_current>>
    BY <1>4 DEF PushCWD_Chdir, Return
  <2>2. call.from \in Dir \cup {NULL}
    BY <1>1 DEF TypeOK
  <2>3. owed' \in Seq(Dir \cup {NULL}) /\ Len(owed') = Len(owed) + 1
    BY <1>1, <2>1, <2>2, AppendProperties DEF TypeOK
  <2>4. TypeOK'
    BY <1>1, <2>1, <2>3, PopSavedProperties, NoCallType DEF TypeOK
  <2>5. CacheCoherent'
    BY <2>1 DEF IInv, CacheCoherent
  <2>6. ResidueBound'
    BY <1>1, <1>2, <2>1, <2>3, PopSavedProperties DEF ResidueBound, Saving
  <2>7. Matched'
    BY <2>1 DEF Matched
  <2>8. QED
    BY <2>4, <2>5, <2>6, <2>7 DEF IInv
<1>5. QED
  BY <1>3, <1>4

LEMMA PushCWD_RefreshStep ==
    ASSUME IInv, PushCWD_Refresh
    PROVE  IInv'
<1>1. TypeOK /\ CacheCoherent /\ pc = "refresh" /\ status = "running"
  BY DEF IInv, PushCWD_Refresh, At
<1>2. PICK cwd \in CachedOrSystem :
         /\ directory_current' = cwd
         /\ IF cwd = NULL
            THEN status' = "aborted" /\ UNCHANGED <<pc, call, ret, owed>>
            ELSE Return(cwd) /\ owed' = Append(owed, call.from) /\ UNCHANGED status
  BY DEF PushCWD_Refresh
<1>3. UNCHANGED <<present, sysCwd, dirstack, ready, disturbed>>
  BY DEF PushCWD_Refresh, fsVars
<1>4. cwd \in Dir \cup {NULL} /\ (cwd # NULL /\ sysCwd # NULL => cwd = sysCwd)
  BY <1>1, CachedOrSystemType
<1>5. CacheCoherent'
  BY <1>2, <1>3, <1>4 DEF CacheCoherent
<1>6. Len(dirstack) \in Nat /\ Len(owed) \in Nat /\ Len(dirstack) <= Len(owed) + 1
  BY <1>1, LenProperties DEF IInv, TypeOK, ResidueBound, Saving
<1>7. CASE cwd = NULL
  <2>1. TypeOK'
    BY <1>1, <1>2, <1>3, <1>7 DEF TypeOK
  <2>2. ResidueBound' /\ Matched'
    BY <1>1, <1>2, <1>3, <1>6, <1>7 DEF ResidueBound, Saving, Matched
  <2>3. QED
    BY <1>5, <2>1, <2>2 DEF IInv
<1>8. CASE cwd # NULL
  <2>1. /\ pc' = "idle" /\ ret' = cwd /\ call' = NoCall
        /\ owed' = Append(owed, call.from) /\ UNCHANGED status
    BY <1>2, <1>8 DEF Return
  <2>2. call.from \in Dir \cup {NULL}
    BY <1>1 DEF TypeOK
  <2>3. owed' \in Seq(Dir \cup {NULL}) /\ Len(owed') = Len(owed) + 1
    BY <1>1, <2>1, <2>2, AppendProperties DEF TypeOK
  <2>4. TypeOK'
    BY <1>1, <1>2, <1>3, <1>4, <2>1, <2>3, NoCallType DEF TypeOK
  <2>5. ResidueBound'
    BY <1>3, <1>6, <2>1, <2>3 DEF ResidueBound, Saving
  <2>6. Matched'
    BY <1>1, <1>3, <2>1 DEF IInv, Matched, Saving
  <2>7. QED
    BY <1>5, <2>4, <2>5, <2>6 DEF IInv
<1>9. QED
  BY <1>7, <1>8

LEMMA PopCWDStep ==
    ASSUME IInv, PopCWD
    PROVE  IInv'
<1>1. TypeOK /\ pc = "idle" /\ status = "running"
  BY DEF IInv, PopCWD, At
<1>2. /\ ready' \in BOOLEAN /\ status' \in {"running", "aborted"} /\ pc' = "pop"
      /\ UNCHANGED <<present, sysCwd, directory_current, dirstack, call, ret, owed, disturbed>>
  BY AllocAssumption DEF PopCWD, InitStack, fsVars, histVars
<1>3. TypeOK'
  BY <1>1, <1>2 DEF TypeOK
<1>4. CacheCoherent' /\ ResidueBound' /\ Matched'
  BY <1>1, <1>2 DEF IInv, CacheCoherent, ResidueBound, Matched, Saving
<1>5. QED
  BY <1>3, <1>4 DEF IInv

\* What OweOneLess does to the history.
LEMMA OweOneLessProperties ==
    ASSUME TypeOK
    PROVE  /\ OweOneLess \in Seq(Dir \cup {NULL})
           /\ Len(owed) \in Nat /\ Len(OweOneLess) \in Nat
           /\ Len(OweOneLess) >= Len(owed) - 1
           /\ owed = <<>> => Len(owed) = 0
<1>1. owed \in Seq(Dir \cup {NULL})
  BY DEF TypeOK
<1>2. CASE owed = <<>>
  BY <1>1, <1>2, EmptySeq, LenProperties DEF OweOneLess
<1>3. CASE owed # <<>>
  <2>1. /\ Front(owed) \in Seq(Dir \cup {NULL})
        /\ Len(Front(owed)) = Len(owed) - 1 /\ Len(owed) > 0
    BY <1>1, <1>3, FrontProperties
  <2>2. Len(owed) \in Nat /\ Len(Front(owed)) \in Nat
    BY <1>1, <2>1, LenProperties
  <2>3. QED
    BY <1>3, <2>1, <2>2 DEF OweOneLess
<1>4. QED
  BY <1>2, <1>3

LEMMA PopCWD_EmptyStep ==
    ASSUME IInv, PopCWD_Empty
    PROVE  IInv'
<1>1. TypeOK /\ pc = "pop" /\ dirstack = <<>>
  BY DEF IInv, PopCWD_Empty, At
<1>2. /\ pc' = "idle" /\ ret' = FALSE /\ call' = NoCall /\ owed' = OweOneLess
      /\ UNCHANGED <<present, sysCwd, directory_current, dirstack, ready, status, disturbed>>
  BY DEF PopCWD_Empty, Return, fsVars
<1>3. TypeOK'
  BY <1>1, <1>2, OweOneLessProperties, NoCallType DEF TypeOK
<1>4. CacheCoherent'
  BY <1>2 DEF IInv, CacheCoherent
<1>5. ResidueBound'
  <2>1. Len(dirstack) = 0
    BY <1>1
  <2>2. QED
    BY <1>1, <1>2, <2>1, OweOneLessProperties DEF ResidueBound, Saving
<1>6. Matched'
  BY <1>1, <1>2 DEF IInv, Matched, Saving, OweOneLess
<1>7. QED
  BY <1>3, <1>4, <1>5, <1>6 DEF IInv

LEMMA PopCWD_EnterStep ==
    ASSUME IInv, PopCWD_Enter
    PROVE  IInv'
<1>1. TypeOK /\ pc = "pop" /\ dirstack # <<>> /\ status = "running" /\ PopSaved
  BY DEF IInv, PopCWD_Enter, At
<1>2. /\ pc' = "idle" /\ ret' = TRUE /\ call' = NoCall /\ owed' = OweOneLess
      /\ sysCwd' = Last(dirstack) /\ directory_current' = NULL
      /\ UNCHANGED <<present, ready, disturbed>>
  BY DEF PopCWD_Enter, Return, Entered
<1>3. TypeOK'
  BY <1>1, <1>2, OweOneLessProperties, PopSavedProperties, NoCallType DEF TypeOK
<1>4. CacheCoherent'
  BY <1>2 DEF CacheCoherent
<1>5. ResidueBound'
  <2>1. Len(dirstack) <= Len(owed)
    BY <1>1 DEF IInv, ResidueBound, Saving, TypeOK
  <2>2. QED
    BY <1>1, <1>2, <2>1, OweOneLessProperties, PopSavedProperties DEF ResidueBound, Saving
<1>6. Matched'
  BY <1>1, <1>2 DEF IInv, Matched, Saving, OweOneLess, PopSaved
<1>7. QED
  BY <1>3, <1>4, <1>5, <1>6 DEF IInv

LEMMA PopCWD_SkipStep ==
    ASSUME IInv, PopCWD_Skip
    PROVE  IInv'
<1>1. TypeOK /\ pc = "pop" /\ PopSaved
  BY DEF IInv, PopCWD_Skip, At
<1>2. /\ disturbed' = TRUE
      /\ UNCHANGED <<present, sysCwd, directory_current, ready, pc, call, ret, owed>>
  BY DEF PopCWD_Skip, fsVars
<1>3. TypeOK'
  BY <1>1, <1>2, PopSavedProperties DEF TypeOK
<1>4. CacheCoherent' /\ Matched'
  BY <1>2 DEF IInv, CacheCoherent, Matched
<1>5. ResidueBound'
  <2>1. Len(owed) \in Nat /\ Len(dirstack) <= Len(owed)
    BY <1>1, LenProperties DEF IInv, ResidueBound, Saving, TypeOK
  <2>2. QED
    BY <1>1, <1>2, <2>1, PopSavedProperties DEF ResidueBound, Saving
<1>6. QED
  BY <1>3, <1>4, <1>5 DEF IInv

-----------------------------------------------------------------------------
\* The inductive invariant: Init establishes it and every step keeps it.
LEMMA IInvInit == Init => IInv
<1> SUFFICES ASSUME Init PROVE IInv
  OBVIOUS
<1>1. TypeOK
  BY StartAssumption, NoCallType, EmptySeq DEF Init, TypeOK
<1>2. QED
  BY <1>1 DEF Init, IInv, CacheCoherent, ResidueBound, Matched, Saving

LEMMA IInvStep == IInv /\ [Next]_vars => IInv'
<1> SUFFICES ASSUME IInv, [Next]_vars PROVE IInv'
  OBVIOUS
<1>1. CASE Calls
  BY <1>1, GetCWDStep, SetCWDStep, PushCWD_MissingStep, PushCWDStep, PopCWDStep DEF Calls
<1>2. CASE Steps
  BY <1>2, SetCWD_RefreshStep, PushCWD_SaveStep, PushCWD_ChdirStep, PushCWD_RefreshStep,
     PopCWD_EmptyStep, PopCWD_EnterStep, PopCWD_SkipStep DEF Steps
<1>3. CASE Environment
  BY <1>3, DirRemovedStep, DirCreatedStep DEF Environment
<1>4. CASE UNCHANGED vars
  BY <1>4 DEF vars, IInv, TypeOK, CacheCoherent, ResidueBound, Matched, Saving
<1>5. QED
  BY <1>1, <1>2, <1>3, <1>4 DEF Next

\* Once something has failed it has failed.
LEMMA StaysUndisturbed ==
    ASSUME TypeOK, [Next]_vars, ~disturbed'
    PROVE  ~disturbed
<1>1. disturbed \in BOOLEAN
  BY DEF TypeOK
<1>2. CASE Calls
  BY <1>2 DEF Calls, GetCWD, SetCWD, PushCWD_Missing, PushCWD, PopCWD, histVars
<1>3. CASE PushCWD_Save
  BY <1>1, <1>3 DEF PushCWD_Save
<1>4. CASE Steps /\ ~PushCWD_Save
  BY <1>4 DEF Steps, SetCWD_Refresh, PushCWD_Chdir, PushCWD_Refresh,
     PopCWD_Empty, PopCWD_Enter, PopCWD_Skip, histVars
<1>5. CASE Environment
  BY <1>5 DEF Environment, DirRemoved, DirCreated, histVars
<1>6. CASE UNCHANGED vars
  BY <1>6 DEF vars
<1>7. QED
  BY <1>2, <1>3, <1>4, <1>5, <1>6 DEF Next

\* A process that takes a step is running.
LEMMA NextRuns ==
    ASSUME Next
    PROVE  status = "running"
<1>1. Calls => status = "running"
  BY DEF Calls, GetCWD, SetCWD, PushCWD_Missing, PushCWD, PopCWD, At
<1>2. Steps => status = "running"
  BY DEF Steps, SetCWD_Refresh, PushCWD_Save, PushCWD_Chdir, PushCWD_Refresh,
     PopCWD_Empty, PopCWD_Enter, PopCWD_Skip, At
<1>3. Environment => status = "running"
  BY DEF Environment, DirRemoved, DirCreated
<1>4. QED
  BY <1>1, <1>2, <1>3 DEF Next

LEMMA IInvAlways == Spec => []IInv
  BY IInvInit, IInvStep, PTL DEF Spec

\* The cached name never differs from the directory the process is in, for
\* every tree and however other processes interfere with every system call.
THEOREM CacheIsCoherent == Spec => []CacheCoherent
<1>1. IInv => CacheCoherent
  BY DEF IInv
<1>2. QED
  BY <1>1, IInvAlways, PTL

\* Between calls the stack never holds more strings than callers owe pops for:
\* callers that pop what they pushed leave the stack as they found it.
THEOREM NothingLeftBehind == Spec => []NoResidue
<1>1. IInv => NoResidue
  BY LenProperties DEF IInv, TypeOK, ResidueBound, Saving, NoResidue
<1>2. QED
  BY <1>1, IInvAlways, PTL

\* As long as no chdir and no allocation fails, nested push/pop pairs match:
\* the stack is exactly the list of directories callers still owe a return to.
THEOREM PairsMatch == Spec => []Bracketed
<1>1. IInv => Bracketed
  BY DEF IInv, Matched, Saving, Bracketed
<1>2. QED
  BY <1>1, IInvAlways, PTL

-----------------------------------------------------------------------------
(* Where a pop leads when chdirs and allocations do fail.  Skipped entries *)
(* and lost pushes leave gaps, but the saved strings stay a subsequence,   *)
(* in order, of the directories callers are owed.                          *)

Embedding(s, t) ==
    {f \in [1..Len(s) -> 1..Len(t)] : /\ \A i \in 1..Len(s) : s[i] = t[f[i]]
                                      /\ \A i, j \in 1..Len(s) : i < j => f[i] < f[j]}

Embeds(s, t) == Embedding(s, t) # {}

LEMMA EmbedEmpty ==
    ASSUME NEW S, NEW t \in Seq(S)
    PROVE  Embeds(<<>>, t)
<1> DEFINE f == [i \in 1..0 |-> 1]
<1>1. f \in [1..0 -> 1..Len(t)]
  OBVIOUS
<1>2. \A i \in 1..Len(<<>>) : FALSE
  OBVIOUS
<1>3. f \in Embedding(<<>>, t)
  BY <1>1, <1>2 DEF Embedding
<1>4. QED
  BY <1>3 DEF Embeds

\* The elements of the front of a sequence.
LEMMA FrontElements ==
    ASSUME NEW S, NEW s \in Seq(S), s # <<>>
    PROVE  /\ Len(s) \in Nat \ {0} /\ Len(Front(s)) = Len(s) - 1
           /\ \A i \in 1..(Len(s) - 1) : Front(s)[i] = s[i] /\ i \in 1..Len(s)
           /\ Last(s) = s[Len(s)] /\ Len(s) \in 1..Len(s)
<1>1. Len(s) \in Nat /\ Len(s) > 0 /\ Len(Front(s)) = Len(s) - 1
  BY FrontProperties, LenProperties
<1>2. \A i \in 1..(Len(s) - 1) : Front(s)[i] = s[i]
  BY <1>1 DEF Front
<1>3. QED
  BY <1>1, <1>2 DEF Last

\* What the front and the last element of an appended sequence are.
LEMMA FrontOfAppend ==
    ASSUME NEW S, NEW s \in Seq(S), NEW e
    PROVE  /\ Append(s, e) # <<>>
           /\ Front(Append(s, e)) = s
           /\ Last(Append(s, e)) = e
<1> DEFINE T == S \cup {e}
           a == Append(s, e)
<1>1. s \in Seq(T)
  OBVIOUS
<1>2. /\ a \in Seq(T) /\ a # <<>> /\ Len(a) = Len(s) + 1
      /\ \A i \in 1..Len(s) : a[i] = s[i]
      /\ a[Len(s) + 1] = e
  BY <1>1, AppendProperties
<1>3. /\ Len(a) - 1 = Len(s) /\ Len(s) \in Nat
      /\ Front(a) \in Seq(T) /\ Len(Front(a)) = Len(s)
      /\ \A i \in 1..Len(s) : Front(a)[i] = a[i]
  <2>1. Len(s) \in Nat
    BY LenProperties
  <2> HIDE DEF a
  <2>2. Front(a) \in Seq(T)
    BY <1>2, FrontProperties
  <2>3. Len(Front(a)) = Len(a) - 1 /\ \A i \in 1..(Len(a) - 1) : Front(a)[i] = a[i]
    BY <1>2, FrontElements
  <2>4. Len(a) - 1 = Len(s)
    BY <1>2, <2>1
  <2>5. QED
    BY <2>1, <2>2, <2>3, <2>4
<1> HIDE DEF a
<1>4. Front(a) = s
  BY <1>1, <1>2, <1>3, SeqEqual
<1>5. Last(a) = e
  BY <1>2, <1>3 DEF Last
<1>6. QED
  BY <1>2, <1>4, <1>5 DEF a

LEMMA EmbedFront ==
    ASSUME NEW S, NEW T, NEW s \in Seq(S), NEW t \in Seq(T), s # <<>>, Embeds(s, t)
    PROVE  Embeds(Front(s), t)
<1>1. PICK f \in Embedding(s, t) : TRUE
  BY DEF Embeds
<1> DEFINE n == Len(s) - 1
           g == [i \in 1..n |-> f[i]]
<1>2. /\ n \in Nat /\ Len(Front(s)) = n
      /\ \A i \in 1..n : Front(s)[i] = s[i] /\ i \in 1..Len(s)
  BY FrontElements
<1>3. g \in Embedding(Front(s), t)
  BY <1>1, <1>2 DEF Embedding
<1>4. QED
  BY <1>3 DEF Embeds

LEMMA EmbedFronts ==
    ASSUME NEW S, NEW T, NEW s \in Seq(S), NEW t \in Seq(T), s # <<>>, Embeds(s, t)
    PROVE  /\ t # <<>> /\ Embeds(Front(s), Front(t))
           /\ \E i \in 1..Len(t) : Last(s) = t[i]
<1>1. PICK f \in Embedding(s, t) : TRUE
  BY DEF Embeds
<1> DEFINE n == Len(s) - 1
           m == Len(t) - 1
           g == [i \in 1..n |-> f[i]]
<1>2. /\ n \in Nat /\ Len(Front(s)) = n /\ Len(s) \in Nat
      /\ \A i \in 1..n : Front(s)[i] = s[i] /\ i \in 1..Len(s)
      /\ Last(s) = s[Len(s)] /\ Len(s) \in 1..Len(s)
  BY FrontElements
<1>3. f[Len(s)] \in 1..Len(t) /\ s[Len(s)] = t[f[Len(s)]]
  BY <1>1, <1>2 DEF Embedding
<1>4. t # <<>>
  BY <1>3, EmptySeq
<1>5. m \in Nat /\ Len(Front(t)) = m /\ \A i \in 1..m : Front(t)[i] = t[i]
  BY <1>4, FrontElements
<1>6. \A i \in 1..n : f[i] \in 1..m
  <2> SUFFICES ASSUME NEW i \in 1..n PROVE f[i] \in 1..m
    OBVIOUS
  <2>1. i < Len(s)
    BY <1>2
  <2>2. f[i] \in 1..Len(t) /\ f[i] < f[Len(s)]
    BY <1>1, <1>2, <2>1 DEF Embedding
  <2>3. QED
    BY <1>3, <1>5, <2>2
<1>7. g \in Embedding(Front(s), Front(t))
  <2>1. g \in [1..Len(Front(s)) -> 1..Len(Front(t))]
    BY <1>2, <1>5, <1>6
  <2>2. \A i \in 1..n : s[i] = t[f[i]]
    BY <1>1, <1>2 DEF Embedding
  <2>3. \A i \in 1..n : Front(s)[i] = Front(t)[g[i]]
    BY <1>2, <1>5, <1>6, <2>2
  <2>4. \A i, j \in 1..n : i < j => g[i] < g[j]
    BY <1>1, <1>2 DEF Embedding
  <2>5. QED
    BY <1>2, <2>1, <2>3, <2>4 DEF Embedding
<1>8. QED
  BY <1>2, <1>3, <1>4, <1>7 DEF Embeds

LEMMA EmbedAppends ==
    ASSUME NEW S, NEW T, NEW s \in Seq(S), NEW t \in Seq(T), NEW e \in S \cap T, Embeds(s, t)
    PROVE  Embeds(Append(s, e), Append(t, e))
<1>1. PICK f \in Embedding(s, t) : TRUE
  BY DEF Embeds
<1> DEFINE n == Len(s)
           m == Len(t)
           g == [i \in 1..(n + 1) |-> IF i = n + 1 THEN m + 1 ELSE f[i]]
<1>2. n \in Nat /\ m \in Nat
  BY LenProperties
<1>3. /\ Len(Append(s, e)) = n + 1
      /\ \A i \in 1..n : Append(s, e)[i] = s[i]
      /\ Append(s, e)[n + 1] = e
  BY AppendProperties
<1>4. /\ Len(Append(t, e)) = m + 1
      /\ \A i \in 1..m : Append(t, e)[i] = t[i]
      /\ Append(t, e)[m + 1] = e
  BY AppendProperties
<1>5. /\ \A i \in 1..n : f[i] \in 1..m /\ s[i] = t[f[i]]
      /\ \A i, j \in 1..n : i < j => f[i] < f[j]
  BY <1>1 DEF Embedding
<1>6. \A i \in 1..(n + 1) : i # n + 1 => i \in 1..n
  BY <1>2
<1> HIDE DEF n, m
<1>7. g \in [1..(n + 1) -> 1..(m + 1)]
  BY <1>2, <1>5, <1>6
<1>8. \A i \in 1..(n + 1) : Append(s, e)[i] = Append(t, e)[g[i]]
  BY <1>3, <1>4, <1>5, <1>6
<1>9. \A i, j \in 1..(n + 1) : i < j => g[i] < g[j]
  BY <1>2, <1>5, <1>6
<1>10. g \in Embedding(Append(s, e), Append(t, e))
  BY <1>3, <1>4, <1>7, <1>8, <1>9 DEF Embedding
<1>11. QED
  BY <1>10 DEF Embeds

\* What callers will be owed once the running PushCWD returns.
Due == IF Saving THEN Append(owed, call.from) ELSE owed

\* Until it is saved, the name of a pusher's directory can only be lost.
Aligned == pc = "push" => /\ directory_current # NULL => directory_current = call.from
                          /\ sysCwd # NULL => sysCwd = call.from

OwedInv == Aligned /\ Embeds(dirstack, Due)

LEMMA DueType ==
    ASSUME TypeOK
    PROVE  /\ owed \in Seq(Dir \cup {NULL}) /\ Due \in Seq(Dir \cup {NULL})
           /\ call.from \in Dir \cup {NULL} /\ dirstack \in Seq(Dir)
  BY AppendProperties DEF TypeOK, Due, Saving

\* One step of a call keeps the saved strings among those due.
LEMMA OwedStep ==
    ASSUME IInv, OwedInv, [Next]_vars
    PROVE  OwedInv'
<1>1. TypeOK /\ CacheCoherent
  BY DEF IInv
<1> USE DEF OwedInv
<1>2. ASSUME UNCHANGED <<dirstack, owed>>, ~Saving, ~Saving', Aligned' PROVE OwedInv'
  BY <1>2 DEF Due
<1>3. ASSUME NEW path \in Argument, SetCWD(path) PROVE OwedInv'
  <2>1. CASE status' = "aborted"
    BY <2>1, <1>2, <1>3 DEF SetCWD, At, Saving, Aligned, histVars
  <2>2. CASE status' # "aborted"
    <3>1. /\ dirstack' = <<>> /\ owed' = <<>> /\ pc' \in {"idle", "set_refresh"}
      BY <1>3, <2>2 DEF SetCWD, ClearDirectoryStack, At, Return
    <3>2. Due' = <<>>
      BY <3>1 DEF Due, Saving
    <3>3. QED
      BY <3>1, <3>2, EmbedEmpty, EmptySeq DEF Aligned
  <2>3. QED
    BY <2>1, <2>2
<1>4. ASSUME NEW path \in Argument, PushCWD(path) PROVE OwedInv'
  <2>1. call'.from = IF sysCwd # NULL THEN sysCwd ELSE directory_current
    BY <1>4 DEF PushCWD, NoCall
  <2>2. Aligned'
    BY <1>1, <1>4, <2>1 DEF PushCWD, fsVars, Aligned, CacheCoherent
  <2>3. QED
    BY <1>2, <1>4, <2>2 DEF PushCWD, At, Saving, histVars
<1>5. CASE Calls
  <2>1. CASE GetCWD
    BY <1>2, <2>1 DEF GetCWD, At, Saving, Aligned, histVars
  <2>2. ASSUME NEW path \in Argument, PushCWD_Missing(path) PROVE OwedInv'
    BY <1>2, <2>2 DEF PushCWD_Missing, At, Return, Saving, Aligned, histVars
  <2>3. CASE PopCWD
    BY <1>2, <2>3 DEF PopCWD, At, Saving, Aligned, histVars
  <2>4. QED
    BY <1>3, <1>4, <1>5, <2>1, <2>2, <2>3 DEF Calls
<1>6. CASE SetCWD_Refresh
  <2>1. pc' = "idle"
    BY <1>6 DEF SetCWD_Refresh, Return
  <2>2. QED
    BY <1>2, <1>6, <2>1 DEF SetCWD_Refresh, At, Saving, Aligned, histVars
<1>7. CASE PushCWD_Save
  <2>1. PICK cwd \in CachedOrSystem :
          \/ UNCHANGED <<dirstack, pc, call>> /\ directory_current' = cwd
          \/ /\ cwd # NULL /\ dirstack' = Append(dirstack, cwd)
             /\ pc' = "chdir" /\ UNCHANGED call
          \/ UNCHANGED dirstack /\ pc' = "idle"
    BY <1>7 DEF PushCWD_Save, Return
  <2>2. pc = "push" /\ UNCHANGED <<sysCwd, owed>>
    BY <1>7 DEF PushCWD_Save, At, fsVars
  <2>3. cwd # NULL => cwd = call.from
    BY <1>1, <2>2, CachedOrSystemType DEF Aligned
  <2>4. CASE UNCHANGED <<dirstack, pc, call>> /\ directory_current' = cwd
    BY <1>2, <2>2, <2>3, <2>4 DEF Saving, Aligned
  <2>5. CASE /\ cwd # NULL /\ dirstack' = Append(dirstack, cwd)
             /\ pc' = "chdir" /\ UNCHANGED call
    <3>1. Due = owed /\ Due' = Append(owed, call.from)
      BY <2>2, <2>5 DEF Due, Saving
    <3>2. cwd \in Dir
      BY <1>1, <2>5, CachedOrSystemType
    <3>3. Embeds(Append(dirstack, cwd), Append(owed, cwd))
      BY <1>1, <3>1, <3>2, DueType, EmbedAppends
    <3>4. QED
      BY <2>3, <2>5, <3>1, <3>3 DEF Aligned
  <2>6. CASE UNCHANGED dirstack /\ pc' = "idle"
    BY <1>2, <2>2, <2>6 DEF Saving, Aligned
  <2>7. QED
    BY <2>1, <2>4, <2>5, <2>6
<1>8. CASE PushCWD_Chdir
  <2>1. Due = Append(owed, call.from)
    BY <1>8 DEF Due, Saving, PushCWD_Chdir, At
  <2>2. CASE CanEnter(call.path)
    BY <1>8, <2>1, <2>2 DEF PushCWD_Chdir, Due, Saving, Aligned
  <2>3. CASE ~CanEnter(call.path)
    <3>1. dirstack' = Front(dirstack) /\ pc' = "idle" /\ owed' = Due
      BY <1>8, <2>1, <2>3 DEF PushCWD_Chdir, PopSaved, Return
    <3>2. Due' = Due
      BY <3>1 DEF Due, Saving
    <3>3. CASE dirstack = <<>>
      <4>1. Front(dirstack) = <<>>
        <5>1. /\ Front(dirstack) \in Seq(Dir)
              /\ Len(Front(dirstack)) <= Len(dirstack)
          BY <1>1, FrontProperties DEF TypeOK
        <5>2. Len(Front(dirstack)) \in Nat /\ Len(dirstack) = 0
          BY <3>3, <5>1, LenProperties
        <5>3. QED
          BY <5>1, <5>2, EmptySeq
      <4>2. QED
        BY <3>1, <3>2, <3>3, <4>1 DEF Aligned
    <3>4. CASE dirstack # <<>>
      BY <1>1, <3>1, <3>2, <3>4, DueType, EmbedFront DEF Aligned
    <3>5. QED
      BY <3>3, <3>4
  <2>4. QED
    BY <2>2, <2>3
<1>9. CASE PushCWD_Refresh
  <2>1. Due' = Due /\ UNCHANGED dirstack /\ pc' # "push"
    BY <1>9 DEF PushCWD_Refresh, At, Return, Due, Saving
  <2>2. QED
    BY <2>1 DEF Aligned
<1>10. CASE PopCWD_Empty
  <2>1. dirstack' = <<>> /\ pc' = "idle" /\ owed' = OweOneLess
    BY <1>10 DEF PopCWD_Empty, Return
  <2>2. Due' \in Seq(Dir \cup {NULL})
    BY <1>1, <2>1, OweOneLessProperties DEF Due, Saving
  <2>3. QED
    BY <2>1, <2>2, EmbedEmpty DEF Aligned
<1>11. CASE PopCWD_Enter
  <2>1. /\ dirstack # <<>> /\ dirstack' = Front(dirstack)
        /\ pc = "pop" /\ pc' = "idle" /\ owed' = OweOneLess
    BY <1>11 DEF PopCWD_Enter, PopSaved, Return, At
  <2>2. Due = owed /\ Due' = OweOneLess
    BY <2>1 DEF Due, Saving
  <2>3. QED
    BY <1>1, <2>1, <2>2, DueType, EmbedFronts DEF OweOneLess, Aligned
<1>12. CASE PopCWD_Skip
  <2>1. /\ dirstack # <<>> /\ dirstack' = Front(dirstack)
        /\ pc = "pop" /\ UNCHANGED <<pc, owed>>
    BY <1>12 DEF PopCWD_Skip, PopSaved, At
  <2>2. Due = owed /\ Due' = owed
    BY <2>1 DEF Due, Saving
  <2>3. QED
    BY <1>1, <2>1, <2>2, DueType, EmbedFront DEF Aligned
<1>13. CASE Environment
  <2>1. UNCHANGED <<directory_current, dirstack, pc, call, owed>> /\ sysCwd' \in {sysCwd, NULL}
    BY <1>13 DEF Environment, DirRemoved, DirCreated, histVars
  <2>2. QED
    BY <2>1 DEF Due, Saving, Aligned
<1>14. CASE UNCHANGED vars
  BY <1>14 DEF vars, Due, Saving, Aligned
<1>15. QED
  BY <1>5, <1>6, <1>7, <1>8, <1>9, <1>10, <1>11, <1>12, <1>13, <1>14 DEF Next, Steps

\* PopReturnsToOwed: whatever has failed or vanished, and however many strings
\* were skipped or never saved, a PopCWD that returns true enters a directory
\* from which a push that is still owed its pop was made.
THEOREM PopsReturnToOwed == Spec => PopReturnsToOwed
<1>1. Init => OwedInv
  <2> SUFFICES ASSUME Init PROVE OwedInv
    OBVIOUS
  <2>1. Due = <<>> /\ dirstack = <<>>
    BY DEF Init, Due, Saving
  <2>2. QED
    BY <2>1, EmbedEmpty, EmptySeq DEF Init, OwedInv, Aligned
<1>2. IInv /\ OwedInv /\ [Next]_vars =>
        [pc = "pop" /\ pc' = "idle" /\ ret' = TRUE =>
            \E i \in 1..Len(owed) : sysCwd' = owed[i]]_vars
  <2> SUFFICES ASSUME IInv, OwedInv, [Next]_vars, pc = "pop", pc' = "idle", ret' = TRUE
               PROVE  \E i \in 1..Len(owed) : sysCwd' = owed[i]
    OBVIOUS
  <2>1. PopCWD_Enter
    <3>1. ~Calls
      BY DEF Calls, GetCWD, SetCWD, PushCWD_Missing, PushCWD, PopCWD, At
    <3>2. ~Environment
      BY DEF Environment, DirRemoved, DirCreated
    <3>3. pc' # pc
      OBVIOUS
    <3>4. Steps
      BY <3>1, <3>2, <3>3 DEF Next, vars
    <3>5. ~PopCWD_Empty
      BY DEF PopCWD_Empty, Return
    <3>6. QED
      BY <3>4, <3>5 DEF Steps, SetCWD_Refresh, PushCWD_Save, PushCWD_Chdir, PushCWD_Refresh,
         PopCWD_Skip, At
  <2>2. dirstack # <<>> /\ sysCwd' = Last(dirstack) /\ Embeds(dirstack, owed)
    BY <2>1 DEF PopCWD_Enter, Entered, OwedInv, Due, Saving
  <2>3. QED
    BY <2>2, DueType, EmbedFronts DEF IInv
<1>3. QED
  BY <1>1, <1>2, OwedStep, IInvAlways, PTL DEF Spec, PopReturnsToOwed
=============================================================================
