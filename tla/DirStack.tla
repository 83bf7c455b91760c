------------------------------ MODULE DirStack ------------------------------
(***************************************************************************)
(* The working-directory stack of src/src/filesystem.c: srsDir_GetCWD,     *)
(* SetCWD, PushCWD and PopCWD over the statics directory_current (a cache  *)
(* of getcwd) and dirstack (strings saved by PushCWD).  Other processes    *)
(* remove and create directories between the system calls of an operation. *)
(* dirstack is the list Stack promises; its strings are directory names.   *)
(***************************************************************************)
EXTENDS Integers, SequencesExt

CONSTANTS
    Dir,           \* directories, each named by its absolute path
    Name,          \* names of children: the relative paths callers push
    Child,         \* Child[d][n]: the directory named n in d, or NULL
    NULL,
    Start,         \* the working directory of the process at the beginning
    Removable,     \* directories other processes remove and create
    Unreadable,    \* directories srsPath_Exists denies (access R_OK fails)
    Unsearchable,  \* directories that exist for it but cannot be entered
    AllocOutcome,  \* whether an allocation succeeds: {TRUE} or BOOLEAN
    MaxDepth       \* bound: callers nest fewer than this many PushCWDs

ASSUME NullAssumption  == NULL \notin Dir /\ NULL \notin Name /\ Dir \cap Name = {}
ASSUME ChildAssumption == Child \in [Dir -> [Name -> Dir \cup {NULL}]]
ASSUME StartAssumption == Start \in Dir
ASSUME AllocAssumption == AllocOutcome \subseteq BOOLEAN
ASSUME DepthAssumption == MaxDepth \in Nat

VARIABLES
    present,            \* the directories that exist
    sysCwd,             \* working directory of the process, NULL once removed
    directory_current,  \* the cached name of it
    dirstack,           \* saved names, oldest first
    ready,              \* dirstack.memory # NULL
    pc,                 \* where the running operation is, "idle" if none is
    call,               \* its argument and locals
    ret,                \* what the last finished operation returned
    status,             \* "running", "aborted" (srsASSERT), "crashed"
    owed,               \* history: directories whose PopCWD is still due
    disturbed           \* history: some chdir or stack push has failed

fsVars   == <<present, sysCwd>>
histVars == <<owed, disturbed>>
vars == <<present, sysCwd, directory_current, dirstack, ready, pc, call, ret,
          status, owed, disturbed>>

NoCall == [path |-> NULL, from |-> NULL]

Init == /\ present = Dir
        /\ sysCwd = Start
        /\ directory_current = NULL
        /\ dirstack = <<>>
        /\ ready = FALSE
        /\ pc = "idle"
        /\ call = NoCall
        /\ ret = NULL
        /\ status = "running"
        /\ owed = <<>>
        /\ disturbed = FALSE

-----------------------------------------------------------------------------
(* The system calls.                                                       *)

\* The directory a path names now; a removed working directory has no
\* children.
Resolve(path) ==
    IF path \in Dir THEN path
    ELSE IF path \in Name /\ sysCwd # NULL THEN Child[sysCwd][path]
    ELSE NULL

Dir_Exists(path) == Resolve(path) \in present \ Unreadable

\* chdir succeeds.
CanEnter(path) == Resolve(path) \in present \ Unsearchable

\* What srsDir_GetCWD returns and leaves in its cache: the cache if there is
\* one, else getcwd into a new buffer, which fails in a removed directory.
CachedOrSystem == IF directory_current # NULL THEN {directory_current}
                  ELSE {IF ok THEN sysCwd ELSE NULL : ok \in AllocOutcome}

At(p) == status = "running" /\ pc = p

\* After a successful chdir the cache is dropped; GetCWD fills it again.
Entered_StaleCache(dir) == sysCwd' = dir /\ UNCHANGED directory_current
Entered(dir) == sysCwd' = dir /\ directory_current' = NULL

\* srsMemStack_Pop(&dirstack, NULL): a pop whose shrink fails has no output to
\* zero and crashes (MemStack).
PopSaved_Kept == UNCHANGED <<dirstack, status>>
PopSaved == /\ dirstack' = Front(dirstack)
            /\ \E ok \in AllocOutcome : status' = IF ok THEN "running" ELSE "crashed"

Return(value) == pc' = "idle" /\ ret' = value /\ call' = NoCall

\* The caller owes no more pops than it has calls to undo.
OweOneLess == IF owed = <<>> THEN owed ELSE Front(owed)

\* The stack is initialised by the first operation that finds it without memory.
InitStack == \E ok \in (IF ready THEN {TRUE} ELSE AllocOutcome) :
                /\ ready' = ok
                /\ status' = IF ok THEN "running" ELSE "aborted"

\* Every saved string is popped and freed; callers are owed nothing any more.
ClearDirectoryStack == dirstack' = <<>> /\ owed' = <<>>

-----------------------------------------------------------------------------
(* Other processes                                                         *)

DirRemoved(d) ==
    /\ status = "running"
    /\ d \in present \cap Removable
    /\ \A n \in Name : Child[d][n] \notin present
    /\ present' = present \ {d}
    /\ sysCwd' = IF sysCwd = d THEN NULL ELSE sysCwd
    /\ UNCHANGED <<directory_current, dirstack, ready, pc, call, ret, status, histVars>>

DirCreated(d) ==
    /\ status = "running"
    /\ d \in Removable \ present
    /\ \E p \in present, n \in Name : Child[p][n] = d
    /\ present' = present \cup {d}
    /\ UNCHANGED <<sysCwd, directory_current, dirstack, ready, pc, call, ret, status, histVars>>

-----------------------------------------------------------------------------
(* srsDir_GetCWD                                                           *)

GetCWD ==
    /\ At("idle")
    /\ \E cwd \in CachedOrSystem : directory_current' = cwd /\ ret' = cwd
    /\ UNCHANGED <<fsVars, dirstack, ready, pc, call, status, histVars>>

-----------------------------------------------------------------------------
(* srsDir_SetCWD: the stack and the cache are gone before chdir is tried.  *)

SetCWD(path) ==
    /\ At("idle")
    /\ InitStack
    /\ IF status' = "aborted"
       THEN UNCHANGED <<sysCwd, directory_current, dirstack, pc, call, ret, histVars>>
       ELSE /\ ClearDirectoryStack
            /\ IF CanEnter(path)
               THEN /\ Entered(Resolve(path))
                    /\ pc' = "set_refresh"
                    /\ UNCHANGED <<call, ret, disturbed>>
               ELSE /\ Return(NULL)
                    /\ directory_current' = NULL
                    /\ disturbed' = TRUE
                    /\ UNCHANGED sysCwd
    /\ UNCHANGED present

SetCWD_Refresh ==
    /\ At("set_refresh")
    /\ \E cwd \in CachedOrSystem : directory_current' = cwd /\ Return(cwd)
    /\ UNCHANGED <<fsVars, dirstack, ready, status, histVars>>

-----------------------------------------------------------------------------
(* srsDir_PushCWD, one step per system call                                *)

PushCWD_Missing(path) ==
    /\ At("idle")
    /\ ~Dir_Exists(path)
    /\ Return(NULL)
    /\ UNCHANGED <<fsVars, directory_current, dirstack, ready, status, histVars>>

PushCWD(path) ==
    /\ At("idle")
    /\ Len(owed) < MaxDepth
    /\ Dir_Exists(path)
    /\ pc' = "push"
    /\ call' = [NoCall EXCEPT !.path = path,
                  !.from = IF sysCwd # NULL THEN sysCwd ELSE directory_current]
    /\ UNCHANGED <<fsVars, directory_current, dirstack, ready, ret, status, histVars>>

\* Initialise the stack, get the name of the working directory, save a copy.
PushCWD_Save ==
    /\ At("push")
    /\ \E initOk \in (IF ready THEN {TRUE} ELSE AllocOutcome), dupOk \in AllocOutcome,
          pushOk \in AllocOutcome, cwd \in CachedOrSystem :
         /\ ready' = initOk
         /\ directory_current' = cwd
         /\ IF ~initOk \/ cwd = NULL \/ ~dupOk
            THEN /\ status' = "aborted"
                 /\ UNCHANGED <<dirstack, pc, call, ret, disturbed>>
            ELSE /\ dirstack' = IF pushOk THEN Append(dirstack, cwd) ELSE dirstack
                 /\ IF pushOk
                    THEN pc' = "chdir" /\ ret' = cwd /\ UNCHANGED call
                    ELSE Return(NULL)
                 /\ disturbed' = (disturbed \/ ~pushOk)
                 /\ UNCHANGED status
    /\ UNCHANGED <<fsVars, owed>>

\* A failed chdir pops the saved string (without freeing it) and returns the
\* old working directory.
PushCWD_Chdir ==
    /\ At("chdir")
    /\ IF CanEnter(call.path)
       THEN /\ Entered(Resolve(call.path))
            /\ pc' = "refresh"
            /\ UNCHANGED <<dirstack, call, ret, status, owed, disturbed>>
       ELSE /\ PopSaved
            /\ Return(ret)
            /\ owed' = Append(owed, call.from)
            /\ disturbed' = TRUE
            /\ UNCHANGED <<sysCwd, directory_current>>
    /\ UNCHANGED <<present, ready>>

PushCWD_Refresh ==
    /\ At("refresh")
    /\ \E cwd \in CachedOrSystem :
         /\ directory_current' = cwd
         /\ IF cwd = NULL
            THEN status' = "aborted" /\ UNCHANGED <<pc, call, ret, owed>>
            ELSE Return(cwd) /\ owed' = Append(owed, call.from) /\ UNCHANGED status
    /\ UNCHANGED <<fsVars, dirstack, ready, disturbed>>

-----------------------------------------------------------------------------
(* srsDir_PopCWD: one step per turn of its loop                            *)

PopCWD ==
    /\ At("idle")
    /\ InitStack
    /\ pc' = "pop"
    /\ UNCHANGED <<fsVars, directory_current, dirstack, call, ret, histVars>>

PopCWD_Empty ==
    /\ At("pop")
    /\ dirstack = <<>>
    /\ Return(FALSE)
    /\ owed' = OweOneLess
    /\ UNCHANGED <<fsVars, directory_current, dirstack, ready, status, disturbed>>

\* The saved string goes to the caller, who may pass NULL: then it is lost.
PopCWD_Enter ==
    /\ At("pop")
    /\ dirstack # <<>>
    /\ CanEnter(Last(dirstack))
    /\ Entered(Last(dirstack))
    /\ PopSaved
    /\ Return(TRUE)
    /\ owed' = OweOneLess
    /\ UNCHANGED <<present, ready, disturbed>>

PopCWD_Skip ==
    /\ At("pop")
    /\ dirstack # <<>>
    /\ ~CanEnter(Last(dirstack))
    /\ PopSaved
    /\ disturbed' = TRUE
    /\ UNCHANGED <<fsVars, directory_current, ready, pc, call, ret, owed>>

-----------------------------------------------------------------------------
Argument == Dir \cup Name \cup {NULL}

Calls == \/ GetCWD
         \/ \E path \in Argument : SetCWD(path) \/ PushCWD_Missing(path) \/ PushCWD(path)
         \/ PopCWD

\* The rest of an operation that has begun.
Steps == \/ SetCWD_Refresh
         \/ PushCWD_Save \/ PushCWD_Chdir \/ PushCWD_Refresh
         \/ PopCWD_Empty \/ PopCWD_Enter \/ PopCWD_Skip

Environment == \E d \in Dir : DirRemoved(d) \/ DirCreated(d)

Next == Calls \/ Steps \/ Environment

\* The library is one thread that runs to the end of a call: what it has
\* begun it continues.  Callers and other processes owe nothing.
Spec == Init /\ [][Next]_vars /\ WF_vars(Steps)

-----------------------------------------------------------------------------
(* Properties                                                              *)

TypeOK == /\ present \subseteq Dir
          /\ sysCwd \in Dir \cup {NULL}
          /\ directory_current \in Dir \cup {NULL}
          /\ dirstack \in Seq(Dir)
          /\ ready \in BOOLEAN
          /\ pc \in {"idle", "set_refresh", "push", "chdir", "refresh", "pop"}
          /\ call \in [path : Argument, from : Dir \cup {NULL}]
          /\ ret \in Dir \cup {NULL} \cup BOOLEAN
          /\ status \in {"running", "aborted", "crashed"}
          /\ owed \in Seq(Dir \cup {NULL})
          /\ disturbed \in BOOLEAN

\* The cache never names another directory than the one the process is in:
\* every chdir of the module is followed by dropping it.
CacheCoherent == directory_current # NULL /\ sysCwd # NULL => directory_current = sysCwd

\* A caller that pops once for each PushCWD that returned a directory leaves
\* nothing of its own on the stack, whatever fails or vanishes meanwhile.
NoResidue == pc = "idle" => Len(dirstack) <= Len(owed)

\* While every chdir succeeds, the stack is exactly what callers still owe:
\* nested push/pop pairs bring each caller back where it was.
Bracketed == pc = "idle" /\ ~disturbed /\ status = "running" => dirstack = owed

\* A PopCWD that returns true has brought the caller to the directory of its
\* own push, or to an older one: never to a directory nobody pushed from.
PopReturnsToOwed ==
    [][pc = "pop" /\ pc' = "idle" /\ ret' = TRUE =>
         \E i \in 1..Len(owed) : sysCwd' = owed[i]]_vars

\* Every operation returns: PopCWD's loop ends however directories come and go.
OperationsReturn == pc # "idle" ~> (pc = "idle" \/ status # "running")

(* What the header says and the code does not do.                          *)

\* "NULL is returned if the path is invalid": a push that could not change
\* directory reports it.
PushReportsFailure == [][pc = "chdir" /\ pc' = "idle" => ret' = NULL]_vars
=============================================================================
