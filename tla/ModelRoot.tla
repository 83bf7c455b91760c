------------------------------ MODULE ModelRoot ------------------------------
(***************************************************************************)
(* The model root (src/src/model.c): srsModel_SetRoot, IsValidRoot,        *)
(* CreateRoot, CreateAndSetRoot and ExistsInRoot keep srsModel_ROOT_PATH   *)
(* next to the open repository of GitRepo, and change directory through    *)
(* DirStack, while directories come and go between their system calls.     *)
(* No directory's name is the beginning of a sibling's.                    *)
(***************************************************************************)
EXTENDS GitRepo

CONSTANTS
    Meta,       \* srsMODEL_META_FILENAME in the root, ".meta"
    DecksMeta,  \* the same in srsMODEL_DECKS_DIRNAME, "decks/.meta"
    MaxCalls,   \* bound: calls of the model and of git by the caller
    MaxChanges, \* bound: directories removed and created by other processes
    MaxEvents   \* bound: calls and changes together

ASSUME MetaAssumption      == {Meta, DecksMeta} \subseteq GitFile
ASSUME MaxCallsAssumption  == MaxCalls \in Nat
ASSUME ChangesAssumption   == MaxChanges \in Nat /\ MaxEvents \in Nat

VARIABLES
    srsModel_ROOT_PATH,
    mpc,      \* where the running call is, "idle" if none is
    task,     \* the call, its argument, and where ExistsInRoot searches from
    okay,     \* the local result of it
    mret,     \* what it returned
    error,    \* the last error set, "none" at the beginning of a call
    calls,    \* history: calls so far
    origin,   \* history: what the process was like when the call began
    meddled,  \* history: the caller has used git or CreateRoot since SetRoot
    changes   \* history: changes by other processes so far

modelVars == <<srsModel_ROOT_PATH, mpc, task, okay, mret, error, calls, origin, meddled, changes>>
all == <<vars, gitVars, modelVars>>
history == <<calls, origin, meddled, changes>>

NoTask == [kind |-> "none", path |-> NULL, search |-> NULL]
State  == [at |-> sysCwd, cwd |-> IF sysCwd # NULL THEN sysCwd ELSE directory_current,
           stack |-> dirstack,
           root |-> srsModel_ROOT_PATH, repo |-> srsGit_REPO, changes |-> changes]

ModelInit == /\ GitInit
             /\ srsModel_ROOT_PATH = NULL
             /\ mpc = "idle"
             /\ task = NoTask
             /\ okay = FALSE
             /\ mret = "none"
             /\ error = "none"
             /\ calls = 0
             /\ changes = 0
             /\ origin = State
             /\ meddled = FALSE

\* A call of the model goes on: no operation of DirStack is running.
In(p) == mpc = p /\ At("idle")

\* The operations of DirStack, and what they leave alone.
Enters(path) == (PushCWD_Missing(path) \/ PushCWD(path)) /\ UNCHANGED gitVars
Leaves_Not   == UNCHANGED <<vars, gitVars>>
Leaves       == PopCWD /\ UNCHANGED gitVars
Still        == UNCHANGED <<vars, gitVars>>

Goto(p)    == mpc' = p /\ UNCHANGED <<task, mret>>
Answers(r) == mpc' = "idle" /\ mret' = r /\ UNCHANGED task

\* srsFile_Exists of a file in the working directory.
Here(file) == sysCwd \in present /\ file \in disk[sysCwd].files

Begins(kind, path) ==
    /\ In("idle")
    /\ calls < MaxCalls /\ calls + changes < MaxEvents
    /\ calls' = calls + 1
    /\ task' = [kind |-> kind, path |-> path, search |-> path]
    /\ origin' = State
    /\ UNCHANGED changes
    /\ okay' = FALSE

-----------------------------------------------------------------------------
(* srsModel_SetRoot                                                        *)

SetRoot_None ==
    /\ Begins("set", NULL)
    /\ Repo_Close
    /\ srsModel_ROOT_PATH' = NULL
    /\ mret' = "OK"
    /\ meddled' = FALSE
    /\ error' = "none"
    /\ UNCHANGED <<mpc, sysCwd, directory_current, dirstack>>

\* The path of the call must be a directory and a repository.
Set_Directory(path) ==
    IF Dir_Exists(path) THEN mpc' = "set_repo" /\ UNCHANGED mret
    ELSE mpc' = "idle" /\ mret' = "FAIL"

SetRoot(path) ==
    /\ Begins("set", path)
    /\ Set_Directory(path)
    /\ error' = "none"
    /\ Still /\ UNCHANGED <<srsModel_ROOT_PATH, meddled>>

Set_Repo ==
    /\ In("set_repo")
    /\ IsRepo(task.path)
    /\ IF gret' = TRUE \/ status' # "running" THEN Goto("set_enter") ELSE Answers("FAIL")
    /\ UNCHANGED <<srsModel_ROOT_PATH, okay, error, history>>

Set_Enter ==
    /\ In("set_enter")
    /\ Enters(task.path)
    /\ Goto("set_check")
    /\ UNCHANGED <<srsModel_ROOT_PATH, okay, error, history>>

\* If the path could not be entered its files are not looked for.
Set_Check ==
    /\ In("set_check")
    /\ IF ret = NULL
       THEN Goto("set_open") /\ Still /\ UNCHANGED okay
       ELSE okay' = Here(DecksMeta) /\ Leaves /\ Goto("set_checked")
    /\ UNCHANGED <<srsModel_ROOT_PATH, error, history>>

Set_Checked ==
    /\ In("set_checked")
    /\ IF okay THEN Goto("set_open") ELSE Answers("FAIL")
    /\ Still /\ UNCHANGED <<srsModel_ROOT_PATH, okay, error, history>>

\* The old root is freed before the repository is opened: a path that is the
\* old root's own string reads freed memory, which may hold anything.
OpenedPath == IF task.kind = "reset" THEN {task.path, NULL} ELSE {task.path}
Freed_Late == UNCHANGED srsModel_ROOT_PATH
Freed == srsModel_ROOT_PATH' = NULL
Set_Open ==
    /\ In("set_open")
    /\ \E path \in OpenedPath : Repo_Open(path)
    /\ Freed
    /\ Goto("set_opened")
    /\ UNCHANGED <<okay, error, history>>

\* strdup of a name that could not be allocated crashes.
Set_Opened ==
    /\ In("set_opened")
    /\ IF gret = TRUE
       THEN \E current \in CurrentPath :
              /\ srsGit_REPO_PATH' = current
              /\ srsModel_ROOT_PATH' = current
              /\ status' = IF current = NULL THEN "crashed" ELSE status
              /\ Answers("OK")
              /\ meddled' = FALSE
       ELSE /\ Answers("FAIL")
            /\ UNCHANGED <<srsGit_REPO_PATH, srsModel_ROOT_PATH, status, meddled>>
    /\ UNCHANGED <<present, stack, disk, srsGit_REPO, srsGIT_READY, gret, opens, replaced,
                   okay, error, calls, origin, changes>>

\* SetRoot(srsModel_GetRoot())
SetRoot_Again ==
    /\ srsModel_ROOT_PATH # NULL
    /\ Begins("reset", srsModel_ROOT_PATH)
    /\ Set_Directory(srsModel_ROOT_PATH)
    /\ error' = "none"
    /\ Still /\ UNCHANGED <<srsModel_ROOT_PATH, meddled>>

-----------------------------------------------------------------------------
(* srsModel_IsValidRoot                                                    *)

IsValidRoot(path) ==
    /\ Begins("valid", path)
    /\ Enters(path)
    /\ mpc' = "valid_check"
    /\ error' = "none"
    /\ UNCHANGED <<srsModel_ROOT_PATH, mret, meddled>>

Valid_Check ==
    /\ In("valid_check")
    /\ IF ret = NULL
       THEN Answers("FALSE") /\ Still /\ UNCHANGED <<okay, error>>
       ELSE /\ okay' = (Here(Meta) /\ Here(DecksMeta))
            /\ error' = IF okay' THEN error ELSE "FAIL"
            /\ Leaves
            /\ Goto("valid_checked")
    /\ UNCHANGED <<srsModel_ROOT_PATH, history>>

Valid_Checked ==
    /\ In("valid_checked")
    /\ Answers(IF okay THEN "TRUE" ELSE "FALSE")
    /\ Still /\ UNCHANGED <<srsModel_ROOT_PATH, okay, error, history>>

-----------------------------------------------------------------------------
(* srsModel_CreateRoot, alone or as the first part of CreateAndSetRoot     *)

CreateRoot(kind, path) ==
    /\ Begins(kind, path)
    /\ Repo_Create(path, Meta)
    /\ error' = IF gret' = TRUE THEN "none" ELSE "FAIL"
    /\ IF gret' = TRUE \/ status' # "running" THEN mpc' = "create_enter" /\ UNCHANGED mret
       ELSE mpc' = "idle" /\ mret' = "FAIL"
    /\ meddled' = TRUE
    /\ UNCHANGED srsModel_ROOT_PATH

Create_Enter ==
    /\ In("create_enter")
    /\ Enters(task.path)
    /\ Goto("create_file")
    /\ UNCHANGED <<srsModel_ROOT_PATH, okay, error, history>>

\* srsFile_Create of decks/.meta fails if it is there or cannot be written.
Create_File ==
    /\ In("create_file")
    /\ IF ret = NULL
       THEN okay' = TRUE /\ Goto("create_end") /\ Still
       ELSE /\ \E ok \in GitOutcome :
                 /\ okay' = (ok /\ sysCwd \in present /\ ~Here(DecksMeta))
                 /\ disk' = IF okay' THEN [disk EXCEPT ![sysCwd].files = @ \cup {DecksMeta}] ELSE disk
            /\ PopCWD /\ UNCHANGED <<git, gret, opens, replaced>>
            /\ Goto("create_end")
    /\ UNCHANGED <<srsModel_ROOT_PATH, error, history>>

\* CreateAndSetRoot goes on with SetRoot of the same path.
Create_End ==
    /\ In("create_end")
    /\ IF task.kind = "create_and_set" /\ okay
       THEN Set_Directory(task.path) /\ UNCHANGED task
       ELSE Answers(IF okay THEN "OK" ELSE "FAIL")
    /\ Still /\ UNCHANGED <<srsModel_ROOT_PATH, okay, error, history>>

-----------------------------------------------------------------------------
(* srsModel_ExistsInRoot                                                   *)

ExistsInRoot_Refused(path) ==
    /\ Begins("exists", path)
    /\ \/ srsModel_ROOT_PATH = NULL /\ error' = "API"
       \/ srsModel_ROOT_PATH # NULL /\ path = NULL /\ error' = "INPUT"
    /\ mret' = "FALSE"
    /\ Still /\ UNCHANGED <<srsModel_ROOT_PATH, mpc, meddled>>

ExistsInRoot(path) ==
    /\ srsModel_ROOT_PATH # NULL /\ path # NULL
    /\ Begins("exists", path)
    /\ Enters(srsModel_ROOT_PATH)
    /\ mpc' = "exists_search"
    /\ error' = "none"
    /\ UNCHANGED <<srsModel_ROOT_PATH, mret, meddled>>

\* git_repository_discover: the nearest repository at or above a directory.
Repositories(d) == {k \in DOMAIN Up(d) : Up(d)[k] # NULL /\ IsRepository(Up(d)[k])}
Nearest(d) == Up(d)[CHOOSE k \in Repositories(d) : \A j \in Repositories(d) : k <= j]

\* The path search stops with a verdict and leaves the root, or goes on from
\* the parent of a repository that is not the root's.
Stops(found, e) == okay' = found /\ error' = e /\ Leaves /\ Goto("exists_left")

Onward_Not(repo) == repo
Onward(repo)     == Parent(repo)
AtOrBelowRoot(d) == srsModel_ROOT_PATH \in Line(d)
Exists_Search ==
    /\ In("exists_search")
    /\ LET from == Resolve(task.search)
       IN  IF ret = NULL
           THEN Answers("FALSE") /\ Still /\ UNCHANGED <<okay, error>>
           ELSE IF from \notin present \/ Repositories(from) = {} THEN Stops(FALSE, "FAIL")
           ELSE IF AtOrBelowRoot(Nearest(from)) THEN Stops(TRUE, error)
           ELSE IF Onward(Nearest(from)) = NULL THEN Stops(FALSE, "INPUT")
           ELSE /\ task' = [task EXCEPT !.search = Onward(Nearest(from))]
                /\ Still /\ UNCHANGED <<mpc, mret, okay, error>>
    /\ UNCHANGED <<srsModel_ROOT_PATH, history>>

\* The root itself does not count: the path is entered to compare its name.
Exists_Left ==
    /\ In("exists_left")
    /\ IF okay
       THEN Enters(task.path) /\ Goto("exists_compare")
       ELSE Answers("FALSE") /\ Still
    /\ UNCHANGED <<srsModel_ROOT_PATH, okay, error, history>>

RootItself_Counts(d) == FALSE
RootItself(d) == d \in Line(srsModel_ROOT_PATH)
Exists_Compare ==
    /\ In("exists_compare")
    /\ IF ret = NULL
       THEN Goto("exists_end") /\ Still /\ UNCHANGED <<okay, error>>
       ELSE /\ okay' = ~RootItself(ret)
            /\ error' = IF okay' THEN error ELSE "INPUT"
            /\ Leaves
            /\ Goto("exists_end")
    /\ UNCHANGED <<srsModel_ROOT_PATH, history>>

Exists_End ==
    /\ In("exists_end")
    /\ Answers(IF okay THEN "TRUE" ELSE "FALSE")
    /\ Still /\ UNCHANGED <<srsModel_ROOT_PATH, okay, error, history>>

-----------------------------------------------------------------------------
(* The caller between two calls: git without the model, and one directory  *)
(* of its own.                                                             *)

\* The caller's use of the library outside the model is a call of its own.
CallsGit == /\ Begins("git", NULL)
            /\ meddled' = TRUE
            /\ UNCHANGED <<srsModel_ROOT_PATH, mpc, mret, error>>

Caller_Close    == CallsGit /\ Repo_Close
Caller_Shutdown == CallsGit /\ Shutdown
Caller_Add      == CallsGit /\ \E file \in GitFile : Add(file)
Caller_Commit   == CallsGit /\ Commit

\* The caller may have changed directory before its first call.
Caller_Moves == /\ In("idle")
                /\ calls = 0 /\ owed = <<>>
                /\ \E path \in Dir : Enters(path)
                /\ UNCHANGED modelVars

Disturb == /\ Environment
           /\ DiskFollows
           /\ changes < MaxChanges /\ calls + changes < MaxEvents
           /\ changes' = changes + 1
           /\ UNCHANGED <<git, gret, opens, replaced, srsModel_ROOT_PATH, mpc, task, okay, mret,
                          error, calls, origin, meddled>>

Call == \/ SetRoot_None \/ SetRoot_Again
        \/ \E path \in Dir \cup Name :
             \/ SetRoot(path) \/ IsValidRoot(path) \/ ExistsInRoot(path)
             \/ \E kind \in {"create", "create_and_set"} : CreateRoot(kind, path)
        \/ \E path \in Argument : ExistsInRoot_Refused(path)

Git == Caller_Close \/ Caller_Shutdown \/ Caller_Add \/ Caller_Commit

Setting == \/ Set_Repo \/ Set_Enter \/ Set_Check \/ Set_Checked \/ Set_Open \/ Set_Opened
           \/ Steps /\ UNCHANGED <<gitVars, modelVars>>

Library == \/ Setting
           \/ Valid_Check \/ Valid_Checked
           \/ Create_Enter \/ Create_File \/ Create_End
           \/ Exists_Search \/ Exists_Left \/ Exists_Compare \/ Exists_End

ModelNext == Call \/ Git \/ Library \/ Caller_Moves \/ Disturb

\* One thread: what the library has begun it continues.
ModelSpec == ModelInit /\ [][ModelNext]_all /\ WF_all(Library)

-----------------------------------------------------------------------------
(* Properties                                                              *)

ModelTypeOK ==
    /\ TypeOK
    /\ srsModel_ROOT_PATH \in Dir \cup {NULL}
    /\ task.path \in Argument /\ task.search \in Argument
    /\ okay \in BOOLEAN /\ meddled \in BOOLEAN /\ changes \in 0..MaxChanges
    /\ mret \in {"none", "OK", "FAIL", "TRUE", "FALSE"}
    /\ error \in {"none", "FAIL", "API", "INPUT"}
    /\ calls \in 0..MaxCalls

\* No other process has stepped in since the call began.
Quiet == changes = origin.changes

Returned(kinds) == mpc = "idle" /\ At("idle") /\ task.kind \in kinds
AnyCall == {"set", "reset", "valid", "create", "create_and_set", "exists"}

\* As long as the caller leaves git and CreateRoot alone, a root that is set is
\* the repository that is open, under the name the library gives out, with
\* libgit2 initialised for it: through failed calls, removed directories and
\* the moments between the freeing of one root and the opening of the next.
\* A SetRoot that fails leaves both as they were or neither: no root without
\* its repository, and no repository without a root.
RootIsOpenRepo ==
    /\ srsModel_ROOT_PATH # NULL /\ Running /\ ~meddled =>
          /\ srsGit_REPO = srsModel_ROOT_PATH
          /\ srsGit_REPO_PATH = srsModel_ROOT_PATH
          /\ srsGIT_READY > 0
    /\ Returned({"set", "reset"}) /\ mret = "FAIL" =>
          <<srsModel_ROOT_PATH, srsGit_REPO>> \in {<<origin.root, origin.repo>>, <<NULL, NULL>>}

\* Every call comes back with the caller's working directory and stack as they
\* were, from each of its returns, while no chdir or push has failed.
ModelRestores ==
    Returned(AnyCall) /\ ~disturbed => /\ dirstack = origin.stack
                                       /\ sysCwd \in {origin.cwd, NULL}

\* What a path named when the call began, from a given directory.
From(cwd, path) == IF path \in Dir THEN path
                   ELSE IF path \in Name /\ cwd # NULL THEN Child[cwd][path] ELSE NULL

\* A root that was set is the directory its path named for the caller.
SetOpensWhatWasNamed ==
    Returned({"set", "create_and_set"}) /\ mret = "OK" /\ task.path # NULL /\ ~disturbed /\ Quiet =>
        srsModel_ROOT_PATH = From(origin.at, task.path)

\* A directory exists in the root if and only if it lies below it, whichever
\* repositories are nested above and below, when callers ask from the root or
\* with an absolute path and nobody interferes.
Below(d, root) == d # root /\ root \in Line(d)
Searchable == origin.root \in present \ Unreadable /\ IsRepository(origin.root)
ExistsMeansBelow ==
    Returned({"exists"}) /\ origin.root # NULL /\ task.path # NULL /\ ~meddled /\ ~disturbed /\ Quiet
        /\ (task.path \in Dir \/ origin.at = origin.root) /\ Searchable =>
        LET d == From(origin.root, task.path)
        IN  (mret = "TRUE") <=> d \in present /\ Below(d, origin.root)

\* Every call returns, however directories come and go.
ModelReturns == mpc # "idle" ~> (mpc = "idle" \/ status # "running")

(* What the header says and the code does not do.                          *)

\* "Relative paths are counted as relative to the root, NOT the current working
\* directory": the answer does not depend on where the caller is.
ExistsFromAnywhere ==
    Returned({"exists"}) /\ origin.root # NULL /\ task.path # NULL /\ ~meddled /\ ~disturbed /\ Quiet
        /\ Searchable =>
        LET d == From(origin.root, task.path)
        IN  (mret = "TRUE") <=> d \in present /\ Below(d, origin.root)
=============================================================================
