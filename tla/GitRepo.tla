------------------------------- MODULE GitRepo -------------------------------
(***************************************************************************)
(* The library's one open git repository (src/src/git.c): the handle       *)
(* srsGit_REPO, the cached name of its working directory, and how often    *)
(* libgit2 has been initialised.  libgit2 itself is external: what the     *)
(* repositories on disk hold, and that any call of it may fail.  Every     *)
(* repository has a working directory.                                     *)
(***************************************************************************)
EXTENDS DirStack, FiniteSets

CONSTANTS
    GitFile,      \* names of files in working directories
    InitialDisk,  \* what the directories may hold at the beginning
    GitOutcome    \* whether a call of libgit2 or of the file system succeeds

\* A repository on disk: the files in its index, and whether HEAD has a commit.
Repository == [index : SUBSET GitFile, born : BOOLEAN]
NoRepo     == [index |-> {}, born |-> FALSE, none |-> TRUE]
NewRepo    == [index |-> {}, born |-> FALSE]
Holding    == [git : Repository \cup {NoRepo}, files : SUBSET GitFile]
Nothing    == [git |-> NoRepo, files |-> {}]

ASSUME FiniteAssumption  == IsFiniteSet(Dir)
ASSUME DiskAssumption    == InitialDisk \subseteq [Dir -> Holding]
ASSUME OutcomeAssumption == GitOutcome \subseteq BOOLEAN

VARIABLES
    disk,              \* what every directory holds
    srsGit_REPO,       \* the open repository, by its directory
    srsGit_REPO_PATH,  \* the cached name of its working directory
    srsGIT_READY,      \* how often libgit2 has been initialised
    gret,              \* what the last call returned
    opens,             \* history: Repo_Open and Repo_Create since Shutdown
    replaced           \* history: Repo_Create has taken the place of a named one

git     == <<srsGit_REPO, srsGit_REPO_PATH, srsGIT_READY>>
gitVars == <<disk, git, gret, opens, replaced>>
stack   == <<sysCwd, directory_current, dirstack, ready, pc, call, ret, histVars>>

GitInit == /\ Init
           /\ disk \in InitialDisk
           /\ srsGit_REPO = NULL
           /\ srsGit_REPO_PATH = NULL
           /\ srsGIT_READY = 0
           /\ gret = NULL
           /\ opens = 0
           /\ replaced = FALSE

INIT_LIB(n) == n + 1
EXIT_LIB(n) == n - 1

IsRepository(d) == d \in present /\ disk[d].git # NoRepo

\* The directories upward from d, by their distance from it.
Parent(d) == IF \E p \in Dir, n \in Name : Child[p][n] = d
             THEN CHOOSE p \in Dir : \E n \in Name : Child[p][n] = d
             ELSE NULL
Up(d) == LET up[k \in 0..Cardinality(Dir)] ==
               IF k = 0 THEN d ELSE IF up[k - 1] = NULL THEN NULL ELSE Parent(up[k - 1])
         IN  up
Line(d) == {Up(d)[k] : k \in DOMAIN Up(d)} \ {NULL}

\* No directory lies above itself.
ASSUME TreeAssumption == \A d \in Dir : d \notin Line(Parent(d))

\* The process is gone, and what it had in memory with it.
Dies(how) == status' = how /\ UNCHANGED <<disk, git, gret, opens, replaced>>

-----------------------------------------------------------------------------
(* srsGit_Repo_GetCurrent returns the cached name, or caches a copy of     *)
(* libgit2's.  It has no action of its own: callers read CurrentPath.      *)

CurrentPath == IF srsGit_REPO # NULL /\ srsGit_REPO_PATH = NULL
               THEN {IF ok THEN srsGit_REPO ELSE NULL : ok \in AllocOutcome}
               ELSE {srsGit_REPO_PATH}

\* srsGit_Repo_Close
Close == srsGit_REPO' = NULL /\ srsGit_REPO_PATH' = NULL /\ replaced' = FALSE

Repo_Close == /\ At("idle")
              /\ Close
              /\ UNCHANGED <<present, stack, status, disk, srsGIT_READY, gret, opens>>

\* srsGit_Shutdown takes back every initialisation.
Shutdown == /\ At("idle")
            /\ Close
            /\ srsGIT_READY' = 0
            /\ opens' = 0
            /\ gret' = TRUE
            /\ UNCHANGED <<present, stack, status, disk>>

\* srsGit_IsRepo: an error other than "not found" aborts.
Looked_KeepsInit(n) == INIT_LIB(n)
Looked(n) == EXIT_LIB(INIT_LIB(n))
IsRepo(path) ==
    /\ At("idle")
    /\ \E ok \in GitOutcome :
         IF ~ok THEN Dies("aborted")
         ELSE /\ gret' = IsRepository(Resolve(path))
              /\ srsGIT_READY' = Looked(srsGIT_READY)
              /\ UNCHANGED <<disk, srsGit_REPO, srsGit_REPO_PATH, status, opens, replaced>>
    /\ UNCHANGED <<present, stack>>

-----------------------------------------------------------------------------
(* srsGit_Repo_Open: the open repository is closed if GetCurrent can name  *)
(* it, else srsASSERT fails.  The initialisation stays, also when the open *)
(* fails.                                                                  *)

Repo_Open(path) ==
    /\ At("idle")
    /\ \E current \in CurrentPath, ok \in GitOutcome :
         IF current = NULL /\ srsGit_REPO # NULL THEN Dies("aborted")
         ELSE LET opened == ok /\ IsRepository(Resolve(path))
              IN  /\ srsGit_REPO' = IF opened THEN Resolve(path) ELSE NULL
                  /\ srsGit_REPO_PATH' = NULL
                  /\ srsGIT_READY' = INIT_LIB(srsGIT_READY)
                  /\ gret' = opened
                  /\ opens' = opens + 1
                  /\ replaced' = FALSE
                  /\ UNCHANGED <<disk, status>>
    /\ UNCHANGED <<present, stack>>

-----------------------------------------------------------------------------
(* srsGit_Add and srsGit_Commit, as functions of what the directory of the *)
(* open repository holds.                                                  *)

\* The index with the file in it, if it is there to be added.  Any number of
\* entries but one fails an assertion, after the index has been written.
Added(holding, file) == [holding EXCEPT !.git.index = @ \cup ({file} \cap holding.files)]
OneEntry(holding)    == Cardinality(holding.git.index) = 1

\* Only the first commit writes the tree it is made from: a later one looks up
\* a tree and a commit by one object id that was never set, and no object is
\* both.
Commits(holding) == ~holding.git.born
Committed(holding)   == [holding EXCEPT !.git.born = TRUE]

Add(file) ==
    /\ At("idle")
    /\ IF srsGit_REPO = NULL
       THEN gret' = FALSE /\ UNCHANGED <<disk, git, status, opens, replaced>>
       ELSE \E ok \in GitOutcome :
              IF ~ok \/ ~IsRepository(srsGit_REPO) THEN Dies("aborted")
              ELSE LET after == Added(disk[srsGit_REPO], file)
                   IN  /\ disk' = [disk EXCEPT ![srsGit_REPO] = after]
                       /\ status' = IF OneEntry(after) THEN "running" ELSE "aborted"
                       /\ srsGit_REPO_PATH' \in CurrentPath
                       /\ srsGIT_READY' = EXIT_LIB(INIT_LIB(srsGIT_READY))
                       /\ gret' = (file \in after.git.index)
                       /\ UNCHANGED <<srsGit_REPO, opens, replaced>>
    /\ UNCHANGED <<present, stack>>

Commit ==
    /\ At("idle")
    /\ IF srsGit_REPO = NULL
       THEN gret' = FALSE /\ UNCHANGED <<disk, git, status, opens, replaced>>
       ELSE \E ok \in GitOutcome :
              IF ~ok \/ ~IsRepository(srsGit_REPO) \/ ~Commits(disk[srsGit_REPO])
              THEN Dies("aborted")
              ELSE /\ disk' = [disk EXCEPT ![srsGit_REPO] = Committed(@)]
                   /\ srsGIT_READY' = EXIT_LIB(INIT_LIB(srsGIT_READY))
                   /\ gret' = TRUE
                   /\ UNCHANGED <<srsGit_REPO, srsGit_REPO_PATH, status, opens, replaced>>
    /\ UNCHANGED <<present, stack>>

-----------------------------------------------------------------------------
(* srsGit_Repo_Create: initialise, create the first file, fill it, add it, *)
(* commit it.  The open repository is overwritten and its name kept.       *)

CreateFailure == {"none"} \cup IF FALSE \in GitOutcome
                               THEN {"init", "file", "content", "add", "commit"} ELSE {}

Initialised(holding) == [holding EXCEPT !.git = IF @ = NoRepo THEN NewRepo ELSE @]

\* How far creation comes in a directory, and what it leaves there.
Made(holding, first, fails) ==
    LET filed == [holding EXCEPT !.files = @ \cup {first}]
        added == Added(filed, first)
    IN  CASE first \in holding.files \/ fails = "file" -> [holding |-> holding, ends |-> "refused"]
          [] fails = "content" -> [holding |-> filed, ends |-> "refused"]
          [] fails = "add" -> [holding |-> filed, ends |-> "aborted"]
          [] ~OneEntry(added) \/ fails = "commit" \/ ~Commits(added) ->
                [holding |-> added, ends |-> "aborted"]
          [] OTHER -> [holding |-> Committed(added), ends |-> "created"]

\* What a path names although it may not be there yet.
Target(path) == IF path \in Dir THEN path
                ELSE IF path \in Name /\ sysCwd # NULL THEN Child[sysCwd][path] ELSE NULL

Repo_Create(path, first) ==
    /\ At("idle")
    /\ Target(path) \in Dir
    /\ \E fails \in CreateFailure, ok \in AllocOutcome :
         LET d    == Target(path)
             made == Made(Initialised(disk[d]), first, fails)
         IN  IF fails = "init" THEN Dies("aborted") /\ UNCHANGED present
             ELSE /\ present' = present \cup Line(d)
                  /\ disk' = [disk EXCEPT ![d] = made.holding]
                  /\ status' = IF made.ends = "aborted" THEN "aborted" ELSE "running"
                  /\ srsGit_REPO' = d
                  /\ srsGit_REPO_PATH' = IF made.ends # "refused" /\ srsGit_REPO_PATH = NULL /\ ok
                                         THEN d ELSE srsGit_REPO_PATH
                  /\ replaced' = (srsGit_REPO_PATH # NULL)
                  /\ srsGIT_READY' = INIT_LIB(srsGIT_READY)
                  /\ opens' = opens + 1
                  /\ gret' = (made.ends = "created")
    /\ UNCHANGED stack

\* A directory that is removed loses what it holds; one that appears comes with
\* what it may hold at the beginning.
DiskFollows ==
    \E before \in InitialDisk :
       disk' = [d \in Dir |-> IF d \notin present' THEN Nothing
                              ELSE IF d \in present THEN disk[d] ELSE before[d]]

-----------------------------------------------------------------------------
(* Properties                                                              *)

Running == status = "running"

GitTypeOK ==
    /\ disk \in [Dir -> Holding]
    /\ srsGit_REPO \in Dir \cup {NULL} /\ srsGit_REPO_PATH \in Dir \cup {NULL}
    /\ srsGIT_READY \in Nat /\ opens \in Nat
    /\ gret \in BOOLEAN \cup {NULL} /\ replaced \in BOOLEAN

\* Every initialisation of libgit2 that is still there belongs to one
\* Repo_Open or Repo_Create since the last Shutdown, whether it succeeded or
\* not: lookups, additions and commits leave none behind, over any failures
\* and early returns, and an open repository always has its library.
InitsAreOpens == Running => /\ srsGIT_READY = opens
                            /\ srsGit_REPO # NULL => srsGIT_READY > 0

\* The name the library gives out is that of the open repository, or of one
\* that Repo_Create took the place of: never of a closed one.
PathFollowsRepo == srsGit_REPO_PATH # NULL => /\ srsGit_REPO # NULL
                                              /\ srsGit_REPO_PATH = srsGit_REPO \/ replaced

\* The invariant of git.c: its types, the balance and the name.
GitInv == GitTypeOK /\ InitsAreOpens /\ PathFollowsRepo
=============================================================================
