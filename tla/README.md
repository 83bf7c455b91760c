# kioku-srs in TLA+

A verification development for kioku, a spaced-repetition library in C: cards
and decks are directories of a git repository, and the library walks them by
changing its working directory. Paths are relative to `src/`; "the library" is
`src/src/`.

## 1. Inventory

The library is one thread. What makes it hard to test is that nearly all its
work goes through process-wide state, the working directory and a stack of old
ones, that every function has to leave as it found it on every early exit,
while git, an editor or the user may remove and create directories between any
two system calls.

| component (source) | state | operations | correct when |
|---|---|---|---|
| memory stack (`datastructure.c`) | a struct with an array, `count`, `capacity`, a pointer `top` into the array | Init, FreeContents, Push, Pop, all through UpdateCapacity | a refused or moving `realloc` loses no element, leaves `top` current, fails no assertion; it is a last-in first-out list |
| working-directory stack (`filesystem.c` 24-243) | statics `directory_current` (a cache of `getcwd`) and `dirstack` (saved names); the working directory itself | GetCWD, SetCWD, PushCWD, PopCWD | the cache is never another directory; a caller that pops what it pushed is back where it was and leaves nothing behind |
| directory walk (`filesystem.c` 947-1075) | recursion of `Iterate_Internal`, `depth`, `exit_triggered` | Iterate with a callback that answers RECURSE, CONTINUE, STOP or EXIT | it returns, restores the caller, and shows every entry once |
| schedule times (`schedule.c`) | none; the struct `srsTIME` of a 16-bit and four 8-bit fields | ToString, FromString, Now, Compare | writing and reading are inverse; Compare is chronological |
| cards (`card.c`) | `added.txt` and `scheduled.txt` in each card's directory; the list being built | GetAll with the callback `get_cards`, GetContent, FreeArray | the caller's directory is restored; each card is listed once with its own directory; the times listed are those remembered and valid files are kept, unless a file call fails or another process writes |
| model root (`model.c`) | `srsModel_ROOT_PATH` | SetRoot, CreateRoot, CreateAndSetRoot, IsValidRoot, ExistsInRoot, Card_GetPath, Card_GetNextID | a root that is set is the open repository; a failed SetRoot leaves the old root with its repository or neither; what exists in the root lies below it; the next card is the line that `.at` names |
| git repository (`git.c`) | the open repository, its cached path, libgit2's initialisation count | IsRepo, Repo_Open, Close, Create, GetCurrent, Add, Commit, Shutdown | the name given out is never that of a closed repository; every initialisation that stays belongs to one open or create |
| files and directories (`filesystem.c` 577-944) | the file system | Dir_Create, File_Create, Path_Remove, Path_Move, Get/SetContent, GetLength, ReadLineByNumber | a success is what it says; nothing but the path is made, whatever fails half-way |
| path arithmetic (`filesystem.c` 268-570) | none | GetFull, trimpoints, concat, up_index | a joined path leads along both; climbing visits every parent once; buffers are not overrun |
| strings, errors, log (`string.c`, `error.c`, `log.c`) | a thread-local last error; a log file and its line counter | ToU32, Error_Set/Log, Log_Write, Log_Exit | a number out of range is refused; nothing is logged after the log is closed |
| REST server (`server/main.c`) | `kill_me_now`, the document root; the connections, in mongoose; the model root | start, the poll loop, exit, version, model-root, card/next, `/printcontent`, clean-up | given a root it serves that one or nobody, and without a document root it serves with none; what has come by the last poll is dealt with; the clean-up leaves nothing |
| other | | | Lua settings demo (`main.c`, `luautils.c`), web client stubs (`client/js/rest.js`), vendored libraries, tests: not part of the library's logic |

Interactions are calls. PushCWD and PopCWD use the memory stack; Iterate uses
PushCWD and PopCWD; `srsCard_GetAll` uses PushCWD, `srsModel_ExistsInRoot`
(which pushes twice itself) and Iterate; Iterate calls back `get_cards`, which
pushes, reads and writes files, formats times and pops; the server asks the
model. The only concurrency is with other processes, through the file system.

The behaviours that are hard to test, with the line where each bites, are the
`hazards` of `PROJECT.json`; the properties below are aimed at them.

## 2. Modules

```
Stack <--refines-- MemStack              Schedule        Paths
                      .                     |              |
        (abstracted)  .                     v              v
                   DirStack <- TreeWalk <- Cards        FileOps
                      ^
                      |
                   GitRepo <- ModelRoot <- Server -> NextCard
```

Arrows without a word are EXTENDS. Each has an `MC_*` module, except that
`GitRepo` is checked through `MC_ModelRoot` and `NextCard` through `MC_Server`.
MemStack, DirStack, Schedule, TreeWalk, Cards, FileOps, ModelRoot and Server
have a `*Proofs` module; `ScheduleProofs` is also about the run of
`MC_Schedule`.

**`Stack`** is what `include/kioku/datastructure.h` promises: a list, and
operations that do their whole work or return false and change nothing.

**`MemStack`** has the struct as one record; `cells` is the memory behind the
pointer `memory`, a pointer to an element is `<<block, n>>`, and an element of
fresh memory is `Junk`. `SetCapacity` chooses the capacity, `UpdateCapacity`
reallocates, `Revert` is the label of that name. `malloc` and `realloc` return
any block or NULL. Each operation is an action; a rejected call is one too.

**`DirStack`** has one action per system call of an operation, because that is
where other processes come in: `pc` says where the running operation is and
`call`, `ret` hold its argument and result. `PushCWD` is followed by
`PushCWD_Save` (assertions, `getcwd`, `strdup`, the push), `PushCWD_Chdir` and
`PushCWD_Refresh`; each turn of PopCWD's loop is `PopCWD_Enter`, `PopCWD_Skip`
or `PopCWD_Empty`. `dirstack` is a sequence, the list that `Stack` promises and
`MemStack` implements; what DirStack keeps of its failures is the refused push
and the crash of a pop without output. Directory names are the directories
themselves, `Child` says which relative name leads where. `owed` records, for
every PushCWD that returned a directory and was not yet popped, the directory
it was called from: it is the caller's claim, against which the stack is
judged. `disturbed` records that some chdir or push has failed.

**`TreeWalk`** extends DirStack: `frames` are the active calls of
`Iterate_Internal`, `wpc` the point in it, `depth` is a `size_t`. A directory
stream is the set of entries at opening, read in any order; `LoopSkip` is an
entry that is gone when it is read. A callback is any answer to any entry.
Where a pop without a push has taken `depth` below zero, the last loop pops as
often as the wrapped counter says, whether or not the stack is empty (`Unwind`).
`base`, `visited` and `cut` are history.

**`Schedule`** has pure operators: `Time` has the widths of the struct, a text
is the record of the five numbers `sscanf` finds in it or `Garbage`.
`TimeToString(t, buffer)` and `TimeFromString(text, time)` give what the output
holds afterwards.

**`Cards`** extends TreeWalk and Schedule. `gpc` is the point in GetAll or
GetContent, `cpc` the point in `get_cards`, which runs where the walk is at
"visit", and `fpc` the point among the card's two time files, whose contents
are `files`. Each file is read, asked for and written in steps of their own
(`LoadAdded`, `CheckAdded`, `SaveAdded` and the same for the scheduled time).
Any of them may fail (`FileOutcome`), which the code does not ask about: a
failed read leaves the buffer empty, a failed write the file as it was or
empty. Between them other processes write the files (`Edit`). `spoiled` records
the directories in which either has happened since GetAll began. All pushes and pops
are DirStack's actions, so GetAll's eight pushes, the walk and the callback
interleave with removals at every system call. A card's directory that vanished
before `get_cards` entered it has the effects the code has: the callback works
in the cards directory instead and pops an entry of the walk. `steady` records
which directories were there during all of GetAll: the cards that must be
listed. `CallerGoes` is a caller that has pushed a directory of its own before
it asks, so that the stack to be restored is not always the empty one.
`failed` records that a walk over the cards has answered false, an answer that
GetAll drops.

**`GitRepo`** extends DirStack with `git.c`: `srsGit_REPO` is the directory of
the open repository, `srsGit_REPO_PATH` the cached name of it, `srsGIT_READY`
libgit2's count. `disk` is what the directories hold, a repository being its
index and whether HEAD has a commit, and any call of libgit2 may fail. An
`abort()` or a failed assertion ends in status "aborted"; what memory held is
then gone and no property speaks of it. `Made` is the chain of
srsGit_Repo_Create from the first file to the first commit, with the place
where it stops. `opens` and `replaced` are history.

**`ModelRoot`** extends GitRepo with `model.c`. `mpc` is the point in the
running call; every push and pop is DirStack's, so directories vanish and
appear between any two system calls of a call. `SetRoot_Again` is
SetRoot(srsModel_GetRoot()), whose path has been freed when it is opened. The
search of ExistsInRoot takes a step for every repository it meets. `origin`
records what the process was like when the call began, `meddled` that the
caller has used git or CreateRoot since the root was set.

**`Paths`** has the path arithmetic as operators on sequences of characters:
what the loops over offsets compute is said by greatest and least offsets with
a property. `Names` and `Absolute`, what a path means, are the reference the
results are held against.

**`FileOps`** has one action per system call: a component of Dir_Create is
checked (`CheckComponent`) and made (`MakeComponent`), File_Create makes its
parents that way and opens the file then; contents, lengths, removals and
renames check first and act then. Every system call that can succeed may also
fail (`faulty` records it), and another process creates, writes and removes in
between. A directory is the sequence of names that leads to it. The operators of
Paths are called on the same paths, with buffers of several sizes, and GetFull
from several working directories (`Cwds`);
`Climbs` is the loop the header gives for kioku_path_up_index.

**`NextCard`** has srsString_ToU32, srsFile_ReadLineByNumber and
srsModel_Card_GetNextID as operators on the contents of `.at` and `.schedule`;
`LineSet` is what a line is, stated without counting offsets.

**`Server`** extends ModelRoot and NextCard with `server/main.c`. `spc` is the
point in main. A poll handles the requests on the open connections one after
the other (`batch`, `serving`) and opens those that wait; the one in
mg_mgr_free is the last. handle_GetNextCard is three actions, because editors
may rewrite the deck, and other processes remove it, between its check of the
deck, its read of `.at` and its read of `.schedule`. SetRoot at the start and
SetRoot(NULL) at the end are ModelRoot's actions.

MC modules give the constants: a tree with a deck, its cards and a sealed
directory; the root, one deck and two cards; dates around every bound; a home
directory, a model in it and a deck in that, each named alike, so that one
relative path means different directories from different places.

## 3. Runs

| run | instance | shows |
|---|---|---|
| `memstack` | 2 elements, 2 blocks, up to 5 elements, initial capacities -1, 1, 5, 9 | `Inv`; `NoThrash` (the gap between the thresholds); `ImplementsStack` (refinement of `Stack`) |
| `dirstack` | root/deck/cards and a directory that exists but cannot be entered, two directories that come and go, 3 nested pushes, every allocation may fail | `CacheCoherent`, `NoResidue`, `Bracketed`, `PopReturnsToOwed`, `OperationsReturn` |
| `treewalk` | the same tree with plain files, all answers, failing streams, callers with one push of their own | `WalkInv`, `CwdRestored`, `WholeTreeVisited`, `VisitedOnce`, `WalkReturns` |
| `treewalk_removed` | deck and cards come and go, one directory cannot be entered, starts that are files or missing, a callback that always recurses | `TrueMeansRestored` |
| `schedule` | years 1899, 1970, 9999, 10000, months 0 to 13, days 0 to 32, hours to 24, minutes to 60 | `WrittenIsRead`, `ReadIsWritten`, `CompareIsChronological` |
| `cards` | two cards; two calls; either both cards, the cards directory and the deck come and go, and a caller with or without a push of its own; or the first card is new, or has an unreadable scheduled time, and comes and goes, every reading, asking and writing of its time files may fail, others edit one, at two moments | `CardsInv` (types, `CallerRestored`), `CardsListed`, `AddedIsRemembered`, `ValidTimesKept`, `ContentFromCard`, `GetAllReturns` |
| `model` | home, a model in it and a deck in that; home a repository or not, the deck half a model of its own or empty; every libgit2 call may fail; 3 calls, 2 changes by others, 4 of both together | `GitInv` (types, `InitsAreOpens`, `PathFollowsRepo`), `RootIsOpenRepo`, `ModelRestores`, `SetOpensWhatWasNamed`, `ExistsMeansBelow`, `ModelReturns` |
| `files` | nine paths of up to three names with separators before, between, doubled and behind; an empty tree, one with a directory and a file, one with a file in the way; two operations, one change by others, failing system calls; buffers of 0, 2, 4 and 9; working directories "/", "/a" and "/a/b" | `FilesInv` (types, `EndedByOthers`), `CreatesWhatItSays` (`OnlyThePathAdded`, `DirCreateAnswers`, `FileCreateAnswers`), `PathsLeadWhereNamed` (`JoinLeadsAlongBoth`, `CardFileInDeck`, `FullPathResolves`), `ClimbsByOneName`, `FilesReturn` |
| `server` | two connections with two requests between them, a document root that is the model, is no repository, is missing or is not given at all, one edit or removal of the deck, schedules with an empty line, a carriage return, with and without a final newline, line numbers inside and out | `ServerTypeOK`, `ServesItsRoot`, `ExitsClean`, `AnswersTheNamedLine`, `RequestsEnd` |

Three more runs show where code and its documentation or comments disagree
(PROJECT.json quotes the lines); section 5 lists what else does:

- `push_failure_reported`: PushCWD returns the old directory when its chdir
  fails, instead of NULL; its callers then pop one entry too many.
- `scheduled_time_overwritten`: `scheduled.txt` gets the text of the added time.
- `exists_from_anywhere`: ExistsInRoot looks for a relative path from the root
  but compares it from the caller's directory.

### Bounds

- Capacities -1 (default), 1, 5 and 9 with at most 5 elements pass both
  thresholds at even and odd capacities, the minimum, and two shrinks in a row
  (9 to 4 to 2). Two blocks suffice for a `realloc` that moves and one that
  does not.
- Three nested pushes let a pop skip two vanished directories and still have
  an outer caller to be wrong about. `MaxDepth` bounds callers, not the
  library.
- The tree has depth 3, a leaf, a sibling and plain files: a walk that loses
  count of one level, a directory without subdirectories and a continuation
  after a return from recursion all happen. `SizeModulus` 16 stands for 2^64:
  depths never reach it except by wrapping. A counter that has wrapped makes
  some 15 turns of the last loop in the model and nearly 2^64 in the code
  (`filesystem.c:1067`). The effects are the same, since the stack is empty
  long before; that the loop ends is not, in practice. So `GetAllReturns` does
  not claim a return where the counter has wrapped (`Wrapped`) because the
  cards directory has vanished since GetAll began.
- In `treewalk_removed` the callback always recurses: the other answers only
  end a directory earlier, and are covered without removals.
- Two cards show a card listed twice, confused with its neighbour, or left
  out; two calls show a second GetAll on repaired files and a GetContent of a
  listed card. With every directory coming and going and every file call
  failing at once there would be tens of millions of states, so a behaviour of
  `MC_Cards` has one or the other (`aboutFiles`); the theorems have both.
  `Moments` are the last minute of November and the first of December, one that
  can be written and one that cannot. The one edit falls before, between or
  after the reads and writes of both calls, while file calls fail as often as
  they like.
- In `model` three calls suffice to set a root, use it or spoil it, and set
  another; with `MaxEvents` 4 a call is disturbed twice, or three calls once.
  Three directories in a line hold a repository below the root, the root, and
  one above; a search that climbs meets each. An allocation never fails here:
  DirStack's run has that.
- In `files` two operations make one fail half-way and the next run into what
  it left. Paths have at most three names because every loop treats the first,
  a middle and the last one; a computation is a run of its own, since it leaves
  nothing behind. Sizes 0, 2, 4 and 9 are no room, room for one character, too
  little and enough. Three working directories of no, one and two names are
  what GetFull puts in front of a path.
- In `server` two requests are enough for an exit together with another request
  in one poll, before or after it. Lines are one character because
  `CARD_ID_MAX` is 3 and the property is about lines that fit; 256 in the code.
- `Unreadable` is empty in all runs: an existence check that fails is what a
  vanished directory shows too.
- Deadlock is not checked: a program that has aborted, a caller that has
  nothing more to ask, and a walk that has returned all stop.

### Fairness

The library is one thread that runs to the end of what it began, and blocks on
nothing but system calls that return. So `WF` is assumed of the steps inside an
operation (`Steps`, `WalkStep` with the callback's return, `Library`,
`SystemCall`) and of the server's `Program`, which is main with all it calls
and whose poll returns after a second at the latest; and of nothing else:
clients need not send, callers need not call, other processes need not create or remove
anything, and allocations need not succeed. With interference unbounded,
PopCWD still returns because each turn of its loop takes a name off the stack.

## 4. Proofs

TLAPS checks these for every value of the constants that satisfies the named
assumptions of the modules: every directory tree, every number of nested
pushes, every pattern of failures and interference. The bounds on callers
(`MaxDepth`, `MaxCalls`, `MaxEvents` and so on) are constants too, so the
theorems hold for each of them. `S` stands for the specification of the module
proved about.

| theorem | says |
|---|---|
| `MemStackProofs!InvAlways` | `S => []Inv` |
| `MemStackProofs!CapacityKeepsDistance` | `S => NoThrash` |
| `MemStackProofs!ImplementsStackAlways` | `S => ImplementsStack`, the refinement of `Stack` |
| `DirStackProofs!CacheIsCoherent` | `S => []CacheCoherent` |
| `DirStackProofs!NothingLeftBehind` | `S => []NoResidue` |
| `DirStackProofs!PairsMatch` | `S => []Bracketed` |
| `DirStackProofs!PopsReturnToOwed` | `S => PopReturnsToOwed` |
| `TreeWalkProofs!TrueAlwaysMeansRestored` | `S => TrueMeansRestored` |
| `TreeWalkProofs!DepthIsAlwaysExact` | `S => [](~disturbed => WalkInv)` if `MaxDepth < SizeModulus` |
| `TreeWalkProofs!CalmRestores` | `S => []CwdRestored` if `Calm` |
| `TreeWalkProofs!CalmCountsExactly` | `S => []WalkInv` if `Calm` and `MaxDepth < SizeModulus` |
| `TreeWalkProofs!CalmVisitsTheWholeTree` | `S => []WholeTreeVisited` if `Calm` |
| `TreeWalkProofs!CalmVisitsOnce` | `S => VisitedOnce` if `Calm` and `Tree` |
| `CardsProofs!ValidTimesAlwaysKept` | `S => ValidTimesKept` |
| `CardsProofs!AddedIsAlwaysRemembered` | `S => []AddedIsRemembered` |
| `CardsProofs!CallersAreAlwaysRestored` | `S => []CardsInv` |
| `CardsProofs!ContentIsAlwaysTheCards` | `S => ContentFromCard` if `DeckNamed` |
| `CardsProofs!CardsAreAlwaysListed` | `S => []CardsListed` if `DeckNamed` and `Clear` |
| `FileOpsProofs!FilesAreATree` | `S => []FilesInv` |
| `FileOpsProofs!CreatingDoesWhatItSays` | `S => []CreatesWhatItSays` |
| `FileOpsProofs!PathsAlwaysLead` | `S => []PathsLeadWhereNamed` |
| `FileOpsProofs!ClimbingVisitsEveryParent` | `S => ClimbsByOneName` |
| `ModelRootProofs!GitIsBalanced` | `S => []GitInv` |
| `ModelRootProofs!RootAlwaysOpenRepo` | `S => []RootIsOpenRepo` |
| `ModelRootProofs!ModelAlwaysRestores` | `S => []ModelRestores` |
| `ModelRootProofs!SetAlwaysOpensWhatWasNamed` | `S => []SetOpensWhatWasNamed` |
| `ModelRootProofs!NoIsAlwaysExplained` | `S => []EnteredNoIsExplained`: a directory that can be entered is not refused without an error |
| `ModelRootProofs!ExistsAlwaysMeansBelow` | `S => []ExistsMeansBelow` |
| `ServerProofs!ServerTypesHold` | `S => []ServerTypeOK` |
| `ServerProofs!AlwaysExitsClean` | `S => []ExitsClean` |
| `ServerProofs!AlwaysServesItsRoot` | `S => []ServesItsRoot` if `Start \notin Unsearchable` |
| `ScheduleProofs!WriteThenRead` | a time that is written is read back |
| `ScheduleProofs!ReadThenWrite` | a text that is read is written back, but for December and minutes past 59 |
| `ScheduleProofs!WrittenIsAlwaysRead` | `S => WrittenIsRead` |
| `ScheduleProofs!ReadIsAlwaysWritten` | `S => ReadIsWritten` |
| `ScheduleProofs!ComparesChronologically` | `S => CompareIsChronological` |

*MemStack.* `Inv` is inductive. Its conjuncts need each other: the assertion
`count <= capacity` holds after a push because there was room for one before;
room after a refused `realloc` needs the count restored first; `top` is current
after it because `Revert` recomputes it. Between the helper calls of one
operation the struct is weaker than `Inv`, which is what `Usable` describes;
`Sound` is `Inv` for a struct with memory. `CapacityExceedsCount` is the
arithmetic fact about the two thresholds, `UpdateCapacityKeeps` what a
reallocation preserves. There is one lemma per operation. For `NoThrash` each
outcome of SetCapacity is held against both thresholds at the new count. The
refinement uses the mapping of the run: under `Inv` every successful operation
is the abstract one, because the cells below `count` survive the move of the
array, and every refused one is a stutter, because Revert restores the count.

*DirStack.* `NoResidue` and `Bracketed` speak about the time between calls and
are not inductive. `IInv` says what holds at every step: `ResidueBound` allows
one extra string while a PushCWD is between its save and its return (`Saving`),
and `Matched` says the extra string is the directory the call came from, which
at the earlier point "push" needs the cache to agree with it, whence
`CacheCoherent` is part of the invariant. There is one lemma per action.
`PopReturnsToOwed` holds even after failures, when the stack and what callers
owe no longer agree: `OwedInv` says that the stack is embedded in the list of
debts in its order (`Embeds`, an increasing map of positions), and every step
keeps such a map, shortens it or extends it by its last position.

*TreeWalk.* `DepthCountsPushes` and `CwdRestored` speak of some points of the
walk. `Course` says at every point how many entries of the stack are the
walk's: `Own(n)` is the caller's stack with n entries on it of which the first
is the caller's directory, and `Counts(depth, n)` that n differs from `depth`
by a multiple of `SizeModulus`, since the counter wraps. The course is kept
only while every frame has pushed what it will pop. A frame that fails before
it has pushed pops all the same; it has the result false, hence `Good`: the
course is claimed while the top frame's result is true, or under `Calm`, where
no frame can fail before its push. A false result travels outwards, so it
cannot end as true, which is `TrueMeansRestored`. `Calm` (nothing vanishes,
nothing is denied, walks start at absolute names) is the setting of the run
`treewalk`; that `depth` is the count itself and not only congruent to it needs
`MaxDepth < SizeModulus`, as `owed` bounds the stack.

What a walk has shown is followed along its trail: the frames hold one
directory each (`Held` of them), of which all but the last are on the stack
(`Trail`), and between them and the next one the walk may be on its way
(`Entering`). For `WholeTreeVisited` the invariant is `WholeSoFar`: every entry
of a held directory is still to be read, has been shown, or is being shown; and
every directory the callback asked for is complete, held, or being entered. At
the end nothing is held, so all are complete. It is claimed while no frame has
failed (`Going`) and no stream was cut. For `VisitedOnce` it is `FreshSoFar`:
what a held directory has left to be read has not been shown, and no directory
is entered that has been shown from. The latter needs that two names do not
lead to one directory and that the trail never meets itself: `Tree` says that
some rank grows from each directory to its children and that each directory is
the child of one only, and `Level` of the trail increases. The tree of
`MC_TreeWalk` is such a tree, and the run `treewalk` has the constants of
`Calm`.

*Cards.* `ValidTimesKept` is an action property over steps that are now apart:
`OverwritesNoTime` carries to the point of writing that the file of the directory
the process is in was found unreadable and still is, unless a file call has
failed there or somebody has written there (`spoiled`), also when the callback
works in the wrong directory. `AddedIsRemembered` is about the end of a call;
`MadeTold` says it of the card being made, at each point between its reading and
its saving, and `ListTold` of every listed card. A card that vanishes takes its files with
it, so `GoneUntouched` is needed of the directory whose name is still cached.
`CallerRestored` is the fullest use of the walk's lemmas: `CallCourse` says at
each point of GetAll how many entries are its own (`PushingOf`, `PoppingTo`
within an operation of DirStack), `TwoBelow` that the walk's base is two
entries above the caller's stack, `WalkCourse` that within the walk the walk's
own course holds and within the callback (`CardCourse`) one more entry at most.
TLC checked `CardsCourseInv` on the instance of the run `cards` before it was
proved. It is there that `~failed` was found to be needed.

`ContentFromCard` and `CardsListed` ask where the process is rather than how
high the stack. `Located` says it for each step of a call: it is in the
directory (`WorksIn`, which allows that the directory has been removed
meanwhile), a push is on its way to it (`BoundFor`), came from it (`LeftFrom`), or a
pop is to return to it (`OnTop`, `BackTo`). `OneByOne` says that the listed
names are distinct and none of them is still to be read; as get_cards never
answers RECURSE there is one frame. `NoneLost` says that a card that has been
there all the time is listed or still to be read or being read, at every step
of the walk. To find each step's directory there, `Chained` is needed: a
directory that has been there all the time was there with its parents. The
hypotheses are on the tree only. `DeckNamed`: the deck and its cards directory
are among the directories, present or not; without it there is nothing to list.
`Clear`: directories are a tree, every one can be read and no stream ends
early; where a stream ends early the code lists less without noticing.
Both hold of the instance of the run `cards`.

*FileOps.* The constants are assumed to be what they are meant to be: paths and
names are sequences, the extension has no separator, the initial trees are
trees (`IsTree`), and others do not remove the top directory. `Names` is a recursive
function over the offsets of a path (`Along` in `Paths`). What it gives is
proved by induction over a length, where the induction is over the set of
lengths for which the fact holds (`BoundedInduction`, from the least number of
a set): the names along a joined path are those along both parts (`AlongJoin`,
`NamesJoin`), a path can be cut at any separator (`SplitAt`), and a last name
is what climbing drops (`UpIndexIs`, `ClimbIs`). GetFull gives the names of the
working directory and then those of its argument, for every absolute working
directory and every argument, an absolute one too (`FullLeads`). The greatest and least offsets
of Paths exist and are where they should be (`TrimIs`, `LeftIs`, `RightIs`,
`ConcatIs`), and that is what the four conjuncts of `PathsLeadWhereNamed` and
`ClimbsByOneName` come down to.
`FilesIInv` strengthens `FilesInv`: which call is at which step (`InCall`), that
an offset reached in a path is at an end or behind a separator (`Behind`, in
`FilesTypes`), and that what Dir_Create is about to confirm, or GetLength to
measure, is there unless another process has interfered (`JustMade`), whence
`EndedByOthers`. That a rename leaves a tree (`RenameKeepsTree`) is a lemma of
its own: the way to what has moved is the way to the target and, below it, the
way within what was moved. `CreatesIInv` carries a creation from its start to
its answer: as long as nobody interferes and nothing fails, the tree is the
tree before with the prefixes of the path up to `at` (`SoFar`), and `ok` is
exactly that the last component was made and not met (`Exactly`), which fails
for a path that ends with two separators, as the code does. TLC checked both
invariants on the run `files` before they were proved.

*ModelRoot.* `Base` has the types, DirStack's `IInv` and `GitInv`, which is
inductive together with them: `InitsAreOpens` follows each initialisation to
the open or create it belongs to, through every place where Create stops.
`RootInv` adds what holds between the calls within SetRoot and CreateAndSetRoot
(`BetweenRoots`) and which of the old pair or none is left (`PairKept`).
`RestoreInv` is the counterpart of the cards' course: `AtHome` where a call has
no push of its own, `Away` where it has one. `NamedInv` carries what the path
named at the beginning to the point where it is opened. For `ExistsMeansBelow`
the search of repositories goes on only from a directory that has not the root
on its line, and then neither has the one asked about (`Found`); while it
finds repositories below the root the two agree on whether the root is on
their line. The header promises an error with every negative answer of
IsValidRoot, which gives none for a directory it cannot enter;
`EnteredNoIsExplained` is what is left of the promise. The tree is finite
(`FiniteAssumption`) and without cycles (`TreeAssumption`); that `Up` and `Line`
mean what they should is shown by induction on the distance, over the set of
distances for which the fact holds (`BoundedInduction`).

*Server.* Most steps of the server are steps of the model (`ModelPart`), so
`Base` carries over; the rest of `ServerInv` is the server's own. Of the model
it calls only SetRoot, at the start and at the end: `MainCalls` says where such
a call can be, and `StackCourse` what it has on the stack there, so that
nothing is saved between the two calls. `EndInv` follows the last poll to the
closed log. For `ServesItsRoot` the question is where the process is when
SetRoot opens a document root given by a relative name, since it has just been
in that directory to look for a file. `StartCourse` says that it is back at the
start then, or nowhere: the pop fails only if the start has been removed, and a
directory cannot be removed while its child, in which the process would be, is
there (`CwdIsThere`, `Visiting`). A server without a document root calls
SetRoot(NULL), which succeeds and leaves no root (`HasRoot` has both cases).
`RootSet` and `Unserved` take the opened root
from there to the polls, and `AnswersInv` to the answers. The theorem needs
that the process can search the directory it starts in. Otherwise the model has
SetRoot visit a relative root, fail to return and look up the name from inside
it; a real system refuses the name at once, because `Resolve` looks only at the
directory a name leads to and not at the one it is read in. TLC shows the
counterexample with `Unsearchable = {home}` and a repository in the deck too.

*Schedule.* A text and a time are the same record if every field fits its
width; the bounds that ToString and FromString check are compared field by
field. Compare subtracts fields, and is shown to be the lexicographic order.
The theorems about the run carry the facts through any sequence of calls.

Only model-checked:

- `CardsListed` where directories cannot be read or streams end early, and the
  walk's properties outside `Calm`, where starts are relative names or
  directories vanish, but for what `DepthIsAlwaysExact` and
  `TrueAlwaysMeansRestored` say of it.
- `AnswersTheNamedLine`, which also holds only where every line has room in
  the buffer (`CARD_ID_MAX`). `Seek` counts newlines by a set and `LineSet` by
  `SelectSeq`, which is a recursion over the characters: that the two agree is
  checked on the schedules of the run. `SelectSeq` is a recursive operator of
  the library, which the provers here cannot unfold.
- Liveness (`OperationsReturn`, `WalkReturns`, `GetAllReturns`, `ModelReturns`,
  `FilesReturn`, `RequestsEnd`): TLAPS has no fairness reasoning through
  ENABLED.

## 5. Not modelled

- The lifetimes of C strings. In particular PopCWD(NULL) neither stores nor
  frees the name it popped although the header says it will be freed, and
  Iterate logs through a pointer that may have been freed.
- `srsDir_GetCWD` returns its cached name when the directory is gone, where
  the header promises NULL. The model shows it; `CacheCoherent` states what
  does hold.
- The abort of PushCWD in a removed working directory is a step of DirStack
  (`status`), and no property forbids it.
- A directory that can be read but not entered makes a recursing walk open its
  own parent again, without end: the consequence of PushCWD's return value that
  `push_failure_reported` shows. Instances with liveness leave that directory
  out; `treewalk_removed` has it and bounds the nesting with `MaxDepth`.
- In `Cards`, `git_repository_discover` finds the root's repository from any
  deck that is there; the search itself, with repositories nested in decks, is
  ModelRoot's.
- Bare repositories, symbolic links, and sibling directories of which one's
  name is the beginning of the other's (ExistsInRoot compares prefixes of
  strings).
- The lengths of paths against `srsPATH_MAX`, and srsPath_GetFull with a buffer
  that holds less than the result: realpath's name is copied without a bound.
- What mongoose does with connections, static files and its options; the JSON
  of the answers.
- The text of the error record, and the log's line number, which is counted
  from the end of a file opened for appending and so is always 0.
- kioku_path_replace_separators, which changes nothing on a POSIX system,
  srsGit_Repo_Clone, which is compiled out, kioku_model_load_userlist, which
  nobody calls, and everything for Windows.
- The content of cards, file lengths, and permissions other than those of
  directories.

Known divergences that the models contain and no run is about:

- Pop without data_out whose shrinking `realloc` is refused writes through the
  null pointer (status "crashed" of MemStack and DirStack), although
  `datastructure.c:193` says that no output is fine.
- Iterate returns true although it did not restore the caller when a directory
  of the walk has vanished; a missing or unreadable directory is popped without
  having been pushed, and `depth` wraps. `TrueMeansRestored` and `WalkInv` say
  what holds. So GetAll takes its caller's directories off the stack, all of
  them, when the cards directory vanishes between its check and the walk's:
  the walk pops what it never pushed, its counter wraps, and its last loop
  (`filesystem.c:1067`) makes 2^64-1 turns: it empties the stack in the first
  few and goes on calling PopCWD, so that for all practical purposes GetAll
  hangs. `CallerRestored` is stated with `~failed` and `GetAllReturns` with
  `Wrapped` for that reason; without them TLC finds this run.
- Iterate returns true although a directory stream could not be advanced and
  part of the tree was not shown (`filesystem.c:1042`).
- A card whose folder vanishes before get_cards enters it is listed with the
  path of the directory the process is in, whose files are read and repaired,
  and get_cards pops an entry of the walk (`card.c:20`).
- Nobody asks whether a time file could be read or written (`card.c:29`, 34,
  37, 42): a valid file that cannot be opened for once is overwritten with the
  present time, what an editor writes between the read and the write is lost,
  and after a failed write a card is listed with a time its file does not tell.
  `AddedIsRemembered` and `ValidTimesKept` except exactly the directories in
  which that has happened (`spoiled`).
- SetCWD empties the stack before it tries to change the directory
  (`filesystem.c:122`), so that after a failure no outer caller can return.
- IsValidRoot of a directory that cannot be entered answers false and sets no
  error (`model.c:92`), where `model.h:41` says "Error data will be set to
  indicate why it's invalid".
- srsPath_GetFull puts the working directory in front of its argument also when
  that is absolute (`filesystem.c:341`): from `/a`, `/b` becomes `/a/b`.
  `FullPathResolves` states what it does.
- The server answers 400 to a request for the next card of a deck that is not
  there (`server/main.c:77`), where `REST.md:37` has 404 and 500 only.
  `AnswersTheNamedLine` says of an error only that it is one.
- A server that is given no document root, and whose program name has no
  directory, calls SetRoot(NULL), which succeeds, and serves with no root.
- A time of December is read but cannot be written: the exception in
  `ReadIsWritten` and `ReadThenWrite`.
- A second commit, and a second file added, end the program (`Commits`,
  `OneEntry`); so does any error of libgit2 other than "not found".
- CreateRoot opens what it creates and leaves the old root set: the root is not
  the open repository until the next SetRoot. `RootIsOpenRepo` is stated with
  `~meddled` for that reason.
- Dir_Create of a path that ends with two separators makes the directory and
  reports a failure (`EndsTwice`); File_Create empties a file that appears
  after its check; SetContent does not notice that fclose failed; GetLength
  closes a null stream, which crashes, when the file cannot be opened or
  vanishes after its check (`filesystem.c:808`; `filesystem.h:220` says -1).
- ClearDirectoryStack retries a failing pop for ever when the allocator keeps
  refusing the shrink.
- A request for the next card may get a line of the new schedule for the number
  of the old one, and `/printcontent` is never answered.

## 6. Plan

Order follows what would hurt most. Done: 1 to 12.

1. `MemStack` and `Stack`, with the refinement.
2. `DirStack`, with the interference of other processes.
3. `TreeWalk` over DirStack.
4. `Schedule`, then `Cards` over TreeWalk and Schedule.
5. Proofs of MemStack, DirStack and Schedule.
6. `GitRepo`, then `ModelRoot` over it.
7. `Paths`, and `FileOps` over it.
8. `NextCard`.
9. `Server` over ModelRoot and NextCard.
10. Proofs of the walk, the cards, the model root with git, the refinement of
    `Stack`, and the run of the schedule.
11. Proofs of the server.
12. Proofs of the files and paths; that a walk shows the whole tree, and each
    entry once; that cards are listed once and their content is read from their
    own directory.

Left to TLC: that `Seek` and `LineSet` agree, and liveness.
