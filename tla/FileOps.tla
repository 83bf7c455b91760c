------------------------------- MODULE FileOps -------------------------------
(***************************************************************************)
(* Files and directories (src/src/filesystem.c): srsDir_Create and         *)
(* srsFile_Create, one step per system call and path component, the file   *)
(* contents, lengths, removals and renames, and the callers' use of Paths. *)
(* Other processes create and remove files between the system calls.       *)
(* Relative paths are read in the top directory; only srsPath_GetFull      *)
(* looks at the working directory, and is called from any.  There are no   *)
(* symbolic links.                                                         *)
(***************************************************************************)
EXTENDS Paths

CONSTANTS
    Args,          \* the paths callers use
    Cwds,          \* the working directories srsPath_GetFull is called from
    Ext,           \* the extension of a card's file
    Texts,         \* what they write, each a line
    InitialTrees,  \* what there may be at the beginning
    Shared,        \* places other processes create and remove
    Sizes,         \* sizes of the callers' buffers
    Outcome,       \* whether a system call succeeds that could
    MaxOps,        \* bound: calls
    MaxChanges     \* bound: changes by other processes

\* Whatever is there lies in directories, up to the top one.
IsTree(ds, fs) == /\ <<>> \in ds /\ ds \cap fs = {}
                  /\ \A place \in (ds \cup fs) \ {<<>>} : Front(place) \in ds

ASSUME ArgsAssumption    == \A path \in Args : path \in Seq(Range(path))
ASSUME CwdsAssumption    == \A cwd \in Cwds : cwd \in Seq(Range(cwd)) /\ Absolute(cwd)
ASSUME ExtAssumption     == Ext \in Seq(Range(Ext)) /\ Sep \notin Range(Ext)
ASSUME TreesAssumption   ==
    \A t \in InitialTrees : /\ IsTree(t.dirs, DOMAIN t.files)
                            /\ \A place \in t.dirs \cup DOMAIN t.files : place \in Seq(Range(place))
ASSUME SharedAssumption  == \A place \in Shared : place # <<>> /\ place \in Seq(Range(place))
ASSUME TextsAssumption   == <<>> \notin Texts
ASSUME OutcomeAssumption == TRUE \in Outcome /\ Outcome \subseteq BOOLEAN
ASSUME BoundsAssumption  == MaxOps \in Nat /\ MaxChanges \in Nat /\ Sizes \subseteq Nat

VARIABLES
    dirs,     \* the directories, each the names leading to it
    files,    \* the contents of the files
    fpc,      \* the next system call of the running operation
    op,       \* it and its arguments
    making,   \* the path that Dir_Create makes
    at,       \* how far it is in it, and where a caller climbing a path is
    ok,       \* its local result
    result,   \* whether the last operation succeeded
    out,      \* what it wrote to its output parameters
    alive,    \* "running", "aborted" (srsBAIL), "crashed"
    ops,      \* history: operations so far
    changes,  \* history: changes by other processes so far
    faulty,   \* history: a system call has failed that could have succeeded
    before    \* history: the tree when the operation began, and changes

local    == <<op, making, at, ok>>
tree     == <<dirs, files>>
histories == <<ops, changes, before>>
fileVars == <<tree, fpc, local, result, out, alive, histories, faulty>>

NoOut == [needed |-> 0, text |-> <<>>]
NoOp == [kind |-> "none", path |-> <<>>, other |-> <<>>, size |-> 0]

FilesInit == /\ \E t \in InitialTrees : dirs = t.dirs /\ files = t.files
             /\ fpc = "idle" /\ op = NoOp
             /\ making = <<>> /\ at = 0 /\ ok = FALSE
             /\ result = FALSE /\ out = NoOut
             /\ alive = "running"
             /\ ops = 0 /\ changes = 0 /\ faulty = FALSE
             /\ before = [dirs |-> dirs, files |-> files, changes |-> 0]

-----------------------------------------------------------------------------
(* The file system                                                         *)

\* srsPath_Exists, srsFile_Exists and srsDir_Exists of a path: a file is not
\* found under a path that ends with a separator.
Kind(path) == CASE path = <<>> -> "none"
                [] path # <<>> /\ Names(path) \in dirs -> "dir"
                [] path # <<>> /\ Names(path) \in DOMAIN files /\ Last(path) # Sep -> "file"
                [] OTHER -> "none"

Free(place) == place \notin dirs /\ place \notin DOMAIN files
CanMake(path) == path # <<>> /\ Free(Names(path)) /\ Front(Names(path)) \in dirs

\* fopen for writing
CanWrite(path) == /\ path # <<>> /\ Last(path) # Sep
                  /\ Names(path) \notin dirs /\ Front(Names(path)) \in dirs
Put(place, content) == [f \in DOMAIN files \cup {place} |-> IF f = place THEN content ELSE files[f]]

HasChild(place) == \E q \in dirs \cup DOMAIN files : q # <<>> /\ Front(q) = place

Running(p) == alive = "running" /\ fpc = p

\* A system call that could succeed, and whether it does.
Attempt(done) == faulty' = (faulty \/ ~done)

Enters(kind, path, other, size) ==
    /\ Running("idle")
    /\ ops < MaxOps
    /\ op' = [kind |-> kind, path |-> path, other |-> other, size |-> size]
    /\ before' = [dirs |-> dirs, files |-> files, changes |-> changes]
    /\ ok' = FALSE
    /\ UNCHANGED <<tree, alive, changes, faulty>>

Begins(kind, path, other, size) == Enters(kind, path, other, size) /\ ops' = ops + 1

\* A computation leaves nothing a later call sees: it is the only call.
Alone(kind, path, other, size) ==
    Enters(kind, path, other, size) /\ ops = 0 /\ ops' = MaxOps

Refuse   == fpc' = "idle" /\ result' = FALSE /\ out' = NoOut /\ UNCHANGED <<making, at>>
Goes(p)  == fpc' = p /\ out' = NoOut /\ UNCHANGED <<making, at, result>>
Gives(r) == fpc' = "idle" /\ result' = r /\ UNCHANGED <<local, out>>
Computes(o) == fpc' = "idle" /\ result' = (o.needed > 0) /\ out' = o /\ UNCHANGED <<making, at>>

-----------------------------------------------------------------------------
(* srsDir_Create: every component is checked not to be a file and made;    *)
(* only the last mkdir counts.                                             *)

NextSep(path, i) == Least({Len(path)} \cup {j \in i..(Len(path) - 1) : IsSep(path, j)})
Component == Slice(making, 0, NextSep(making, at))
Onward_Stays(path, i) == NextSep(path, i)
Onward(path, i) == IF NextSep(path, i) < Len(path) THEN NextSep(path, i) + 1 ELSE Len(path)

Makes(path) == making' = path /\ at' = 0 /\ fpc' = "component" /\ out' = NoOut /\ UNCHANGED result

DirCreate(path) == Begins("dir_create", path, <<>>, 0) /\ Makes(path)

\* File_Create goes on whatever Dir_Create returns.
DirCreated(made) ==
    /\ ok' = made
    /\ IF op.kind = "dir_create" THEN fpc' = "idle" /\ result' = made
       ELSE fpc' = "open" /\ UNCHANGED result

Blocked(path) == Kind(path) = "file"
CheckComponent ==
    /\ Running("component")
    /\ IF at < Len(making)
       THEN IF Blocked(Component) THEN DirCreated(FALSE) ELSE fpc' = "mkdir" /\ UNCHANGED <<ok, result>>
       ELSE IF ok THEN fpc' = "verify" /\ UNCHANGED <<ok, result>> ELSE DirCreated(FALSE)
    /\ UNCHANGED <<tree, op, making, at, out, alive, histories, faulty>>

MakeComponent ==
    /\ Running("mkdir")
    /\ \E done \in (IF CanMake(Component) THEN Outcome ELSE {FALSE}) :
         /\ ok' = done
         /\ dirs' = IF done THEN dirs \cup {Names(Component)} ELSE dirs
         /\ Attempt(done \/ ~CanMake(Component))
    /\ at' = Onward(making, at)
    /\ fpc' = "component"
    /\ UNCHANGED <<files, op, making, result, out, alive, histories>>

\* srsBAIL if what was just made is not there.
VerifyDir ==
    /\ Running("verify")
    /\ IF Kind(making) = "dir" THEN DirCreated(TRUE) /\ UNCHANGED alive
       ELSE alive' = "aborted" /\ UNCHANGED <<fpc, ok, result>>
    /\ UNCHANGED <<tree, op, making, at, out, histories, faulty>>

-----------------------------------------------------------------------------
(* srsFile_Create                                                          *)

ParentOf(path) == Slice(path, 0, Greatest({0} \cup {j \in 0..(Len(path) - 1) : IsSep(path, j)}))

Creatable_Overwrites(path) == path # <<>> /\ Last(path) # Sep /\ Kind(path) # "dir"
Creatable(path) == path # <<>> /\ Last(path) # Sep /\ Kind(path) = "none"
FileCreate(path) ==
    /\ Begins("file_create", path, <<>>, 0)
    /\ IF Creatable(path) THEN Makes(ParentOf(path)) ELSE Refuse

\* fopen truncates a file that has appeared, and fclose may fail after it.
OpenNew ==
    /\ Running("open")
    /\ \E opened \in (IF CanWrite(op.path) THEN Outcome ELSE {FALSE}), closed \in Outcome :
         /\ files' = IF opened THEN Put(Names(op.path), <<>>) ELSE files
         /\ Attempt((opened \/ ~CanWrite(op.path)) /\ closed)
         /\ Gives(opened /\ closed)
    /\ UNCHANGED <<dirs, alive, histories>>

-----------------------------------------------------------------------------
(* Contents and lengths: each checks for a file first and opens it then.   *)

OnFile(kind, path, text, next) ==
    /\ Begins(kind, path, text, 0)
    /\ IF Kind(path) = "file" THEN Goes(next) ELSE Refuse

SetContent(path, text) == OnFile("set_content", path, text, "write")
GetContent(path)       == OnFile("get_content", path, <<>>, "read")
GetLength_Unchecked(path) == Begins("get_length", path, <<>>, 0) /\ Goes("length")
GetLength(path)        == OnFile("get_length", path, <<>>, "length")

\* fputs may fail and is reported; fclose, which writes what is buffered, may
\* fail and is not.
WriteContent ==
    /\ Running("write")
    /\ \E opened \in (IF CanWrite(op.path) THEN Outcome ELSE {FALSE}), put, closed \in Outcome :
         /\ files' = IF opened THEN Put(Names(op.path), IF put /\ closed THEN op.other ELSE <<>>)
                     ELSE files
         /\ Attempt((opened \/ ~CanWrite(op.path)) /\ put /\ closed)
         /\ Gives(opened /\ put)
    /\ UNCHANGED <<dirs, alive, histories>>

\* The first line, if there is one.
ReadContent ==
    /\ Running("read")
    /\ \E opened \in (IF Kind(op.path) = "file" THEN Outcome ELSE {FALSE}) :
         /\ Attempt(opened \/ Kind(op.path) # "file")
         /\ out' = [NoOut EXCEPT !.text = IF opened THEN files[Names(op.path)] ELSE <<>>]
         /\ fpc' = "idle" /\ result' = (out'.text # <<>>)
    /\ UNCHANGED <<tree, local, alive, histories>>

\* fclose of a file that could not be opened crashes.
ReadLength ==
    /\ Running("length")
    /\ \E opened \in (IF Kind(op.path) = "none" THEN {FALSE} ELSE Outcome) :
         /\ Attempt(opened \/ Kind(op.path) = "none")
         /\ IF opened THEN Gives(TRUE) /\ UNCHANGED alive
            ELSE alive' = "crashed" /\ UNCHANGED <<fpc, local, result, out>>
    /\ UNCHANGED <<tree, histories>>

-----------------------------------------------------------------------------
(* srsPath_Remove and srsPath_Move                                         *)

PathRemove(path) ==
    /\ Begins("remove", path, <<>>, 0)
    /\ CASE Kind(path) = "none" -> Refuse
         [] Kind(path) = "dir" -> Goes("rmdir")
         [] OTHER -> Goes("unlink")

\* rmdir takes an empty directory, remove that or a file.
RemoveIt(p, kinds) ==
    /\ Running(p)
    /\ LET place == Names(op.path)
           can   == Kind(op.path) \in kinds /\ place # <<>> /\ ~HasChild(place)
       IN  \E done \in (IF can THEN Outcome ELSE {FALSE}) :
             /\ dirs'  = IF done THEN dirs \ {place} ELSE dirs
             /\ files' = IF done THEN [f \in DOMAIN files \ {place} |-> files[f]] ELSE files
             /\ Attempt(done \/ ~can)
             /\ Gives(done)
    /\ UNCHANGED <<alive, histories>>
Rmdir  == RemoveIt("rmdir", {"dir"})
Unlink == RemoveIt("unlink", {"dir", "file"})

Moved(place, old, new) ==
    IF IsPrefix(old, place) THEN new \o SubSeq(place, Len(old) + 1, Len(place)) ELSE place

\* rename: a file takes the place of a file, a directory that of an empty one.
CanMove(path, new) ==
    LET a == Names(path)
        b == Names(new)
    IN  /\ Kind(path) # "none" /\ a # <<>> /\ b # <<>> /\ new # <<>> /\ Front(b) \in dirs
        /\ Kind(path) = "file" => b \notin dirs /\ Last(new) # Sep
        /\ Kind(path) = "dir" => /\ b \notin DOMAIN files /\ (~HasChild(b) \/ a = b)
                                 /\ ~IsStrictPrefix(a, b)

PathMove(path, new) ==
    /\ Begins("move", path, new, 0)
    /\ Goes("rename")

Rename ==
    /\ Running("rename")
    /\ LET a   == Names(op.path)
           b   == Names(op.other)
           can == CanMove(op.path, op.other)
       IN  \E done \in (IF can THEN Outcome ELSE {FALSE}) :
             /\ IF done
                THEN /\ dirs' = {Moved(d, a, b) : d \in dirs}
                     /\ files' = [f \in {Moved(g, a, b) : g \in DOMAIN files} |->
                                    files[CHOOSE g \in DOMAIN files : /\ Moved(g, a, b) = f
                                                                      /\ g = b => a = b]]
                ELSE UNCHANGED tree
             /\ Attempt(done \/ ~can)
             /\ Gives(done)
    /\ UNCHANGED <<alive, histories>>

-----------------------------------------------------------------------------
(* The callers of Paths                                                    *)

Joins(path, other, size) ==
    /\ Alone("concat", path, other, size)
    /\ Computes([needed |-> Len(Concat(path, other)), text |-> Stored(Concat(path, other), size)])

CardPaths(deck, card, size) ==
    /\ Alone("card_path", deck, card, size)
    /\ Computes(CardPath(deck, card, Ext, size))

\* realpath of an absolute name
Whole(names) == LET whole[n \in 0..Len(names)] ==
                        IF n = 0 THEN <<>> ELSE whole[n - 1] \o <<Sep>> \o names[n]
                IN  whole
Real(path) == IF Kind(path) = "none" \/ ~Absolute(path) THEN <<>>
              ELSE IF Names(path) = <<>> THEN <<Sep>>
              ELSE Whole(Names(path))[Len(Names(path))]

\* cwd is what srsDir_GetCWD answers: it is joined with any path, also with an
\* absolute one.
FullPath(path, cwd, size) ==
    /\ Alone("full", path, cwd, size)
    /\ Computes(GetFull(cwd, path, size, Real(Asked(cwd, path, size))))

\* for (i = strlen(path); i > -1; i = kioku_path_up_index(path, i))
Climbs(path) ==
    /\ Alone("climb", path, <<>>, 0)
    /\ path # <<>>
    /\ fpc' = "climb" /\ at' = Len(path)
    /\ out' = NoOut
    /\ UNCHANGED <<making, result>>

ClimbOn ==
    /\ Running("climb")
    /\ at' = PathUpIndex(op.path, at)
    /\ fpc' = IF at' > -1 THEN "climb" ELSE "idle"
    /\ UNCHANGED <<tree, op, making, ok, result, out, alive, histories, faulty>>

-----------------------------------------------------------------------------
Other(newDirs, newFiles) ==
    /\ alive = "running"
    /\ changes < MaxChanges
    /\ changes' = changes + 1
    /\ dirs' = newDirs /\ files' = newFiles
    /\ UNCHANGED <<fpc, local, result, out, alive, ops, faulty, before>>

OtherMakesDir(place)  == Free(place) /\ Front(place) \in dirs /\ Other(dirs \cup {place}, files)
OtherWrites(place, text) ==
    Front(place) \in dirs /\ place \notin dirs /\ Other(dirs, Put(place, text))
OtherRemoves(place) ==
    /\ ~Free(place) /\ ~HasChild(place)
    /\ Other(dirs \ {place}, [f \in DOMAIN files \ {place} |-> files[f]])

Calls == \E path \in Args :
           \/ DirCreate(path) \/ FileCreate(path)
           \/ \E text \in Texts : SetContent(path, text)
           \/ GetContent(path) \/ GetLength(path) \/ PathRemove(path)
           \/ \E new \in Args : PathMove(path, new)
           \/ \E other \in Args, size \in Sizes :
                Joins(path, other, size) \/ CardPaths(path, other, size)
           \/ \E cwd \in Cwds, size \in Sizes : FullPath(path, cwd, size)
           \/ Climbs(path)

SystemCall == \/ CheckComponent \/ MakeComponent \/ VerifyDir \/ OpenNew
              \/ WriteContent \/ ReadContent \/ ReadLength
              \/ Rmdir \/ Unlink \/ Rename \/ ClimbOn

Others == \E place \in Shared :
            \/ OtherMakesDir(place) \/ OtherRemoves(place)
            \/ \E text \in Texts : OtherWrites(place, text)

FilesNext == Calls \/ SystemCall \/ Others

\* One thread: what the library has begun it continues.
FilesSpec == FilesInit /\ [][FilesNext]_fileVars /\ WF_fileVars(SystemCall)

-----------------------------------------------------------------------------
(* Properties                                                              *)

FilesTypeOK ==
    /\ IsTree(dirs, DOMAIN files)
    /\ fpc \in {"component", "mkdir"} => at \in 0..Len(making)
    /\ fpc = "climb" => at \in 0..Len(op.path)
    /\ ok \in BOOLEAN /\ result \in BOOLEAN
    /\ alive \in {"running", "aborted", "crashed"}
    /\ out.needed \in Nat /\ ops \in 0..MaxOps /\ changes \in 0..MaxChanges

Returned(kinds) == Running("idle") /\ op.kind \in kinds
Quiet == changes = before.changes

Was(place) == place \in before.dirs \cup DOMAIN before.files

\* Creating makes nothing but the directories along the path and the file, and
\* no call but a removal, a rename or a SetContent changes what is there:
\* whatever fails half-way, if nobody interferes.
OnlyThePathAdded ==
    Quiet /\ op.kind \in {"dir_create", "file_create"} =>
        /\ before.dirs \subseteq dirs /\ dirs \subseteq before.dirs \cup Prefixes(Names(op.path))
        /\ DOMAIN before.files \subseteq DOMAIN files
        /\ \A f \in DOMAIN before.files : files[f] = before.files[f]
        /\ DOMAIN files \ DOMAIN before.files \subseteq
               IF op.kind = "file_create" THEN {Names(op.path)} ELSE {}

FileInTheWay(path) == \E place \in Prefixes(Names(path)) : place \in DOMAIN before.files
EndsTwice(path) == Len(path) > 1 /\ Last(path) = Sep /\ Last(Front(path)) = Sep

\* Dir_Create succeeds if and only if the directory was not there and could be
\* made with all its parents: but for a path with two separators at its end,
\* whose directory is made and reported as a failure.
DirCreateAnswers ==
    Returned({"dir_create"}) /\ Quiet =>
        /\ result => Names(op.path) \in dirs /\ ~Was(Names(op.path))
        /\ ~faulty => result = (/\ op.path # <<>> /\ ~EndsTwice(op.path)
                                /\ ~Was(Names(op.path)) /\ ~FileInTheWay(op.path))
        /\ ~faulty /\ op.path # <<>> /\ ~FileInTheWay(op.path) => Names(op.path) \in dirs

\* File_Create succeeds if and only if nothing was there and the parents could
\* be made, and leaves an empty file; it ignores that Dir_Create refuses
\* parents that are there.
FileCreateAnswers ==
    Returned({"file_create"}) /\ Quiet =>
        /\ result => ~Was(Names(op.path)) /\ Names(op.path) \in DOMAIN files
        /\ ~faulty => result = (/\ op.path # <<>> /\ Last(op.path) # Sep
                                /\ ~Was(Names(op.path)) /\ ~FileInTheWay(op.path))

\* What creating does, and nothing else.
CreatesWhatItSays == OnlyThePathAdded /\ DirCreateAnswers /\ FileCreateAnswers

\* The program is only ended by a call that another process interferes with or
\* the system refuses: never by a path or by what is there.
EndedByOthers == alive # "running" => ~Quiet \/ faulty

\* The invariant of the file operations: the directories and files are a tree,
\* the offsets stay in their paths, and the program survives.
FilesInv == FilesTypeOK /\ EndedByOthers

\* Every operation returns: the loop over the components ends, and a climb.
FilesReturn == fpc # "idle" ~> (fpc = "idle" \/ alive # "running")

\* A joined path leads along the names of both, from the top if and only if
\* the first does, and its length does not depend on the room there is.
JoinLeadsAlongBoth ==
    Returned({"concat"}) =>
        LET room == out.needed < op.size
        IN  /\ out.needed = Len(Concat(op.path, op.other))
            /\ Len(out.text) < op.size \/ op.size = 0
            /\ room => /\ Len(out.text) = out.needed
                       /\ Names(out.text) = Names(op.path) \o Names(op.other)
                       /\ op.path # <<>> => Absolute(out.text) = Absolute(op.path)

\* The path of a card's file is a name in the deck for every buffer it is
\* written to: never cut off, never past the end of the buffer.
CardFileInDeck ==
    Returned({"card_path"}) /\ result /\ Names(op.other) # <<>> =>
        LET card == Names(op.other)
        IN  /\ Len(out.text) < op.size
            /\ Names(out.text) = Names(op.path) \o Front(card) \o <<Last(card) \o Ext>>

\* With room for it, a path is resolved to the place it leads to from the
\* working directory, wherever that is, and what is returned is the length of
\* that name.  An absolute path is no exception: from /a, /b resolves to /a/b.
FullPathResolves ==
    Returned({"full"}) /\ out.needed < op.size /\ Len(Concat(op.other, op.path)) < op.size /\ result =>
        /\ out.needed = Len(out.text)
        /\ Names(out.text) = Names(op.other) \o Names(op.path)
        /\ Absolute(out.text)

\* Every path that is computed leads where it is meant to.
PathsLeadWhereNamed == JoinLeadsAlongBoth /\ CardFileInDeck /\ FullPathResolves

\* Climbing a path as the header says visits every parent once, nearest first,
\* and ends where no name is left.
ClimbsByOneName ==
    [][fpc = "climb" /\ UNCHANGED changes =>
         LET names(i) == Names(Slice(op.path, 0, i))
         IN  /\ at' < at
             /\ at' > -1 => names(at') = Front(names(at))
             /\ at' = -1 <=> Len(names(at)) <= 1]_fileVars
=============================================================================
