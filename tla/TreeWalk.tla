------------------------------ MODULE TreeWalk ------------------------------
(***************************************************************************)
(* srsFileSystem_Iterate (src/src/filesystem.c) walking a directory tree   *)
(* through the working-directory stack of DirStack: each directory it      *)
(* enters is a PushCWD, each one it leaves a PopCWD, and `depth' counts    *)
(* what Iterate thinks is still pushed.  The callback decides what to do   *)
(* with every entry.  Other processes interleave at every system call.     *)
(***************************************************************************)
EXTENDS DirStack, FiniteSets

CONSTANTS
    FileName,     \* names of plain files
    Files,        \* Files[d]: the plain files in directory d
    IterateArgs,  \* the paths callers iterate over
    Actions,      \* what the callback may answer
    ReadOutcome,  \* whether opening and advancing a directory stream succeed
    CallerDepth,  \* bound: callers push at most this often before Iterate
    SizeModulus   \* one more than the largest size_t

ASSUME FilesAssumption   == Files \in [Dir -> SUBSET FileName] /\ NULL \notin FileName
ASSUME FileNameAssumption == FileName \cap (Name \cup Dir) = {}
ASSUME ActionsAssumption == Actions \subseteq {"RECURSE", "CONTINUE", "STOP", "EXIT"}
ASSUME ReadAssumption    == ReadOutcome \subseteq BOOLEAN
ASSUME ArgsAssumption    == IterateArgs \subseteq Argument \cup FileName
ASSUME CallerAssumption  == CallerDepth \in Nat
ASSUME SizeAssumption    == SizeModulus \in Nat \ {0}

VARIABLES
    wpc,      \* where the walk is
    frames,   \* the active Iterate_Internal calls, outermost first
    entry,    \* the path being entered or visited
    depth,    \* Iterate's count of directories to pop, a size_t
    exit,     \* exit_triggered
    outcome,  \* what Iterate returned
    base,     \* history: working directory and stack at the call of Iterate
    visited,  \* history: <<directory, entry, answer>> of every callback call
    cut       \* history: an answer or a failing stream has ended a directory

walk     == <<wpc, frames, entry, depth, exit, outcome, base, visited, cut>>
walkVars == <<frames, entry, depth, exit, outcome, base, visited, cut>>
history  == <<visited, cut>>
allVars  == <<vars, walk>>

WalkInit == /\ Init
            /\ wpc = "idle"
            /\ frames = <<>>
            /\ entry = NULL
            /\ depth = 0
            /\ exit = FALSE
            /\ outcome = FALSE
            /\ base = [cwd |-> NULL, stack |-> <<>>, start |-> NULL]
            /\ visited = {}
            /\ cut = FALSE

\* Where the walk may go on: no operation of DirStack is running.
Walking(p) == wpc = p /\ At("idle")

Entries(d) == IF d = NULL THEN {}
              ELSE {n \in Name : Child[d][n] \in present} \cup Files[d]

Frame(todo, result) == [todo |-> todo, result |-> result]
Top == Last(frames)
SetTop_NoAdvance(frame) == UNCHANGED frames
SetTop(frame) == frames' = Append(Front(frames), frame)

-----------------------------------------------------------------------------
(* The caller: it may have pushed directories of its own before it calls   *)
(* Iterate.                                                                *)

CallerPush(path) == /\ wpc = "idle"
                    /\ Len(owed) < CallerDepth
                    /\ PushCWD(path)
                    /\ UNCHANGED walk

Iterate(path) ==
    /\ Walking("idle")
    /\ entry' = path
    /\ base' = [cwd |-> sysCwd, stack |-> dirstack, start |-> Resolve(path)]
    /\ wpc' = "enter"
    /\ UNCHANGED <<vars, frames, depth, exit, outcome, history>>

-----------------------------------------------------------------------------
(* srsFileSystem_Iterate_Internal                                          *)

\* Its own existence check, and the jump to done when it fails.
Enter == /\ Walking("enter")
         /\ IF Dir_Exists(entry)
            THEN wpc' = "push" /\ UNCHANGED frames
            ELSE wpc' = "done" /\ frames' = Append(frames, Frame({}, FALSE))
         /\ UNCHANGED <<vars, entry, depth, exit, outcome, base, history>>

EnterPush == /\ Walking("push")
             /\ PushCWD_Missing(entry) \/ PushCWD(entry)
             /\ wpc' = "pushed"
             /\ UNCHANGED walkVars

\* Back from PushCWD: open the directory stream of ".".
Opened ==
    /\ Walking("pushed")
    /\ IF ret = NULL
       THEN /\ frames' = Append(frames, Frame({}, FALSE))
            /\ wpc' = "done"
            /\ UNCHANGED depth
       ELSE /\ depth' = (depth + 1) % SizeModulus
            /\ \E ok \in ReadOutcome :
                 /\ frames' = Append(frames, Frame(IF ok THEN Entries(sysCwd) ELSE {}, ok))
                 /\ wpc' = IF ok THEN "loop" ELSE "done"
    /\ UNCHANGED <<vars, entry, exit, outcome, base, history>>

LoopEnd == /\ Walking("loop")
           /\ Top.todo = {}
           /\ wpc' = "done"
           /\ UNCHANGED <<vars, walkVars>>

\* tinydir_readfile stats "./name": an entry the current directory does not
\* have is skipped.
LoopSkip(e) == /\ Walking("loop")
               /\ e \in Top.todo \ Entries(sysCwd)
               /\ SetTop([Top EXCEPT !.todo = @ \ {e}])
               /\ UNCHANGED <<vars, wpc, entry, depth, exit, outcome, base, history>>

LoopRead(e) == /\ Walking("loop")
               /\ e \in Top.todo \cap Entries(sysCwd)
               /\ SetTop([Top EXCEPT !.todo = @ \ {e}])
               /\ entry' = e
               /\ wpc' = "visit"
               /\ UNCHANGED <<vars, depth, exit, outcome, base, history>>

\* The callback asked to go into a directory.
Descends_Never(action) == FALSE
Descends(action) == action = "RECURSE" /\ entry \in Name

\* tinydir_next: a stream that cannot advance ends the directory.
Advance == \E ok \in ReadOutcome : /\ wpc' = IF ok THEN "loop" ELSE "done"
                                   /\ cut' = (cut \/ ~ok)

\* The switch on what the callback answered.  Recursing into a file continues.
Visited(action) ==
    /\ Walking("visit")
    /\ exit' = (exit \/ action = "EXIT")
    /\ visited' = visited \cup {<<sysCwd, entry, action>>}
    /\ CASE Descends(action) -> wpc' = "enter" /\ UNCHANGED cut
         [] action \in {"STOP", "EXIT"} -> wpc' = "done" /\ cut' = TRUE
         [] OTHER -> Advance
    /\ UNCHANGED <<vars, frames, entry, depth, outcome, base>>

\* The done label: pop, whether or not this call has pushed.
Done == /\ Walking("done")
        /\ PopCWD
        /\ wpc' = "popped"
        /\ UNCHANGED walkVars

\* A successful pop is one directory less to restore, in size_t arithmetic.
DepthAfterPop_Ignored == depth
DepthAfterPop == IF ret = TRUE THEN (depth - 1) % SizeModulus ELSE depth

\* Back from PopCWD: the outermost call returns to Iterate, an inner one to
\* the visit that recursed.
Popped ==
    /\ Walking("popped")
    /\ depth' = DepthAfterPop
    /\ IF Len(frames) = 1
       THEN /\ frames' = <<>>
            /\ outcome' = Top.result
            /\ wpc' = "unwind"
            /\ UNCHANGED cut
       ELSE LET parent == Last(Front(frames))
            IN  /\ frames' = Append(Front(Front(frames)), [parent EXCEPT !.result = Top.result])
                /\ IF ~Top.result \/ exit
                   THEN wpc' = "done" /\ UNCHANGED cut
                   ELSE Advance
                /\ UNCHANGED outcome
    /\ UNCHANGED <<vars, entry, exit, base, visited>>

\* Iterate pops what depth says is left, and ignores what PopCWD answers: a depth
\* that has wrapped takes SizeModulus - 1 turns, 2^64 - 1 in the code, and an
\* empty stack does not stop it.
Unwind == /\ Walking("unwind")
          /\ depth > 0
          /\ PopCWD
          /\ depth' = depth - 1
          /\ UNCHANGED <<wpc, frames, entry, exit, outcome, base, history>>

IterateReturn == /\ Walking("unwind")
                 /\ depth = 0
                 /\ wpc' = "returned"
                 /\ UNCHANGED <<vars, walkVars>>

-----------------------------------------------------------------------------
WalkStep == \/ Enter \/ EnterPush \/ Opened
            \/ LoopEnd
            \/ \E e \in Name \cup FileName : LoopSkip(e) \/ LoopRead(e)
            \/ Done \/ Popped \/ Unwind \/ IterateReturn

Background == (Steps \/ Environment) /\ UNCHANGED walk

Caller == \/ \E path \in Dir \cup Name : CallerPush(path)
          \/ \E path \in IterateArgs : Iterate(path)

WalkNext == \/ Caller
            \/ WalkStep
            \/ \E action \in Actions : Visited(action)
            \/ Background

\* The walk and the stack operations it calls go on; a callback returns.
WalkSpec == /\ WalkInit /\ [][WalkNext]_allVars
            /\ WF_allVars(WalkStep \/ \E action \in Actions : Visited(action))
            /\ WF_allVars(Steps /\ UNCHANGED walk)

-----------------------------------------------------------------------------
(* Properties                                                              *)

WalkTypeOK ==
    /\ TypeOK
    /\ wpc \in {"idle", "enter", "push", "pushed", "loop", "visit", "done",
                "popped", "unwind", "returned"}
    /\ frames \in Seq([todo : SUBSET (Name \cup FileName), result : BOOLEAN])
    /\ entry \in Argument \cup FileName
    /\ depth \in 0..(SizeModulus - 1)
    /\ exit \in BOOLEAN /\ outcome \in BOOLEAN
    /\ base \in [cwd : Dir \cup {NULL}, stack : Seq(Dir), start : Dir \cup {NULL}]
    /\ visited \subseteq ((Dir \cup {NULL}) \X (Name \cup FileName) \X Actions)
    /\ cut \in BOOLEAN

\* "will attempt to restore it by the time it returns": when nothing vanishes,
\* Iterate leaves the caller's working directory and every entry the caller had
\* pushed as they were, whatever the callback answers and reading fails.
CwdRestored ==
    wpc = "returned" /\ status = "running" => sysCwd = base.cwd /\ dirstack = base.stack

\* While directories come and go, an Iterate that returns true has restored the
\* caller's stack and directory (which may be gone by then, or have been gone
\* when it was called) as long as no chdir failed on the way.
TrueMeansRestored ==
    [][wpc' = "returned" /\ wpc # "returned" /\ outcome /\ ~disturbed =>
          /\ dirstack = base.stack
          /\ base.cwd # NULL => sysCwd \in {base.cwd, NULL}]_allVars

\* depth is the number of directories this walk has on the stack, between the
\* operations of an undisturbed walk.
DepthCountsPushes ==
    Walking("loop") \/ Walking("visit") =>
        /\ depth = Len(frames)
        /\ Len(dirstack) = Len(base.stack) + depth

\* When no answer and no failing stream has cut a directory short and Iterate
\* returns true, the callback has seen each entry of the start directory and of
\* every directory it asked to recurse into.
Seen(d, e) == \E action \in Actions : <<d, e, action>> \in visited
TreeShown == /\ \A e \in Entries(base.start) : Seen(base.start, e)
             /\ \A v \in visited : v[2] \in Name /\ v[3] = "RECURSE" =>
                   LET d == Child[v[1]][v[2]]
                   IN  \A e \in Entries(d) : Seen(d, e)
WholeTreeVisited == wpc = "returned" /\ outcome /\ ~cut => TreeShown

\* The invariant of the walk: its types and the meaning of depth.
WalkInv == WalkTypeOK /\ DepthCountsPushes

\* No entry is shown to the callback twice.
VisitedOnce == [][wpc = "loop" /\ wpc' = "visit" => ~Seen(sysCwd, entry')]_allVars

\* Iterate returns, whatever the callback answers and whichever stream fails.
WalkReturns == wpc = "enter" ~> (wpc = "returned" \/ status # "running")
=============================================================================
