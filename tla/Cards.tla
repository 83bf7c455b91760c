------------------------------- MODULE Cards -------------------------------
(***************************************************************************)
(* The cards of a deck (src/src/card.c): srsCard_GetAll enters the model   *)
(* root and the deck, asks srsModel_ExistsInRoot (src/src/model.c) about   *)
(* it, and walks over its cards directory; the callback get_cards enters   *)
(* each card, reads or repairs its two time files and lists it.            *)
(* srsCard_GetContent enters a listed card again.  All of them go through  *)
(* the one working-directory stack, while card directories may vanish.     *)
(* Reading a time file, asking whether it is there and writing it are      *)
(* steps of their own (srsFile_GetContent and srsFile_SetContent of        *)
(* src/src/filesystem.c), each of which may fail, and between which other  *)
(* processes may write the files.                                          *)
(***************************************************************************)
EXTENDS TreeWalk, Schedule

CONSTANTS
    Root,          \* the model root, set and inside its repository
    DeckName,      \* the deck callers ask for
    CardsName,     \* srsMODEL_CARDS_DIRNAME, "cards"
    Missing,       \* the content of a file that is not there
    CallerPaths,   \* where the caller may have gone before it lists cards
    InitialFiles,  \* the contents the time files may have at the beginning
    Moments,       \* the times srsTime_Now may return
    FileOutcome,   \* whether a file call that could succeed does: {TRUE} or BOOLEAN
    Editable,      \* directories whose time files other processes write
    EditorWrites,  \* what they may leave there
    MaxEdits,      \* bound: how often they do
    MaxCalls       \* bound: calls of GetAll and GetContent

Content == Text \cup {Garbage, Missing}

ASSUME CardsAssumption    == Root \in Dir /\ DeckName \in Name /\ CardsName \in Name
ASSUME MissingAssumption  == Missing \notin Text \cup {Garbage}
ASSUME FilesInDirs        == InitialFiles \subseteq [Dir -> [added : Content, scheduled : Content]]
ASSUME MomentsAssumption  == Moments \subseteq {m \in Time : m.year >= 1970 /\ m.year <= 9999}
ASSUME GoesAssumption     == CallerPaths \subseteq Dir \cup Name
ASSUME CallbackAssumption == CardsName \in IterateArgs /\ "CONTINUE" \in Actions
ASSUME OutcomeAssumption  == FileOutcome \subseteq BOOLEAN
ASSUME EditsAssumption    == Editable \subseteq Dir /\ EditorWrites \subseteq Content /\ MaxEdits \in Nat
ASSUME CallsAssumption    == MaxCalls \in Nat

VARIABLES
    files,    \* added.txt and scheduled.txt of every directory
    gpc,      \* where GetAll or GetContent is
    cpc,      \* where get_cards is
    fpc,      \* where it is with the card's time files
    added_time_str,  \* its buffer of that name
    held,     \* root_path and deck_path: pops GetAll will make
    found,    \* the result of ExistsInRoot
    card,     \* the card get_cards is making
    list,     \* the cards listed by the last GetAll
    calls,    \* history: calls so far
    origin,   \* history: working directory and stack when the call began
    refused,  \* history: a card's directory was not there to be pushed
    failed,   \* history: a walk over the cards has answered false
    steady,   \* history: the directories there all the time since GetAll began
    spoiled,  \* history: where, since then, a file call failed or others wrote
    edits     \* history: how often others wrote

fileVars == <<files, fpc, added_time_str, spoiled, edits>>
cardVars == <<fileVars, gpc, cpc, held, found, card, list, calls, origin, refused, failed, steady>>
everything == <<allVars, cardVars>>

NoCard == [id |-> NULL, path |-> NULL, when_added |-> NULL, when_next_scheduled |-> NULL]
NoFiles == [added |-> Missing, scheduled |-> Missing]

CardsInit == /\ WalkInit
             /\ files \in InitialFiles
             /\ gpc = "idle" /\ cpc = "enter"
             /\ fpc = "added" /\ added_time_str = Garbage
             /\ spoiled = {} /\ edits = 0
             /\ held = 0
             /\ found = FALSE
             /\ card = NoCard
             /\ list = <<>>
             /\ calls = 0
             /\ origin = [cwd |-> NULL, stack |-> <<>>]
             /\ refused = FALSE /\ failed = FALSE
             /\ steady = {}

\* GetAll goes on: no operation of DirStack is running.
Listing(p) == gpc = p /\ At("idle")

Push(path) == PushCWD_Missing(path) \/ PushCWD(path)

-----------------------------------------------------------------------------
(* srsCard_GetAll                                                          *)

CallBegins == /\ calls < MaxCalls
              /\ calls' = calls + 1
              /\ origin' = [cwd |-> sysCwd, stack |-> dirstack]

GetAll == /\ Listing("idle")
          /\ CallBegins
          /\ Push(Root)
          /\ gpc' = "rooted"
          /\ held' = 0 /\ list' = <<>> /\ found' = FALSE
          /\ steady' = present /\ spoiled' = {}
          /\ UNCHANGED <<walk, files, fpc, added_time_str, edits, cpc, card, refused, failed>>

\* srsModel_ExistsInRoot begins by pushing the root once more.
Rooted == /\ Listing("rooted")
          /\ IF ret = NULL
             THEN gpc' = "leave" /\ UNCHANGED <<vars, held>>
             ELSE gpc' = "discover" /\ held' = 1 /\ Push(Root)
          /\ UNCHANGED <<walk, fileVars, cpc, found, card, list, calls, origin, refused, failed, steady>>

\* git_repository_discover from the deck finds the root's repository if the
\* deck is there.
Discover == /\ Listing("discover")
            /\ IF ret = NULL
               THEN gpc' = "checked" /\ found' = FALSE /\ UNCHANGED vars
               ELSE gpc' = "check" /\ found' = (Resolve(DeckName) \in present) /\ PopCWD
            /\ UNCHANGED <<walk, fileVars, cpc, held, card, list, calls, origin, refused, failed, steady>>

\* What was found must not be the root itself.
Check == /\ Listing("check")
         /\ IF found
            THEN gpc' = "compare" /\ Push(DeckName)
            ELSE gpc' = "checked" /\ UNCHANGED vars
         /\ UNCHANGED <<walk, fileVars, cpc, held, found, card, list, calls, origin, refused, failed, steady>>

Compare_Root == /\ Listing("compare")
                /\ gpc' = "checked"
                /\ IF ret = NULL
                   THEN UNCHANGED <<vars, found>>
                   ELSE found' = (ret # Root) /\ PopCWD
                /\ UNCHANGED <<walk, fileVars, cpc, held, card, list, calls, origin, refused, failed, steady>>

EnterDeck == /\ Listing("checked")
             /\ IF found
                THEN gpc' = "deck" /\ Push(DeckName)
                ELSE gpc' = "leave" /\ UNCHANGED vars
             /\ UNCHANGED <<walk, fileVars, cpc, held, found, card, list, calls, origin, refused, failed, steady>>

ListCards == /\ Listing("deck")
             /\ held' = IF ret = NULL THEN 1 ELSE 2
             /\ IF ret # NULL /\ Dir_Exists(CardsName)
                THEN gpc' = "walk" /\ Iterate(CardsName)
                ELSE gpc' = "leave" /\ UNCHANGED allVars
             /\ UNCHANGED <<fileVars, cpc, found, card, list, calls, origin, refused, failed, steady>>

Listed == /\ Listing("walk")
          /\ wpc = "returned"
          /\ gpc' = "leave"
          /\ wpc' = "idle" /\ visited' = {}
          /\ failed' = (failed \/ ~outcome)
          /\ UNCHANGED <<vars, frames, entry, depth, exit, outcome, base, cut, fileVars, cpc, held, found, card, list, calls, origin, refused, steady>>

\* One pop for root_path, one for deck_path.
LeaveStep_Once == Listing("leave") /\ held > 0 /\ PopCWD /\ held' = 0
LeaveStep == Listing("leave") /\ held > 0 /\ PopCWD /\ held' = held - 1
Leave == /\ LeaveStep
         /\ UNCHANGED <<walk, fileVars, gpc, cpc, found, card, list, calls, origin, refused, failed, steady>>

GetAllReturn == /\ Listing("leave")
                /\ held = 0
                /\ gpc' = "returned"
                /\ UNCHANGED <<allVars, fileVars, cpc, held, found, card, list, calls, origin, refused, failed, steady>>

-----------------------------------------------------------------------------
(* get_cards, called by the walk for every entry of the cards directory    *)

CardEnter_NoPush == /\ Walking("visit") /\ cpc = "enter"
                    /\ cpc' = "load"
                    /\ UNCHANGED <<allVars, fileVars, gpc, held, found, card, list, calls, origin, refused, failed, steady>>
CardEnter == /\ Walking("visit") /\ cpc = "enter"
             /\ Push(entry)
             /\ cpc' = "load"
             /\ UNCHANGED <<walk, fileVars, gpc, held, found, card, list, calls, origin, refused, failed, steady>>

\* The time files of the directory the process is in.
Here == IF sysCwd = NULL THEN NoFiles ELSE files[sysCwd]

Filing(p) == Walking("visit") /\ cpc = "load" /\ fpc = p

\* A failing file call leaves its mark on the directory.
Try(ok) == spoiled' = IF ok \/ sysCwd = NULL THEN spoiled ELSE spoiled \cup {sysCwd}

\* What GetContent leaves in an empty buffer; nobody asks whether it failed.
TextRead(content, ok) == IF ok /\ content # Missing THEN content ELSE Garbage

\* A text that is no time is replaced by the moment, and the file repaired.
NeedsRepair_Always(text) == TRUE
NeedsRepair(text) == ~Readable(text)
Repaired_KeepsText(text, now) == text
Repaired(text, now) == IF Readable(text) THEN text ELSE TimeToString(now, text)

LoadAdded ==
    /\ Filing("added")
    /\ \E ok \in FileOutcome, now \in Moments :
         \E later \in {m \in Moments : TimeCompare(now, m) <= 0} :
           LET text == TextRead(Here.added, ok)
           IN  /\ card' = [NoCard EXCEPT !.id = entry,
                             !.when_added = TimeFromString(text, now),
                             !.when_next_scheduled = later]
               /\ added_time_str' = Repaired(text, now)
               /\ fpc' = IF NeedsRepair(text) THEN "check_added" ELSE "scheduled"
               /\ Try(ok)
    /\ UNCHANGED files

LoadScheduled ==
    /\ Filing("scheduled")
    /\ \E ok \in FileOutcome :
         LET text == TextRead(Here.scheduled, ok)
         IN  /\ card' = [card EXCEPT !.when_next_scheduled = TimeFromString(text, @)]
             /\ fpc' = IF NeedsRepair(text) THEN "check_scheduled" ELSE "loaded"
             /\ Try(ok)
    /\ UNCHANGED <<files, added_time_str>>

\* SetContent writes no file that is not there when it asks.
Check_File(content, save, next) ==
    /\ \E ok \in FileOutcome : /\ fpc' = IF ok /\ content # Missing THEN save ELSE next
                               /\ Try(ok)
    /\ UNCHANGED <<files, card, added_time_str>>

CheckAdded     == Filing("check_added") /\ Check_File(Here.added, "save_added", "scheduled")
CheckScheduled == Filing("check_scheduled")
                  /\ Check_File(Here.scheduled, "save_scheduled", "loaded")

\* Opening the file empties it, or creates it again; its few characters are
\* written at once.  A failure leaves it as it was or empty.
Written(content, ok) == IF ok THEN {added_time_str} ELSE {content, Garbage}

SaveAdded ==
    /\ Filing("save_added")
    /\ \E ok \in FileOutcome : \E content \in Written(Here.added, ok) :
         /\ files' = IF sysCwd = NULL THEN files ELSE [files EXCEPT ![sysCwd].added = content]
         /\ Try(ok)
    /\ fpc' = "scheduled"
    /\ UNCHANGED <<card, added_time_str>>

\* The scheduled file is repaired with the text of the added time.
SaveScheduled ==
    /\ Filing("save_scheduled")
    /\ \E ok \in FileOutcome : \E content \in Written(Here.scheduled, ok) :
         /\ files' = IF sysCwd = NULL THEN files ELSE [files EXCEPT ![sysCwd].scheduled = content]
         /\ Try(ok)
    /\ fpc' = "loaded"
    /\ UNCHANGED <<card, added_time_str>>

FileStep == /\ \/ LoadAdded \/ CheckAdded \/ SaveAdded
               \/ LoadScheduled \/ CheckScheduled \/ SaveScheduled
            /\ UNCHANGED <<allVars, gpc, cpc, held, found, list, calls, origin, refused, failed, steady, edits>>

\* The path of the card is the working directory, wherever that is.
CardPath == /\ Filing("loaded")
            /\ refused' = (refused \/ ret = NULL)
            /\ GetCWD
            /\ cpc' = "add" /\ fpc' = "added"
            /\ UNCHANGED <<walk, files, added_time_str, spoiled, edits, gpc, held, found, card, list, calls, origin, failed, steady>>

\* strdup(NULL) crashes; a failing allocation of the list aborts.
CardAdd ==
    /\ Walking("visit") /\ cpc = "add"
    /\ IF ret = NULL
       THEN status' = "crashed" /\ UNCHANGED <<list, cpc>>
       ELSE \E ok \in AllocOutcome :
              /\ status' = IF ok THEN "running" ELSE "aborted"
              /\ list' = IF ok THEN Append(list, [card EXCEPT !.path = ret]) ELSE list
              /\ cpc' = "leave"
    /\ UNCHANGED <<fsVars, directory_current, dirstack, ready, pc, call, ret, histVars,
                   walk, fileVars, gpc, held, found, card, calls, origin, refused, failed, steady>>

CardLeave == /\ Walking("visit") /\ cpc = "leave"
             /\ PopCWD
             /\ cpc' = "done"
             /\ UNCHANGED <<walk, fileVars, gpc, held, found, card, list, calls, origin, refused, failed, steady>>

CardDone == /\ cpc = "done"
            /\ Visited("CONTINUE")
            /\ cpc' = "enter"
            /\ UNCHANGED <<fileVars, gpc, held, found, card, list, calls, origin, refused, failed, steady>>

-----------------------------------------------------------------------------
(* The caller                                                              *)

\* It may have gone somewhere with a push of its own before.
CallerGoes == /\ gpc = "idle" /\ calls = 0
              /\ \E path \in CallerPaths : CallerPush(path)
              /\ UNCHANGED cardVars

\* srsCard_GetContent of a listed card: it pops even if its push failed.
GetContent(i) == /\ Listing("returned")
                 /\ CallBegins
                 /\ Push(list[i].path)
                 /\ card' = list[i]
                 /\ gpc' = "content"
                 /\ UNCHANGED <<walk, fileVars, cpc, held, found, list, refused, failed, steady>>

ContentRead == /\ Listing("content")
               /\ refused' = (refused \/ ret = NULL)
               /\ PopCWD
               /\ gpc' = "content_read"
               /\ UNCHANGED <<walk, fileVars, cpc, held, found, card, list, calls, origin, failed, steady>>

ContentReturn == /\ Listing("content_read")
                 /\ gpc' = "returned"
                 /\ UNCHANGED <<allVars, fileVars, cpc, held, found, card, list, calls, origin, refused, failed, steady>>

\* The caller may list the cards again.
Again == /\ Listing("returned")
         /\ gpc' = "idle"
         /\ UNCHANGED <<allVars, fileVars, cpc, held, found, card, list, calls, origin, refused, failed, steady>>

-----------------------------------------------------------------------------
\* A directory that is removed loses its files.
Disturb == /\ Environment
           /\ files' = [d \in Dir |-> IF d \in present' THEN files[d] ELSE NoFiles]
           /\ steady' = steady \cap present'
           /\ UNCHANGED <<walk, fpc, added_time_str, spoiled, edits, gpc, cpc, held, found, card, list, calls, origin, refused, failed>>

\* Another process writes or removes a time file.
Edit == /\ status = "running"
        /\ edits < MaxEdits
        /\ edits' = edits + 1
        /\ \E d \in Editable \cap present, content \in EditorWrites :
             /\ \/ files' = [files EXCEPT ![d].added = content]
                \/ files' = [files EXCEPT ![d].scheduled = content]
             /\ spoiled' = spoiled \cup {d}
        /\ UNCHANGED <<allVars, fpc, added_time_str, gpc, cpc, held, found, card, list, calls, origin, refused, failed, steady>>

GetAllStep == \/ Rooted \/ Discover \/ Check \/ Compare_Root \/ EnterDeck \/ ListCards
              \/ Listed \/ Leave \/ GetAllReturn
CardStep   == CardEnter \/ FileStep \/ CardPath \/ CardAdd \/ CardLeave \/ CardDone
StackStep  == Steps /\ UNCHANGED <<walk, cardVars>>
WalkerStep == WalkStep /\ UNCHANGED cardVars
Library    == GetAllStep \/ CardStep \/ StackStep \/ WalkerStep \/ ContentRead \/ ContentReturn

CardsNext == \/ CallerGoes \/ GetAll \/ Again
             \/ \E i \in DOMAIN list : GetContent(i)
             \/ Library
             \/ Disturb
             \/ Edit

\* One thread: what the library has begun it continues.
CardsSpec == CardsInit /\ [][CardsNext]_everything /\ WF_everything(Library)

-----------------------------------------------------------------------------
(* Properties                                                              *)

Contents == [added : Content, scheduled : Content]

CardsTypeOK ==
    /\ WalkTypeOK
    /\ DOMAIN files = Dir
    /\ gpc \in {"idle", "rooted", "discover", "check", "compare", "checked", "deck", "walk",
                "leave", "returned", "content", "content_read"}
    /\ cpc \in {"enter", "load", "add", "leave", "done"}
    /\ fpc \in {"added", "check_added", "save_added", "scheduled", "check_scheduled",
                "save_scheduled", "loaded"}
    /\ added_time_str \in Text \cup {Garbage}
    /\ spoiled \subseteq Dir /\ edits \in 0..MaxEdits
    /\ held \in 0..2 /\ found \in BOOLEAN /\ refused \in BOOLEAN /\ failed \in BOOLEAN
    /\ steady \subseteq Dir
    /\ calls \in 0..MaxCalls
    /\ \A i \in DOMAIN list : list[i].id \in Name \cup FileName /\ list[i].path \in Dir

\* Every push of the call found its directory and every chdir succeeded.
Smooth == status = "running" /\ ~refused /\ ~disturbed

\* GetAll and GetContent leave the working directory and the stack as they
\* found them, over up to eight pushes of root, deck, cards and card folders in
\* three nested functions, and although the deck or its cards may be missing,
\* unless Iterate answered false: GetAll does not ask whether it did.
CallerRestored ==
    gpc \in {"returned", "idle"} /\ calls > 0 /\ Smooth /\ ~failed =>
        /\ dirstack = origin.stack
        /\ origin.cwd # NULL => sysCwd \in {origin.cwd, NULL}

\* The invariant of the card calls: their types and what they restore.
CardsInv == CardsTypeOK /\ CallerRestored

CardsDir == Child[Child[Root][DeckName]][CardsName]

\* Each card is listed once, under its own name and directory, and none that
\* was there all the time is left out, whatever else came and went.
CardsListed ==
    gpc = "returned" /\ Smooth =>
        /\ \A i, j \in DOMAIN list : list[i].id = list[j].id => i = j
        /\ \A i \in DOMAIN list : list[i].path = Child[CardsDir][list[i].id]
        /\ \A e \in Name :
              Child[CardsDir][e] \in steady => \E i \in DOMAIN list : list[i].id = e

\* The added time a card is listed with is the one its file tells from now on,
\* if the card has that file and ToString can write the time: a file call that
\* fails, and other processes writing, spoil only the cards they happen to.
Remembered(content, time) ==
    content # Missing /\ Writable(time) => /\ Readable(content)
                                          /\ TimeFromString(content, time) = time
AddedIsRemembered ==
    gpc = "returned" /\ Smooth =>
        \A i \in DOMAIN list :
            list[i].path \notin spoiled => Remembered(files[list[i].path].added, list[i].when_added)

\* A time file that can be read is never overwritten, although each is read,
\* asked for and written at different moments, but where another process has
\* written in between or a file call has failed.
TimeKept(old, new) == old # Missing /\ Readable(old) => new = old
ValidTimesStay ==
    \A d \in present' \ spoiled' : /\ TimeKept(files[d].added, files'[d].added)
                                  /\ TimeKept(files[d].scheduled, files'[d].scheduled)
ValidTimesKept == [][ValidTimesStay]_everything

\* GetContent of a listed card reads in the directory of that name.
ContentFromCard ==
    [][gpc = "content" /\ gpc' = "content_read" /\ ret # NULL /\ Smooth =>
          sysCwd \in {Child[CardsDir][card.id], NULL}]_everything

\* A size_t that has gone below zero: the loop at the end of Iterate then makes
\* nearly as many turns as a size_t has values, which nobody waits for.
Wrapped == wpc = "unwind" /\ depth > SizeModulus \div 2

\* GetAll returns, however the cards of the deck come and go, unless their
\* directory vanishes after GetAll has asked for it and Iterate counts its pop
\* without a push.
GetAllReturns ==
    gpc = "rooted" ~> \/ gpc = "returned" \/ status # "running"
                      \/ Wrapped /\ CardsDir \notin steady

(* What the code's comments say and the code does not do                   *)

\* "Try to load scheduled time" and, if it is not ok, save it: the scheduled
\* time a card is listed with is the one its file tells from now on.
ScheduledIsRemembered ==
    gpc = "returned" /\ Smooth =>
        \A i \in DOMAIN list : Remembered(files[list[i].path].scheduled, list[i].when_next_scheduled)
=============================================================================
