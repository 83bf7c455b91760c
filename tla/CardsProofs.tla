----------------------------- MODULE CardsProofs -----------------------------
(***************************************************************************)
(* What listing the cards of a deck guarantees for every tree, every       *)
(* content of the time files and every interference: times that can be     *)
(* read are kept, the times listed are those the files tell, the caller is *)
(* where it was, each card that stayed is listed once, under its own name  *)
(* and directory, and its content is read there.                           *)
(***************************************************************************)
EXTENDS Cards, TreeWalkProofs

-----------------------------------------------------------------------------
(* The card calls as callers of the stack and of the walk, and their       *)
(* types.                                                                  *)

CardType == [id : Name \cup FileName, path : Dir, when_added : Time, when_next_scheduled : Time]

\* What get_cards has made before it knows the path.
MadeType ==
    [id : Name \cup FileName, path : Dir \cup {NULL}, when_added : Time, when_next_scheduled : Time]

FilePlaces == {"added", "check_added", "save_added", "scheduled", "check_scheduled",
               "save_scheduled", "loaded"}

\* get_cards has begun a card and not listed it yet.
Making == cpc = "add" \/ (cpc = "load" /\ fpc # "added")

\* A walk runs just while GetAll has called it, and a callback just while it
\* visits.  A directory that is not there has no files, and the process is in
\* one that is there.
CardsTypes ==
    /\ CardsTypeOK /\ WalkTypes
    /\ files \in [Dir -> Contents]
    /\ list \in Seq(CardType)
    /\ origin \in [cwd : Dir \cup {NULL}, stack : Seq(Dir)]
    /\ cpc # "enter" => wpc = "visit"
    /\ cpc # "load" => fpc = "added"
    /\ wpc = "idle" <=> gpc # "walk"
    /\ Making => card \in MadeType /\ pc = "idle"
    /\ cpc = "add" => ret \in Dir \cup {NULL}
    /\ \A d \in Dir \ present : files[d] = NoFiles
    /\ sysCwd \in present \cup {NULL}

\* What goes on at the time files moves nothing else.
Aside == UNCHANGED <<allVars, gpc, cpc, held, found, list, calls, origin, refused, failed, steady>>

LEMMA FilesAside ==
    ASSUME FileStep \/ Edit \/ UNCHANGED everything
    PROVE  Aside
  BY DEF FileStep, Edit, everything, allVars, vars, walk, cardVars, Aside

\* A callback only ends its visit; the rest of the walk is the library's.
LEMMA WalkTypesKept ==
    ASSUME WalkTypes, TypeOK', UNCHANGED walk
    PROVE  WalkTypes'
  BY DEF walk, WalkTypes, WalkTypeOK

\* A push of something that is no directory does what a push of nothing does.
LEMMA PushIsStack ==
    ASSUME TypeOK, NEW path, Push(path)
    PROVE  Next
<1>1. CASE PushCWD_Missing(path)
  <2>1. ~Dir_Exists(NULL)
    BY NullAssumption DEF Dir_Exists, Resolve, TypeOK
  <2>2. PushCWD_Missing(NULL)
    BY <1>1, <2>1 DEF PushCWD_Missing
  <2>3. QED
    BY <2>2 DEF Next, Calls, Argument
<1>2. CASE PushCWD(path)
  <2>1. path \in Argument
    BY <1>2, NullAssumption DEF PushCWD, Dir_Exists, Resolve, TypeOK, Argument
  <2>2. QED
    BY <1>2, <2>1 DEF Next, Calls
<1>3. QED
  BY <1>1, <1>2 DEF Push

\* CardAdd may end the process, which no operation of the stack does there;
\* all other steps are steps of the stack.
LEMMA CardsIsStack ==
    ASSUME CardsTypes, TypeOK, [CardsNext]_everything
    PROVE  [Next]_vars \/ CardAdd
<1>1. CASE CallerGoes
  BY <1>1, GoesAssumption DEF CallerGoes, CallerPush, Next, Calls, Argument
<1>2. CASE GetAll \/ Again
  BY <1>2, PushIsStack DEF GetAll, Again, allVars
<1>3. ASSUME NEW i \in DOMAIN list, GetContent(i) PROVE Next
  BY <1>3, PushIsStack DEF GetContent
<1>4. CASE GetAllStep
  <2>1. CASE Rooted \/ Check \/ EnterDeck
    BY <2>1, PushIsStack DEF Rooted, Check, EnterDeck
  <2>2. CASE Discover \/ Compare_Root \/ Leave
    BY <2>2 DEF Discover, Compare_Root, Leave, LeaveStep, Next, Calls
  <2>3. CASE ListCards \/ Listed \/ GetAllReturn
    BY <2>3 DEF ListCards, Listed, GetAllReturn, Iterate, allVars
  <2>4. QED
    BY <1>4, <2>1, <2>2, <2>3 DEF GetAllStep
<1>5. CASE CardStep
  <2>1. CASE CardEnter
    BY <2>1, PushIsStack DEF CardEnter
  <2>2. CASE CardPath \/ CardLeave
    BY <2>2 DEF CardPath, CardLeave, Next, Calls
  <2>3. CASE CardDone
    BY <2>3 DEF CardDone, Visited
  <2>4. CASE FileStep
    BY <2>4 DEF FileStep, allVars
  <2>5. QED
    BY <1>5, <2>1, <2>2, <2>3, <2>4 DEF CardStep
<1>6. CASE StackStep
  BY <1>6 DEF StackStep, Next
<1>7. CASE WalkerStep
  <2>1. [WalkNext]_allVars
    BY <1>7 DEF WalkerStep, WalkNext
  <2>2. QED
    BY <2>1, WalkIsStack DEF CardsTypes
<1>8. CASE ContentRead \/ ContentReturn
  BY <1>8 DEF ContentRead, ContentReturn, Next, Calls, allVars
<1>9. CASE Disturb
  BY <1>9 DEF Disturb, Next
<1>10. CASE Edit \/ UNCHANGED everything
  BY <1>10 DEF Edit, everything, allVars
<1>11. QED
  BY <1>1, <1>2, <1>3, <1>4, <1>5, <1>6, <1>7, <1>8, <1>9, <1>10 DEF CardsNext, Library

LEMMA CardsIInvStep ==
    ASSUME CardsTypes, IInv, [CardsNext]_everything
    PROVE  IInv'
<1>1. TypeOK
  BY DEF IInv
<1>2. CASE [Next]_vars
  BY <1>2, IInvStep
<1>3. CASE CardAdd
  <2>1. /\ UNCHANGED <<present, sysCwd, directory_current, dirstack, ready, pc, call, ret,
                       owed, disturbed>>
        /\ status = "running" /\ status' \in {"running", "aborted", "crashed"}
    BY <1>3, AllocAssumption DEF CardAdd, Walking, At, fsVars, histVars
  <2>2. TypeOK' /\ CacheCoherent' /\ ResidueBound'
    BY <2>1 DEF IInv, TypeOK, CacheCoherent, ResidueBound, Saving
  <2>3. Matched'
    BY <2>1 DEF IInv, Matched, Saving
  <2>4. QED
    BY <2>2, <2>3 DEF IInv
<1>4. QED
  BY <1>1, <1>2, <1>3, CardsIsStack

\* What a step does to the walk.
LEMMA WalkOrNot ==
    ASSUME [CardsNext]_everything
    PROVE  \/ UNCHANGED walk
           \/ Listed
           \/ /\ [WalkNext]_allVars
              /\ \/ WalkStep /\ UNCHANGED cardVars
                 \/ Iterate(CardsName) /\ ListCards
                 \/ Visited("CONTINUE") /\ CardDone
<1>1. CASE CallerGoes \/ GetAll \/ Again \/ Disturb \/ Edit \/ \E i \in DOMAIN list : GetContent(i)
  BY <1>1 DEF CallerGoes, CallerPush, GetAll, Again, Disturb, Edit, GetContent, allVars
<1>2. CASE GetAllStep
  <2>1. CASE ListCards
    BY <2>1, CallbackAssumption DEF ListCards, allVars, WalkNext, Caller
  <2>2. CASE GetAllStep /\ ~ListCards /\ ~Listed
    BY <2>2 DEF GetAllStep, Rooted, Discover, Check, Compare_Root, EnterDeck, Leave,
       GetAllReturn, allVars
  <2>3. QED
    BY <1>2, <2>1, <2>2
<1>3. CASE CardStep
  <2>1. CASE CardDone
    BY <2>1, CallbackAssumption DEF CardDone, WalkNext
  <2>2. CASE CardStep /\ ~CardDone
    BY <2>2 DEF CardStep, CardEnter, FileStep, CardPath, CardAdd, CardLeave, allVars
  <2>3. QED
    BY <1>3, <2>1, <2>2
<1>4. CASE StackStep \/ ContentRead \/ ContentReturn
  BY <1>4 DEF StackStep, ContentRead, ContentReturn, allVars
<1>5. CASE WalkerStep
  BY <1>5 DEF WalkerStep, WalkNext
<1>6. CASE UNCHANGED everything
  BY <1>6 DEF everything, allVars
<1>7. QED
  BY <1>1, <1>2, <1>3, <1>4, <1>5, <1>6 DEF CardsNext, Library

LEMMA CardsWalkTypes ==
    ASSUME CardsTypes, IInv, [CardsNext]_everything
    PROVE  WalkTypes'
<1>1. WalkTypes /\ TypeOK'
  BY CardsIInvStep DEF CardsTypes, IInv
<1>2. CASE UNCHANGED walk
  BY <1>1, <1>2, WalkTypesKept
<1>3. CASE [WalkNext]_allVars
  BY <1>1, <1>3, WalkTypesStep
<1>4. CASE Listed
  <2>1. /\ UNCHANGED <<frames, entry, depth, exit, outcome, base, cut>>
        /\ wpc = "returned" /\ wpc' = "idle" /\ visited' = {}
    BY <1>4 DEF Listed
  <2>2. QED
    BY <1>1, <2>1 DEF WalkTypes, WalkTypeOK
<1>5. QED
  BY <1>2, <1>3, <1>4, WalkOrNot

LEMMA CardsWalkTypesInit == CardsInit => IInv /\ WalkTypes
  BY IInvInit, WalkTypesInit DEF CardsInit, WalkInit

-----------------------------------------------------------------------------
(* The time files: what is read of them and what a repair writes.          *)

LEMMA TextCases ==
    ASSUME NEW content \in Content, NEW ok \in BOOLEAN
    PROVE  /\ TextRead(content, ok) \in Text \cup {Garbage}
           /\ Readable(TextRead(content, ok)) =>
                  ok /\ content # Missing /\ TextRead(content, ok) = content
           /\ ok /\ content # Missing => TextRead(content, ok) = content
           /\ ~Readable(Garbage)
  BY MissingAssumption DEF Content, TextRead, Readable, Scanned

\* What srsTime_ToString writes of a time of four digits is the time, and
\* srsTime_FromString reads it.
LEMMA WrittenTime ==
    ASSUME NEW t \in Time, Writable(t), t.year >= 1900, t.year <= 9999, NEW other, NEW buffer
    PROVE  /\ TimeToString(t, buffer) = t /\ t \in Text /\ Readable(t)
           /\ TimeFromString(t, other) = t
<1>1. /\ t.year \in Nat /\ t.month \in 0..255 /\ t.day \in 0..255
      /\ t.hour \in 0..255 /\ t.minute \in 0..255
      /\ t = [year |-> t.year, month |-> t.month, day |-> t.day, hour |-> t.hour, minute |-> t.minute]
  BY DEF Time, Short, Byte
<1>2. t.month <= 11 /\ t.day \in 1..31 /\ t.hour < 24 /\ t.minute < 60
  BY <1>1 DEF Writable, MONTH_OFFSET
<1>3. t.year - 1900 + 1900 = t.year /\ t.month - 1 + 1 = t.month
  BY <1>1
<1>4. TimeToString(t, buffer) = t
  BY <1>1, <1>3 DEF TimeToString, Strftime, Broken, YEAR_OFFSET, MONTH_OFFSET
<1>5. /\ t.month \in TwoDigits /\ t.day \in TwoDigits /\ t.hour \in TwoDigits /\ t.minute \in TwoDigits
  BY <1>1, <1>2 DEF TwoDigits
<1>6. t \in Text
  BY <1>1, <1>5 DEF Text
<1>7. Readable(t)
  BY <1>1, <1>2, <1>6, GarbageAssumption DEF Readable, Scanned
<1>8. /\ t.year % 65536 = t.year /\ t.month % 256 = t.month /\ t.day % 256 = t.day
      /\ t.hour % 256 = t.hour /\ t.minute % 256 = t.minute
  BY <1>1
<1>9. Stored(t) = t
  BY <1>1, <1>8 DEF Stored
<1>10. QED
  BY <1>4, <1>6, <1>7, <1>9 DEF TimeFromString

\* Whatever is read is a time of the struct's widths.
LEMMA ReadTime ==
    ASSUME NEW txt \in Text, Readable(txt), NEW other
    PROVE  TimeFromString(txt, other) \in Time
<1>1. /\ txt.year \in Nat /\ txt.month \in Nat /\ txt.day \in Nat /\ txt.hour \in Nat /\ txt.minute \in Nat
  BY DEF Text, TwoDigits
<1>2. \A n \in Nat : n % 65536 \in Short /\ n % 256 \in Byte
  BY DEF Short, Byte
<1>3. /\ txt.year % 65536 \in Short /\ txt.month % 256 \in Byte /\ txt.day % 256 \in Byte
      /\ txt.hour % 256 \in Byte /\ txt.minute % 256 \in Byte
  BY <1>1, <1>2
<1>4. QED
  BY <1>3 DEF TimeFromString, Stored, Time

LEMMA MomentTime ==
    ASSUME NEW m \in Moments
    PROVE  m \in Time /\ m.year >= 1900 /\ m.year <= 9999
<1>1. m \in Time /\ m.year >= 1970 /\ m.year <= 9999
  BY MomentsAssumption
<1>2. m.year \in Nat
  BY <1>1 DEF Time, Short
<1>3. QED
  BY <1>1, <1>2

\* The time a card gets, and the text a repair writes.
LEMMA TimeRead ==
    ASSUME NEW text \in Text \cup {Garbage}, NEW time \in Time
    PROVE  TimeFromString(text, time) \in Time
<1>1. CASE Readable(text)
  <2>1. text \in Text
    BY <1>1 DEF Readable, Scanned
  <2>2. QED
    BY <1>1, <2>1, ReadTime
<1>2. CASE ~Readable(text)
  BY <1>2 DEF TimeFromString
<1>3. QED
  BY <1>1, <1>2

\* What is in the buffer when the added time is known tells that time.
LEMMA RepairTells ==
    ASSUME NEW text \in Text \cup {Garbage}, NEW now \in Moments
    PROVE  /\ Repaired(text, now) \in Text \cup {Garbage}
           /\ Remembered(Repaired(text, now), TimeFromString(text, now))
<1>1. now \in Time
  BY MomentTime
<1>2. CASE Readable(text)
  BY <1>2 DEF Repaired, Remembered, TimeFromString
<1>3. CASE ~Readable(text)
  <2>1. Repaired(text, now) = TimeToString(now, text) /\ TimeFromString(text, now) = now
    BY <1>3 DEF Repaired, TimeFromString
  <2>2. Writable(now) => /\ TimeToString(now, text) \in Text
                         /\ Readable(TimeToString(now, text))
                         /\ TimeFromString(TimeToString(now, text), now) = now
    BY MomentTime, WrittenTime
  <2>3. TimeToString(now, text) \in Text \cup {Garbage}
    BY <2>2 DEF TimeToString
  <2>4. QED
    BY <2>1, <2>2, <2>3 DEF Remembered
<1>4. QED
  BY <1>2, <1>3

LEMMA HereContents ==
    ASSUME CardsTypes
    PROVE  /\ Here \in Contents /\ Here.added \in Content /\ Here.scheduled \in Content
           /\ sysCwd # NULL => sysCwd \in Dir /\ Here = files[sysCwd]
<1>1. files \in [Dir -> Contents] /\ sysCwd \in Dir \cup {NULL}
  BY DEF CardsTypes, CardsTypeOK, WalkTypeOK, TypeOK
<1>2. Here \in Contents
  BY <1>1 DEF Here, Contents, NoFiles, Content
<1>3. QED
  BY <1>1, <1>2 DEF Here, Contents

\* The choices of LoadAdded.
LoadsAdded(ok, now, later) ==
    /\ card' = [NoCard EXCEPT !.id = entry,
                  !.when_added = TimeFromString(TextRead(Here.added, ok), now),
                  !.when_next_scheduled = later]
    /\ added_time_str' = Repaired(TextRead(Here.added, ok), now)
    /\ fpc' = IF NeedsRepair(TextRead(Here.added, ok)) THEN "check_added" ELSE "scheduled"
    /\ Try(ok)

LEMMA LoadAddedChooses ==
    ASSUME LoadAdded
    PROVE  \E ok \in FileOutcome, now \in Moments, later \in Moments : LoadsAdded(ok, now, later)
<1>1. \E ok \in FileOutcome, now \in Moments :
        \E later \in {m \in Moments : TimeCompare(now, m) <= 0} : LoadsAdded(ok, now, later)
  <2>1. \E ok \in FileOutcome, now \in Moments :
         \E later \in {m \in Moments : TimeCompare(now, m) <= 0} :
           LET text == TextRead(Here.added, ok)
           IN  /\ card' = [NoCard EXCEPT !.id = entry,
                             !.when_added = TimeFromString(text, now),
                             !.when_next_scheduled = later]
               /\ added_time_str' = Repaired(text, now)
               /\ fpc' = IF NeedsRepair(text) THEN "check_added" ELSE "scheduled"
               /\ Try(ok)
    BY Zenon DEF LoadAdded
  <2>2. QED
    BY <2>1, Zenon DEF LoadsAdded
<1>2. QED
  BY <1>1

\* A step at the time files changes at most those of the working directory, and
\* marks it if a call has failed.
LEMMA FileStepEffect ==
    ASSUME CardsTypes, FileStep
    PROVE  /\ cpc = "load" /\ wpc = "visit" /\ pc = "idle"
           /\ fpc' \in FilePlaces \ {"added"}
           /\ card' \in MadeType /\ added_time_str' \in Text \cup {Garbage}
           /\ files' \in [Dir -> Contents]
           /\ sysCwd = NULL => UNCHANGED files
           /\ \A d \in Dir \ {sysCwd} : files'[d] = files[d]
           /\ spoiled \subseteq spoiled' /\ spoiled' \subseteq Dir
<1>1. /\ files \in [Dir -> Contents] /\ sysCwd \in Dir \cup {NULL}
      /\ spoiled \subseteq Dir /\ added_time_str \in Text \cup {Garbage}
      /\ Here.added \in Content /\ Here.scheduled \in Content
      /\ FileOutcome \subseteq BOOLEAN
  BY HereContents, OutcomeAssumption DEF CardsTypes, CardsTypeOK, WalkTypeOK, TypeOK
<1>2. \A ok : Try(ok) => spoiled \subseteq spoiled' /\ spoiled' \subseteq Dir
  BY <1>1 DEF Try
<1>3. CASE LoadAdded
  <2>1. PICK ok \in BOOLEAN, now \in Moments, later \in Moments : LoadsAdded(ok, now, later)
    BY <1>1, <1>3, LoadAddedChooses
  <2> DEFINE text == TextRead(Here.added, ok)
  <2>2. text \in Text \cup {Garbage}
    BY <1>1, TextCases
  <2>3. /\ cpc = "load" /\ wpc = "visit" /\ pc = "idle" /\ UNCHANGED files
    BY <1>3 DEF LoadAdded, Filing, Walking, At
  <2>4. now \in Time /\ later \in Time /\ entry \in Name \cup FileName
    BY <2>3, MomentTime DEF CardsTypes, WalkTypes
  <2>5. TimeFromString(text, now) \in Time /\ added_time_str' \in Text \cup {Garbage}
    BY <2>1, <2>2, <2>4, TimeRead, RepairTells DEF LoadsAdded
  <2> HIDE DEF text
  <2>6. card' \in MadeType
    BY <2>1, <2>4, <2>5 DEF NoCard, MadeType, LoadsAdded, text
  <2>7. QED
    BY <1>1, <1>2, <2>1, <2>3, <2>5, <2>6 DEF FilePlaces, LoadsAdded
<1>4. CASE LoadScheduled
  <2>1. PICK ok \in BOOLEAN :
          LET text == TextRead(Here.scheduled, ok)
          IN  /\ card' = [card EXCEPT !.when_next_scheduled = TimeFromString(text, @)]
              /\ fpc' = IF NeedsRepair(text) THEN "check_scheduled" ELSE "loaded"
              /\ Try(ok)
    BY <1>1, <1>4 DEF LoadScheduled
  <2> DEFINE text == TextRead(Here.scheduled, ok)
  <2>2. text \in Text \cup {Garbage}
    BY <1>1, TextCases
  <2>3. /\ cpc = "load" /\ wpc = "visit" /\ pc = "idle" /\ UNCHANGED <<files, added_time_str>>
        /\ fpc = "scheduled"
    BY <1>4 DEF LoadScheduled, Filing, Walking, At
  <2>4. card \in MadeType
    BY <2>3 DEF CardsTypes, Making
  <2>5. TimeFromString(text, card.when_next_scheduled) \in Time
    BY <2>2, <2>4, TimeRead DEF MadeType
  <2> HIDE DEF text
  <2>6. card' \in MadeType
    BY <2>1, <2>4, <2>5 DEF MadeType, text
  <2>7. QED
    BY <1>1, <1>2, <2>1, <2>3, <2>6 DEF FilePlaces
<1>5. CASE CheckAdded \/ CheckScheduled
  <2>1. /\ cpc = "load" /\ wpc = "visit" /\ pc = "idle" /\ UNCHANGED <<files, card, added_time_str>>
        /\ fpc # "added" /\ fpc' \in FilePlaces \ {"added"}
        /\ \E ok : Try(ok)
    BY <1>5 DEF CheckAdded, CheckScheduled, Check_File, Filing, Walking, At, FilePlaces
  <2>2. card \in MadeType
    BY <2>1 DEF CardsTypes, Making
  <2>3. QED
    BY <1>1, <1>2, <2>1, <2>2
<1>6. CASE SaveAdded \/ SaveScheduled
  <2>1. /\ cpc = "load" /\ wpc = "visit" /\ pc = "idle" /\ UNCHANGED <<card, added_time_str>>
        /\ fpc # "added" /\ fpc' \in FilePlaces \ {"added"}
        /\ \E ok : Try(ok)
    BY <1>6 DEF SaveAdded, SaveScheduled, Filing, Walking, At, FilePlaces
  <2>2. card \in MadeType
    BY <2>1 DEF CardsTypes, Making
  <2>3. PICK content \in Content :
          files' \in {files, [files EXCEPT ![sysCwd].added = content],
                      [files EXCEPT ![sysCwd].scheduled = content]}
                /\ (sysCwd = NULL => UNCHANGED files)
    BY <1>1, <1>6 DEF SaveAdded, SaveScheduled, Written, Content
  <2>4. files' \in [Dir -> Contents] /\ \A d \in Dir \ {sysCwd} : files'[d] = files[d]
    BY <1>1, <2>3 DEF Contents
  <2>5. QED
    BY <1>1, <1>2, <2>1, <2>2, <2>3, <2>4
<1>7. QED
  BY <1>3, <1>4, <1>5, <1>6 DEF FileStep

\* Beginning to push moves nothing.
LEMMA PushStandsStill ==
    ASSUME NEW path, Push(path)
    PROVE  UNCHANGED <<present, sysCwd, directory_current>>
<1>1. PushCWD_Missing(path) => UNCHANGED <<present, sysCwd, directory_current>>
  BY DEF PushCWD_Missing, fsVars
<1>2. PushCWD(path) => UNCHANGED <<present, sysCwd, directory_current>>
  BY DEF PushCWD, fsVars
<1>3. QED
  BY <1>1, <1>2 DEF Push

\* Only other processes remove and create directories.
LEMMA CallsKeepPresent ==
    ASSUME Calls \/ Steps \/ \E path : Push(path)
    PROVE  UNCHANGED present
<1>1. ASSUME NEW path, Push(path) PROVE UNCHANGED present
  BY <1>1, PushStandsStill
<1>2. CASE Calls
  <2>1. ASSUME NEW path, SetCWD(path) PROVE UNCHANGED present
    BY <2>1 DEF SetCWD
  <2>2. GetCWD \/ PopCWD => UNCHANGED present
    BY DEF GetCWD, PopCWD, fsVars
  <2>3. QED
    BY <1>1, <1>2, <2>1, <2>2 DEF Calls, Push
<1>3. CASE Steps
  <2>1. SetCWD_Refresh \/ PushCWD_Save \/ PushCWD_Refresh => UNCHANGED present
    BY DEF SetCWD_Refresh, PushCWD_Save, PushCWD_Refresh, fsVars
  <2>2. PushCWD_Chdir => UNCHANGED present
    BY DEF PushCWD_Chdir
  <2>3. PopCWD_Empty \/ PopCWD_Enter \/ PopCWD_Skip => UNCHANGED present
    BY DEF PopCWD_Empty, PopCWD_Enter, PopCWD_Skip, fsVars
  <2>4. QED
    BY <1>3, <2>1, <2>2, <2>3 DEF Steps
<1>4. QED
  BY <1>1, <1>2, <1>3

LEMMA PresentStays ==
    ASSUME [CardsNext]_everything, ~Disturb
    PROVE  UNCHANGED present
<1>1. PopCWD \/ GetCWD => Calls
  BY DEF Calls
<1>2. UNCHANGED vars \/ UNCHANGED allVars => UNCHANGED present
  BY DEF vars, allVars
<1>3. CASE CallerGoes
  BY <1>3 DEF CallerGoes, CallerPush, PushCWD, fsVars
<1>4. CASE GetAll \/ Again \/ ContentRead \/ ContentReturn \/ \E i \in DOMAIN list : GetContent(i)
  BY <1>1, <1>2, <1>4, CallsKeepPresent DEF GetAll, Again, ContentRead, ContentReturn, GetContent
<1>5. CASE GetAllStep
  BY <1>1, <1>2, <1>5, CallsKeepPresent DEF GetAllStep, Rooted, Discover, Check, Compare_Root,
     EnterDeck, ListCards, Iterate, Listed, Leave, LeaveStep, GetAllReturn
<1>6. CASE CardStep
  BY <1>1, <1>2, <1>6, CallsKeepPresent DEF CardStep, CardEnter, FileStep, CardPath, CardAdd, CardLeave,
     CardDone, Visited, fsVars, allVars, vars
<1>7. CASE StackStep
  BY <1>7, CallsKeepPresent DEF StackStep
<1>8. CASE WalkerStep
  <2>1. EnterPush => Push(entry)
    BY DEF EnterPush, Push
  <2>2. QED
    BY <1>1, <1>2, <1>8, <2>1, CallsKeepPresent DEF WalkerStep, WalkStep, Enter, Opened, LoopEnd,
       LoopSkip, LoopRead, Done, Popped, Unwind, IterateReturn
<1>9. CASE Edit \/ UNCHANGED everything
  BY <1>2, <1>9 DEF Edit, everything
<1>10. QED
  BY <1>3, <1>4, <1>5, <1>6, <1>7, <1>8, <1>9 DEF CardsNext, Library

\* Which steps change files, and the marks on their directories.
LEMMA FilesChange ==
    ASSUME [CardsNext]_everything
    PROVE  /\ UNCHANGED files \/ FileStep \/ Disturb \/ Edit
           /\ UNCHANGED <<spoiled, edits>> \/ FileStep \/ Edit \/ GetAll
  BY DEF CardsNext, CallerGoes, GetAll, Again, GetContent, Library, GetAllStep, Rooted, Discover,
     Check, Compare_Root, EnterDeck, ListCards, Listed, Leave, GetAllReturn, CardStep, CardEnter,
     CardPath, CardAdd, CardLeave, CardDone, StackStep, WalkerStep, ContentRead, ContentReturn,
     Disturb, fileVars, cardVars, everything

\* The process is in a directory that is there, or in none.
LEMMA CwdStep ==
    ASSUME CardsTypes, TypeOK, [CardsNext]_everything
    PROVE  sysCwd' \in present' \cup {NULL}
<1>1. sysCwd \in present \cup {NULL} /\ NULL \notin Dir /\ dirstack \in Seq(Dir)
      /\ NULL \notin Name /\ Dir \cap Name = {}
  BY NullAssumption DEF CardsTypes, TypeOK
<1>2. CASE UNCHANGED <<present, sysCwd>>
  BY <1>1, <1>2
<1>3. CASE Environment
  BY <1>1, <1>3 DEF Environment, DirRemoved, DirCreated
<1>4. ASSUME NEW path, CanEnter(path), sysCwd' = Resolve(path), UNCHANGED present
      PROVE  sysCwd' \in present'
  BY <1>4 DEF CanEnter
<1>5. CASE Calls
  <2>1. ASSUME NEW path \in Argument, SetCWD(path) PROVE sysCwd' \in present' \cup {NULL}
    <3>1. UNCHANGED present /\ (UNCHANGED sysCwd \/ (CanEnter(path) /\ sysCwd' = Resolve(path)))
      BY <2>1 DEF SetCWD, Entered
    <3>2. QED
      BY <1>1, <1>4, <3>1
  <2>2. CASE GetCWD \/ PopCWD
    BY <1>2, <2>2 DEF GetCWD, PopCWD, fsVars
  <2>3. CASE \E path \in Argument : Push(path)
    BY <1>2, <2>3, PushStandsStill
  <2>4. QED
    BY <1>5, <2>1, <2>2, <2>3 DEF Calls, Push
<1>6. CASE Steps
  <2>1. CASE SetCWD_Refresh \/ PushCWD_Save \/ PushCWD_Refresh \/ PopCWD_Empty \/ PopCWD_Skip
    BY <1>2, <2>1 DEF SetCWD_Refresh, PushCWD_Save, PushCWD_Refresh, PopCWD_Empty, PopCWD_Skip, fsVars
  <2>2. CASE PushCWD_Chdir
    BY <1>1, <1>4, <2>2 DEF PushCWD_Chdir, Entered
  <2>3. CASE PopCWD_Enter
    <3>1. /\ dirstack # <<>> /\ CanEnter(Last(dirstack)) /\ sysCwd' = Last(dirstack)
          /\ UNCHANGED present
      BY <2>3 DEF PopCWD_Enter, Entered
    <3>2. Last(dirstack) \in Dir
      BY <1>1, <3>1, LenProperties, ElementOfSeq, EmptySeq DEF Last
    <3>3. Resolve(Last(dirstack)) = Last(dirstack)
      BY <3>2 DEF Resolve
    <3>4. QED
      BY <3>1, <3>3 DEF CanEnter
  <2>4. QED
    BY <1>6, <2>1, <2>2, <2>3 DEF Steps
<1>7. CASE CardAdd
  BY <1>2, <1>7 DEF CardAdd, fsVars
<1>8. QED
  BY <1>2, <1>3, <1>5, <1>6, <1>7, CardsIsStack DEF Next, vars

\* A directory that is not there has no files.
LEMMA FilesTyped ==
    ASSUME CardsTypes, TypeOK', [CardsNext]_everything
    PROVE  /\ files' \in [Dir -> Contents]
           /\ \A d \in Dir \ present' : files'[d] = NoFiles
<1>1. /\ files \in [Dir -> Contents] /\ present' \subseteq Dir /\ NoFiles \in Contents
      /\ \A d \in Dir \ present : files[d] = NoFiles
  BY DEF CardsTypes, TypeOK, Contents, NoFiles, Content
<1>2. CASE Disturb
  BY <1>1, <1>2 DEF Disturb
<1>3. CASE UNCHANGED files /\ ~Disturb
  BY <1>1, <1>3, PresentStays
<1>4. CASE FileStep
  <2>1. UNCHANGED present /\ sysCwd \in present \cup {NULL}
    BY <1>4, FilesAside DEF Aside, allVars, vars, CardsTypes
  <2>2. QED
    BY <1>1, <1>4, <2>1, FileStepEffect, NullAssumption
<1>5. CASE Edit
  <2>1. UNCHANGED present
    BY <1>5, FilesAside DEF Aside, allVars, vars
  <2>2. PICK d \in Dir \cap present, content \in Content :
          \/ files' = [files EXCEPT ![d].added = content]
          \/ files' = [files EXCEPT ![d].scheduled = content]
    BY <1>5, EditsAssumption DEF Edit
  <2>3. files' \in [Dir -> Contents] /\ \A e \in Dir \ {d} : files'[e] = files[e]
    BY <1>1, <2>2 DEF Contents
  <2>4. QED
    BY <1>1, <2>1, <2>3
<1>6. QED
  BY <1>2, <1>3, <1>4, <1>5, FilesChange

-----------------------------------------------------------------------------
(* The types of the card calls.                                            *)

\* The variables of the card calls that hold neither files nor the list.
PlainTypes ==
    /\ gpc \in {"idle", "rooted", "discover", "check", "compare", "checked", "deck", "walk",
                "leave", "returned", "content", "content_read"}
    /\ cpc \in {"enter", "load", "add", "leave", "done"}
    /\ held \in 0..2 /\ found \in BOOLEAN /\ refused \in BOOLEAN /\ failed \in BOOLEAN
    /\ steady \subseteq Dir
    /\ calls \in 0..MaxCalls
    /\ origin \in [cwd : Dir \cup {NULL}, stack : Seq(Dir)]
    /\ cpc # "enter" => wpc = "visit"
    /\ wpc = "idle" <=> gpc # "walk"

\* The card get_cards makes, and its buffer.
MadeTypes == /\ Making => card \in MadeType /\ pc = "idle"
             /\ cpc = "add" => ret \in Dir \cup {NULL}
             /\ cpc # "load" => fpc = "added"
             /\ fpc \in FilePlaces /\ added_time_str \in Text \cup {Garbage}

FileTypes == /\ files \in [Dir -> Contents]
             /\ list \in Seq(CardType)
             /\ spoiled \subseteq Dir /\ edits \in 0..MaxEdits
             /\ \A d \in Dir \ present : files[d] = NoFiles
             /\ sysCwd \in present \cup {NULL}

LEMMA TypesTogether ==
    CardsTypes <=> /\ WalkTypes /\ PlainTypes /\ MadeTypes
                   /\ FileTypes
<1>1. ASSUME list \in Seq(CardType), NEW i \in DOMAIN list
      PROVE  list[i].id \in Name \cup FileName /\ list[i].path \in Dir
  <2>1. list[i] \in CardType
    BY <1>1, ElementOfSeq, LenProperties
  <2>2. QED
    BY <2>1 DEF CardType
<1>2. QED
  BY <1>1 DEF CardsTypes, CardsTypeOK, WalkTypes, PlainTypes, MadeTypes, FileTypes, FilePlaces

\* What a call that begins remembers of its caller.
LEMMA BeginsTypes ==
    ASSUME TypeOK, CallBegins, calls \in Nat
    PROVE  calls' \in 0..MaxCalls /\ origin' \in [cwd : Dir \cup {NULL}, stack : Seq(Dir)]
  BY CallsAssumption DEF TypeOK, CallBegins

LEMMA PlainTypesStep ==
    ASSUME CardsTypes, TypeOK', [CardsNext]_everything
    PROVE  PlainTypes'
<1>1. PlainTypes /\ TypeOK /\ WalkTypes
  BY TypesTogether DEF CardsTypes, CardsTypeOK, WalkTypeOK
<1>2. calls \in Nat
  BY <1>1 DEF PlainTypes
<1>3. CASE CallerGoes \/ FileStep \/ Edit \/ UNCHANGED everything
  BY <1>1, <1>3, FilesAside DEF CallerGoes, CallerPush, Aside, allVars, cardVars, walk, PlainTypes
<1>4. CASE GetAll
  <2>1. /\ gpc' = "rooted" /\ held' = 0 /\ found' = FALSE /\ steady' = present /\ gpc = "idle"
        /\ UNCHANGED <<wpc, cpc, refused, failed>> /\ CallBegins
    BY <1>4 DEF GetAll, Listing, walk
  <2>2. present \subseteq Dir /\ (wpc = "idle" /\ cpc = "enter")
    BY <1>1, <2>1 DEF PlainTypes, TypeOK
  <2>3. calls' \in 0..MaxCalls /\ origin' \in [cwd : Dir \cup {NULL}, stack : Seq(Dir)]
    BY <1>1, <1>2, <2>1, BeginsTypes
  <2>4. held' \in 0..2 /\ found' \in BOOLEAN
    <3>1. held' = 0
      BY <2>1
    <3>2. found' \in BOOLEAN
      BY <2>1, Zenon
    <3>3. QED
      BY <3>1, <3>2
  <2>5. /\ UNCHANGED <<wpc, cpc, refused, failed>> /\ gpc' = "rooted" /\ gpc = "idle"
        /\ steady' \subseteq Dir
    BY <2>1, <2>2
  <2>6. QED
    BY <1>1, <2>3, <2>4, <2>5 DEF PlainTypes
<1>5. ASSUME NEW i \in DOMAIN list, GetContent(i) PROVE PlainTypes'
  <2>1. /\ gpc' = "content" /\ gpc = "returned" /\ CallBegins
        /\ UNCHANGED <<wpc, cpc, held, found, steady, refused, failed>>
    BY <1>5 DEF GetContent, Listing, walk
  <2>2. QED
    BY <1>1, <1>2, <2>1, BeginsTypes DEF PlainTypes
<1>6. CASE Again \/ ContentReturn \/ ContentRead
  BY <1>1, <1>6 DEF Again, ContentReturn, ContentRead, Listing, allVars, walk, PlainTypes
<1>7. CASE GetAllStep
  <2>1. CASE Rooted \/ Discover \/ Check \/ Compare_Root \/ EnterDeck \/ GetAllReturn
    <3>1. /\ UNCHANGED <<wpc, cpc, calls, origin, refused, failed, steady>>
          /\ gpc # "walk"
          /\ gpc' \in {"leave", "discover", "checked", "check", "compare", "deck", "returned"}
      BY <2>1 DEF Rooted, Discover, Check, Compare_Root, EnterDeck, GetAllReturn, Listing,
         allVars, walk
    <3>2. held' \in 0..2
      BY <1>1, <2>1 DEF Rooted, Discover, Check, Compare_Root, EnterDeck, GetAllReturn, PlainTypes
    <3>3. found' \in BOOLEAN
      <4>1. found \in BOOLEAN
        BY <1>1 DEF PlainTypes
      <4>2. CASE Rooted \/ Check \/ EnterDeck \/ GetAllReturn
        BY <4>1, <4>2 DEF Rooted, Check, EnterDeck, GetAllReturn
      <4>3. CASE Discover
        <5>1. CASE ret = NULL
          BY <4>3, <5>1, Zenon DEF Discover
        <5>2. CASE ret # NULL
          <6>1. found' = (Resolve(DeckName) \in present)
            BY <4>3, <5>2 DEF Discover
          <6>2. (Resolve(DeckName) \in present) \in BOOLEAN
            OBVIOUS
          <6>3. QED
            BY <6>1, <6>2, Zenon
        <5>3. QED
          BY <5>1, <5>2
      <4>4. CASE Compare_Root
        <5>1. CASE ret = NULL
          BY <4>1, <4>4, <5>1 DEF Compare_Root
        <5>2. CASE ret # NULL
          BY <4>4, <5>2, Zenon DEF Compare_Root
        <5>3. QED
          BY <5>1, <5>2
      <4>5. QED
        BY <2>1, <4>2, <4>3, <4>4
    <3>4. QED
      BY <1>1, <3>1, <3>2, <3>3 DEF PlainTypes
  <2>2. CASE ListCards
    <3>1. /\ held' \in {1, 2} /\ UNCHANGED <<cpc, found, calls, origin, refused, failed, steady>>
          /\ gpc = "deck"
          /\ \/ gpc' = "walk" /\ wpc = "idle" /\ wpc' = "enter"
             \/ gpc' = "leave" /\ UNCHANGED wpc
      BY <2>2 DEF ListCards, Listing, Iterate, Walking, allVars, walk
    <3>2. QED
      BY <1>1, <3>1 DEF PlainTypes
  <2>3. CASE Listed
    <3>1. /\ UNCHANGED <<cpc, held, found, calls, origin, refused, steady>>
          /\ failed' \in BOOLEAN
          /\ gpc' = "leave" /\ wpc = "returned" /\ wpc' = "idle"
      BY <1>1, <2>3 DEF Listed, PlainTypes, WalkTypes, WalkTypeOK
    <3>2. QED
      BY <1>1, <3>1 DEF PlainTypes
  <2>4. CASE Leave
    <3>1. /\ UNCHANGED <<wpc, gpc, cpc, found, calls, origin, refused, failed, steady>>
          /\ held' = held - 1 /\ held > 0
      BY <2>4 DEF Leave, LeaveStep, walk
    <3>2. QED
      BY <1>1, <3>1 DEF PlainTypes
  <2>5. QED
    BY <1>7, <2>1, <2>2, <2>3, <2>4 DEF GetAllStep
<1>8. CASE CardStep
  <2>1. CASE CardEnter \/ CardPath \/ CardAdd \/ CardLeave
    <3>1. /\ UNCHANGED <<wpc, gpc, held, found, calls, origin, failed, steady>> /\ wpc = "visit"
          /\ cpc' \in {"load", "add", "leave", "done", cpc} /\ refused' \in BOOLEAN
      BY <1>1, <2>1 DEF CardEnter, CardPath, CardAdd, CardLeave, Filing, Walking, walk, PlainTypes
    <3>2. QED
      BY <1>1, <3>1 DEF PlainTypes
  <2>2. CASE CardDone
    <3>1. /\ UNCHANGED <<gpc, held, found, calls, origin, refused, failed, steady>>
          /\ cpc' = "enter" /\ Walking("visit") /\ Advance
      BY <2>2 DEF CardDone, Visited, Descends
    <3>2. wpc = "visit" /\ wpc' # "idle"
      BY <3>1 DEF Walking, Advance
    <3>3. QED
      BY <1>1, <3>1, <3>2 DEF PlainTypes
  <2>3. QED
    BY <1>3, <1>8, <2>1, <2>2 DEF CardStep
<1>9. CASE StackStep
  BY <1>1, <1>9 DEF StackStep, cardVars, walk, PlainTypes
<1>10. CASE WalkerStep
  <2>1. UNCHANGED cardVars /\ wpc \notin {"idle", "visit"} /\ wpc' # "idle"
    BY <1>10 DEF WalkerStep, WalkStep, Enter, EnterPush, Opened, LoopEnd, LoopSkip, LoopRead,
       Done, Popped, Unwind, IterateReturn, Walking, Advance
  <2>2. QED
    BY <1>1, <2>1 DEF cardVars, PlainTypes
<1>11. CASE Disturb
  BY <1>1, <1>11 DEF Disturb, walk, PlainTypes
<1>12. QED
  BY <1>3, <1>4, <1>5, <1>6, <1>7, <1>8, <1>9, <1>10, <1>11 DEF CardsNext, Library

\* While a card is made, nothing but the steps at its files and other processes
\* move.
LEMMA WhileMaking ==
    ASSUME CardsTypes, [CardsNext]_everything, Making', ~CardPath, ~FileStep
    PROVE  /\ Making /\ UNCHANGED <<gpc, cpc, fpc, card, added_time_str, pc, ret>>
           /\ UNCHANGED <<sysCwd, directory_current>> \/ Disturb
<1>1. PlainTypes /\ MadeTypes
  BY TypesTogether
<1>2. ASSUME UNCHANGED <<gpc, cpc, fpc, card, added_time_str, pc, ret>>,
             UNCHANGED <<sysCwd, directory_current>> \/ Disturb
      PROVE  /\ Making /\ UNCHANGED <<gpc, cpc, fpc, card, added_time_str, pc, ret>>
             /\ UNCHANGED <<sysCwd, directory_current>> \/ Disturb
  BY <1>2 DEF Making
<1>3. CASE Edit \/ UNCHANGED everything
  BY <1>2, <1>3 DEF Edit, everything, allVars, vars, cardVars, fileVars
<1>4. CASE Disturb
  BY <1>2, <1>4 DEF Disturb, Environment, DirRemoved, DirCreated
<1>5. CASE StackStep
  <2>1. UNCHANGED <<cpc, fpc>> /\ pc # "idle"
    BY <1>5 DEF StackStep, cardVars, fileVars, Steps, SetCWD_Refresh, PushCWD_Save, PushCWD_Chdir,
       PushCWD_Refresh, PopCWD_Empty, PopCWD_Enter, PopCWD_Skip, At
  <2>2. QED
    BY <1>1, <2>1 DEF MadeTypes, Making
<1>6. CASE WalkerStep
  <2>1. UNCHANGED <<cpc, fpc>> /\ wpc # "visit"
    BY <1>6 DEF WalkerStep, cardVars, fileVars, WalkStep, Enter, EnterPush, Opened, LoopEnd, LoopSkip,
       LoopRead, Done, Popped, Unwind, IterateReturn, Walking
  <2>2. QED
    BY <1>1, <2>1 DEF PlainTypes, Making
<1>7. CASE CardStep
  <2>1. CASE CardAdd
    <3>1. cpc = "add" /\ UNCHANGED <<gpc, card, pc, ret, fpc, added_time_str, sysCwd, directory_current>>
      BY <2>1 DEF CardAdd, fileVars, fsVars
    <3>2. fpc = "added" /\ cpc' \in {"add", "leave"}
      BY <1>1, <2>1, <3>1 DEF MadeTypes, CardAdd
    <3>3. QED
      BY <1>2, <3>1, <3>2 DEF Making
  <2>2. CASE CardEnter \/ CardLeave \/ CardDone
    <3>1. UNCHANGED fpc /\ cpc # "load" /\ cpc' # "add"
      BY <2>2 DEF CardEnter, CardLeave, CardDone, fileVars
    <3>2. QED
      BY <1>1, <3>1 DEF MadeTypes, Making
  <2>3. QED
    BY <1>7, <2>1, <2>2 DEF CardStep
<1>8. CASE GetAllStep
  <2>1. UNCHANGED <<cpc, fpc>> /\ wpc # "visit"
    BY <1>1, <1>8 DEF PlainTypes, GetAllStep, Rooted, Discover, Check, Compare_Root, EnterDeck,
       ListCards, Listed, Leave, LeaveStep, GetAllReturn, Listing, fileVars
  <2>2. QED
    BY <1>1, <2>1 DEF PlainTypes, Making
<1>9. CASE \/ CallerGoes \/ GetAll \/ Again \/ ContentRead \/ ContentReturn
            \/ \E i \in DOMAIN list : GetContent(i)
  <2>1. UNCHANGED <<cpc, fpc>> /\ gpc # "walk"
    BY <1>9 DEF CallerGoes, cardVars, fileVars, GetAll, Again, ContentRead, ContentReturn, GetContent,
       Listing
  <2>2. QED
    BY <1>1, <2>1 DEF PlainTypes, Making
<1>10. QED
  BY <1>3, <1>4, <1>5, <1>6, <1>7, <1>8, <1>9 DEF CardsNext, Library

\* Where get_cards is at the files, while it is not making a card.
LEMMA FilePlacesStep ==
    ASSUME CardsTypes, [CardsNext]_everything, ~FileStep
    PROVE  fpc' \in {fpc, "added"} /\ UNCHANGED added_time_str /\ (cpc' # "load" => fpc' = "added")
<1>1. cpc # "load" => fpc = "added"
  BY DEF CardsTypes
<1>2. CASE CardPath
  BY <1>2 DEF CardPath
<1>3. CASE CardEnter \/ CardAdd \/ CardLeave \/ CardDone
  BY <1>1, <1>3 DEF CardEnter, CardAdd, CardLeave, CardDone, fileVars
<1>4. CASE ~CardStep
  <2>1. UNCHANGED <<cpc, fpc, added_time_str>>
    BY <1>4 DEF CardsNext, CallerGoes, GetAll, Again, GetContent, Library, GetAllStep, Rooted,
       Discover, Check, Compare_Root, EnterDeck, ListCards, Listed, Leave, GetAllReturn, StackStep,
       WalkerStep, ContentRead, ContentReturn, Disturb, Edit, fileVars, cardVars, everything
  <2>2. QED
    BY <1>1, <2>1
<1>5. QED
  BY <1>2, <1>3, <1>4 DEF CardStep

LEMMA MadeTypesStep ==
    ASSUME CardsTypes, TypeOK', [CardsNext]_everything
    PROVE  MadeTypes'
<1>1. MadeTypes /\ TypeOK
  BY TypesTogether DEF CardsTypes, CardsTypeOK, WalkTypeOK
<1>2. /\ fpc' \in FilePlaces /\ added_time_str' \in Text \cup {Garbage}
      /\ cpc' # "load" => fpc' = "added"
  <2>1. CASE FileStep
    <3>1. cpc' = "load"
      BY <2>1, FileStepEffect, FilesAside DEF Aside
    <3>2. QED
      BY <2>1, <3>1, FileStepEffect
  <2>2. CASE ~FileStep
    BY <1>1, <2>2, FilePlacesStep DEF MadeTypes, FilePlaces
  <2>3. QED
    BY <2>1, <2>2
<1>3. ASSUME Making' PROVE /\ card' \in MadeType /\ pc' = "idle"
                           /\ cpc' = "add" => ret' \in Dir \cup {NULL}
  <2>1. CASE CardPath
    <3>1. pc = "idle" /\ pc' = pc /\ ret' \in CachedOrSystem /\ UNCHANGED card /\ Making
      BY <2>1 DEF CardPath, GetCWD, At, Filing, Making
    <3>2. CachedOrSystem \subseteq Dir \cup {NULL}
      BY <1>1 DEF CachedOrSystem, TypeOK
    <3>3. QED
      BY <1>1, <3>1, <3>2 DEF MadeTypes
  <2>2. CASE FileStep
    BY <2>2, FileStepEffect, FilesAside DEF Aside, allVars, vars
  <2>3. CASE ~CardPath /\ ~FileStep
    BY <1>1, <1>3, <2>3, WhileMaking DEF MadeTypes
  <2>4. QED
    BY <2>1, <2>2, <2>3
<1>4. QED
  BY <1>2, <1>3 DEF MadeTypes, Making

\* The list: emptied by GetAll, added to by CardAdd.
LEMMA ListStep ==
    ASSUME [CardsNext]_everything
    PROVE  \/ UNCHANGED list
           \/ list' = <<>> /\ GetAll
           \/ CardAdd /\ ret # NULL /\ list' = Append(list, [card EXCEPT !.path = ret])
<1>1. CASE CardAdd
  BY <1>1 DEF CardAdd
<1>2. CASE ~CardAdd
  BY <1>2 DEF CardsNext, CallerGoes, GetAll, Again, GetContent, Library, GetAllStep, Rooted,
     Discover, Check, Compare_Root, EnterDeck, ListCards, Listed, Leave, GetAllReturn, CardStep,
     CardEnter, FileStep, CardPath, CardLeave, CardDone, StackStep, WalkerStep, ContentRead, ContentReturn,
     Disturb, Edit, cardVars, everything
<1>3. QED
  BY <1>1, <1>2

LEMMA CardsTypesInit == CardsInit => CardsTypes
<1> SUFFICES ASSUME CardsInit PROVE CardsTypes
  OBVIOUS
<1>1. WalkTypes /\ present = Dir /\ sysCwd \in present
  BY CardsWalkTypesInit, StartAssumption DEF CardsInit, WalkInit, Init
<1>2. /\ files \in [Dir -> Contents] /\ list \in Seq(CardType)
      /\ spoiled \subseteq Dir /\ edits \in 0..MaxEdits
  BY FilesInDirs, EditsAssumption, EmptySeq DEF CardsInit, Contents
<1>3. PlainTypes /\ MadeTypes
  <2>1. origin \in [cwd : Dir \cup {NULL}, stack : Seq(Dir)]
    BY EmptySeq DEF CardsInit
  <2>2. calls \in 0..MaxCalls
    BY CallsAssumption DEF CardsInit
  <2>3. held \in 0..2 /\ found \in BOOLEAN /\ refused \in BOOLEAN /\ failed \in BOOLEAN
    <3>1. held = 0
      BY DEF CardsInit
    <3>2. found \in BOOLEAN /\ refused \in BOOLEAN /\ failed \in BOOLEAN
      BY Zenon DEF CardsInit
    <3>3. QED
      BY <3>1, <3>2
  <2>4. /\ gpc = "idle" /\ cpc = "enter" /\ steady = {} /\ wpc = "idle"
        /\ fpc = "added" /\ added_time_str = Garbage
    BY DEF CardsInit, WalkInit
  <2>5. QED
    BY <2>1, <2>2, <2>3, <2>4 DEF PlainTypes, MadeTypes, Making, FilePlaces
<1>4. QED
  BY <1>1, <1>2, <1>3, TypesTogether DEF FileTypes

LEMMA CardsTypesStep ==
    ASSUME CardsTypes, IInv, [CardsNext]_everything
    PROVE  CardsTypes' /\ IInv'
<1>1. IInv' /\ TypeOK' /\ WalkTypes'
  BY CardsIInvStep, CardsWalkTypes DEF IInv
<1>2. PlainTypes' /\ MadeTypes'
  BY <1>1, PlainTypesStep, MadeTypesStep
<1>3. /\ files' \in [Dir -> Contents] /\ \A d \in Dir \ present' : files'[d] = NoFiles
      /\ sysCwd' \in present' \cup {NULL}
  BY <1>1, FilesTyped, CwdStep DEF IInv
<1>s. spoiled' \subseteq Dir /\ edits' \in 0..MaxEdits
  <2>1. spoiled \subseteq Dir /\ edits \in 0..MaxEdits
    BY DEF CardsTypes, CardsTypeOK
  <2>2. CASE FileStep
    BY <2>1, <2>2, FileStepEffect DEF FileStep
  <2>3. CASE Edit
    BY <2>1, <2>3, EditsAssumption DEF Edit
  <2>4. CASE GetAll
    BY <2>1, <2>4 DEF GetAll
  <2>5. QED
    BY <2>1, <2>2, <2>3, <2>4, FilesChange
<1>4. list' \in Seq(CardType)
  <2>1. list \in Seq(CardType) /\ <<>> \in Seq(CardType)
    BY EmptySeq DEF CardsTypes
  <2>2. ASSUME CardAdd, ret # NULL PROVE [card EXCEPT !.path = ret] \in CardType
    BY <2>2 DEF CardAdd, CardsTypes, Making, MadeType, CardType
  <2>3. CASE CardAdd /\ ret # NULL /\ list' = Append(list, [card EXCEPT !.path = ret])
    BY <2>1, <2>2, <2>3, AppendProperties
  <2>4. QED
    BY <2>1, <2>3, ListStep
<1>5. CardsTypes'
  <2>1. FileTypes'
    BY <1>3, <1>s, <1>4 DEF FileTypes
  <2>2. QED
    BY <1>1, <1>2, <2>1, TypesTogether, PTL
<1>6. QED
  BY <1>1, <1>5

LEMMA CardsTypesAlways == CardsSpec => [](CardsTypes /\ IInv)
<1>1. CardsInit => CardsTypes /\ IInv
  BY CardsTypesInit, CardsWalkTypesInit
<1>2. CardsTypes /\ IInv /\ [CardsNext]_everything => CardsTypes' /\ IInv'
  BY CardsTypesStep
<1>3. QED
  BY <1>1, <1>2, PTL DEF CardsSpec

-----------------------------------------------------------------------------
(* A time file is only written over when it is no time: where no call has  *)
(* failed and nobody else has written, it still is what was read.          *)

Valid(content) == content # Missing /\ Readable(content)

OverwritesNoTime ==
    cpc = "load" /\ sysCwd # NULL /\ sysCwd \notin spoiled =>
        /\ fpc \in {"check_added", "save_added"} => ~Valid(files[sysCwd].added)
        /\ fpc = "save_added" => files[sysCwd].added # Missing
        /\ fpc \in {"check_scheduled", "save_scheduled"} => ~Valid(files[sysCwd].scheduled)
        /\ fpc = "save_scheduled" => files[sysCwd].scheduled # Missing

\* What a step does to the files of an unmarked directory.
LEMMA FilesStep ==
    ASSUME CardsTypes, TypeOK', OverwritesNoTime, [CardsNext]_everything, NEW d \in Dir \ spoiled'
    PROVE  \/ d \notin present' /\ files'[d] = NoFiles
           \/ /\ TimeKept(files[d].added, files'[d].added)
              /\ TimeKept(files[d].scheduled, files'[d].scheduled)
              /\ files[d].added = Missing => files'[d].added = Missing
<1>1. files \in [Dir -> Contents] /\ sysCwd \in present \cup {NULL} /\ present \subseteq Dir
      /\ NULL \notin Dir
  BY NullAssumption DEF CardsTypes, CardsTypeOK, WalkTypeOK, TypeOK
<1>2. ASSUME files'[d] = files[d]
      PROVE  /\ TimeKept(files[d].added, files'[d].added)
             /\ TimeKept(files[d].scheduled, files'[d].scheduled)
             /\ files[d].added = Missing => files'[d].added = Missing
  BY <1>2 DEF TimeKept
<1>3. CASE Disturb
  BY <1>2, <1>3 DEF Disturb, NoFiles
<1>4. CASE Edit
  <2>1. PICK e \in Editable \cap present, content \in EditorWrites :
          /\ \/ files' = [files EXCEPT ![e].added = content]
             \/ files' = [files EXCEPT ![e].scheduled = content]
          /\ spoiled' = spoiled \cup {e}
    BY <1>4 DEF Edit
  <2>2. d # e
    BY <2>1
  <2>3. QED
    BY <1>1, <1>2, <2>1, <2>2
<1>5. CASE FileStep
  <2>1. CASE d # sysCwd \/ sysCwd = NULL
    BY <1>1, <1>2, <1>5, <2>1, FileStepEffect
  <2>2. ASSUME d = sysCwd, SaveAdded \/ SaveScheduled
        PROVE  /\ TimeKept(files[d].added, files'[d].added)
               /\ TimeKept(files[d].scheduled, files'[d].scheduled)
               /\ files[d].added = Missing => files'[d].added = Missing
    <3>1. d \notin spoiled /\ cpc = "load" /\ sysCwd # NULL
      BY <1>1, <1>5, <2>2, FileStepEffect
    <3>2. CASE SaveAdded
      <4>1. PICK content : files' = [files EXCEPT ![sysCwd].added = content]
        BY <3>1, <3>2 DEF SaveAdded
      <4>2. files'[d].scheduled = files[d].scheduled
        BY <1>1, <2>2, <4>1 DEF Contents
      <4>3. fpc = "save_added"
        BY <3>2 DEF SaveAdded, Filing
      <4>4. ~Valid(files[d].added) /\ files[d].added # Missing
        BY <2>2, <3>1, <4>3 DEF OverwritesNoTime
      <4>5. QED
        BY <4>2, <4>4 DEF TimeKept, Valid
    <3>3. CASE SaveScheduled
      <4>1. PICK content : files' = [files EXCEPT ![sysCwd].scheduled = content]
        BY <3>1, <3>3 DEF SaveScheduled
      <4>2. files'[d].added = files[d].added
        BY <1>1, <2>2, <4>1 DEF Contents
      <4>3. fpc = "save_scheduled"
        BY <3>3 DEF SaveScheduled, Filing
      <4>4. ~Valid(files[d].scheduled)
        BY <2>2, <3>1, <4>3 DEF OverwritesNoTime
      <4>5. QED
        BY <4>2, <4>4 DEF TimeKept, Valid
    <3>4. QED
      BY <2>2, <3>2, <3>3
  <2>3. CASE LoadAdded \/ LoadScheduled \/ CheckAdded \/ CheckScheduled
    <3>1. UNCHANGED files
      <4>1. LoadAdded => UNCHANGED files
        BY Zenon DEF LoadAdded
      <4>2. LoadScheduled => UNCHANGED files
        BY Zenon DEF LoadScheduled
      <4>3. CheckAdded \/ CheckScheduled => UNCHANGED files
        BY DEF CheckAdded, CheckScheduled, Check_File
      <4>4. QED
        BY <2>3, <4>1, <4>2, <4>3
    <3>2. QED
      BY <1>2, <3>1
  <2>4. QED
    BY <1>5, <2>1, <2>2, <2>3 DEF FileStep
<1>6. QED
  BY <1>2, <1>3, <1>4, <1>5, FilesChange

\* A step at the files of an unmarked directory was one that succeeded.
LEMMA Succeeded ==
    ASSUME NEW ok \in FileOutcome, Try(ok), sysCwd # NULL, sysCwd \notin spoiled'
    PROVE  ok = TRUE
  BY OutcomeAssumption DEF Try

LEMMA OverwritesNoTimeStep ==
    ASSUME CardsTypes, IInv, OverwritesNoTime, [CardsNext]_everything
    PROVE  OverwritesNoTime'
<1> SUFFICES ASSUME cpc' = "load", sysCwd' # NULL, sysCwd' \notin spoiled', fpc' # "added"
             PROVE  /\ fpc' \in {"check_added", "save_added"} => ~Valid(files'[sysCwd'].added)
                    /\ fpc' = "save_added" => files'[sysCwd'].added # Missing
                    /\ fpc' \in {"check_scheduled", "save_scheduled"} =>
                         ~Valid(files'[sysCwd'].scheduled)
                    /\ fpc' = "save_scheduled" => files'[sysCwd'].scheduled # Missing
  BY DEF OverwritesNoTime
<1>1. Making' /\ ~CardPath
  BY DEF Making, CardPath
<1>2. CASE FileStep
  <2>1. UNCHANGED sysCwd /\ sysCwd \in Dir /\ Here = files[sysCwd]
        /\ Here.added \in Content /\ Here.scheduled \in Content
    BY <1>2, FilesAside, HereContents DEF Aside, allVars, vars
  <2>2. ASSUME NEW ok \in FileOutcome, Try(ok) PROVE ok = TRUE
    BY <2>1, <2>2, Succeeded
  <2>3. CASE LoadAdded
    <3>1. PICK ok \in FileOutcome :
            /\ fpc' = IF NeedsRepair(TextRead(Here.added, ok)) THEN "check_added" ELSE "scheduled"
            /\ Try(ok)
      BY <2>3 DEF LoadAdded
    <3>2. UNCHANGED files
      BY <2>3 DEF LoadAdded
    <3>3. fpc' = "check_added" => ~Readable(TextRead(Here.added, TRUE))
      BY <2>2, <3>1 DEF NeedsRepair
    <3>4. QED
      BY <2>1, <3>1, <3>2, <3>3, TextCases DEF Valid
  <2>4. CASE LoadScheduled
    <3>1. PICK ok \in FileOutcome :
            /\ fpc' = IF NeedsRepair(TextRead(Here.scheduled, ok))
                      THEN "check_scheduled" ELSE "loaded"
            /\ Try(ok)
      BY <2>4 DEF LoadScheduled
    <3>2. UNCHANGED files
      BY <2>4 DEF LoadScheduled
    <3>3. fpc' = "check_scheduled" => ~Readable(TextRead(Here.scheduled, TRUE))
      BY <2>2, <3>1 DEF NeedsRepair
    <3>4. QED
      BY <2>1, <3>1, <3>2, <3>3, TextCases DEF Valid
  <2>5. CASE CheckAdded \/ CheckScheduled
    <3>1. /\ UNCHANGED files /\ cpc = "load" /\ fpc' # "check_added" /\ fpc' # "check_scheduled"
          /\ fpc' = "save_added" => fpc = "check_added" /\ Here.added # Missing
          /\ fpc' = "save_scheduled" => fpc = "check_scheduled" /\ Here.scheduled # Missing
      BY <2>5 DEF CheckAdded, CheckScheduled, Check_File, Filing
    <3>2. sysCwd \notin spoiled
      BY <1>2, <2>1, FileStepEffect
    <3>3. QED
      BY <2>1, <3>1, <3>2 DEF OverwritesNoTime
  <2>6. CASE SaveAdded \/ SaveScheduled
    BY <2>6 DEF SaveAdded, SaveScheduled
  <2>7. QED
    BY <1>2, <2>3, <2>4, <2>5, <2>6 DEF FileStep
<1>3. CASE ~FileStep
  <2>1. Making /\ UNCHANGED <<gpc, cpc, fpc>> /\ (UNCHANGED <<sysCwd, directory_current>> \/ Disturb)
    BY <1>1, <1>3, WhileMaking
  <2>2. gpc # "idle"
    BY <2>1 DEF CardsTypes, CardsTypeOK, WalkTypeOK, Making
  <2>3. ~GetAll
    BY <2>2 DEF GetAll, Listing
  <2>4. sysCwd' = sysCwd /\ sysCwd \in Dir /\ files \in [Dir -> Contents]
    <3>1. Disturb => sysCwd' \in {sysCwd, NULL}
      BY DEF Disturb, Environment, DirRemoved, DirCreated
    <3>2. QED
      BY <2>1, <3>1 DEF CardsTypes, CardsTypeOK, WalkTypeOK, TypeOK
  <2>5. CASE UNCHANGED files /\ UNCHANGED spoiled
    BY <2>1, <2>4, <2>5 DEF OverwritesNoTime
  <2>6. CASE Edit
    <3>1. PICK e \in Editable \cap present, content \in EditorWrites :
            /\ \/ files' = [files EXCEPT ![e].added = content]
               \/ files' = [files EXCEPT ![e].scheduled = content]
            /\ spoiled' = spoiled \cup {e}
      BY <2>6 DEF Edit
    <3>2. files'[sysCwd] = files[sysCwd] /\ sysCwd \notin spoiled
      BY <2>4, <3>1
    <3>3. QED
      BY <2>1, <2>4, <3>2 DEF OverwritesNoTime
  <2>7. CASE Disturb
    <3>1. files' = [e \in Dir |-> IF e \in present' THEN files[e] ELSE NoFiles] /\ UNCHANGED spoiled
      BY <2>7 DEF Disturb
    <3>2. sysCwd \in present'
      <4>1. sysCwd' \in present' \cup {NULL}
        BY CwdStep DEF IInv
      <4>2. QED
        BY <2>4, <4>1
    <3>3. files'[sysCwd] = files[sysCwd]
      BY <2>4, <3>1, <3>2
    <3>4. QED
      BY <2>1, <2>4, <3>1, <3>3 DEF OverwritesNoTime
  <2>8. QED
    BY <1>3, <2>3, <2>5, <2>6, <2>7, FilesChange
<1>4. QED
  BY <1>2, <1>3

LEMMA OverwritesNoTimeAlways == CardsSpec => [](CardsTypes /\ IInv /\ OverwritesNoTime)
<1>1. CardsInit => OverwritesNoTime
  BY DEF CardsInit, OverwritesNoTime
<1>2. CardsTypes /\ IInv /\ OverwritesNoTime /\ [CardsNext]_everything => OverwritesNoTime'
  BY OverwritesNoTimeStep
<1>3. QED
  BY <1>1, <1>2, CardsTypesAlways, PTL DEF CardsSpec

\* A time file that can be read is never overwritten, whatever the files hold,
\* however often the cards are listed and whoever removes directories, where no
\* file call has failed and nobody else has written since GetAll began.
THEOREM ValidTimesAlwaysKept == CardsSpec => ValidTimesKept
<1>1. ASSUME CardsTypes, IInv, OverwritesNoTime, [CardsNext]_everything PROVE ValidTimesStay
  <2>1. TypeOK'
    BY <1>1, CardsIInvStep DEF IInv
  <2>2. present' \subseteq Dir
    BY <2>1 DEF TypeOK
  <2>3. QED
    BY <1>1, <2>1, <2>2, FilesStep DEF ValidTimesStay
<1>2. CardsTypes /\ IInv /\ OverwritesNoTime /\ [CardsNext]_everything
        => [ValidTimesStay]_everything
  BY <1>1
<1>3. QED
  BY <1>2, OverwritesNoTimeAlways, PTL DEF CardsSpec, ValidTimesKept

-----------------------------------------------------------------------------
(* A card keeps the time it was listed with: no later visit changes what   *)
(* its file says of it, but where a call failed or others wrote.           *)

Told(d, time) == d \notin spoiled => Remembered(files[d].added, time)

\* A directory that is gone while the process is in it is nameless, or named by
\* the cache, and what is there again later has no time file.
GoneUntouched ==
    sysCwd = NULL /\ directory_current # NULL /\ directory_current \notin spoiled =>
        files[directory_current].added = Missing

\* GetAll has entered the root, and so dropped what its caller had cached.
Rooting == \/ gpc \in {"discover", "check", "compare", "checked", "deck", "walk"}
           \/ gpc = "rooted" /\ (pc = "refresh" \/ (pc = "idle" /\ ret # NULL))

GoneInv == /\ gpc = "rooted" => pc \in {"push", "chdir", "refresh", "idle"}
           /\ ~disturbed /\ Rooting => GoneUntouched

\* The card in the making, and those listed.
MadeTold ==
    /\ cpc = "load" /\ fpc \in {"check_added", "save_added"} =>
         Remembered(added_time_str, card.when_added)
    /\ /\ cpc = "load" /\ sysCwd # NULL
       /\ fpc \in {"scheduled", "check_scheduled", "save_scheduled", "loaded"}
       => Told(sysCwd, card.when_added)
    /\ cpc = "add" /\ ret # NULL /\ ~disturbed => Told(ret, card.when_added)

ListTold == ~disturbed => \A i \in 1..Len(list) : Told(list[i].path, list[i].when_added)

\* A mark is wiped off only where GetAll begins.
LEMMA MarksStay ==
    ASSUME CardsTypes, [CardsNext]_everything, ~GetAll
    PROVE  spoiled \subseteq spoiled'
  BY FilesChange, FileStepEffect DEF Edit

LEMMA CalmBefore ==
    ASSUME CardsTypes, IInv, [CardsNext]_everything, ~disturbed'
    PROVE  ~disturbed
<1>1. TypeOK
  BY DEF IInv
<1>2. CASE CardAdd
  BY <1>2 DEF CardAdd, histVars
<1>3. CASE [Next]_vars
  BY <1>1, <1>3, StaysUndisturbed
<1>4. QED
  BY <1>1, <1>2, <1>3, CardsIsStack

LEMMA ToldStays ==
    ASSUME CardsTypes, IInv, OverwritesNoTime, [CardsNext]_everything, ~GetAll,
           NEW d \in Dir, NEW time, Told(d, time)
    PROVE  Told(d, time)'
<1> SUFFICES ASSUME d \notin spoiled' PROVE Remembered(files'[d].added, time)
  BY DEF Told
<1>1. TypeOK' /\ d \notin spoiled
  BY CardsIInvStep, MarksStay DEF IInv
<1>2. Remembered(files[d].added, time)
  BY <1>1 DEF Told
<1>3. CASE d \notin present' /\ files'[d] = NoFiles
  BY <1>3 DEF Remembered, NoFiles
<1>4. CASE /\ TimeKept(files[d].added, files'[d].added)
           /\ files[d].added = Missing => files'[d].added = Missing
  BY <1>2, <1>4 DEF TimeKept, Remembered
<1>5. QED
  BY <1>1, <1>3, <1>4, FilesStep

\* While nobody begins to list, what is gone stays untouched.
LEMMA GoneStep ==
    ASSUME CardsTypes, IInv, OverwritesNoTime, GoneUntouched, [CardsNext]_everything, ~GetAll
    PROVE  GoneUntouched'
<1> SUFFICES ASSUME sysCwd' = NULL, directory_current' # NULL, directory_current' \notin spoiled'
             PROVE  files'[directory_current'].added = Missing
  BY DEF GoneUntouched
<1>1. TypeOK /\ CacheCoherent /\ TypeOK'
  BY CardsIInvStep DEF IInv
<1>2. /\ sysCwd \in Dir \cup {NULL} /\ directory_current' \in Dir /\ NULL \notin Dir
      /\ dirstack \in Seq(Dir) /\ directory_current' \notin spoiled /\ NoFiles.added = Missing
  BY <1>1, NullAssumption, MarksStay DEF TypeOK, NoFiles
<1>3. ASSUME sysCwd = NULL, directory_current' = directory_current
      PROVE  files'[directory_current'].added = Missing
  <2>1. files[directory_current].added = Missing
    BY <1>2, <1>3 DEF GoneUntouched
  <2>2. QED
    BY <1>1, <1>2, <1>3, <2>1, FilesStep
<1>4. ASSUME Environment, \A d \in Dir \ present' : files'[d] = NoFiles
      PROVE  files'[directory_current'].added = Missing
  <2>1. UNCHANGED directory_current /\ (sysCwd # NULL => sysCwd \notin present')
    BY <1>4 DEF Environment, DirRemoved, DirCreated
  <2>2. CASE sysCwd = NULL
    BY <1>3, <2>1, <2>2
  <2>3. CASE sysCwd # NULL
    <3>1. directory_current' = sysCwd
      BY <1>1, <2>1, <2>3 DEF CacheCoherent
    <3>2. QED
      BY <1>2, <1>4, <2>1, <2>3, <3>1
  <2>4. QED
    BY <2>2, <2>3
<1>5. ASSUME UNCHANGED sysCwd, directory_current' \in CachedOrSystem
      PROVE  files'[directory_current'].added = Missing
  BY <1>3, <1>5 DEF CachedOrSystem
<1>6. CASE UNCHANGED <<sysCwd, directory_current>>
  BY <1>3, <1>6
<1>7. CASE Calls
  <2>1. CASE GetCWD
    BY <1>5, <2>1 DEF GetCWD, fsVars
  <2>2. ASSUME NEW path \in Argument, SetCWD(path)
        PROVE  UNCHANGED <<sysCwd, directory_current>>
    <3>1. directory_current' # NULL
      OBVIOUS
    <3>2. QED
      BY <2>2, <3>1 DEF SetCWD, Entered
  <2>3. CASE PopCWD \/ \E path \in Argument : Push(path)
    BY <1>6, <2>3, PushStandsStill DEF PopCWD, fsVars
  <2>4. QED
    BY <1>6, <1>7, <2>1, <2>2, <2>3 DEF Calls, Push
<1>8. CASE Steps
  <2>1. CASE SetCWD_Refresh \/ PushCWD_Refresh \/ PushCWD_Save
    BY <1>5, <2>1 DEF SetCWD_Refresh, PushCWD_Refresh, PushCWD_Save, fsVars
  <2>2. CASE PushCWD_Chdir \/ PopCWD_Empty \/ PopCWD_Enter \/ PopCWD_Skip
    BY <1>6, <2>2 DEF PushCWD_Chdir, PopCWD_Empty, PopCWD_Enter, PopCWD_Skip, Entered, fsVars
  <2>3. QED
    BY <1>8, <2>1, <2>2 DEF Steps
<1>9. CASE CardAdd
  BY <1>6, <1>9 DEF CardAdd, fsVars
<1>10. QED
  BY <1>1, <1>4, <1>6, <1>7, <1>8, <1>9, FilesTyped, CardsIsStack DEF Next, vars

\* A step of the walk or of its callback is one of GetAll's.
LEMMA WalkBusy ==
    ASSUME CardsTypes, CardStep \/ WalkerStep
    PROVE  wpc # "idle" /\ UNCHANGED gpc
<1>1. CASE CardStep
  <2>1. CASE FileStep
    BY <2>1, FileStepEffect, FilesAside DEF Aside
  <2>2. CASE CardEnter \/ CardPath \/ CardAdd \/ CardLeave
    BY <2>2 DEF CardEnter, CardPath, CardAdd, CardLeave, Filing, Walking
  <2>3. CASE CardDone
    BY <2>3 DEF CardDone, Visited, Walking
  <2>4. QED
    BY <1>1, <2>1, <2>2, <2>3 DEF CardStep
<1>2. CASE WalkerStep
  <2>1. WalkStep /\ UNCHANGED gpc
    BY <1>2 DEF WalkerStep, cardVars
  <2>2. QED
    BY <2>1 DEF WalkStep, Enter, EnterPush, Opened, LoopEnd, LoopSkip, LoopRead, Done, Popped,
       Unwind, IterateReturn, Walking
<1>3. QED
  BY <1>1, <1>2

\* Entering the root leaves no cached name.
LEMMA RootingBegins ==
    ASSUME CardsTypes, GoneInv, [CardsNext]_everything, ~disturbed', ~Rooting, Rooting'
    PROVE  directory_current' = NULL
<1>1. wpc # "idle" => gpc = "walk"
  BY DEF CardsTypes
<1>2. CASE GetAll
  <2>1. gpc' = "rooted" /\ (pc' = "push" \/ (pc' = "idle" /\ ret' = NULL))
    BY <1>2 DEF GetAll, Push, PushCWD_Missing, PushCWD, Return
  <2>2. QED
    BY <2>1 DEF Rooting
<1>3. CASE GetAllStep
  <2>1. CASE Rooted
    BY <2>1 DEF Rooted, Listing, At, Rooting
  <2>2. CASE GetAllStep /\ ~Rooted
    BY <2>2 DEF GetAllStep, Discover, Check, Compare_Root, EnterDeck, ListCards, Listed, Leave,
       LeaveStep, GetAllReturn, Listing, Rooting
  <2>3. QED
    BY <1>3, <2>1, <2>2
<1>4. CASE CardStep \/ WalkerStep
  <2>1. wpc # "idle"
    BY <1>4, WalkBusy
  <2>2. QED
    BY <1>1, <2>1 DEF Rooting
<1>5. CASE \/ CallerGoes \/ Again \/ ContentRead \/ ContentReturn
            \/ \E i \in DOMAIN list : GetContent(i)
  BY <1>5 DEF CallerGoes, cardVars, Again, ContentRead, ContentReturn, GetContent, Rooting
<1>6. CASE Disturb \/ Edit \/ UNCHANGED everything
  <2>1. UNCHANGED <<gpc, pc, ret>>
    BY <1>6 DEF Disturb, Environment, DirRemoved, DirCreated, Edit, allVars, vars, cardVars, everything
  <2>2. QED
    BY <2>1 DEF Rooting
<1>7. CASE StackStep
  <2>1. UNCHANGED gpc /\ Steps
    BY <1>7 DEF StackStep, cardVars
  <2>2. gpc = "rooted" /\ pc \in {"push", "chdir", "idle"}
    BY <2>1 DEF Rooting, GoneInv
  <2>3. QED
    BY <2>1, <2>2 DEF Steps, SetCWD_Refresh, PushCWD_Save, PushCWD_Chdir, PushCWD_Refresh,
       PopCWD_Empty, PopCWD_Enter, PopCWD_Skip, At, Return, Entered, Rooting
<1>8. QED
  BY <1>2, <1>3, <1>4, <1>5, <1>6, <1>7 DEF CardsNext, Library

LEMMA GoneInvStep ==
    ASSUME CardsTypes, IInv, OverwritesNoTime, GoneInv, [CardsNext]_everything
    PROVE  GoneInv'
<1>1. ASSUME gpc' = "rooted" PROVE pc' \in {"push", "chdir", "refresh", "idle"}
  <2>1. CASE GetAll
    BY <2>1 DEF GetAll, Push, PushCWD_Missing, PushCWD, Return
  <2>2. CASE StackStep
    <3>1. gpc = "rooted" /\ Steps
      BY <1>1, <2>2 DEF StackStep, cardVars
    <3>2. pc \in {"push", "chdir", "refresh", "idle"}
      BY <3>1 DEF GoneInv
    <3>3. QED
      BY <3>1, <3>2 DEF Steps, SetCWD_Refresh, PushCWD_Save, PushCWD_Chdir, PushCWD_Refresh,
         PopCWD_Empty, PopCWD_Enter, PopCWD_Skip, At, Return
  <2>3. CASE Disturb \/ Edit \/ UNCHANGED everything
    <3>1. UNCHANGED <<gpc, pc>>
      BY <2>3 DEF Disturb, Environment, DirRemoved, DirCreated, Edit, allVars, vars, cardVars, everything
    <3>2. QED
      BY <1>1, <3>1 DEF GoneInv
  <2>4. CASE CallerGoes \/ Again \/ ContentRead \/ ContentReturn
              \/ \E i \in DOMAIN list : GetContent(i)
    <3>1. gpc' # "rooted"
      BY <2>4 DEF CallerGoes, cardVars, Again, ContentRead, ContentReturn, GetContent
    <3>2. QED
      BY <1>1, <3>1
  <2>5. CASE GetAllStep
    BY <1>1, <2>5 DEF GetAllStep, Rooted, Discover, Check, Compare_Root, EnterDeck, ListCards,
       Listed, Leave, LeaveStep, GetAllReturn, Listing
  <2>6. CASE CardStep \/ WalkerStep
    <3>1. wpc # "idle" /\ UNCHANGED gpc
      BY <2>6, WalkBusy
    <3>2. QED
      BY <1>1, <3>1 DEF CardsTypes
  <2>7. QED
    BY <2>1, <2>2, <2>3, <2>4, <2>5, <2>6 DEF CardsNext, Library
<1>2. ASSUME ~disturbed', Rooting' PROVE GoneUntouched'
  <2>1. ~disturbed
    BY <1>2, CalmBefore
  <2>2. CASE Rooting
    <3>1. ~GetAll
      BY <2>2 DEF GetAll, Listing, Rooting
    <3>2. QED
      BY <2>1, <2>2, <3>1, GoneStep DEF GoneInv
  <2>3. CASE ~Rooting
    BY <1>2, <2>3, RootingBegins DEF GoneUntouched
  <2>4. QED
    BY <2>2, <2>3
<1>3. QED
  BY <1>1, <1>2 DEF GoneInv

LEMMA MadeToldStep ==
    ASSUME CardsTypes, IInv, OverwritesNoTime, GoneInv, MadeTold, [CardsNext]_everything
    PROVE  MadeTold'
<1>1. /\ files \in [Dir -> Contents] /\ TypeOK /\ CacheCoherent
      /\ Making => gpc = "walk" /\ card \in MadeType
  BY DEF IInv, CardsTypes, Making
<1>2. CASE FileStep
  <2>1. /\ UNCHANGED <<sysCwd, cpc>> /\ cpc = "load" /\ spoiled \subseteq spoiled'
        /\ Here.added \in Content /\ (sysCwd # NULL => sysCwd \in Dir /\ Here = files[sysCwd])
    BY <1>2, FilesAside, FileStepEffect, HereContents DEF Aside, allVars, vars
  <2>2. ASSUME fpc' \in {"check_added", "save_added"}
        PROVE  Remembered(added_time_str', card'.when_added)
    <3>1. CASE LoadAdded
      <4>1. PICK ok \in BOOLEAN, now \in Moments, later \in Moments : LoadsAdded(ok, now, later)
        BY <3>1, LoadAddedChooses, OutcomeAssumption
      <4>2. /\ card'.when_added = TimeFromString(TextRead(Here.added, ok), now)
            /\ added_time_str' = Repaired(TextRead(Here.added, ok), now)
        BY <4>1 DEF LoadsAdded, NoCard
      <4>3. QED
        BY <2>1, <4>2, TextCases, RepairTells
    <3>2. CASE CheckAdded
      <4>1. fpc = "check_added" /\ UNCHANGED <<card, added_time_str>>
        BY <3>2 DEF CheckAdded, Check_File, Filing
      <4>2. QED
        BY <2>1, <4>1 DEF MadeTold
    <3>3. QED
      BY <1>2, <2>2, <3>1, <3>2 DEF FileStep, SaveAdded, LoadScheduled, CheckScheduled, Check_File,
         SaveScheduled
  <2>3. ASSUME sysCwd # NULL, sysCwd \notin spoiled',
               fpc' \in {"scheduled", "check_scheduled", "save_scheduled", "loaded"}
        PROVE  Remembered(files'[sysCwd].added, card'.when_added)
    <3>1. sysCwd \notin spoiled /\ \A ok \in FileOutcome : Try(ok) => ok = TRUE
      BY <2>1, <2>3, Succeeded
    <3>2. fpc \in {"scheduled", "check_scheduled", "save_scheduled", "loaded"} =>
            Remembered(files[sysCwd].added, card.when_added)
      BY <2>1, <2>3, <3>1 DEF MadeTold, Told
    <3>3. CASE LoadAdded
      <4>1. PICK ok \in BOOLEAN, now \in Moments, later \in Moments : LoadsAdded(ok, now, later)
        BY <3>3, LoadAddedChooses, OutcomeAssumption
      <4> DEFINE text == TextRead(Here.added, ok)
      <4>2. card'.when_added = TimeFromString(text, now) /\ UNCHANGED files
        BY <3>3, <4>1 DEF NoCard, LoadAdded, LoadsAdded
      <4>3. Readable(text)
        BY <2>3, <4>1 DEF NeedsRepair, LoadsAdded
      <4>4. text = files[sysCwd].added /\ text \in Text \cup {Garbage}
        BY <2>1, <2>3, <4>3, TextCases
      <4>5. Remembered(text, TimeFromString(text, now))
        BY <4>3, <4>4, RepairTells DEF Repaired
      <4>6. QED
        BY <4>2, <4>4, <4>5
    <3>4. CASE CheckAdded
      <4>1. PICK ok \in FileOutcome :
              /\ fpc' = IF ok /\ Here.added # Missing THEN "save_added" ELSE "scheduled"
              /\ Try(ok)
        BY <3>4 DEF CheckAdded, Check_File
      <4>2. UNCHANGED files /\ Here.added = Missing
        BY <2>3, <3>1, <3>4, <4>1 DEF CheckAdded, Check_File
      <4>3. QED
        BY <2>1, <2>3, <4>2 DEF Remembered
    <3>5. CASE SaveAdded
      <4>1. PICK ok \in FileOutcome :
              \E content \in Written(Here.added, ok) :
                 files' = [files EXCEPT ![sysCwd].added = content] /\ Try(ok)
        BY <2>3, <3>5 DEF SaveAdded
      <4>2. files' = [files EXCEPT ![sysCwd].added = added_time_str]
        BY <3>1, <4>1 DEF Written
      <4>3. files'[sysCwd].added = added_time_str
        BY <1>1, <2>1, <2>3, <4>1, <4>2 DEF Contents
      <4>4. fpc = "save_added" /\ UNCHANGED card
        BY <3>5 DEF SaveAdded, Filing
      <4>5. QED
        BY <2>1, <4>3, <4>4 DEF MadeTold
    <3>6. CASE LoadScheduled
      <4>1. fpc = "scheduled" /\ UNCHANGED files
        BY <3>6 DEF LoadScheduled, Filing
      <4>2. card \in MadeType
        BY <1>1, <2>1, <4>1 DEF Making
      <4>3. card'.when_added = card.when_added
        BY <3>6, <4>2 DEF LoadScheduled, MadeType
      <4>4. QED
        BY <3>2, <4>1, <4>3
    <3>7. CASE CheckScheduled
      BY <3>2, <3>7 DEF CheckScheduled, Check_File, Filing
    <3>8. CASE SaveScheduled
      <4>1. fpc = "save_scheduled" /\ UNCHANGED card
        BY <3>8 DEF SaveScheduled, Filing
      <4>2. PICK content : files' = [files EXCEPT ![sysCwd].scheduled = content]
        BY <2>3, <3>8 DEF SaveScheduled
      <4>3. files'[sysCwd].added = files[sysCwd].added
        BY <1>1, <2>1, <2>3, <4>2 DEF Contents
      <4>4. QED
        BY <3>2, <4>1, <4>3
    <3>9. QED
      BY <1>2, <3>3, <3>4, <3>5, <3>6, <3>7, <3>8 DEF FileStep
  <2>4. QED
    BY <2>1, <2>2, <2>3 DEF MadeTold, Told
<1>3. CASE CardPath
  <2>1. /\ Making /\ fpc = "loaded" /\ cpc = "load" /\ cpc' = "add" /\ ret' \in CachedOrSystem
        /\ UNCHANGED <<files, spoiled, card, disturbed>>
    BY <1>3 DEF CardPath, GetCWD, Filing, Making, histVars
  <2>2. ASSUME ret' # NULL, ~disturbed PROVE Told(ret', card.when_added)
    <3>1. CASE sysCwd = NULL
      <4>1. ret' = directory_current /\ directory_current # NULL
        BY <2>1, <2>2, <3>1 DEF CachedOrSystem
      <4>2. GoneUntouched
        BY <1>1, <2>1, <2>2 DEF GoneInv, Rooting
      <4>3. QED
        BY <3>1, <4>1, <4>2 DEF GoneUntouched, Told, Remembered
    <3>2. CASE sysCwd # NULL
      <4>1. ret' = sysCwd
        BY <1>1, <2>1, <2>2, <3>2 DEF CachedOrSystem, CacheCoherent
      <4>2. QED
        BY <2>1, <3>2, <4>1 DEF MadeTold
    <3>3. QED
      BY <3>1, <3>2
  <2>3. QED
    BY <2>1, <2>2 DEF MadeTold, Told
<1>4. CASE ~FileStep /\ ~CardPath
  <2> SUFFICES ASSUME Making' PROVE MadeTold'
    BY DEF MadeTold, Making
  <2>1. /\ Making /\ UNCHANGED <<cpc, fpc, card, added_time_str, ret>>
        /\ UNCHANGED <<sysCwd, directory_current>> \/ Disturb
    BY <1>4, WhileMaking
  <2>2. ~GetAll
    BY <1>1, <2>1 DEF GetAll, Listing
  <2>3. /\ sysCwd' \in {sysCwd, NULL} /\ sysCwd \in Dir \cup {NULL}
        /\ cpc = "add" => ret \in Dir \cup {NULL}
    BY <1>1, <2>1 DEF Disturb, Environment, DirRemoved, DirCreated, TypeOK, CardsTypes
  <2>4. \A d \in Dir : Told(d, card.when_added) => (d \notin spoiled' => Remembered(files'[d].added, card.when_added))
    <3> SUFFICES ASSUME NEW d \in Dir, Told(d, card.when_added), d \notin spoiled'
                 PROVE  Remembered(files'[d].added, card.when_added)
      OBVIOUS
    <3>1. PICK time : time = card.when_added
      OBVIOUS
    <3>2. Told(d, time)'
      BY <2>2, <3>1, ToldStays
    <3>3. QED
      BY <3>1, <3>2 DEF Told
  <2>5. ~disturbed' => ~disturbed
    BY CalmBefore
  <2>6. QED
    BY <2>1, <2>3, <2>4, <2>5 DEF MadeTold, Told
<1>5. QED
  BY <1>2, <1>3, <1>4

LEMMA ListToldStep ==
    ASSUME CardsTypes, IInv, OverwritesNoTime, MadeTold, ListTold, [CardsNext]_everything
    PROVE  ListTold'
<1> SUFFICES ASSUME ~disturbed', NEW i \in 1..Len(list'), list'[i].path \notin spoiled'
             PROVE  Remembered(files'[list'[i].path].added, list'[i].when_added)
  BY DEF ListTold, Told
<1>1. ~disturbed /\ list \in Seq(CardType)
  BY CalmBefore DEF CardsTypes
<1>2. ASSUME ~GetAll, NEW d \in Dir, NEW time, Told(d, time), d \notin spoiled'
      PROVE  Remembered(files'[d].added, time)
  BY <1>2, ToldStays DEF Told
<1>3. ASSUME ~GetAll, NEW j \in 1..Len(list), list[j].path \notin spoiled'
      PROVE  Remembered(files'[list[j].path].added, list[j].when_added)
  <2>1. list[j] \in CardType
    BY <1>1, <1>3, ElementOfSeq
  <2>2. list[j].path \in Dir /\ Told(list[j].path, list[j].when_added)
    BY <1>1, <2>1 DEF CardType, ListTold
  <2>3. QED
    BY <1>2, <1>3, <2>2
<1>4. CASE GetAll
  <2>1. list' = <<>>
    BY <1>4 DEF GetAll
  <2>2. QED
    BY <2>1, EmptySeq
<1>5. CASE UNCHANGED list /\ ~GetAll
  BY <1>3, <1>5
<1>6. CASE CardAdd /\ ret # NULL /\ list' = Append(list, [card EXCEPT !.path = ret])
  <2>1. /\ cpc = "add" /\ ret \in Dir /\ card \in MadeType /\ ~GetAll
    BY <1>6 DEF CardAdd, CardsTypes, Making, Walking, GetAll, Listing
  <2>2. Told(ret, card.when_added)
    BY <1>1, <1>6, <2>1 DEF MadeTold
  <2>3. [card EXCEPT !.path = ret] \in CardType
    BY <2>1 DEF MadeType, CardType
  <2>4. /\ [card EXCEPT !.path = ret].path = ret
        /\ [card EXCEPT !.path = ret].when_added = card.when_added
    BY <2>1 DEF MadeType
  <2> DEFINE new == [card EXCEPT !.path = ret]
  <2> HIDE DEF new
  <2>5. /\ Len(list') = Len(list) + 1 /\ Len(list) \in Nat
        /\ \A j \in 1..Len(list) : list'[j] = list[j]
        /\ list'[Len(list) + 1] = new
    BY <1>1, <1>6, <2>3, AppendProperties, LenProperties DEF new
  <2>6. CASE i \in 1..Len(list)
    BY <1>3, <2>1, <2>5, <2>6
  <2>7. CASE i = Len(list) + 1
    <3>1. new.path = ret /\ new.when_added = card.when_added /\ list'[i] = new
      BY <2>4, <2>5, <2>7 DEF new
    <3>2. QED
      BY <1>2, <2>1, <2>2, <3>1
  <2>8. QED
    BY <2>5, <2>6, <2>7
<1>7. QED
  BY <1>4, <1>5, <1>6, ListStep

\* The added time a card was listed with is what its file tells when the call
\* has returned: for every tree, every content of the files and every time,
\* whatever vanished meanwhile, if each push found its directory; and a file
\* call that failed or another process that wrote has spoiled only the cards of
\* the directories it happened in.
THEOREM AddedIsAlwaysRemembered == CardsSpec => []AddedIsRemembered
<1>1. CardsInit => GoneInv /\ MadeTold /\ ListTold
  BY EmptySeq DEF CardsInit, WalkInit, Init, GoneInv, Rooting, MadeTold, ListTold
<1>2. /\ CardsTypes /\ IInv /\ OverwritesNoTime /\ GoneInv /\ MadeTold /\ ListTold
      /\ [CardsNext]_everything
      => GoneInv' /\ MadeTold' /\ ListTold'
  BY GoneInvStep, MadeToldStep, ListToldStep
<1>3. CardsTypes /\ ListTold => AddedIsRemembered
  <2> SUFFICES ASSUME CardsTypes, ListTold, ~disturbed, NEW i \in DOMAIN list,
                      list[i].path \notin spoiled
               PROVE  Remembered(files[list[i].path].added, list[i].when_added)
    BY DEF AddedIsRemembered, Smooth
  <2>1. i \in 1..Len(list)
    BY LenProperties DEF CardsTypes
  <2>2. QED
    BY <2>1 DEF ListTold, Told
<1>4. QED
  BY <1>1, <1>2, <1>3, OverwritesNoTimeAlways, PTL DEF CardsSpec

-----------------------------------------------------------------------------
(* A call keeps its course: at every step of GetAll and GetContent what is *)
(* on the stack is what root_path and deck_path say, on top of what the    *)
(* caller had; and during the walk over the cards, what the frames of the  *)
(* walk say, on top of those two.                                          *)

\* Where a push and a pop are, seen from a stack of k entries above those of b.
PushingOf(b, k) == \/ pc = "push" /\ OwnOf(b, k)
                   \/ pc \in {"chdir", "refresh"} /\ OwnOf(b, k + 1)
                   \/ pc = "idle" /\ ret = NULL /\ OwnOf(b, k)
                   \/ pc = "idle" /\ ret # NULL /\ OwnOf(b, k + 1)

PoppingTo(b, k) == \/ pc = "pop" /\ OwnOf(b, k + 1)
                   \/ pc = "idle" /\ OwnOf(b, k)

\* GetAll and GetContent, called from o.
CallCourse(o) ==
    /\ gpc \in {"idle", "returned"} /\ calls > 0 => pc = "idle" /\ OwnOf(o, 0)
    /\ gpc = "rooted" => held = 0 /\ PushingOf(o, 0)
    /\ gpc \in {"discover", "compare", "deck"} => held = 1 /\ PushingOf(o, 1)
    /\ gpc \in {"check", "checked"} => held = 1 /\ PoppingTo(o, 1)
    /\ gpc = "leave" => PoppingTo(o, held)
    /\ gpc = "content" => PushingOf(o, 0)
    /\ gpc = "content_read" => PoppingTo(o, 0)

\* The walk over the cards is called with root_path and deck_path on the stack.
TwoBelow(o, b) ==
    /\ Len(b.stack) = Len(o.stack) + 2
    /\ \A i \in 1..Len(o.stack) : b.stack[i] = o.stack[i]
    /\ o.cwd # NULL => b.stack[Len(o.stack) + 1] = o.cwd

\* get_cards, called from a walk of n frames over b.
CardCourse(b, n) ==
    /\ Counts(depth, n)
    /\ cpc = "enter" => pc = "idle" /\ OwnOf(b, n)
    /\ cpc = "load" => PushingOf(b, n)
    /\ cpc \in {"add", "leave"} => pc = "idle" /\ OwnOf(b, n + 1)
    /\ cpc = "done" => PoppingTo(b, n)

WalkCourse ==
    gpc = "walk" => /\ held = 2 /\ TwoBelow(origin, base)
                    /\ wpc # "visit" => Course
                    /\ wpc = "visit" => CardCourse(base, Len(frames))

CardsCourse == CallCourse(origin) /\ WalkCourse

CardsCourseInv == Smooth /\ ~failed => CardsCourse

LEMMA PushBegins ==
    ASSUME NEW path, Push(path), NEW b, NEW k \in Nat, OwnOf(b, k)
    PROVE  PushingOf(b, k)'
<1>1. /\ UNCHANGED <<dirstack, sysCwd, directory_current>>
      /\ \/ pc' = "push"
         \/ pc' = "idle" /\ ret' = NULL
  BY DEF Push, PushCWD_Missing, PushCWD, Return, fsVars
<1>2. OwnOf(b, k)'
  BY <1>1, OwnOfStays
<1>3. QED
  BY <1>1, <1>2 DEF PushingOf

LEMMA PopBegins ==
    ASSUME PopCWD, NEW b, NEW k \in Nat, OwnOf(b, k + 1)
    PROVE  PoppingTo(b, k)'
<1>1. UNCHANGED <<dirstack, sysCwd, directory_current>> /\ pc' = "pop"
  BY DEF PopCWD, fsVars
<1>2. OwnOf(b, k + 1)'
  BY <1>1, OwnOfStays
<1>3. QED
  BY <1>1, <1>2 DEF PoppingTo

LEMMA PushGoesOn ==
    ASSUME TypeOK, CacheCoherent, Steps, ~disturbed', status' = "running",
           NEW b, b.stack \in Seq(Dir), NEW k \in Nat, PushingOf(b, k)
    PROVE  PushingOf(b, k)'
<1>1. pc # "idle"
  BY DEF Steps, SetCWD_Refresh, PushCWD_Save, PushCWD_Chdir, PushCWD_Refresh,
     PopCWD_Empty, PopCWD_Enter, PopCWD_Skip, At
<1>2. CASE pc = "push"
  <2>1. PICK cwd \in CachedOrSystem : /\ pc' = "chdir" /\ cwd # NULL
                                      /\ dirstack' = Append(dirstack, cwd)
    BY <1>2 DEF Steps, SetCWD_Refresh, PushCWD_Save, PushCWD_Chdir, PushCWD_Refresh,
       PopCWD_Empty, PopCWD_Enter, PopCWD_Skip, At
  <2>2. OwnOf(b, k)
    BY <1>2 DEF PushingOf
  <2>3. OwnOf(b, k + 1)'
    BY <2>1, <2>2, OwnOfOneMore
  <2>4. QED
    BY <2>1, <2>3 DEF PushingOf
<1>3. CASE pc \in {"chdir", "refresh"}
  <2>1. /\ UNCHANGED dirstack
        /\ \/ pc' = "refresh"
           \/ pc' = "idle" /\ ret' # NULL
    BY <1>3 DEF Steps, SetCWD_Refresh, PushCWD_Save, PushCWD_Chdir, PushCWD_Refresh,
       PopCWD_Empty, PopCWD_Enter, PopCWD_Skip, At, Return
  <2>2. OwnOf(b, k + 1) /\ k + 1 # 0 /\ k + 1 \in Nat
    BY <1>3 DEF PushingOf
  <2>3. OwnOf(b, k + 1)'
    BY <2>1, <2>2, OwnOfStays
  <2>4. QED
    BY <2>1, <2>3 DEF PushingOf
<1>4. QED
  BY <1>1, <1>2, <1>3 DEF PushingOf

LEMMA PopGoesOn ==
    ASSUME TypeOK, Steps, ~disturbed', status' = "running",
           NEW b, b.stack \in Seq(Dir), NEW k \in Nat, PoppingTo(b, k)
    PROVE  PoppingTo(b, k)'
<1>1. pc = "pop" /\ OwnOf(b, k + 1)
  BY DEF PoppingTo, Steps, SetCWD_Refresh, PushCWD_Save, PushCWD_Chdir, PushCWD_Refresh,
     PopCWD_Empty, PopCWD_Enter, PopCWD_Skip, At
<1>2. Len(dirstack) > 0
  <2>1. Len(dirstack) = Len(b.stack) + (k + 1) /\ Len(b.stack) \in Nat
    BY <1>1, LenProperties DEF OwnOf
  <2>2. \A x \in Nat : x + (k + 1) > 0
    OBVIOUS
  <2>3. QED
    BY <2>1, <2>2
<1>3. /\ dirstack' = Front(dirstack) /\ sysCwd' = Last(dirstack) /\ directory_current' = NULL
      /\ pc' = "idle"
  BY <1>1, <1>2, EmptySeq DEF Steps, SetCWD_Refresh, PushCWD_Save, PushCWD_Chdir,
     PushCWD_Refresh, PopCWD_Empty, PopCWD_Enter, PopCWD_Skip, At, Return, Entered, PopSaved
<1>4. k + 1 \in Nat \ {0} /\ (k + 1) - 1 = k
  OBVIOUS
<1>5. OwnOf(b, (k + 1) - 1)'
  BY <1>1, <1>3, <1>4, OwnOfOneLess
<1>6. QED
  BY <1>3, <1>4, <1>5 DEF PoppingTo

\* Nothing of the process moves it but its own operations.
LEMMA StackUnmoved ==
    ASSUME Environment \/ UNCHANGED vars, NEW b, NEW k \in Nat
    PROVE  /\ OwnOf(b, k) => OwnOf(b, k)'
           /\ PushingOf(b, k) => PushingOf(b, k)'
           /\ PoppingTo(b, k) => PoppingTo(b, k)'
<1>1. /\ UNCHANGED <<dirstack, directory_current, pc, ret>>
      /\ sysCwd' \in {sysCwd, NULL}
  BY DEF vars, Environment, DirRemoved, DirCreated
<1>2. \A j \in Nat : OwnOf(b, j) => OwnOf(b, j)'
  BY <1>1, OwnOfStays
<1>3. k + 1 \in Nat
  OBVIOUS
<1>4. QED
  BY <1>1, <1>2, <1>3 DEF PushingOf, PoppingTo

\* A push or a pop that has returned.
LEMMA PushReturned ==
    ASSUME NEW b, NEW k, PushingOf(b, k), pc = "idle"
    PROVE  /\ ret = NULL => OwnOf(b, k)
           /\ ret # NULL => OwnOf(b, k + 1)
  BY DEF PushingOf

LEMMA PopReturned ==
    ASSUME NEW b, NEW k, PoppingTo(b, k), pc = "idle"
    PROVE  OwnOf(b, k)
  BY DEF PoppingTo

-----------------------------------------------------------------------------
(* The steps of the calls.                                                 *)

\* A call that begins.
LEMMA CallCourseBegins ==
    ASSUME IInv, CallBegins, NEW path, Push(path), gpc' \in {"rooted", "content"},
           gpc' = "rooted" => held' = 0
    PROVE  CallCourse(origin)'
<1>1. PICK o : o = [cwd |-> sysCwd, stack |-> dirstack]
  OBVIOUS
<1>2. origin' = o
  BY <1>1 DEF CallBegins
<1>3. dirstack \in Seq(Dir) /\ Len(dirstack) \in Nat
  BY LenProperties DEF IInv, TypeOK
<1>4. OwnOf(o, 0)
  BY <1>1, <1>3 DEF OwnOf, IInv, CacheCoherent
<1>5. PushingOf(o, 0)'
  BY <1>4, PushBegins
<1>6. QED
  BY <1>2, <1>5 DEF CallCourse

LEMMA CallCourseGoesOn ==
    ASSUME CardsTypes, IInv, CallCourse(origin),
           \/ GetAllStep /\ ~ListCards /\ ~Listed
           \/ Again
           \/ ContentRead /\ ret # NULL
           \/ ContentReturn
    PROVE  CallCourse(origin)'
<1>0. PICK o : o = origin
  OBVIOUS
<1>1. UNCHANGED <<origin, calls>> /\ CallCourse(o) /\ pc = "idle"
  BY <1>0 DEF GetAllStep, Rooted, Discover, Check, Compare_Root, EnterDeck, Leave, LeaveStep,
     GetAllReturn, Again, ContentRead, ContentReturn, Listing, At
<1>2. ASSUME CallCourse(o)' PROVE CallCourse(origin)'
  BY <1>0, <1>1, <1>2 DEF CallCourse
<1>3. \A k \in Nat : UNCHANGED vars /\ OwnOf(o, k) => OwnOf(o, k)'
  BY StackUnmoved
<1>4. UNCHANGED vars => UNCHANGED pc
  BY DEF vars
<1>5. ASSUME NEW path, Push(path), NEW k \in Nat, OwnOf(o, k) PROVE PushingOf(o, k)'
  BY <1>5, PushBegins
<1>6. ASSUME PopCWD, NEW k \in Nat, OwnOf(o, k + 1) PROVE PoppingTo(o, k)'
  BY <1>6, PopBegins
<1>7. ASSUME UNCHANGED vars, NEW k \in Nat, OwnOf(o, k) PROVE PoppingTo(o, k)'
  BY <1>1, <1>3, <1>4, <1>7 DEF PoppingTo
<1>8. 0 + 1 = 1 /\ 1 + 1 = 2
  OBVIOUS
<1>9. CASE Rooted
  <2>1. gpc = "rooted" /\ held = 0 /\ PushingOf(o, 0)
    BY <1>1, <1>9 DEF Rooted, Listing, CallCourse
  <2>2. CASE ret = NULL
    <3>1. OwnOf(o, 0) /\ UNCHANGED vars /\ gpc' = "leave" /\ held' = 0
      BY <1>1, <1>9, <2>1, <2>2, PushReturned DEF Rooted
    <3>2. PoppingTo(o, 0)'
      BY <1>7, <3>1
    <3>3. QED
      BY <1>2, <3>1, <3>2 DEF CallCourse
  <2>3. CASE ret # NULL
    <3>1. OwnOf(o, 1) /\ Push(Root) /\ gpc' = "discover" /\ held' = 1
      BY <1>1, <1>8, <1>9, <2>1, <2>3, PushReturned DEF Rooted
    <3>2. PushingOf(o, 1)'
      BY <1>5, <3>1
    <3>3. QED
      BY <1>2, <3>1, <3>2 DEF CallCourse
  <2>4. QED
    BY <2>2, <2>3
<1>10. CASE Discover \/ Compare_Root
  <2>1. gpc \in {"discover", "compare"} /\ held = 1 /\ PushingOf(o, 1) /\ held' = held
    BY <1>1, <1>10 DEF Discover, Compare_Root, Listing, CallCourse
  <2>2. gpc' \in {"check", "checked"} /\ (ret = NULL => UNCHANGED vars) /\ (ret # NULL => PopCWD)
    BY <1>10 DEF Discover, Compare_Root
  <2>3. PoppingTo(o, 1)'
    <3>1. CASE ret = NULL
      BY <1>1, <1>7, <2>1, <2>2, <3>1, PushReturned
    <3>2. CASE ret # NULL
      BY <1>1, <1>6, <2>1, <2>2, <3>2, PushReturned
    <3>3. QED
      BY <3>1, <3>2
  <2>4. QED
    BY <1>2, <2>1, <2>2, <2>3 DEF CallCourse
<1>11. CASE Check \/ EnterDeck
  <2>1. gpc \in {"check", "checked"} /\ held = 1 /\ PoppingTo(o, 1) /\ held' = held
    BY <1>1, <1>11 DEF Check, EnterDeck, Listing, CallCourse
  <2>2. OwnOf(o, 1)
    BY <1>1, <2>1, PopReturned
  <2>3. \/ gpc' \in {"compare", "deck"} /\ Push(DeckName)
        \/ gpc' \in {"checked", "leave"} /\ UNCHANGED vars
    BY <1>11 DEF Check, EnterDeck
  <2>4. CASE gpc' \in {"compare", "deck"} /\ Push(DeckName)
    <3>1. PushingOf(o, 1)'
      BY <1>5, <2>2, <2>4
    <3>2. QED
      BY <1>2, <2>1, <2>4, <3>1 DEF CallCourse
  <2>5. CASE gpc' \in {"checked", "leave"} /\ UNCHANGED vars
    <3>1. PoppingTo(o, 1)'
      BY <1>7, <2>2, <2>5
    <3>2. QED
      BY <1>2, <2>1, <2>5, <3>1 DEF CallCourse
  <2>6. QED
    BY <2>3, <2>4, <2>5
<1>12. CASE Leave
  <2>1. gpc = "leave" /\ gpc' = "leave" /\ PoppingTo(o, held) /\ PopCWD
        /\ held' = held - 1 /\ held > 0
    BY <1>1, <1>12 DEF Leave, LeaveStep, Listing, CallCourse
  <2>2. PICK k \in Nat : k = held - 1
    BY <2>1 DEF CardsTypes, CardsTypeOK
  <2>3. held = k + 1
    BY <2>1, <2>2 DEF CardsTypes, CardsTypeOK
  <2>4. OwnOf(o, k + 1)
    BY <1>1, <2>1, <2>3, PopReturned
  <2>5. PoppingTo(o, k)' /\ held' = k
    BY <1>6, <2>1, <2>2, <2>4
  <2>6. PoppingTo(o, held)'
    BY <2>5 DEF PoppingTo, OwnOf
  <2>7. QED
    BY <1>2, <2>1, <2>6 DEF CallCourse
<1>13. CASE GetAllReturn \/ Again \/ ContentReturn
  <2>1. UNCHANGED vars /\ gpc' \in {"returned", "idle"}
    BY <1>13 DEF GetAllReturn, Again, ContentReturn, allVars
  <2>2. \/ PoppingTo(o, 0)
        \/ OwnOf(o, 0)
        \/ ~(calls > 0)
    BY <1>1, <1>13 DEF GetAllReturn, Again, ContentReturn, Listing, CallCourse
  <2>3. calls > 0 => OwnOf(o, 0)
    BY <1>1, <2>2, PopReturned
  <2>4. calls > 0 => OwnOf(o, 0)'
    BY <1>3, <2>1, <2>3
  <2>5. QED
    BY <1>1, <1>2, <1>4, <2>1, <2>4 DEF CallCourse
<1>14. CASE ContentRead /\ ret # NULL
  <2>1. PushingOf(o, 0) /\ PopCWD /\ gpc' = "content_read"
    BY <1>1, <1>14 DEF ContentRead, Listing, CallCourse
  <2>2. OwnOf(o, 0 + 1)
    BY <1>1, <1>14, <2>1, PushReturned
  <2>3. PoppingTo(o, 0)'
    BY <1>6, <2>1, <2>2
  <2>4. QED
    BY <1>2, <2>1, <2>3 DEF CallCourse
<1>15. QED
  BY <1>9, <1>10, <1>11, <1>12, <1>13, <1>14 DEF GetAllStep

\* The pushes and pops themselves, and other processes.
LEMMA CallCourseMoves ==
    ASSUME CardsTypes, IInv, CallCourse(origin), Steps \/ Environment,
           UNCHANGED <<gpc, held, origin, calls>>, ~disturbed', status' = "running"
    PROVE  CallCourse(origin)'
<1>0. PICK o : o = origin
  OBVIOUS
<1>1. /\ TypeOK /\ CacheCoherent /\ o.stack \in Seq(Dir) /\ held \in Nat /\ CallCourse(o)
      /\ 1 \in Nat /\ 0 \in Nat
  BY <1>0 DEF IInv, CardsTypes, CardsTypeOK
<1>2. ASSUME NEW k \in Nat, PushingOf(o, k) PROVE PushingOf(o, k)'
  BY <1>1, <1>2, PushGoesOn, StackUnmoved
<1>3. ASSUME NEW k \in Nat, PoppingTo(o, k) PROVE PoppingTo(o, k)'
  BY <1>1, <1>3, PopGoesOn, StackUnmoved
<1>4. ASSUME pc = "idle", OwnOf(o, 0) PROVE pc' = "idle" /\ OwnOf(o, 0)'
  <2>1. ~Steps
    BY <1>4 DEF Steps, SetCWD_Refresh, PushCWD_Save, PushCWD_Chdir, PushCWD_Refresh,
       PopCWD_Empty, PopCWD_Enter, PopCWD_Skip, At
  <2>2. Environment
    BY <2>1
  <2>3. pc' = pc
    BY <2>2 DEF Environment, DirRemoved, DirCreated
  <2>4. QED
    BY <1>4, <2>2, <2>3, StackUnmoved
<1>5. gpc = "leave" => PoppingTo(o, held)'
  <2>1. PICK k \in Nat : k = held
    BY <1>1
  <2>2. gpc = "leave" => PoppingTo(o, k)'
    BY <1>1, <1>3, <2>1 DEF CallCourse
  <2>3. QED
    BY <2>1, <2>2 DEF PoppingTo, OwnOf
<1>6. CallCourse(o)'
  BY <1>1, <1>2, <1>3, <1>4, <1>5 DEF CallCourse
<1>7. QED
  BY <1>0, <1>6 DEF CallCourse

\* The cards name is no directory's own name.
LEMMA NeverCalm == ~Calm
  BY CallbackAssumption, CardsAssumption, NullAssumption DEF Calm

LEMMA FramesNumber ==
    ASSUME CardsTypes
    PROVE  /\ Len(frames) \in Nat /\ base.stack \in Seq(Dir) /\ origin.stack \in Seq(Dir)
           /\ Len(base.stack) \in Nat /\ Len(origin.stack) \in Nat
  BY LenProperties DEF CardsTypes, WalkTypes, WalkTypeOK, FrameType

\* From the deck to the walk over its cards, or back when there are none.
LEMMA ListCardsCourse ==
    ASSUME CardsTypes, IInv, CardsCourse, ListCards
    PROVE  CardsCourse'
<1>0. PICK o : o = origin
  OBVIOUS
<1>1. /\ UNCHANGED origin /\ pc = "idle" /\ held = 1 /\ PushingOf(o, 1)
      /\ origin.stack \in Seq(Dir) /\ Len(o.stack) \in Nat
  BY <1>0, FramesNumber DEF ListCards, Listing, At, CardsCourse, CallCourse
<1>2. 1 + 1 = 2
  OBVIOUS
<1>3. /\ ret = NULL => OwnOf(o, 1)
      /\ ret # NULL => OwnOf(o, 2)
  BY <1>1, <1>2, PushReturned
<1>4. CASE ret # NULL /\ Dir_Exists(CardsName)
  <2>1. Iterate(CardsName) /\ held' = 2 /\ gpc' = "walk"
    BY <1>4 DEF ListCards
  <2>2. Course' /\ wpc' = "enter" /\ base'.stack = dirstack
    BY <2>1, CourseBegins DEF CardsTypes, Iterate
  <2>3. TwoBelow(o, base')
    BY <1>3, <1>4, <2>2 DEF OwnOf, TwoBelow
  <2>4. TwoBelow(origin, base)'
    BY <1>0, <1>1, <2>3 DEF TwoBelow
  <2>5. QED
    BY <2>1, <2>2, <2>4 DEF CardsCourse, CallCourse, WalkCourse
<1>5. CASE ~(ret # NULL /\ Dir_Exists(CardsName))
  <2>1. /\ UNCHANGED vars /\ gpc' = "leave"
        /\ ret = NULL => held' = 1
        /\ ret # NULL => held' = 2
    BY <1>5 DEF ListCards, allVars
  <2>2. /\ ret = NULL => PoppingTo(o, 1)'
        /\ ret # NULL => PoppingTo(o, 2)'
    BY <1>1, <1>3, <2>1, StackUnmoved DEF PoppingTo, vars
  <2>3. PoppingTo(origin, held)'
    BY <1>0, <1>1, <2>1, <2>2 DEF PoppingTo, OwnOf
  <2>4. QED
    BY <2>1, <2>3 DEF CardsCourse, CallCourse, WalkCourse
<1>6. QED
  BY <1>4, <1>5

\* The walk that is over.
LEMMA ListedCourse ==
    ASSUME CardsTypes, IInv, CardsCourse, Listed, outcome
    PROVE  CardsCourse'
<1>1. /\ pc = "idle" /\ OwnOf(base, 0) /\ held = 2 /\ TwoBelow(origin, base)
      /\ UNCHANGED <<held, origin>> /\ gpc' = "leave" /\ UNCHANGED vars
  BY DEF Listed, Listing, At, CardsCourse, WalkCourse, Course, Own
<1>2. PICK o : o = origin
  OBVIOUS
<1>3. Len(base.stack) \in Nat /\ Len(o.stack) \in Nat
  BY <1>2, FramesNumber
<1>4. OwnOf(o, 2)
  <2>1. Len(dirstack) = Len(o.stack) + 2
    BY <1>1, <1>2, <1>3 DEF OwnOf, TwoBelow
  <2>2. \A i \in 1..(Len(o.stack) + 1) : dirstack[i] = base.stack[i]
    BY <1>1, <1>2, <1>3 DEF OwnOf, TwoBelow
  <2>3. \A i \in 1..Len(o.stack) : i \in 1..(Len(o.stack) + 1)
    BY <1>3
  <2>4. Len(o.stack) + 1 \in 1..(Len(o.stack) + 1)
    BY <1>3
  <2>5. QED
    BY <1>1, <1>2, <2>1, <2>2, <2>3, <2>4 DEF OwnOf, TwoBelow
<1>5. PoppingTo(o, 2)'
  BY <1>1, <1>4, StackUnmoved DEF PoppingTo, vars
<1>6. PoppingTo(origin, held)'
  BY <1>1, <1>2, <1>5 DEF PoppingTo, OwnOf
<1>7. QED
  BY <1>1, <1>6 DEF CardsCourse, CallCourse, WalkCourse

\* One card: its directory is pushed and popped again.
LEMMA CardCourseGoesOn ==
    ASSUME CardsTypes, IInv, CardsCourse, CardStep, ~FileStep, ~refused', status' = "running"
    PROVE  CardsCourse'
<1>b. PICK b : b = base
  OBVIOUS
<1>n. PICK n \in Nat : n = Len(frames)
  BY FramesNumber
<1>1. /\ wpc = "visit" /\ pc = "idle" /\ gpc = "walk" /\ held = 2
      /\ TwoBelow(origin, base) /\ CardCourse(b, n)
      /\ UNCHANGED <<frames, depth, base, origin, gpc, held>>
  <2>1. wpc = "visit" /\ pc = "idle" /\ UNCHANGED <<frames, depth, base, origin, gpc, held>>
    BY DEF CardStep, CardEnter, CardPath, CardAdd, CardLeave, CardDone, Filing, Visited, Walking,
       At, walk
  <2>2. gpc = "walk"
    BY <2>1 DEF CardsTypes
  <2>3. QED
    BY <1>b, <1>n, <2>1, <2>2 DEF CardsCourse, WalkCourse
<1>2. ASSUME wpc' = "visit", CardCourse(b, n)' PROVE CardsCourse'
  <2>1. CardCourse(base, Len(frames))'
    BY <1>b, <1>n, <1>1, <1>2 DEF CardCourse, PushingOf, PoppingTo, OwnOf, Counts
  <2>2. TwoBelow(origin, base)'
    BY <1>1 DEF TwoBelow
  <2>3. QED
    BY <1>1, <1>2, <2>1, <2>2 DEF CardsCourse, CallCourse, WalkCourse
<1>3. n + 1 \in Nat /\ n + 1 # 0
  OBVIOUS
<1>4. Counts(depth, n)'
  BY <1>b, <1>n, <1>1 DEF CardCourse, Counts
<1>5. CASE CardEnter
  <2>1. cpc = "enter" /\ cpc' = "load" /\ UNCHANGED walk /\ Push(entry)
    BY <1>5 DEF CardEnter
  <2>2. PushingOf(b, n)'
    BY <1>1, <2>1, PushBegins DEF CardCourse
  <2>3. QED
    BY <1>1, <1>2, <1>4, <2>1, <2>2 DEF CardCourse, walk
<1>6. CASE CardPath
  <2>1. /\ cpc = "load" /\ cpc' = "add" /\ UNCHANGED walk /\ ret # NULL
        /\ UNCHANGED <<dirstack, sysCwd, pc>>
    BY <1>6 DEF CardPath, Filing, GetCWD, fsVars
  <2>2. OwnOf(b, n + 1)
    BY <1>1, <2>1, PushReturned DEF CardCourse
  <2>3. OwnOf(b, n + 1)'
    BY <1>3, <2>1, <2>2, OwnOfStays
  <2>4. QED
    BY <1>1, <1>2, <1>4, <2>1, <2>3 DEF CardCourse, walk
<1>7. CASE CardAdd
  <2>1. /\ cpc = "add" /\ cpc' = "leave" /\ UNCHANGED walk
        /\ UNCHANGED <<dirstack, sysCwd, directory_current, pc>>
    BY <1>7 DEF CardAdd, fsVars
  <2>2. OwnOf(b, n + 1)
    BY <1>1, <2>1 DEF CardCourse
  <2>3. OwnOf(b, n + 1)'
    BY <1>3, <2>1, <2>2, OwnOfStays
  <2>4. QED
    BY <1>1, <1>2, <1>4, <2>1, <2>3 DEF CardCourse, walk
<1>8. CASE CardLeave
  <2>1. cpc = "leave" /\ cpc' = "done" /\ UNCHANGED walk /\ PopCWD
    BY <1>8 DEF CardLeave
  <2>2. PoppingTo(b, n)'
    BY <1>1, <2>1, PopBegins DEF CardCourse
  <2>3. QED
    BY <1>1, <1>2, <1>4, <2>1, <2>2 DEF CardCourse, walk
<1>9. CASE CardDone
  <2>1. cpc = "done" /\ UNCHANGED vars /\ wpc' \in {"loop", "done"}
    BY <1>9 DEF CardDone, Visited, Descends, Advance
  <2>2. OwnOf(b, n)
    BY <1>1, <2>1, PopReturned DEF CardCourse
  <2>3. OwnOf(b, n)' /\ pc' = "idle"
    BY <1>1, <2>1, <2>2, StackUnmoved DEF vars
  <2>4. Own(Len(frames))' /\ Counts(depth, Len(frames))'
    BY <1>b, <1>n, <1>1, <1>4, <2>3 DEF Own, OwnOf, Counts
  <2>5. Course'
    BY <2>1, <2>3, <2>4 DEF Course
  <2>6. TwoBelow(origin, base)'
    BY <1>1 DEF TwoBelow
  <2>7. QED
    BY <1>1, <2>1, <2>5, <2>6 DEF CardsCourse, CallCourse, WalkCourse
<1>10. QED
  BY <1>5, <1>6, <1>7, <1>8, <1>9 DEF CardStep

\* The walk itself, which enters no callback but through a visit.
LEMMA WalkerCourse ==
    ASSUME CardsTypes, IInv, CardsCourse, WalkerStep
    PROVE  CardsCourse'
<1>1. UNCHANGED cardVars /\ wpc \notin {"idle", "visit"}
  BY DEF WalkerStep, WalkStep, Enter, EnterPush, Opened, LoopEnd, LoopSkip, LoopRead, Done,
     Popped, Unwind, IterateReturn, Walking
<1>2. UNCHANGED base
  BY DEF WalkerStep, WalkStep, Enter, EnterPush, Opened, LoopEnd, LoopSkip, LoopRead, Done,
     Popped, Unwind, IterateReturn, walkVars
<1>3. gpc = "walk" /\ cpc = "enter" /\ WalkTypes
  BY <1>1 DEF CardsTypes
<1>4. Course /\ held = 2 /\ TwoBelow(origin, base)
  BY <1>1, <1>3 DEF CardsCourse, WalkCourse
<1>5. CalmWalk
  BY NeverCalm DEF CalmWalk
<1>6. Course'
  BY <1>3, <1>4, <1>5, CourseGoesOn DEF WalkerStep
<1>7. UNCHANGED <<gpc, cpc, held, origin>>
  BY <1>1 DEF cardVars
<1>8. wpc' = "visit" => CardCourse(base, Len(frames))'
  BY <1>3, <1>6, <1>7 DEF Course, CardCourse, Own
<1>9. TwoBelow(origin, base)'
  BY <1>2, <1>4, <1>7 DEF TwoBelow
<1>10. QED
  BY <1>3, <1>4, <1>6, <1>7, <1>8, <1>9 DEF CardsCourse, CallCourse, WalkCourse

\* What goes on below the calls.
LEMMA CardsCourseMoves ==
    ASSUME CardsTypes, IInv, CardsCourse, Steps \/ Environment,
           UNCHANGED <<walk, gpc, cpc, held, origin, calls>>, ~disturbed', status' = "running"
    PROVE  CardsCourse'
<1>1. CallCourse(origin)'
  BY CallCourseMoves DEF CardsCourse
<1>b. PICK b : b = base
  OBVIOUS
<1>n. PICK n \in Nat : n = Len(frames)
  BY FramesNumber
<1>2. /\ UNCHANGED <<wpc, frames, depth, base>> /\ b.stack \in Seq(Dir) /\ n + 1 \in Nat
      /\ TypeOK /\ CacheCoherent /\ WalkTypes
  BY <1>b, FramesNumber DEF walk, IInv, CardsTypes
<1>3. ASSUME gpc = "walk", wpc # "visit" PROVE Course'
  BY <1>2, <1>3, CourseSteps, CourseInterrupted DEF CardsCourse, WalkCourse
<1>4. ASSUME gpc = "walk", wpc = "visit" PROVE CardCourse(base, Len(frames))'
  <2>1. CardCourse(b, n) /\ Counts(depth, n)'
    BY <1>b, <1>n, <1>2, <1>4 DEF CardsCourse, WalkCourse, CardCourse, Counts
  <2>2. PushingOf(b, n) => PushingOf(b, n)'
    BY <1>2, PushGoesOn, StackUnmoved
  <2>3. PoppingTo(b, n) => PoppingTo(b, n)'
    BY <1>2, PopGoesOn, StackUnmoved
  <2>4. ASSUME pc = "idle" PROVE /\ pc' = "idle"
                                 /\ OwnOf(b, n) => OwnOf(b, n)'
                                 /\ OwnOf(b, n + 1) => OwnOf(b, n + 1)'
    <3>1. ~Steps
      BY <2>4 DEF Steps, SetCWD_Refresh, PushCWD_Save, PushCWD_Chdir, PushCWD_Refresh,
         PopCWD_Empty, PopCWD_Enter, PopCWD_Skip, At
    <3>2. Environment
      BY <3>1
    <3>3. pc' = pc
      BY <3>2 DEF Environment, DirRemoved, DirCreated
    <3>4. QED
      BY <1>2, <2>4, <3>2, <3>3, StackUnmoved
  <2>5. CardCourse(b, n)'
    BY <2>1, <2>2, <2>3, <2>4 DEF CardCourse
  <2>6. QED
    BY <1>b, <1>n, <1>2, <2>5 DEF CardCourse, PushingOf, PoppingTo, OwnOf, Counts
<1>5. TwoBelow(origin, base) => TwoBelow(origin, base)'
  BY <1>2 DEF TwoBelow
<1>6. QED
  BY <1>1, <1>2, <1>3, <1>4, <1>5 DEF CardsCourse, WalkCourse

LEMMA CardsCourseStays ==
    ASSUME CardsTypes, CardsCourse, Aside
    PROVE  CardsCourse'
<1>1. PICK o, b : o = origin /\ b = base
  OBVIOUS
<1>2. /\ UNCHANGED <<vars, wpc, frames, depth, exit, outcome, base, gpc, cpc, held, origin, calls>>
      /\ UNCHANGED <<dirstack, sysCwd, directory_current, pc, ret>>
  BY DEF Aside, allVars, walk, vars
<1>3. Course => Course'
  BY <1>2 DEF Course, Own, OwnOf, Counts, Good, Top
<1>4. CallCourse(origin) => CallCourse(origin)'
  BY <1>2 DEF CallCourse, PushingOf, PoppingTo, OwnOf
<1>5. CardCourse(base, Len(frames)) => CardCourse(base, Len(frames))'
  BY <1>2 DEF CardCourse, PushingOf, PoppingTo, OwnOf, Counts
<1>6. TwoBelow(origin, base) => TwoBelow(origin, base)'
  BY <1>2 DEF TwoBelow
<1>7. QED
  BY <1>2, <1>3, <1>4, <1>5, <1>6 DEF CardsCourse, WalkCourse

\* What is smooth has been smooth.
LEMMA SmoothBefore ==
    ASSUME CardsTypes, IInv, [CardsNext]_everything, Smooth'
    PROVE  Smooth
<1>1. TypeOK /\ status' = "running" /\ ~refused' /\ ~disturbed'
  BY DEF IInv, Smooth
<1>2. ~refused
  <2>1. refused \in BOOLEAN /\ refused' \in {refused, TRUE, refused \/ ret = NULL}
    BY DEF CardsTypes, CardsTypeOK, CardsNext, CallerGoes, GetAll, Again, GetContent, Library,
       GetAllStep, Rooted, Discover, Check, Compare_Root, EnterDeck, ListCards, Listed, Leave,
       GetAllReturn, CardStep, CardEnter, FileStep, CardPath, CardAdd, CardLeave, CardDone, StackStep,
       WalkerStep, ContentRead, ContentReturn, Disturb, Edit, cardVars, everything
  <2>2. QED
    BY <1>1, <2>1
<1>3. CASE CardAdd
  BY <1>1, <1>2, <1>3 DEF Smooth, CardAdd, Walking, At, histVars
<1>4. CASE [Next]_vars
  <2>1. ~disturbed
    BY <1>1, <1>4, StaysUndisturbed
  <2>2. status = "running"
    BY <1>1, <1>4, NextRuns DEF vars
  <2>3. QED
    BY <1>2, <2>1, <2>2 DEF Smooth
<1>5. QED
  BY <1>1, <1>3, <1>4, CardsIsStack

LEMMA CardsCourseStep ==
    ASSUME CardsTypes, IInv, CardsCourseInv, [CardsNext]_everything
    PROVE  CardsCourseInv'
<1>1. CardsTypes' /\ IInv' /\ TypeOK
  BY CardsTypesStep DEF IInv
<1>2. SUFFICES ASSUME status' = "running", ~refused', ~disturbed', ~failed'
               PROVE  CardsCourse'
  BY DEF CardsCourseInv, Smooth
<1>3. Smooth /\ ~failed
  <2>1. Smooth
    BY <1>2, SmoothBefore DEF Smooth
  <2>2. failed \in BOOLEAN /\ failed' \in {failed, failed \/ ~outcome}
    BY DEF CardsTypes, CardsTypeOK, CardsNext, CallerGoes, GetAll, Again, GetContent, Library,
       GetAllStep, Rooted, Discover, Check, Compare_Root, EnterDeck, ListCards, Listed, Leave,
       GetAllReturn, CardStep, CardEnter, FileStep, CardPath, CardAdd, CardLeave, CardDone, StackStep,
       WalkerStep, ContentRead, ContentReturn, Disturb, Edit, cardVars, everything
  <2>3. QED
    BY <1>2, <2>1, <2>2
<1>4. CardsCourse
  BY <1>3 DEF CardsCourseInv, Smooth
<1>5. CallCourse(origin)' /\ gpc' # "walk" => CardsCourse'
  BY DEF CardsCourse, WalkCourse
<1>6. CASE CallerGoes
  <2>1. gpc' = "idle" /\ calls' = 0
    BY <1>6 DEF CallerGoes, cardVars
  <2>2. QED
    BY <2>1 DEF CardsCourse, CallCourse, WalkCourse
<1>7. CASE GetAll
  <2>1. CallBegins /\ Push(Root) /\ gpc' = "rooted" /\ held' = 0
    BY <1>7 DEF GetAll
  <2>2. QED
    BY <1>5, <2>1, CallCourseBegins
<1>8. ASSUME NEW i \in DOMAIN list, GetContent(i) PROVE CardsCourse'
  <2>1. CallBegins /\ Push(list[i].path) /\ gpc' = "content"
    BY <1>8 DEF GetContent
  <2>2. QED
    BY <1>5, <2>1, CallCourseBegins
<1>9. CASE GetAllStep /\ ~ListCards /\ ~Listed
  <2>1. gpc' # "walk"
    BY <1>9 DEF GetAllStep, Rooted, Discover, Check, Compare_Root, EnterDeck, Leave, LeaveStep,
       GetAllReturn, Listing
  <2>2. QED
    BY <1>4, <1>5, <1>9, <2>1, CallCourseGoesOn DEF CardsCourse
<1>10. CASE ListCards
  BY <1>4, <1>10, ListCardsCourse
<1>11. CASE Listed
  <2>1. outcome
    BY <1>2, <1>11 DEF Listed
  <2>2. QED
    BY <1>4, <1>11, <2>1, ListedCourse
<1>12. CASE CardStep /\ ~FileStep
  BY <1>2, <1>4, <1>12, CardCourseGoesOn
<1>13. CASE StackStep
  BY <1>2, <1>4, <1>13, CardsCourseMoves DEF StackStep, cardVars
<1>14. CASE WalkerStep
  BY <1>4, <1>14, WalkerCourse
<1>15. CASE Again \/ ContentRead \/ ContentReturn
  <2>0. ContentRead => refused' = (refused \/ ret = NULL)
    BY Zenon DEF ContentRead
  <2>1. gpc' # "walk" /\ (ContentRead => ret # NULL)
    <3>1. gpc' \in {"idle", "returned", "content_read"}
      BY <1>15 DEF Again, ContentReturn, ContentRead
    <3>2. ContentRead => ret # NULL
      BY <1>2, <2>0, Zenon
    <3>3. QED
      BY <3>1, <3>2
  <2>2. CallCourse(origin)
    BY <1>4 DEF CardsCourse
  <2>3. Again \/ (ContentRead /\ ret # NULL) \/ ContentReturn
    BY <1>15, <2>1
  <2>4. CallCourse(origin)'
    BY <2>2, <2>3, CallCourseGoesOn
  <2>5. QED
    BY <1>5, <2>1, <2>4
<1>16. CASE Disturb
  BY <1>2, <1>4, <1>16, CardsCourseMoves DEF Disturb
<1>17. CASE FileStep \/ Edit \/ UNCHANGED everything
  BY <1>4, <1>17, FilesAside, CardsCourseStays
<1>18. QED
  BY <1>6, <1>7, <1>8, <1>9, <1>10, <1>11, <1>12, <1>13, <1>14, <1>15, <1>16, <1>17
     DEF CardsNext, Library

\* GetAll and GetContent leave their caller where it was, for every tree, every
\* caller and however cards and decks vanish and allocations fail: as long as no
\* chdir and no push has failed and no walk over the cards has answered false.
THEOREM CallersAreAlwaysRestored == CardsSpec => []CardsInv
<1>1. CardsInit => CardsCourseInv
  BY DEF CardsInit, WalkInit, CardsCourseInv, CardsCourse, CallCourse, WalkCourse
<1>2. CardsTypes /\ IInv /\ CardsCourseInv /\ [CardsNext]_everything => CardsCourseInv'
  BY CardsCourseStep
<1>3. CardsTypes /\ IInv /\ CardsCourseInv => CardsInv
  <2> SUFFICES ASSUME CardsTypes, IInv, CardsCourseInv PROVE CardsInv
    OBVIOUS
  <2>1. CardsTypeOK
    BY DEF CardsTypes
  <2>2. ASSUME gpc \in {"returned", "idle"}, calls > 0, Smooth, ~failed
        PROVE  dirstack = origin.stack /\ (origin.cwd # NULL => sysCwd \in {origin.cwd, NULL})
    <3>1. OwnOf(origin, 0) /\ origin.stack \in Seq(Dir) /\ TypeOK
      BY <2>2, FramesNumber DEF CardsCourseInv, CardsCourse, CallCourse, IInv
    <3>2. QED
      BY <3>1, OwnOfNone DEF OwnOf
  <2>3. QED
    BY <2>1, <2>2 DEF CardsInv, CallerRestored
<1>4. QED
  BY <1>1, <1>2, <1>3, CardsTypesAlways, PTL DEF CardsSpec

-----------------------------------------------------------------------------
(* Where the process is during a call.  A cards directory is a directory   *)
(* of the model, there or not; where nothing hides what is there, each     *)
(* directory has one parent and reading a directory does not fail, a push  *)
(* that finds nothing tells that its directory has not been there all the  *)
(* time.                                                                   *)

DeckDir == Child[Root][DeckName]
CardAt(e) == IF e \in Name THEN Child[CardsDir][e] ELSE NULL

DeckNamed == DeckDir \in Dir /\ CardsDir \in Dir
Clear == Tree /\ Unreadable = {} /\ FALSE \notin ReadOutcome

\* The process is in d, or was when d was removed: then d has not been there
\* all the time.
WorksIn(d) == /\ sysCwd = d \/ (sysCwd = NULL /\ d \notin steady)
              /\ directory_current \in {d, NULL}

OnTop(d) == dirstack # <<>> /\ Last(dirstack) = d

\* A push of path, on its way to the directory t.
BoundFor(path, t) ==
    \/ pc \in {"push", "chdir"} /\ call.path = path
    \/ pc = "refresh" /\ WorksIn(t) /\ directory_current = NULL
    \/ pc = "idle" /\ ret # NULL /\ ret = t /\ WorksIn(t)
    \/ pc = "idle" /\ ret = NULL /\ (Clear => t \notin steady)

\* A push that began in d, and a pop that ends there.
LeftFrom(d) == \/ pc = "push" /\ WorksIn(d)
               \/ pc = "chdir" /\ WorksIn(d) /\ OnTop(d)
               \/ pc = "refresh" /\ OnTop(d)
               \/ pc = "idle" /\ ret = NULL /\ WorksIn(d)
               \/ pc = "idle" /\ ret # NULL /\ OnTop(d)

BackTo(d) == \/ pc = "pop" /\ OnTop(d)
             \/ pc = "idle" /\ WorksIn(d)

\* Where a path leads from d.
LeadsTo(d, path) == IF path \in Dir THEN path
                    ELSE IF path \in Name THEN Child[d][path]
                    ELSE NULL

\* No directory is there without the one it is in.
Chained == /\ steady \subseteq present
           /\ \A d \in Dir, n \in Name : Child[d][n] \in present => d \in present
           /\ \A d \in Dir, n \in Name : Child[d][n] \in steady => d \in steady

\* What leaves the stack alone leaves the place alone.
LEMMA HereStays ==
    ASSUME NEW d, WorksIn(d), steady' \subseteq steady, UNCHANGED <<sysCwd, directory_current>>
    PROVE  WorksIn(d)'
  BY DEF WorksIn

LEMMA PlaceStays ==
    ASSUME UNCHANGED vars, steady' \subseteq steady, NEW path, NEW d
    PROVE  /\ WorksIn(d) => WorksIn(d)'
           /\ OnTop(d) => OnTop(d)'
           /\ BoundFor(path, d) => BoundFor(path, d)'
           /\ LeftFrom(d) => LeftFrom(d)'
           /\ BackTo(d) => BackTo(d)'
<1>1. UNCHANGED <<sysCwd, directory_current, dirstack, pc, call, ret>>
  BY DEF vars
<1>2. WorksIn(d) => WorksIn(d)'
  BY <1>1, HereStays
<1>3. OnTop(d) => OnTop(d)'
  BY <1>1 DEF OnTop
<1>4. QED
  BY <1>1, <1>2, <1>3 DEF BoundFor, LeftFrom, BackTo

\* Other processes may remove the directory the process is in.
LEMMA PlaceDisturbed ==
    ASSUME Environment, steady' = steady \cap present', NEW path, NEW d
    PROVE  /\ WorksIn(d) => WorksIn(d)'
           /\ OnTop(d) => OnTop(d)'
           /\ BoundFor(path, d) => BoundFor(path, d)'
           /\ LeftFrom(d) => LeftFrom(d)'
           /\ BackTo(d) => BackTo(d)'
<1>1. /\ UNCHANGED <<directory_current, dirstack, pc, call, ret>>
      /\ sysCwd' = sysCwd \/ (sysCwd' = NULL /\ sysCwd \notin present')
  BY DEF Environment, DirRemoved, DirCreated
<1>2. WorksIn(d) => WorksIn(d)'
  BY <1>1 DEF WorksIn
<1>3. OnTop(d) => OnTop(d)'
  BY <1>1 DEF OnTop
<1>4. QED
  BY <1>1, <1>2, <1>3 DEF BoundFor, LeftFrom, BackTo

\* A push that begins in d.
LEMMA PushFrom ==
    ASSUME TypeOK, Clear => Chained, NEW d \in Dir, NEW path, NEW t, t = LeadsTo(d, path),
           Push(path), WorksIn(d), UNCHANGED steady
    PROVE  BoundFor(path, t)' /\ LeftFrom(d)'
<1>1. UNCHANGED <<present, sysCwd, directory_current, dirstack>>
  BY DEF Push, PushCWD_Missing, PushCWD, fsVars
<1>2. WorksIn(d)'
  BY <1>1, HereStays
<1>3. CASE PushCWD_Missing(path)
  <2>1. pc' = "idle" /\ ret' = NULL /\ ~Dir_Exists(path)
    BY <1>3 DEF PushCWD_Missing, Return
  <2>2. ASSUME Clear PROVE t \notin steady
    <3>1. Chained /\ Resolve(path) \notin present /\ NULL \notin Dir /\ present \subseteq Dir
      BY <2>1, <2>2, NullAssumption DEF Dir_Exists, Clear, TypeOK
    <3>2. CASE sysCwd = d
      <4>1. t = Resolve(path) \/ t = NULL
        BY <3>1, <3>2 DEF Resolve, LeadsTo
      <4>2. QED
        BY <3>1, <4>1 DEF Chained
    <3>3. CASE sysCwd = NULL /\ d \notin steady
      <4>1. path \in Dir => t = Resolve(path)
        BY DEF Resolve, LeadsTo
      <4>2. path \notin Dir /\ path \in Name => t \notin steady
        BY <3>1, <3>3 DEF LeadsTo, Chained
      <4>3. path \notin Dir /\ path \notin Name => t = NULL
        BY DEF LeadsTo
      <4>4. QED
        BY <3>1, <4>1, <4>2, <4>3 DEF Chained
    <3>4. QED
      BY <3>2, <3>3 DEF WorksIn
  <2>3. QED
    BY <1>2, <2>1, <2>2 DEF BoundFor, LeftFrom
<1>4. CASE PushCWD(path)
  <2>1. pc' = "push" /\ call'.path = path
    BY <1>4 DEF PushCWD, NoCall
  <2>2. QED
    BY <1>2, <2>1 DEF BoundFor, LeftFrom
<1>5. QED
  BY <1>3, <1>4 DEF Push

\* A push by absolute path, from anywhere.
LEMMA PushAbsolute ==
    ASSUME NEW t \in Dir, Push(t), Clear => steady' \subseteq present
    PROVE  BoundFor(t, t)'
<1>1. CASE PushCWD_Missing(t)
  <2>1. pc' = "idle" /\ ret' = NULL /\ ~Dir_Exists(t)
    BY <1>1 DEF PushCWD_Missing, Return
  <2>2. Clear => t \notin present
    BY <2>1 DEF Dir_Exists, Resolve, Clear
  <2>3. QED
    BY <2>1, <2>2 DEF BoundFor
<1>2. CASE PushCWD(t)
  BY <1>2 DEF PushCWD, NoCall, BoundFor
<1>3. QED
  BY <1>1, <1>2 DEF Push

LEMMA PushMoves ==
    ASSUME TypeOK, Steps, ~disturbed', status' = "running", UNCHANGED steady,
           NEW path, NEW t, BoundFor(path, t),
           \/ path \in Dir /\ t = path
           \/ \E d \in Dir : LeftFrom(d) /\ t = LeadsTo(d, path)
    PROVE  BoundFor(path, t)'
<1>1. CASE pc = "push"
  BY <1>1 DEF BoundFor, Steps, SetCWD_Refresh, PushCWD_Save, PushCWD_Chdir, PushCWD_Refresh,
     PopCWD_Empty, PopCWD_Enter, PopCWD_Skip, At
<1>2. CASE pc = "chdir"
  <2>1. /\ call.path = path /\ CanEnter(path) /\ pc' = "refresh"
        /\ sysCwd' = Resolve(path) /\ directory_current' = NULL
    BY <1>2 DEF BoundFor, Steps, SetCWD_Refresh, PushCWD_Save, PushCWD_Chdir, PushCWD_Refresh,
       PopCWD_Empty, PopCWD_Enter, PopCWD_Skip, At, Entered
  <2>2. Resolve(path) # NULL
    BY <2>1, NullAssumption DEF CanEnter, TypeOK
  <2>3. Resolve(path) = t
    <3>1. CASE path \in Dir /\ t = path
      BY <3>1 DEF Resolve
    <3>2. ASSUME NEW d \in Dir, LeftFrom(d), t = LeadsTo(d, path) PROVE Resolve(path) = t
      <4>1. sysCwd \in {d, NULL}
        BY <1>2, <3>2 DEF LeftFrom, WorksIn
      <4>2. QED
        BY <2>2, <3>2, <4>1 DEF Resolve, LeadsTo
    <3>3. QED
      BY <3>1, <3>2
  <2>4. QED
    BY <2>1, <2>3 DEF BoundFor, WorksIn
<1>3. CASE pc = "refresh"
  <2>1. WorksIn(t) /\ directory_current = NULL
    BY <1>3 DEF BoundFor
  <2>2. /\ pc' = "idle" /\ UNCHANGED sysCwd
        /\ \E cwd \in CachedOrSystem : cwd # NULL /\ directory_current' = cwd /\ ret' = cwd
    BY <1>3 DEF Steps, SetCWD_Refresh, PushCWD_Save, PushCWD_Chdir, PushCWD_Refresh,
       PopCWD_Empty, PopCWD_Enter, PopCWD_Skip, At, Return, fsVars
  <2>3. sysCwd # NULL /\ ret' = sysCwd /\ directory_current' = sysCwd
    BY <2>1, <2>2 DEF CachedOrSystem
  <2>4. sysCwd = t
    BY <2>1, <2>3 DEF WorksIn
  <2>5. QED
    BY <2>2, <2>3, <2>4 DEF BoundFor, WorksIn
<1>4. pc # "idle"
  BY DEF Steps, SetCWD_Refresh, PushCWD_Save, PushCWD_Chdir, PushCWD_Refresh,
     PopCWD_Empty, PopCWD_Enter, PopCWD_Skip, At
<1>5. QED
  BY <1>1, <1>2, <1>3, <1>4 DEF BoundFor

LEMMA LeftMoves ==
    ASSUME TypeOK, Steps, ~disturbed', status' = "running", UNCHANGED steady,
           NEW d \in Dir, LeftFrom(d)
    PROVE  LeftFrom(d)'
<1>1. CASE pc = "push"
  <2>1. WorksIn(d) /\ UNCHANGED sysCwd /\ pc' = "chdir"
    BY <1>1 DEF LeftFrom, Steps, SetCWD_Refresh, PushCWD_Save, PushCWD_Chdir, PushCWD_Refresh,
       PopCWD_Empty, PopCWD_Enter, PopCWD_Skip, At, fsVars
  <2>2. PICK cwd \in CachedOrSystem : /\ cwd # NULL /\ directory_current' = cwd
                                      /\ dirstack' = Append(dirstack, cwd)
    BY <1>1 DEF Steps, SetCWD_Refresh, PushCWD_Save, PushCWD_Chdir, PushCWD_Refresh,
       PopCWD_Empty, PopCWD_Enter, PopCWD_Skip, At
  <2>3. cwd = d
    BY <2>1, <2>2 DEF CachedOrSystem, WorksIn
  <2>4. OnTop(d)'
    <3>1. dirstack \in Seq(Dir)
      BY DEF TypeOK
    <3>2. /\ Len(dirstack') = Len(dirstack) + 1 /\ Len(dirstack) \in Nat
          /\ dirstack'[Len(dirstack) + 1] = d /\ dirstack' # <<>>
      BY <2>2, <2>3, <3>1, AppendProperties, LenProperties
    <3>3. QED
      BY <3>2 DEF OnTop, Last
  <2>5. WorksIn(d)'
    BY <2>1, <2>2, <2>3 DEF WorksIn
  <2>6. QED
    BY <2>1, <2>4, <2>5 DEF LeftFrom
<1>2. CASE pc \in {"chdir", "refresh"}
  <2>1. /\ UNCHANGED dirstack
        /\ \/ pc' = "refresh"
           \/ pc' = "idle" /\ ret' # NULL
    BY <1>2 DEF Steps, SetCWD_Refresh, PushCWD_Save, PushCWD_Chdir, PushCWD_Refresh,
       PopCWD_Empty, PopCWD_Enter, PopCWD_Skip, At, Return
  <2>2. OnTop(d)'
    BY <1>2, <2>1 DEF LeftFrom, OnTop
  <2>3. QED
    BY <2>1, <2>2 DEF LeftFrom
<1>3. pc # "idle"
  BY DEF Steps, SetCWD_Refresh, PushCWD_Save, PushCWD_Chdir, PushCWD_Refresh,
     PopCWD_Empty, PopCWD_Enter, PopCWD_Skip, At
<1>4. QED
  BY <1>1, <1>2, <1>3 DEF LeftFrom

LEMMA BackMoves ==
    ASSUME Steps, ~disturbed', NEW d, BackTo(d)
    PROVE  BackTo(d)'
<1>1. pc = "pop" /\ OnTop(d)
  BY DEF BackTo, Steps, SetCWD_Refresh, PushCWD_Save, PushCWD_Chdir, PushCWD_Refresh,
     PopCWD_Empty, PopCWD_Enter, PopCWD_Skip, At
<1>2. pc' = "idle" /\ sysCwd' = d /\ directory_current' = NULL
  BY <1>1 DEF OnTop, Steps, SetCWD_Refresh, PushCWD_Save, PushCWD_Chdir,
     PushCWD_Refresh, PopCWD_Empty, PopCWD_Enter, PopCWD_Skip, At, Return, Entered
<1>3. QED
  BY <1>2 DEF BackTo, WorksIn

LEMMA PopFrom ==
    ASSUME PopCWD, NEW d, OnTop(d)
    PROVE  BackTo(d)'
  BY DEF PopCWD, BackTo, OnTop

LEMMA SteadyStep ==
    ASSUME [CardsNext]_everything
    PROVE  \/ UNCHANGED steady
           \/ GetAll /\ steady' = present
           \/ Disturb /\ steady' = steady \cap present'
  BY DEF CardsNext, CallerGoes, GetAll, Again, GetContent, Library, GetAllStep, Rooted,
     Discover, Check, Compare_Root, EnterDeck, ListCards, Listed, Leave, GetAllReturn, CardStep,
     CardEnter, FileStep, CardPath, CardAdd, CardLeave, CardDone, StackStep, WalkerStep, ContentRead,
     ContentReturn, Disturb, Edit, cardVars, everything

\* Only an empty directory is removed, and one is created where its parent is.
LEMMA ChainedStep ==
    ASSUME Tree, CardsTypes, TypeOK', Chained, [CardsNext]_everything
    PROVE  Chained'
<1>1. CASE UNCHANGED <<present, steady>>
  BY <1>1 DEF Chained
<1>2. CASE GetAll
  <2>1. UNCHANGED present /\ steady' = present
    BY <1>2, CallsKeepPresent DEF GetAll
  <2>2. QED
    BY <2>1 DEF Chained
<1>3. CASE Disturb
  <2>1. Environment /\ steady' = steady \cap present' /\ NULL \notin Dir /\ present' \subseteq Dir
    BY <1>3, NullAssumption DEF Disturb, TypeOK
  <2>2. ASSUME NEW d \in Dir, NEW n \in Name, Child[d][n] \in present' PROVE d \in present'
    <3>1. CASE \E e \in Dir : DirRemoved(e)
      BY <2>2, <3>1 DEF DirRemoved, Chained
    <3>2. ASSUME NEW e \in Dir, DirCreated(e) PROVE d \in present'
      <4>1. present' = present \cup {e} /\ \E p \in present, m \in Name : Child[p][m] = e
        BY <3>2 DEF DirCreated
      <4>2. CASE Child[d][n] \in present
        BY <4>1, <4>2 DEF Chained
      <4>3. CASE Child[d][n] = e
        <5>1. PICK p \in present, m \in Name : Child[p][m] = e
          BY <4>1
        <5>2. p \in Dir /\ Child[d][n] # NULL
          BY <2>1, <4>1, <4>3, <5>1
        <5>3. \A a, b \in Dir, x, y \in Name :
                Child[a][x] # NULL /\ Child[a][x] = Child[b][y] => a = b /\ x = y
          BY DEF Tree
        <5>4. d = p
          BY <4>3, <5>1, <5>2, <5>3
        <5>5. QED
          BY <4>1, <5>1, <5>4
      <4>4. QED
        BY <2>2, <4>1, <4>2, <4>3
    <3>3. QED
      BY <2>1, <3>1, <3>2 DEF Environment
  <2>3. ASSUME NEW d \in Dir, NEW n \in Name, Child[d][n] \in steady' PROVE d \in steady'
    BY <2>1, <2>2, <2>3 DEF Chained
  <2>4. QED
    BY <2>1, <2>2, <2>3 DEF Chained
<1>4. QED
  BY <1>1, <1>2, <1>3, SteadyStep, PresentStays DEF GetAll, Disturb

-----------------------------------------------------------------------------
(* The walk has one frame, as get_cards never recurses, and what is still  *)
(* to be read has not been listed.                                         *)

Ids == {list[i].id : i \in 1..Len(list)}
Visiting == cpc \in {"enter", "load", "add"}

OneByOne ==
    /\ gpc \in {"rooted", "discover", "check", "compare", "checked", "deck"} => list = <<>>
    /\ \A i, j \in 1..Len(list) : list[i].id = list[j].id => i = j
    /\ Len(frames) <= 1
    /\ wpc \in {"enter", "push", "pushed"} => list = <<>> /\ frames = <<>>
    /\ wpc \in {"loop", "visit"} => Top.todo \cap Ids = {}
    /\ wpc = "visit" => /\ entry \notin Top.todo
                        /\ Visiting => entry \notin Ids
                        /\ Making => card.id = entry

\* The list with one card more.
LEMMA OneCardMore ==
    ASSUME CardsTypes, CardAdd, ret # NULL, list' = Append(list, [card EXCEPT !.path = ret])
    PROVE  /\ Len(list') = Len(list) + 1 /\ Len(list) \in Nat
           /\ \A j \in 1..Len(list) : list'[j] = list[j]
           /\ list'[Len(list) + 1].id = card.id /\ list'[Len(list) + 1].path = ret
           /\ Ids' = Ids \cup {card.id}
<1> DEFINE new == [card EXCEPT !.path = ret]
<1>1. cpc = "add" /\ ret \in Dir /\ card \in MadeType /\ list \in Seq(CardType)
  BY DEF CardAdd, CardsTypes, Making
<1>2. new \in CardType /\ new.id = card.id /\ new.path = ret
  BY <1>1 DEF MadeType, CardType
<1> HIDE DEF new
<1>3. list' = Append(list, new)
  BY DEF new
<1>4. /\ Len(list') = Len(list) + 1 /\ Len(list) \in Nat
      /\ \A j \in 1..Len(list) : list'[j] = list[j]
      /\ list'[Len(list) + 1] = new
  BY <1>1, <1>2, <1>3, AppendProperties, LenProperties
<1>5. Ids' = Ids \cup {card.id}
  <2>1. 1..Len(list') = 1..Len(list) \cup {Len(list) + 1}
    BY <1>4
  <2>2. QED
    BY <1>2, <1>4, <2>1 DEF Ids
<1>6. QED
  BY <1>2, <1>4, <1>5

\* One entry less to read.
LEMMA OneEntryLess ==
    ASSUME WalkTypes, wpc = "loop", NEW e, SetTop([Top EXCEPT !.todo = @ \ {e}])
    PROVE  Top'.todo = Top.todo \ {e} /\ Len(frames') = Len(frames)
<1>1. frames \in Seq(FrameType) /\ frames # <<>>
  BY DEF WalkTypes, WalkTypeOK, FrameType
<1> DEFINE frame == [Top EXCEPT !.todo = Top.todo \ {e}]
<1>2. frame \in FrameType /\ frame.todo = Top.todo \ {e}
  BY <1>1, TopType DEF FrameType
<1>3. frames' = Append(Front(frames), frame)
  BY DEF SetTop
<1> HIDE DEF frame
<1>4. Top' = frame /\ Len(frames') = Len(Front(frames)) + 1
  BY <1>1, <1>2, <1>3, TopType, PushFrame DEF Top
<1>5. QED
  BY <1>1, <1>2, <1>4, TopType

LEMMA OneFrame ==
    ASSUME NEW frame \in FrameType
    PROVE  /\ Len(Append(<<>>, frame)) = 1 /\ Last(Append(<<>>, frame)) = frame
           /\ Append(<<>>, frame) # <<>>
<1>1. PICK none \in Seq(FrameType) : none = <<>> /\ Len(none) = 0
  BY EmptySeq
<1>2. Len(Append(none, frame)) = Len(none) + 1 /\ Last(Append(none, frame)) = frame
      /\ Append(none, frame) # <<>>
  BY PushFrame
<1>3. QED
  BY <1>1, <1>2

LEMMA FrameOf ==
    ASSUME NEW todo \in SUBSET (Name \cup FileName), NEW result \in BOOLEAN
    PROVE  Frame(todo, result) \in FrameType /\ Frame(todo, result).todo = todo
  BY DEF Frame, FrameType

LEMMA OneByOneWalker ==
    ASSUME CardsTypes, OneByOne, WalkerStep
    PROVE  OneByOne'
<1>1. /\ UNCHANGED cardVars /\ WalkStep /\ wpc \notin {"idle", "visit"} /\ WalkTypes /\ TypeOK
      /\ frames \in Seq(FrameType) /\ gpc = "walk" /\ cpc = "enter" /\ Len(frames) <= 1
  BY DEF WalkerStep, WalkStep, Enter, EnterPush, Opened, LoopEnd, LoopSkip, LoopRead, Done,
     Popped, Unwind, IterateReturn, Walking, CardsTypes, CardsTypeOK, WalkTypes, WalkTypeOK,
     FrameType, OneByOne
<1>2. /\ UNCHANGED <<list, card, gpc, cpc>> /\ Ids' = Ids /\ gpc' = "walk"
      /\ \A i, j \in 1..Len(list') : list'[i].id = list'[j].id => i = j
  BY <1>1 DEF cardVars, Ids, OneByOne
<1>3. CASE Enter
  <2>1. /\ list = <<>> /\ frames = <<>>
        /\ \/ wpc' = "push" /\ UNCHANGED frames
           \/ wpc' = "done" /\ frames' = Append(frames, Frame({}, FALSE))
    BY <1>3 DEF Enter, Walking, OneByOne
  <2>2. Frame({}, FALSE) \in FrameType
    BY FrameOf
  <2>3. frames' = <<>> \/ frames' = Append(<<>>, Frame({}, FALSE))
    BY <2>1
  <2>4. Len(frames') <= 1
    <3>1. CASE frames' = <<>>
      BY <1>1, <2>1, <3>1
    <3>2. CASE frames' = Append(<<>>, Frame({}, FALSE))
      <4>1. Len(frames') = 1
        BY <2>2, <3>2, OneFrame
      <4>2. QED
        BY <4>1
    <3>3. QED
      BY <2>3, <3>1, <3>2
  <2>5. QED
    BY <1>2, <2>1, <2>4 DEF OneByOne
<1>4. CASE EnterPush
  BY <1>1, <1>2, <1>4 DEF EnterPush, Walking, walkVars, OneByOne
<1>5. CASE Opened
  <2>1. /\ list = <<>> /\ frames = <<>> /\ wpc' \in {"loop", "done"}
        /\ \E todo \in SUBSET (Name \cup FileName), result \in BOOLEAN :
              frames' = Append(frames, Frame(todo, result))
    BY <1>1, <1>5, EntriesType, ReadAssumption DEF Opened, Walking, OneByOne, TypeOK
  <2>2. Len(frames') <= 1
    BY <2>1, OneFrame, FrameOf
  <2>3. Ids' = {}
    BY <1>2, <2>1, EmptySeq DEF Ids
  <2>4. QED
    BY <1>2, <2>1, <2>2, <2>3 DEF OneByOne
<1>6. CASE LoopEnd
  BY <1>1, <1>2, <1>6 DEF LoopEnd, walkVars, OneByOne
<1>7. ASSUME NEW e \in Name \cup FileName, LoopSkip(e) \/ LoopRead(e) PROVE OneByOne'
  <2>1. /\ wpc = "loop" /\ e \in Top.todo /\ SetTop([Top EXCEPT !.todo = @ \ {e}])
        /\ wpc' \in {"loop", "visit"} /\ (wpc' = "visit" => entry' = e)
    BY <1>7 DEF LoopSkip, LoopRead, Walking
  <2>2. Top'.todo = Top.todo \ {e} /\ Len(frames') = Len(frames)
    BY <1>1, <2>1, OneEntryLess
  <2>3. Top.todo \cap Ids = {}
    BY <2>1 DEF OneByOne
  <2>4. Top'.todo \cap Ids' = {} /\ e \notin Top'.todo /\ e \notin Ids'
    BY <1>2, <2>1, <2>2, <2>3
  <2>5. Len(frames') <= 1
    BY <1>1, <2>2
  <2>6. /\ cpc' = "enter" /\ wpc' \in {"loop", "visit"} /\ (wpc' = "visit" => entry' = e)
        /\ gpc' = "walk"
    BY <1>1, <1>2, <2>1
  <2>7. QED
    BY <1>2, <2>4, <2>5, <2>6 DEF OneByOne, Making
<1>8. CASE Done \/ Unwind \/ IterateReturn
  <2>1. wpc' \in {"popped", "unwind", "returned"} /\ UNCHANGED frames
    BY <1>8 DEF Done, Unwind, IterateReturn, Walking, walkVars
  <2>2. QED
    BY <1>1, <1>2, <2>1 DEF OneByOne
<1>9. CASE Popped
  <2>1. Len(frames) = 1
    BY <1>1, <1>9, TopType DEF Popped, Walking, WalkTypes
  <2>2. wpc' = "unwind" /\ frames' = <<>>
    BY <1>9, <2>1 DEF Popped
  <2>3. Len(frames') <= 1
    BY <2>2, EmptySeq
  <2>4. QED
    BY <1>2, <2>2, <2>3 DEF OneByOne
<1>10. QED
  BY <1>1, <1>3, <1>4, <1>5, <1>6, <1>7, <1>8, <1>9 DEF WalkStep

\* The card is made under the name of its directory.
LEMMA FileStepId ==
    ASSUME CardsTypes, FileStep
    PROVE  card'.id = entry \/ (Making /\ card'.id = card.id)
<1>1. CASE LoadAdded
  <2>1. PICK ok \in FileOutcome, now \in Moments, later \in Moments : LoadsAdded(ok, now, later)
    BY <1>1, LoadAddedChooses
  <2>2. QED
    BY <2>1 DEF LoadsAdded, NoCard
<1>2. CASE LoadScheduled
  <2>1. Making /\ card \in MadeType
    BY <1>2 DEF LoadScheduled, Filing, Making, CardsTypes
  <2>2. card'.id = card.id
    BY <1>2, <2>1 DEF LoadScheduled, MadeType
  <2>3. QED
    BY <2>1, <2>2
<1>3. CASE CheckAdded \/ SaveAdded \/ CheckScheduled \/ SaveScheduled
  BY <1>3 DEF CheckAdded, SaveAdded, CheckScheduled, SaveScheduled, Check_File, Filing, Making
<1>4. QED
  BY <1>1, <1>2, <1>3 DEF FileStep

LEMMA OneByOneCard ==
    ASSUME CardsTypes, OneByOne, CardStep
    PROVE  OneByOne'
<1>1. wpc = "visit" /\ gpc = "walk" /\ UNCHANGED <<gpc, frames, entry>>
  <2>1. CASE FileStep
    BY <2>1, FilesAside, FileStepEffect DEF Aside, allVars, walk, CardsTypes
  <2>2. CASE ~FileStep
    <3>1. wpc = "visit" /\ UNCHANGED <<gpc, frames, entry>>
      BY <2>2 DEF CardStep, CardEnter, CardPath, CardAdd, CardLeave, CardDone, Filing, Visited,
         Walking, walk
    <3>2. QED
      BY <3>1 DEF CardsTypes
  <2>3. QED
    BY <2>1, <2>2
<1>2. /\ Top' = Top /\ Len(frames') <= 1 /\ entry \notin Top.todo /\ Top.todo \cap Ids = {}
      /\ Visiting => entry \notin Ids
  BY <1>1 DEF Top, OneByOne
<1>3. ASSUME UNCHANGED list
      PROVE  Ids' = Ids /\ \A i, j \in 1..Len(list') : list'[i].id = list'[j].id => i = j
  BY <1>3 DEF Ids, OneByOne
<1>4. CASE CardEnter \/ CardLeave
  <2>1. UNCHANGED <<list, wpc>> /\ ((cpc = "enter" /\ cpc' = "load") \/ cpc' = "done")
    BY <1>4 DEF CardEnter, CardLeave, walk
  <2>2. ~Making'
    BY <1>4, <2>1 DEF CardEnter, CardLeave, Making, fileVars, CardsTypes
  <2>3. QED
    BY <1>1, <1>2, <1>3, <2>1, <2>2 DEF OneByOne, Visiting
<1>f. CASE FileStep
  <2>1. UNCHANGED <<list, wpc, cpc>> /\ card'.id = entry
    BY <1>1, <1>f, FilesAside, FileStepId DEF Aside, allVars, walk, OneByOne
  <2>2. QED
    BY <1>1, <1>2, <1>3, <2>1 DEF OneByOne, Visiting
<1>5. CASE CardPath
  <2>1. UNCHANGED <<list, wpc>> /\ cpc = "load" /\ cpc' = "add" /\ card'.id = entry
    BY <1>1, <1>5 DEF CardPath, Filing, walk, Making, OneByOne
  <2>2. QED
    BY <1>1, <1>2, <1>3, <2>1 DEF OneByOne, Visiting
<1>6. CASE CardAdd
  <2>1. /\ UNCHANGED <<wpc, card>> /\ cpc = "add" /\ cpc' \in {"add", "leave"} /\ card.id = entry
        /\ \/ UNCHANGED list
           \/ ret # NULL /\ list' = Append(list, [card EXCEPT !.path = ret]) /\ cpc' = "leave"
    BY <1>1, <1>6 DEF CardAdd, walk, OneByOne, Making
  <2>2. CASE UNCHANGED list
    BY <1>1, <1>2, <1>3, <2>1, <2>2 DEF OneByOne, Visiting
  <2>3. CASE ret # NULL /\ list' = Append(list, [card EXCEPT !.path = ret]) /\ cpc' = "leave"
    <3>1. /\ Len(list') = Len(list) + 1 /\ Len(list) \in Nat
          /\ \A j \in 1..Len(list) : list'[j] = list[j]
          /\ list'[Len(list) + 1].id = card.id
          /\ Ids' = Ids \cup {card.id}
      BY <1>6, <2>3, OneCardMore
    <3>2. entry \notin Ids
      BY <1>2, <2>1 DEF Visiting
    <3>3. \A j \in 1..Len(list) : list[j].id # card.id
      BY <2>1, <3>2 DEF Ids
    <3>4. \A i, j \in 1..Len(list') : list'[i].id = list'[j].id => i = j
      <4>1. 1..Len(list') = 1..Len(list) \cup {Len(list) + 1}
        BY <3>1
      <4>2. QED
        BY <3>1, <3>3, <4>1 DEF OneByOne
    <3>5. Top'.todo \cap Ids' = {}
      BY <1>2, <2>1, <3>1
    <3>6. QED
      BY <1>1, <1>2, <2>1, <2>3, <3>4, <3>5 DEF OneByOne, Visiting
  <2>4. QED
    BY <2>1, <2>2, <2>3
<1>7. CASE CardDone
  <2>1. UNCHANGED list /\ wpc' \in {"loop", "done"}
    BY <1>7 DEF CardDone, Visited, Descends, Advance
  <2>2. QED
    BY <1>1, <1>2, <1>3, <2>1 DEF OneByOne
<1>8. QED
  BY <1>4, <1>f, <1>5, <1>6, <1>7 DEF CardStep

LEMMA OneByOneStep ==
    ASSUME CardsTypes, OneByOne, [CardsNext]_everything
    PROVE  OneByOne'
<1>1. CASE UNCHANGED <<walk, list, gpc, cpc, fpc, card>>
  BY <1>1 DEF walk, OneByOne, Ids, Visiting, Top, Making
<1>2. ASSUME wpc' = "idle", UNCHANGED <<list, frames>>,
             gpc' \in {"rooted", "discover", "check", "compare", "checked", "deck"} => list = <<>>
      PROVE  OneByOne'
  BY <1>2 DEF OneByOne
<1>3. gpc # "walk" => wpc = "idle"
  BY DEF CardsTypes
<1>4. CASE CallerGoes \/ StackStep \/ Disturb \/ Edit \/ UNCHANGED everything
  BY <1>1, <1>4 DEF CallerGoes, CallerPush, StackStep, Disturb, Edit, everything, allVars, cardVars,
     fileVars
<1>5. CASE GetAll
  <2>1. UNCHANGED <<wpc, frames>> /\ gpc = "idle" /\ list' = <<>>
    BY <1>5 DEF GetAll, Listing, walk
  <2>2. 1..Len(list') = {}
    BY <2>1, EmptySeq
  <2>3. QED
    BY <1>3, <2>1, <2>2 DEF OneByOne
<1>6. CASE Again \/ ContentRead \/ ContentReturn \/ \E i \in DOMAIN list : GetContent(i)
  BY <1>2, <1>3, <1>6 DEF Again, ContentRead, ContentReturn, GetContent, Listing, allVars, walk
<1>7. CASE GetAllStep
  <2>1. CASE ListCards
    <3>1. gpc = "deck" /\ list = <<>> /\ wpc = "idle" /\ UNCHANGED <<list, frames, cpc>>
      BY <1>3, <2>1 DEF ListCards, Listing, OneByOne, Iterate, allVars, walk
    <3>2. frames = <<>>
      BY <3>1 DEF CardsTypes, WalkTypes
    <3>3. \/ gpc' = "leave" /\ wpc' = "idle"
          \/ gpc' = "walk" /\ wpc' = "enter"
      BY <2>1, <3>1 DEF ListCards, Iterate, allVars, walk
    <3>4. CASE gpc' = "walk" /\ wpc' = "enter"
      BY <3>1, <3>2, <3>4 DEF OneByOne
    <3>5. QED
      BY <1>2, <3>1, <3>3, <3>4
  <2>2. CASE Listed
    BY <1>2, <2>2 DEF Listed
  <2>3. CASE GetAllStep /\ ~ListCards /\ ~Listed
    <3>1. /\ UNCHANGED <<list, frames, wpc>> /\ gpc # "walk"
          /\ gpc' \in {"discover", "check", "compare", "checked", "deck"} =>
                gpc \in {"rooted", "discover", "check", "compare", "checked", "deck"}
          /\ gpc' # "rooted"
      BY <2>3 DEF GetAllStep, Rooted, Discover, Check, Compare_Root, EnterDeck, Leave, LeaveStep,
         GetAllReturn, Listing, allVars, walk
    <3>2. QED
      BY <1>2, <1>3, <3>1 DEF OneByOne
  <2>4. QED
    BY <1>7, <2>1, <2>2, <2>3
<1>8. QED
  BY <1>4, <1>5, <1>6, <1>7, OneByOneCard, OneByOneWalker DEF CardsNext, Library

-----------------------------------------------------------------------------
(* Where each step of a call finds the process, as long as each push has   *)
(* found its directory and no chdir has failed.                            *)

CallPlace ==
    /\ gpc = "rooted" => BoundFor(Root, Root)
    /\ gpc = "discover" => BoundFor(Root, Root) /\ LeftFrom(Root)
    /\ gpc \in {"check", "checked"} => BackTo(Root)
    /\ gpc \in {"compare", "deck"} => BoundFor(DeckName, DeckDir) /\ LeftFrom(Root)
    /\ gpc = "content" => card.path \in Dir /\ BoundFor(card.path, card.path)

WalkPlace ==
    /\ wpc \in {"enter", "push"} => pc = "idle" /\ WorksIn(DeckDir) /\ entry = CardsName
    /\ wpc = "pushed" => BoundFor(CardsName, CardsDir) /\ LeftFrom(DeckDir)
    /\ wpc = "loop" => pc = "idle" /\ WorksIn(CardsDir)
    /\ wpc = "visit" =>
          /\ cpc = "enter" => pc = "idle" /\ WorksIn(CardsDir)
          /\ cpc = "load" => BoundFor(entry, CardAt(entry)) /\ LeftFrom(CardsDir)
          /\ cpc = "add" => pc = "idle" /\ OnTop(CardsDir) /\ ret \in {CardAt(entry), NULL}
          /\ cpc = "leave" => pc = "idle" /\ OnTop(CardsDir)
          /\ cpc = "done" => BackTo(CardsDir)

\* Every card is listed with its own directory.
ListedWhere ==
    /\ \A i \in 1..Len(list) : list[i].path = CardAt(list[i].id)
    /\ gpc = "content" => card.path = CardAt(card.id)

Located == Smooth => CallPlace /\ WalkPlace /\ ListedWhere

LEMMA NamesLead ==
    /\ LeadsTo(Root, Root) = Root
    /\ LeadsTo(Root, DeckName) = DeckDir
    /\ LeadsTo(DeckDir, CardsName) = CardsDir
    /\ \A e \in Name \cup FileName : LeadsTo(CardsDir, e) = CardAt(e)
<1>1. Root \in Dir /\ DeckName \in Name \ Dir /\ CardsName \in Name \ Dir
      /\ (Name \cup FileName) \cap Dir = {}
  BY CardsAssumption, NullAssumption, FileNameAssumption
<1>2. QED
  BY <1>1 DEF LeadsTo, DeckDir, CardsDir, CardAt

LEMMA CallPlaceGoesOn ==
    ASSUME DeckNamed, CardsTypes, IInv, Clear => Chained, CallPlace,
           GetAllStep, ~ListCards, ~Listed
    PROVE  CallPlace'
<1>1. TypeOK /\ Root \in Dir /\ pc = "idle" /\ UNCHANGED steady /\ steady' \subseteq steady
  BY CardsAssumption DEF IInv, GetAllStep, Rooted, Discover, Check, Compare_Root, EnterDeck, Leave,
     LeaveStep, GetAllReturn, Listing, At
<1>2. ASSUME WorksIn(Root), Push(Root) PROVE BoundFor(Root, Root)' /\ LeftFrom(Root)'
  BY <1>1, <1>2, PushFrom, NamesLead
<1>3. ASSUME WorksIn(Root), Push(DeckName) PROVE BoundFor(DeckName, DeckDir)' /\ LeftFrom(Root)'
  BY <1>1, <1>3, PushFrom, NamesLead
<1>4. ASSUME WorksIn(Root), UNCHANGED vars PROVE BackTo(Root)'
  BY <1>1, <1>4, PlaceStays DEF BackTo
<1>5. CASE Rooted
  <2>1. BoundFor(Root, Root)
    BY <1>5 DEF Rooted, Listing, CallPlace
  <2>2. \/ gpc' = "leave"
        \/ ret # NULL /\ gpc' = "discover" /\ Push(Root)
    BY <1>5 DEF Rooted
  <2>3. ret # NULL => WorksIn(Root)
    BY <1>1, <2>1 DEF BoundFor
  <2>4. QED
    BY <1>2, <2>2, <2>3 DEF CallPlace
<1>6. CASE Discover \/ Compare_Root
  <2>1. LeftFrom(Root)
    BY <1>6 DEF Discover, Compare_Root, Listing, CallPlace
  <2>2. /\ gpc' \in {"check", "checked"}
        /\ ret = NULL => UNCHANGED vars
        /\ ret # NULL => PopCWD
    BY <1>6 DEF Discover, Compare_Root
  <2>3. CASE ret = NULL
    BY <1>1, <1>4, <2>1, <2>2, <2>3 DEF LeftFrom, CallPlace
  <2>4. CASE ret # NULL
    <3>1. OnTop(Root)
      BY <1>1, <2>1, <2>4 DEF LeftFrom
    <3>2. BackTo(Root)'
      BY <2>2, <2>4, <3>1, PopFrom
    <3>3. QED
      BY <2>2, <3>2 DEF CallPlace
  <2>5. QED
    BY <2>3, <2>4
<1>7. CASE Check \/ EnterDeck
  <2>1. BackTo(Root)
    BY <1>7 DEF Check, EnterDeck, Listing, CallPlace
  <2>2. WorksIn(Root)
    BY <1>1, <2>1 DEF BackTo
  <2>3. \/ gpc' \in {"compare", "deck"} /\ Push(DeckName)
        \/ gpc' \in {"checked", "leave"} /\ UNCHANGED vars
    BY <1>7 DEF Check, EnterDeck
  <2>4. QED
    BY <1>3, <1>4, <2>2, <2>3 DEF CallPlace
<1>8. CASE Leave \/ GetAllReturn
  <2>1. gpc' \in {"leave", "returned"}
    BY <1>8 DEF Leave, LeaveStep, GetAllReturn, Listing
  <2>2. QED
    BY <2>1 DEF CallPlace
<1>9. QED
  BY <1>5, <1>6, <1>7, <1>8 DEF GetAllStep

\* The walk begins in the deck.
LEMMA WalkPlaceBegins ==
    ASSUME CardsTypes, CallPlace, ListCards
    PROVE  CallPlace' /\ WalkPlace'
<1>1. pc = "idle" /\ BoundFor(DeckName, DeckDir) /\ UNCHANGED steady /\ wpc = "idle"
  BY DEF ListCards, Listing, At, CallPlace, CardsTypes
<1>2. \/ gpc' = "leave" /\ UNCHANGED wpc
      \/ gpc' = "walk" /\ ret # NULL /\ UNCHANGED vars /\ wpc' = "enter" /\ entry' = CardsName
  BY DEF ListCards, Iterate, allVars, walk
<1>3. CASE gpc' = "leave" /\ UNCHANGED wpc
  BY <1>1, <1>3 DEF CallPlace, WalkPlace
<1>4. CASE gpc' = "walk" /\ ret # NULL /\ UNCHANGED vars /\ wpc' = "enter" /\ entry' = CardsName
  <2>1. WorksIn(DeckDir)
    BY <1>1, <1>4 DEF BoundFor
  <2>2. WorksIn(DeckDir)' /\ pc' = "idle"
    BY <1>1, <1>4, <2>1, PlaceStays DEF vars
  <2>3. QED
    BY <1>4, <2>2 DEF CallPlace, WalkPlace
<1>5. QED
  BY <1>2, <1>3, <1>4

LEMMA CallPlaceBegins ==
    ASSUME CardsTypes, Clear => Chained
    PROVE  /\ GetAll => CallPlace' /\ WalkPlace'
           /\ \A i \in DOMAIN list : GetContent(i) => CallPlace' /\ WalkPlace'
<1>1. ASSUME wpc' = "idle" PROVE WalkPlace'
  BY <1>1 DEF WalkPlace
<1>2. CASE GetAll
  <2>1. /\ Push(Root) /\ gpc' = "rooted" /\ steady' = present /\ Root \in Dir
        /\ wpc' = "idle"
    BY <1>2, CardsAssumption DEF GetAll, Listing, CardsTypes, walk
  <2>2. BoundFor(Root, Root)'
    BY <2>1, PushAbsolute
  <2>3. QED
    BY <1>1, <2>1, <2>2 DEF CallPlace
<1>3. ASSUME NEW i \in DOMAIN list, GetContent(i) PROVE CallPlace' /\ WalkPlace'
  <2>1. /\ Push(list[i].path) /\ gpc' = "content" /\ UNCHANGED steady /\ card' = list[i]
        /\ wpc' = "idle" /\ list[i].path \in Dir
    BY <1>3 DEF GetContent, Listing, CardsTypes, CardsTypeOK, walk
  <2>2. PICK p \in Dir : p = list[i].path
    BY <2>1
  <2>3. present' = present
    BY <2>1, CallsKeepPresent
  <2>4. BoundFor(p, p)'
    BY <2>1, <2>2, PushAbsolute DEF Chained
  <2>5. card'.path = p
    BY <2>1, <2>2
  <2>6. BoundFor(card.path, card.path)'
    BY <2>4, <2>5 DEF BoundFor, WorksIn
  <2>7. QED
    BY <1>1, <2>1, <2>5, <2>6 DEF CallPlace
<1>4. QED
  BY <1>2, <1>3

\* One card is entered, listed and left.
LEMMA CardPlace ==
    ASSUME DeckNamed, CardsTypes, IInv, Clear => Chained, WalkPlace, CardStep, ~FileStep,
           ~refused', status' = "running"
    PROVE  CallPlace' /\ WalkPlace'
<1>1. /\ wpc = "visit" /\ pc = "idle" /\ gpc' = "walk" /\ entry \in Name \cup FileName
      /\ UNCHANGED <<gpc, steady, entry>> /\ TypeOK /\ CardsDir \in Dir
  <2>1. wpc = "visit" /\ pc = "idle" /\ UNCHANGED <<gpc, steady, entry>>
    BY DEF CardStep, CardEnter, CardPath, CardAdd, CardLeave, CardDone, Filing, Visited, Walking,
       At, walk
  <2>2. QED
    BY <2>1 DEF CardsTypes, WalkTypes, IInv, DeckNamed
<1>2. CallPlace'
  BY <1>1 DEF CallPlace
<1>e. PICK e \in Name \cup FileName : e = entry
  BY <1>1
<1>3. CASE CardEnter
  <2>1. cpc' = "load" /\ wpc' = "visit" /\ Push(e) /\ WorksIn(CardsDir)
    BY <1>1, <1>e, <1>3 DEF CardEnter, WalkPlace, walk
  <2>2. BoundFor(e, CardAt(e))' /\ LeftFrom(CardsDir)'
    BY <1>1, <2>1, PushFrom, NamesLead
  <2>3. BoundFor(entry, CardAt(entry))'
    BY <1>1, <1>e, <2>2 DEF BoundFor, WorksIn, CardAt
  <2>4. QED
    BY <1>2, <2>1, <2>2, <2>3 DEF WalkPlace
<1>4. CASE CardPath
  <2>1. /\ cpc' = "add" /\ wpc' = "visit" /\ ret # NULL
        /\ BoundFor(e, CardAt(e)) /\ LeftFrom(CardsDir)
    BY <1>1, <1>e, <1>4 DEF CardPath, Filing, WalkPlace, walk
  <2>2. UNCHANGED <<pc, dirstack>> /\ ret' \in CachedOrSystem
    BY <1>4 DEF CardPath, Filing, GetCWD
  <2>3. WorksIn(CardAt(e)) /\ OnTop(CardsDir)
    BY <1>1, <2>1 DEF BoundFor, LeftFrom
  <2>4. ret' \in {CardAt(e), NULL}
    BY <2>2, <2>3 DEF CachedOrSystem, WorksIn
  <2>5. ret' \in {CardAt(entry'), NULL}
    BY <1>1, <1>e, <2>4
  <2>6. OnTop(CardsDir)'
    BY <2>2, <2>3 DEF OnTop
  <2>7. QED
    BY <1>1, <1>2, <2>1, <2>2, <2>5, <2>6 DEF WalkPlace, CardAt
<1>5. CASE CardAdd
  <2>1. /\ cpc = "add" /\ cpc' = "leave" /\ wpc' = "visit" /\ UNCHANGED <<pc, dirstack>>
    BY <1>1, <1>5 DEF CardAdd, walk
  <2>2. OnTop(CardsDir)'
    BY <1>1, <2>1 DEF WalkPlace, OnTop
  <2>3. QED
    BY <1>1, <1>2, <2>1, <2>2 DEF WalkPlace
<1>6. CASE CardLeave
  <2>1. cpc = "leave" /\ cpc' = "done" /\ wpc' = "visit" /\ PopCWD
    BY <1>1, <1>6 DEF CardLeave, walk
  <2>2. BackTo(CardsDir)'
    BY <1>1, <2>1, PopFrom DEF WalkPlace
  <2>3. QED
    BY <1>2, <2>1, <2>2 DEF WalkPlace
<1>7. CASE CardDone
  <2>1. cpc = "done" /\ UNCHANGED vars /\ wpc' \in {"loop", "done"}
    BY <1>7 DEF CardDone, Visited, Descends, Advance
  <2>2. WorksIn(CardsDir)
    BY <1>1, <2>1 DEF WalkPlace, BackTo
  <2>3. WorksIn(CardsDir)' /\ pc' = "idle"
    BY <1>1, <2>1, <2>2, PlaceStays DEF vars
  <2>4. QED
    BY <1>2, <2>1, <2>3 DEF WalkPlace
<1>8. QED
  BY <1>3, <1>4, <1>5, <1>6, <1>7 DEF CardStep

LEMMA WalkerPlace ==
    ASSUME DeckNamed, CardsTypes, IInv, Clear => Chained, OneByOne, WalkPlace, WalkerStep
    PROVE  CallPlace' /\ WalkPlace'
<1>1. /\ UNCHANGED cardVars /\ WalkStep /\ wpc \notin {"idle", "visit"} /\ pc = "idle"
  BY DEF WalkerStep, WalkStep, Enter, EnterPush, Opened, LoopEnd, LoopSkip, LoopRead, Done,
     Popped, Unwind, IterateReturn, Walking, At
<1>2. /\ gpc = "walk" /\ cpc = "enter" /\ UNCHANGED <<gpc, cpc, steady>> /\ TypeOK
      /\ DeckDir \in Dir /\ CardsDir \in Dir
  BY <1>1 DEF CardsTypes, cardVars, IInv, DeckNamed
<1>3. CallPlace'
  BY <1>2 DEF CallPlace
<1>4. ASSUME wpc' \in {"done", "popped", "unwind", "returned"} PROVE WalkPlace'
  BY <1>4 DEF WalkPlace
<1>5. CASE Enter
  <2>1. UNCHANGED <<vars, entry>> /\ wpc = "enter" /\ wpc' \in {"push", "done"}
    BY <1>5 DEF Enter, Walking
  <2>2. WorksIn(DeckDir)' /\ pc' = "idle" /\ entry' = CardsName
    BY <1>1, <1>2, <2>1, PlaceStays DEF WalkPlace, vars
  <2>3. QED
    BY <1>3, <2>1, <2>2 DEF WalkPlace
<1>6. CASE EnterPush
  <2>1. Push(CardsName) /\ WorksIn(DeckDir) /\ wpc' = "pushed"
    BY <1>6 DEF EnterPush, Walking, Push, WalkPlace
  <2>2. BoundFor(CardsName, CardsDir)' /\ LeftFrom(DeckDir)'
    BY <1>2, <2>1, PushFrom, NamesLead
  <2>3. QED
    BY <1>3, <2>1, <2>2 DEF WalkPlace
<1>7. CASE Opened
  <2>1. /\ UNCHANGED vars /\ wpc = "pushed"
        /\ \/ wpc' = "done"
           \/ wpc' = "loop" /\ ret # NULL
    BY <1>7 DEF Opened, Walking
  <2>2. CASE wpc' = "loop" /\ ret # NULL
    <3>1. WorksIn(CardsDir)
      BY <1>1, <2>1, <2>2 DEF WalkPlace, BoundFor
    <3>2. WorksIn(CardsDir)' /\ pc' = "idle"
      BY <1>1, <1>2, <2>1, <3>1, PlaceStays DEF vars
    <3>3. QED
      BY <1>3, <2>2, <3>2 DEF WalkPlace
  <2>3. QED
    BY <1>3, <1>4, <2>1, <2>2
<1>8. ASSUME NEW e \in Name \cup FileName, LoopSkip(e) \/ LoopRead(e)
      PROVE  CallPlace' /\ WalkPlace'
  <2>1. UNCHANGED vars /\ wpc = "loop" /\ wpc' \in {"loop", "visit"}
    BY <1>8 DEF LoopSkip, LoopRead, Walking
  <2>2. WorksIn(CardsDir)' /\ pc' = "idle"
    BY <1>1, <1>2, <2>1, PlaceStays DEF WalkPlace, vars
  <2>3. QED
    BY <1>2, <1>3, <2>1, <2>2 DEF WalkPlace
<1>9. CASE LoopEnd \/ Done \/ Unwind \/ IterateReturn
  <2>1. wpc' \in {"done", "popped", "unwind", "returned"}
    BY <1>9 DEF LoopEnd, Done, Unwind, IterateReturn, Walking
  <2>2. QED
    BY <1>3, <1>4, <2>1
<1>10. CASE Popped
  <2>1. frames \in Seq(FrameType) /\ frames # <<>> /\ Len(frames) <= 1
    BY <1>10 DEF Popped, Walking, CardsTypes, WalkTypes, WalkTypeOK, FrameType, OneByOne
  <2>2. Len(frames) = 1
    BY <2>1, TopType
  <2>3. wpc' = "unwind"
    BY <1>10, <2>2 DEF Popped
  <2>4. QED
    BY <1>3, <1>4, <2>3
<1>11. QED
  BY <1>1, <1>5, <1>6, <1>7, <1>8, <1>9, <1>10 DEF WalkStep

\* The pushes and pops themselves, and other processes.
LEMMA PlaceMoves ==
    ASSUME DeckNamed, CardsTypes, IInv, CallPlace, WalkPlace,
           \/ Steps /\ UNCHANGED steady
           \/ Environment /\ steady' = steady \cap present',
           UNCHANGED <<walk, gpc, cpc, card>>, ~disturbed', status' = "running"
    PROVE  CallPlace' /\ WalkPlace'
<1>1. /\ TypeOK /\ Root \in Dir /\ DeckDir \in Dir /\ CardsDir \in Dir
      /\ UNCHANGED <<wpc, entry, gpc, cpc, card>>
  BY CardsAssumption DEF IInv, DeckNamed, walk
<1>2. ASSUME NEW d \in Dir
      PROVE  /\ LeftFrom(d) => LeftFrom(d)'
             /\ BackTo(d) => BackTo(d)'
             /\ BoundFor(d, d) => BoundFor(d, d)'
  BY <1>1, <1>2, LeftMoves, BackMoves, PushMoves, PlaceDisturbed
<1>3. ASSUME NEW d \in Dir, NEW path, NEW t, t = LeadsTo(d, path),
             BoundFor(path, t), LeftFrom(d)
      PROVE  BoundFor(path, t)'
  BY <1>1, <1>3, PushMoves, PlaceDisturbed
<1>4. ASSUME pc = "idle", NEW d \in Dir
      PROVE  /\ pc' = "idle" /\ UNCHANGED ret
             /\ WorksIn(d) => WorksIn(d)'
             /\ OnTop(d) => OnTop(d)'
  <2>1. ~Steps
    BY <1>4 DEF Steps, SetCWD_Refresh, PushCWD_Save, PushCWD_Chdir, PushCWD_Refresh,
       PopCWD_Empty, PopCWD_Enter, PopCWD_Skip, At
  <2>2. Environment /\ UNCHANGED <<pc, ret>>
    BY <2>1 DEF Environment, DirRemoved, DirCreated
  <2>3. QED
    BY <1>4, <2>1, <2>2, PlaceDisturbed
<1>5. CallPlace'
  <2>1. gpc = "content" => card.path \in Dir /\ BoundFor(card.path, card.path)'
    <3>1. SUFFICES ASSUME gpc = "content"
                   PROVE  card.path \in Dir /\ BoundFor(card.path, card.path)'
      OBVIOUS
    <3>2. card.path \in Dir /\ BoundFor(card.path, card.path)
      BY <3>1 DEF CallPlace
    <3>3. PICK p \in Dir : p = card.path
      BY <3>2
    <3>4. BoundFor(p, p)'
      BY <1>2, <3>2, <3>3 DEF BoundFor, WorksIn
    <3>5. QED
      BY <1>1, <3>2, <3>3, <3>4 DEF BoundFor, WorksIn
  <2>2. gpc \in {"compare", "deck"} => BoundFor(DeckName, DeckDir)' /\ LeftFrom(Root)'
    BY <1>1, <1>2, <1>3, NamesLead DEF CallPlace
  <2>3. QED
    BY <1>1, <1>2, <2>1, <2>2 DEF CallPlace
<1>6. WalkPlace'
  <2>1. wpc \in {"enter", "push"} => pc' = "idle" /\ WorksIn(DeckDir)' /\ entry' = CardsName
    BY <1>1, <1>4 DEF WalkPlace
  <2>2. wpc = "pushed" => BoundFor(CardsName, CardsDir)' /\ LeftFrom(DeckDir)'
    BY <1>1, <1>2, <1>3, NamesLead DEF WalkPlace
  <2>3. wpc = "loop" => pc' = "idle" /\ WorksIn(CardsDir)'
    BY <1>1, <1>4 DEF WalkPlace
  <2>4. ASSUME wpc = "visit"
        PROVE  /\ cpc = "enter" => pc' = "idle" /\ WorksIn(CardsDir)'
               /\ cpc = "add" => pc' = "idle" /\ OnTop(CardsDir)' /\ ret' \in {CardAt(entry'), NULL}
               /\ cpc = "leave" => pc' = "idle" /\ OnTop(CardsDir)'
               /\ cpc = "done" => BackTo(CardsDir)'
    BY <1>1, <1>2, <1>4, <2>4 DEF WalkPlace
  <2>5. ASSUME wpc = "visit", cpc = "load"
        PROVE  BoundFor(entry, CardAt(entry))' /\ LeftFrom(CardsDir)'
    <3>1. entry \in Name \cup FileName /\ BoundFor(entry, CardAt(entry)) /\ LeftFrom(CardsDir)
      BY <2>5 DEF CardsTypes, WalkTypes, WalkPlace
    <3>2. PICK e \in Name \cup FileName : e = entry
      BY <3>1
    <3>3. BoundFor(e, CardAt(e))
      BY <3>1, <3>2
    <3>4. BoundFor(e, CardAt(e))'
      BY <1>1, <1>3, <3>1, <3>3, NamesLead
    <3>5. QED
      BY <1>1, <1>2, <3>1, <3>2, <3>4 DEF BoundFor, WorksIn, CardAt
  <2>6. QED
    BY <1>1, <2>1, <2>2, <2>3, <2>4, <2>5 DEF WalkPlace, CardAt
<1>7. QED
  BY <1>5, <1>6

LEMMA ListedWhereStep ==
    ASSUME CardsTypes, OneByOne, WalkPlace, ListedWhere, [CardsNext]_everything,
           status' = "running"
    PROVE  ListedWhere'
<1>1. ASSUME NEW i \in 1..Len(list') PROVE list'[i].path = CardAt(list'[i].id)
  <2>1. CASE UNCHANGED list
    BY <1>1, <2>1 DEF ListedWhere
  <2>2. CASE list' = <<>>
    BY <1>1, <2>2, EmptySeq
  <2>3. CASE CardAdd /\ ret # NULL /\ list' = Append(list, [card EXCEPT !.path = ret])
    <3>1. /\ Len(list') = Len(list) + 1 /\ Len(list) \in Nat
          /\ \A j \in 1..Len(list) : list'[j] = list[j]
          /\ list'[Len(list) + 1].id = card.id /\ list'[Len(list) + 1].path = ret
      BY <2>3, OneCardMore
    <3>2. card.id = entry /\ ret = CardAt(entry)
      BY <2>3 DEF CardAdd, Walking, OneByOne, Making, WalkPlace
    <3>3. i \in 1..Len(list) \/ i = Len(list) + 1
      BY <1>1, <3>1
    <3>4. QED
      BY <3>1, <3>2, <3>3 DEF ListedWhere
  <2>4. QED
    BY <2>1, <2>2, <2>3, ListStep
<1>2. gpc' = "content" => card'.path = CardAt(card'.id)
  <2>1. ASSUME NEW i \in DOMAIN list, GetContent(i) PROVE card'.path = CardAt(card'.id)
    <3>1. i \in 1..Len(list) /\ card' = list[i]
      BY <2>1, LenProperties DEF GetContent, CardsTypes
    <3>2. QED
      BY <3>1 DEF ListedWhere
  <2>2. CASE UNCHANGED <<gpc, card>>
    BY <2>2 DEF ListedWhere
  <2>3. CASE FileStep
    BY <2>3, FilesAside, FileStepEffect DEF Aside, CardsTypes
  <2>4. \/ UNCHANGED <<gpc, card>>
        \/ FileStep
        \/ gpc' # "content"
        \/ \E i \in DOMAIN list : GetContent(i)
    BY DEF CardsNext, CallerGoes, GetAll, Again, Library, GetAllStep, Rooted,
       Discover, Check, Compare_Root, EnterDeck, ListCards, Listed, Leave, LeaveStep, GetAllReturn,
       CardStep, CardEnter, CardPath, CardAdd, CardLeave, CardDone, StackStep, WalkerStep,
       ContentRead, ContentReturn, Disturb, Edit, Listing, cardVars, everything
  <2>5. QED
    BY <2>1, <2>2, <2>3, <2>4
<1>3. QED
  BY <1>1, <1>2 DEF ListedWhere, CardAt

LEMMA LocatedStep ==
    ASSUME DeckNamed, CardsTypes, IInv, Clear => Chained, OneByOne, Located,
           [CardsNext]_everything
    PROVE  Located'
<1>1. SUFFICES ASSUME Smooth' PROVE CallPlace' /\ WalkPlace' /\ ListedWhere'
  BY DEF Located
<1>2. /\ CallPlace /\ WalkPlace /\ ListedWhere
      /\ ~refused' /\ ~disturbed' /\ status' = "running"
  BY <1>1, SmoothBefore DEF Located, Smooth
<1>3. ListedWhere'
  BY <1>2, ListedWhereStep
<1>4. gpc # "walk" => wpc = "idle"
  BY DEF CardsTypes
<1>5. wpc' = "idle" => WalkPlace'
  BY DEF WalkPlace
<1>6. CASE CallerGoes
  <2>1. gpc' = "idle" /\ wpc' = "idle"
    BY <1>4, <1>6 DEF CallerGoes, CallerPush, cardVars, walk
  <2>2. QED
    BY <1>3, <1>5, <2>1 DEF CallPlace
<1>7. CASE GetAll \/ \E i \in DOMAIN list : GetContent(i)
  BY <1>3, <1>7, CallPlaceBegins
<1>8. CASE GetAllStep /\ ~ListCards /\ ~Listed
  <2>1. wpc' = "idle"
    BY <1>4, <1>8 DEF GetAllStep, Rooted, Discover, Check, Compare_Root, EnterDeck, Leave,
       LeaveStep, GetAllReturn, Listing, allVars, walk
  <2>2. QED
    BY <1>2, <1>3, <1>5, <1>8, <2>1, CallPlaceGoesOn
<1>9. CASE ListCards
  BY <1>2, <1>3, <1>9, WalkPlaceBegins
<1>10. CASE Listed
  <2>1. gpc' = "leave" /\ wpc' = "idle"
    BY <1>10 DEF Listed
  <2>2. QED
    BY <1>3, <1>5, <2>1 DEF CallPlace
<1>11. CASE CardStep /\ ~FileStep
  BY <1>2, <1>3, <1>11, CardPlace
<1>12. CASE StackStep
  BY <1>2, <1>3, <1>12, PlaceMoves DEF StackStep, cardVars
<1>13. CASE WalkerStep
  BY <1>2, <1>3, <1>13, WalkerPlace
<1>14. CASE Again \/ ContentRead \/ ContentReturn
  <2>1. gpc' \in {"idle", "content_read", "returned"} /\ wpc' = "idle"
    BY <1>4, <1>14 DEF Again, ContentRead, ContentReturn, Listing, allVars, walk
  <2>2. QED
    BY <1>3, <1>5, <2>1 DEF CallPlace
<1>15. CASE Disturb
  BY <1>2, <1>3, <1>15, PlaceMoves DEF Disturb
<1>16. CASE FileStep \/ Edit \/ UNCHANGED everything
  <2>1. UNCHANGED <<vars, wpc, entry, gpc, cpc, steady>> /\ UNCHANGED <<pc, ret, call>>
    BY <1>16, FilesAside DEF Aside, allVars, walk, vars
  <2>2. UNCHANGED <<sysCwd, directory_current, dirstack>>
    BY <2>1 DEF vars
  <2>3. UNCHANGED card \/ gpc # "content"
    BY <1>4, <1>16, FileStepEffect DEF Edit, everything, cardVars
  <2>4. WalkPlace'
    BY <1>2, <2>1, <2>2 DEF WalkPlace, BoundFor, LeftFrom, BackTo, WorksIn, OnTop, CardAt
  <2>5. CallPlace'
    BY <1>2, <2>1, <2>2, <2>3 DEF CallPlace, BoundFor, LeftFrom, BackTo, WorksIn, OnTop
  <2>6. QED
    BY <1>3, <2>4, <2>5
<1>17. QED
  BY <1>6, <1>7, <1>8, <1>9, <1>10, <1>11, <1>12, <1>13, <1>14, <1>15, <1>16
     DEF CardsNext, Library

LEMMA CardsListing ==
    ASSUME DeckNamed
    PROVE  CardsSpec => [](CardsTypes /\ IInv /\ (Clear => Chained) /\ OneByOne /\ Located)
<1>1. ASSUME CardsInit PROVE Chained /\ OneByOne /\ Located
  <2>1. present = Dir /\ steady = {} /\ list = <<>> /\ frames = <<>> /\ gpc = "idle" /\ wpc = "idle"
    BY <1>1 DEF CardsInit, WalkInit, Init
  <2>2. Chained
    BY <2>1 DEF Chained
  <2>3. OneByOne
    BY <2>1, EmptySeq DEF OneByOne
  <2>4. Located
    BY <2>1, EmptySeq DEF Located, CallPlace, WalkPlace, ListedWhere
  <2>5. QED
    BY <2>2, <2>3, <2>4
<1>2. ASSUME CardsTypes, IInv, Clear => Chained, OneByOne, Located, [CardsNext]_everything
      PROVE  (Clear => Chained)' /\ OneByOne' /\ Located'
  <2>1. Clear => Chained'
    <3>1. CardsTypes' /\ IInv' /\ TypeOK'
      BY <1>2, CardsTypesStep DEF IInv
    <3>2. QED
      BY <1>2, <3>1, ChainedStep DEF Clear
  <2>2. QED
    BY <1>2, <2>1, OneByOneStep, LocatedStep DEF Clear
<1>3. QED
  BY <1>1, <1>2, CardsTypesAlways, PTL DEF CardsSpec

\* GetContent of a card reads in the directory that bears its name in the deck
\* it was listed from, wherever the caller is by then and whatever has vanished
\* since, as long as each push found its directory and no chdir has failed: for
\* every tree in which the deck's cards have a directory.
THEOREM ContentIsAlwaysTheCards ==
    ASSUME DeckNamed
    PROVE  CardsSpec => ContentFromCard
<1>1. ASSUME CardsTypes, Located, [CardsNext]_everything,
             gpc = "content", gpc' = "content_read", ret # NULL, Smooth
      PROVE  sysCwd \in {Child[CardsDir][card.id], NULL}
  <2>1. CallPlace /\ ListedWhere
    BY <1>1 DEF Located
  <2>2. pc = "idle"
    BY <1>1 DEF CardsNext, CallerGoes, GetAll, Again, GetContent, Library, GetAllStep, Rooted,
       Discover, Check, Compare_Root, EnterDeck, ListCards, Listed, Leave, LeaveStep, GetAllReturn,
       CardStep, CardEnter, FileStep, CardPath, CardAdd, CardLeave, CardDone, StackStep, WalkerStep,
       ContentRead, ContentReturn, Disturb, Edit, Listing, At, cardVars, everything
  <2>3. card.path \in Dir /\ WorksIn(card.path) /\ card.path = CardAt(card.id)
    BY <1>1, <2>1, <2>2 DEF CallPlace, ListedWhere, BoundFor
  <2>4. card.path = Child[CardsDir][card.id]
    BY <2>3, NullAssumption DEF CardAt
  <2>5. QED
    BY <2>3, <2>4 DEF WorksIn
<1>2. CardsTypes /\ Located /\ [CardsNext]_everything
      => [gpc = "content" /\ gpc' = "content_read" /\ ret # NULL /\ Smooth =>
            sysCwd \in {Child[CardsDir][card.id], NULL}]_everything
  BY <1>1
<1>3. QED
  BY <1>2, CardsListing, PTL DEF CardsSpec, ContentFromCard

-----------------------------------------------------------------------------
(* What was there all the time is listed.                                  *)

\* Cards that were there all the time are listed, but for some of others.
AllBut(others) == \A e \in Name : Child[CardsDir][e] \in steady => e \in Ids \cup others

NoneLost ==
    /\ gpc \in {"check", "checked"} /\ ~found => DeckDir \notin steady
    /\ gpc \in {"leave", "returned", "content", "content_read"} => AllBut({})
    /\ wpc = "loop" => AllBut(Top.todo)
    /\ wpc = "visit" => AllBut(Top.todo \cup (IF Visiting THEN {entry} ELSE {}))
    /\ wpc \in {"done", "popped", "unwind", "returned"} => AllBut({})

\* The path from the root to the cards.
LEMMA CardsBelowRoot ==
    ASSUME DeckNamed, Clear
    PROVE  /\ Root \in Dir /\ DeckDir \in Dir /\ CardsDir \in Dir
           /\ DeckName \in Name /\ CardsName \in Name
           /\ DeckDir = Child[Root][DeckName] /\ CardsDir = Child[DeckDir][CardsName]
           /\ DeckDir # Root
<1>1. /\ Root \in Dir /\ DeckDir \in Dir /\ CardsDir \in Dir
      /\ DeckName \in Name /\ CardsName \in Name
      /\ DeckDir = Child[Root][DeckName] /\ CardsDir = Child[DeckDir][CardsName]
  BY CardsAssumption DEF DeckNamed, DeckDir, CardsDir
<1>2. PICK rank \in [Dir -> Nat] :
        \A d \in Dir, n \in Name : Child[d][n] # NULL => rank[d] < rank[Child[d][n]]
  BY DEF Clear, Tree, Ranks
<1>3. rank[Root] < rank[DeckDir] /\ rank[Root] \in Nat
  BY <1>1, <1>2, NullAssumption
<1>4. QED
  BY <1>1, <1>3

LEMMA NoneThere ==
    ASSUME DeckNamed, Clear, Chained,
           Root \notin steady \/ DeckDir \notin steady \/ CardsDir \notin steady
    PROVE  (Root \notin steady => DeckDir \notin steady) /\ \A e \in Name : Child[CardsDir][e] \notin steady
<1>1. \A d \in Dir, n \in Name : Child[d][n] \in steady => d \in steady
  BY DEF Chained
<1>2. Root \notin steady => DeckDir \notin steady
  BY <1>1, CardsBelowRoot
<1>3. DeckDir \notin steady => CardsDir \notin steady
  BY <1>1, CardsBelowRoot
<1>4. CardsDir \notin steady
  BY <1>2, <1>3
<1>5. QED
  BY <1>1, <1>2, <1>4, CardsBelowRoot

\* What the process does not find where it is has not been there all the time.
LEMMA NotFound ==
    ASSUME Chained, TypeOK, NEW d \in Dir, NEW n \in Name, WorksIn(d), Resolve(n) \notin present
    PROVE  Child[d][n] \notin steady
<1>1. n \notin Dir
  BY NullAssumption
<1>2. CASE sysCwd = d
  BY <1>1, <1>2, NullAssumption DEF Resolve, Chained
<1>3. CASE sysCwd # d
  BY <1>3 DEF WorksIn, Chained
<1>4. QED
  BY <1>2, <1>3

LEMMA NoneLostBefore ==
    ASSUME DeckNamed, Clear, CardsTypes, IInv, Chained, CallPlace, NoneLost,
           GetAllStep, wpc' = "idle"
    PROVE  NoneLost'
<1>1. /\ pc = "idle" /\ UNCHANGED <<steady, list>> /\ TypeOK
      /\ Root \in Dir /\ DeckDir \in Dir /\ DeckName \in Name /\ CardsName \in Name
  BY CardsBelowRoot DEF IInv, GetAllStep, Rooted, Discover, Check, Compare_Root, EnterDeck,
     ListCards, Listed, Leave, LeaveStep, GetAllReturn, Listing, At
<1>2. Ids' = Ids
  BY <1>1 DEF Ids
<1>3. ASSUME gpc' = "leave", Root \notin steady \/ DeckDir \notin steady \/ CardsDir \notin steady
      PROVE  NoneLost'
  BY <1>1, <1>3, NoneThere DEF NoneLost, AllBut
<1>4. ASSUME gpc' \in {"discover", "compare", "deck"} PROVE NoneLost'
  BY <1>4 DEF NoneLost
<1>5. ASSUME gpc' \in {"check", "checked"}, found' \/ DeckDir \notin steady PROVE NoneLost'
  BY <1>1, <1>5 DEF NoneLost
<1>6. ASSUME gpc' \in {"leave", "returned"}, AllBut({}) PROVE NoneLost'
  BY <1>1, <1>2, <1>6 DEF NoneLost, AllBut
<1>7. CASE Rooted
  <2>1. BoundFor(Root, Root)
    BY <1>7 DEF Rooted, Listing, CallPlace
  <2>2. CASE ret = NULL
    BY <1>1, <1>3, <1>7, <2>1, <2>2 DEF Rooted, BoundFor
  <2>3. CASE ret # NULL
    BY <1>4, <1>7, <2>3 DEF Rooted
  <2>4. QED
    BY <2>2, <2>3
<1>8. CASE Discover
  <2>1. BoundFor(Root, Root)
    BY <1>8 DEF Discover, Listing, CallPlace
  <2>2. CASE ret = NULL
    <3>1. Root \notin steady
      BY <1>1, <2>1, <2>2 DEF BoundFor
    <3>2. DeckDir \notin steady /\ gpc' = "checked"
      BY <1>8, <2>2, <3>1, NoneThere DEF Discover
    <3>3. QED
      BY <1>5, <3>2
  <2>3. CASE ret # NULL
    <3>1. WorksIn(Root) /\ gpc' = "check" /\ found' = (Resolve(DeckName) \in present)
      BY <1>1, <1>8, <2>1, <2>3 DEF Discover, BoundFor
    <3>2. CASE Resolve(DeckName) \in present
      BY <1>5, <3>1, <3>2
    <3>3. CASE Resolve(DeckName) \notin present
      <4>1. DeckDir \notin steady
        BY <1>1, <3>1, <3>3, NotFound, CardsBelowRoot
      <4>2. QED
        BY <1>5, <3>1, <4>1
    <3>4. QED
      BY <3>2, <3>3
  <2>4. QED
    BY <2>2, <2>3
<1>9. CASE Check
  <2>1. ~found => DeckDir \notin steady
    BY <1>9 DEF Check, Listing, NoneLost
  <2>2. found' = found /\ gpc' \in {"compare", "checked"}
    BY <1>9 DEF Check
  <2>3. found => gpc' = "compare"
    BY <1>9 DEF Check
  <2>4. QED
    BY <1>4, <1>5, <2>1, <2>2, <2>3
<1>10. CASE Compare_Root
  <2>1. BoundFor(DeckName, DeckDir) /\ gpc' = "checked"
    BY <1>10 DEF Compare_Root, Listing, CallPlace
  <2>2. CASE ret = NULL
    <3>1. DeckDir \notin steady
      BY <1>1, <2>1, <2>2 DEF BoundFor
    <3>2. QED
      BY <1>5, <2>1, <3>1
  <2>3. CASE ret # NULL
    <3>1. ret = DeckDir /\ found' = (ret # Root)
      BY <1>1, <1>10, <2>1, <2>3 DEF Compare_Root, BoundFor
    <3>2. found'
      BY <3>1, CardsBelowRoot
    <3>3. QED
      BY <1>5, <2>1, <3>2
  <2>4. QED
    BY <2>2, <2>3
<1>11. CASE EnterDeck
  <2>1. ~found => DeckDir \notin steady
    BY <1>11 DEF EnterDeck, Listing, NoneLost
  <2>2. (found => gpc' = "deck") /\ (~found => gpc' = "leave")
    BY <1>11 DEF EnterDeck
  <2>3. QED
    BY <1>3, <1>4, <2>1, <2>2
<1>12. CASE ListCards
  <2>1. BoundFor(DeckName, DeckDir)
    BY <1>12 DEF ListCards, Listing, CallPlace
  <2>2. ~(ret # NULL /\ Dir_Exists(CardsName)) /\ gpc' = "leave"
    BY <1>12 DEF ListCards, Iterate
  <2>3. CASE ret = NULL
    BY <1>1, <1>3, <2>1, <2>2, <2>3 DEF BoundFor
  <2>4. CASE ret # NULL
    <3>1. WorksIn(DeckDir) /\ Resolve(CardsName) \notin present
      BY <1>1, <2>1, <2>2, <2>4 DEF BoundFor, Dir_Exists, Clear
    <3>2. CardsDir \notin steady
      BY <1>1, <3>1, NotFound, CardsBelowRoot
    <3>3. QED
      BY <1>3, <2>2, <3>2
  <2>5. QED
    BY <2>3, <2>4
<1>13. CASE Listed \/ Leave \/ GetAllReturn
  <2>1. gpc' \in {"leave", "returned"} /\ AllBut({})
    BY <1>13 DEF Listed, Leave, LeaveStep, GetAllReturn, Listing, NoneLost
  <2>2. QED
    BY <1>6, <2>1
<1>14. QED
  BY <1>7, <1>8, <1>9, <1>10, <1>11, <1>12, <1>13 DEF GetAllStep

LEMMA NoneLostCard ==
    ASSUME Clear, CardsTypes, OneByOne, NoneLost, CardStep, ~FileStep, status' = "running"
    PROVE  NoneLost'
<1>1. /\ wpc = "visit" /\ gpc' = "walk" /\ Top' = Top
      /\ UNCHANGED <<steady, entry>>
  <2>1. wpc = "visit" /\ UNCHANGED <<gpc, frames, steady, entry>>
    BY DEF CardStep, CardEnter, CardPath, CardAdd, CardLeave, CardDone, Filing, Visited, Walking, walk
  <2>2. QED
    BY <2>1 DEF CardsTypes, Top
<1>2. UNCHANGED list => Ids' = Ids
  BY DEF Ids
<1>3. AllBut(Top.todo \cup (IF Visiting THEN {entry} ELSE {}))
  BY <1>1 DEF NoneLost
<1>4. CASE CardEnter \/ CardPath \/ CardLeave
  <2>1. UNCHANGED <<list, wpc>>
    BY <1>4 DEF CardEnter, CardPath, CardLeave, walk
  <2>2. Visiting <=> Visiting'
    BY <1>4 DEF CardEnter, CardPath, Filing, CardLeave, Visiting
  <2>3. QED
    BY <1>1, <1>2, <1>3, <2>1, <2>2 DEF NoneLost, AllBut
<1>5. CASE CardAdd
  <2>1. /\ cpc = "add" /\ cpc' = "leave" /\ wpc' = "visit" /\ ret # NULL /\ card.id = entry
        /\ list' = Append(list, [card EXCEPT !.path = ret])
    BY <1>1, <1>5 DEF CardAdd, walk, OneByOne, Making
  <2>2. Ids' = Ids \cup {entry}
    BY <1>5, <2>1, OneCardMore
  <2>3. Visiting /\ ~Visiting'
    BY <2>1 DEF Visiting
  <2>4. QED
    BY <1>1, <1>3, <2>1, <2>2, <2>3 DEF NoneLost, AllBut
<1>6. CASE CardDone
  <2>1. UNCHANGED list /\ wpc' = "loop" /\ ~Visiting
    BY <1>6, ReadAssumption DEF CardDone, Visited, Descends, Advance, Clear, Visiting
  <2>2. QED
    BY <1>1, <1>2, <1>3, <2>1 DEF NoneLost, AllBut
<1>7. QED
  BY <1>4, <1>5, <1>6 DEF CardStep

LEMMA NoneLostWalker ==
    ASSUME DeckNamed, Clear, CardsTypes, IInv, Chained, OneByOne, WalkPlace, NoneLost, WalkerStep
    PROVE  NoneLost'
<1>1. /\ UNCHANGED cardVars /\ WalkStep /\ wpc \notin {"idle", "visit"} /\ pc = "idle"
  BY DEF WalkerStep, WalkStep, Enter, EnterPush, Opened, LoopEnd, LoopSkip, LoopRead, Done,
     Popped, Unwind, IterateReturn, Walking, At
<1>2. /\ gpc' = "walk" /\ cpc' = "enter" /\ UNCHANGED <<list, steady>> /\ TypeOK /\ Ids' = Ids
      /\ DeckDir \in Dir /\ CardsDir \in Dir /\ CardsName \in Name
  BY <1>1, CardsBelowRoot DEF CardsTypes, cardVars, IInv, Ids
<1>3. ASSUME wpc' \in {"done", "popped", "unwind", "returned"}, AllBut({}) PROVE NoneLost'
  BY <1>2, <1>3 DEF NoneLost, AllBut
<1>4. ASSUME wpc' = "done", CardsDir \notin steady PROVE NoneLost'
  BY <1>2, <1>4, NoneThere DEF NoneLost, AllBut
<1>5. CASE Enter
  <2>1. WorksIn(DeckDir) /\ entry = CardsName
    BY <1>5 DEF Enter, Walking, WalkPlace
  <2>2. \/ wpc' = "push"
        \/ wpc' = "done" /\ Resolve(CardsName) \notin present
    BY <1>5, <2>1 DEF Enter, Dir_Exists, Clear
  <2>3. CASE wpc' = "push"
    BY <1>2, <2>3 DEF NoneLost
  <2>4. CASE wpc' = "done" /\ Resolve(CardsName) \notin present
    <3>1. CardsDir \notin steady
      BY <1>2, <2>1, <2>4, NotFound, CardsBelowRoot
    <3>2. QED
      BY <1>4, <2>4, <3>1
  <2>5. QED
    BY <2>2, <2>3, <2>4
<1>6. CASE EnterPush
  BY <1>2, <1>6 DEF EnterPush, NoneLost
<1>7. CASE Opened
  <2>1. BoundFor(CardsName, CardsDir) /\ frames = <<>> /\ UNCHANGED vars
    BY <1>7 DEF Opened, Walking, WalkPlace, OneByOne
  <2>2. CASE ret = NULL
    <3>1. wpc' = "done" /\ CardsDir \notin steady
      BY <1>1, <1>7, <2>1, <2>2 DEF Opened, BoundFor
    <3>2. QED
      BY <1>4, <3>1
  <2>3. CASE ret # NULL
    <3>1. WorksIn(CardsDir)
      BY <1>1, <2>1, <2>3 DEF BoundFor
    <3>2. wpc' = "loop" /\ frames' = Append(<<>>, Frame(Entries(sysCwd), TRUE))
      BY <1>7, <2>1, <2>3, ReadAssumption DEF Opened, Clear
    <3>3. Frame(Entries(sysCwd), TRUE) \in FrameType
          /\ Frame(Entries(sysCwd), TRUE).todo = Entries(sysCwd)
      BY <1>2, EntriesType, FrameOf DEF TypeOK
    <3>4. Top'.todo = Entries(sysCwd)
      BY <3>2, <3>3, OneFrame DEF Top
    <3>5. \A e \in Name : Child[CardsDir][e] \in steady => e \in Entries(sysCwd)
      <4>1. CASE sysCwd = CardsDir
        BY <1>2, <4>1, NullAssumption DEF Entries, Chained
      <4>2. CASE CardsDir \notin steady
        BY <4>2, NoneThere
      <4>3. QED
        BY <3>1, <4>1, <4>2 DEF WorksIn
    <3>6. QED
      BY <1>2, <3>2, <3>4, <3>5 DEF NoneLost, AllBut
  <2>4. QED
    BY <2>2, <2>3
<1>8. CASE LoopEnd
  <2>1. wpc' = "done" /\ Top.todo = {} /\ wpc = "loop"
    BY <1>8 DEF LoopEnd, Walking
  <2>2. QED
    BY <1>3, <2>1 DEF NoneLost
<1>9. ASSUME NEW e \in Name \cup FileName, LoopSkip(e) \/ LoopRead(e) PROVE NoneLost'
  <2>1. /\ wpc = "loop" /\ AllBut(Top.todo) /\ WorksIn(CardsDir)
        /\ SetTop([Top EXCEPT !.todo = @ \ {e}])
    BY <1>9 DEF LoopSkip, LoopRead, Walking, NoneLost, WalkPlace
  <2>2. Top'.todo = Top.todo \ {e}
    BY <2>1, OneEntryLess DEF CardsTypes
  <2>3. CASE LoopSkip(e)
    <3>1. wpc' = "loop" /\ e \notin Entries(sysCwd)
      BY <2>1, <2>3 DEF LoopSkip
    <3>2. e \in Name => Child[CardsDir][e] \notin steady
      <4>1. CASE sysCwd = CardsDir
        BY <1>2, <3>1, <4>1, NullAssumption DEF Entries, Chained
      <4>2. CASE CardsDir \notin steady
        BY <4>2, NoneThere
      <4>3. QED
        BY <2>1, <4>1, <4>2 DEF WorksIn
    <3>3. QED
      BY <1>2, <2>1, <2>2, <3>1, <3>2 DEF NoneLost, AllBut
  <2>4. CASE LoopRead(e)
    <3>1. wpc' = "visit" /\ entry' = e
      BY <2>4 DEF LoopRead
    <3>2. Visiting'
      BY <1>2 DEF Visiting
    <3>3. QED
      BY <1>2, <2>1, <2>2, <3>1, <3>2 DEF NoneLost, AllBut
  <2>5. QED
    BY <1>9, <2>3, <2>4
<1>10. CASE Done \/ Unwind \/ IterateReturn
  <2>1. /\ wpc \in {"done", "unwind"} /\ wpc' \in {"popped", "unwind", "returned"}
    BY <1>10 DEF Done, Unwind, IterateReturn, Walking
  <2>2. QED
    BY <1>3, <2>1 DEF NoneLost
<1>11. CASE Popped
  <2>1. frames \in Seq(FrameType) /\ frames # <<>> /\ Len(frames) <= 1 /\ wpc = "popped"
    BY <1>11 DEF Popped, Walking, CardsTypes, WalkTypes, WalkTypeOK, FrameType, OneByOne
  <2>2. Len(frames) = 1
    BY <2>1, TopType
  <2>3. wpc' = "unwind"
    BY <1>11, <2>2 DEF Popped
  <2>4. QED
    BY <1>3, <2>1, <2>3 DEF NoneLost
<1>12. QED
  BY <1>1, <1>5, <1>6, <1>7, <1>8, <1>9, <1>10, <1>11 DEF WalkStep

LEMMA NoneLostStep ==
    ASSUME DeckNamed, Clear, CardsTypes, IInv, Chained, OneByOne, Located, Smooth => NoneLost,
           [CardsNext]_everything, Smooth'
    PROVE  NoneLost'
<1>1. CallPlace /\ WalkPlace /\ NoneLost /\ status' = "running"
  BY SmoothBefore DEF Located, Smooth
<1>2. gpc # "walk" => wpc = "idle"
  BY DEF CardsTypes
<1>3. ASSUME UNCHANGED <<gpc, cpc, found, list, walk>>, steady' \subseteq steady
      PROVE  NoneLost'
  <2>1. UNCHANGED <<wpc, entry>> /\ Top' = Top /\ Ids' = Ids /\ Visiting' = Visiting
    BY <1>3 DEF walk, Top, Ids, Visiting
  <2>2. \A S : AllBut(S) => \A e \in Name : Child[CardsDir][e] \in steady' => e \in Ids' \cup S
    BY <1>3, <2>1 DEF AllBut
  <2>3. /\ gpc' \in {"check", "checked"} /\ ~found' => DeckDir \notin steady'
        /\ gpc' \in {"leave", "returned", "content", "content_read"} => AllBut({})'
        /\ wpc' = "loop" => AllBut(Top.todo)'
        /\ wpc' \in {"done", "popped", "unwind", "returned"} => AllBut({})'
    BY <1>1, <1>3, <2>1, <2>2 DEF NoneLost, AllBut
  <2>4. wpc' = "visit" => AllBut(Top.todo \cup (IF Visiting THEN {entry} ELSE {}))'
    BY <1>1, <2>1, <2>2 DEF NoneLost, AllBut
  <2>5. QED
    BY <2>3, <2>4 DEF NoneLost
<1>4. CASE CallerGoes \/ StackStep \/ Disturb \/ FileStep \/ Edit \/ UNCHANGED everything
  <2>1. CASE CallerGoes \/ StackStep
    BY <1>3, <2>1 DEF CallerGoes, CallerPush, StackStep, cardVars
  <2>2. CASE Disturb
    BY <1>3, <2>2 DEF Disturb
  <2>3. CASE FileStep \/ Edit \/ UNCHANGED everything
    BY <1>3, <2>3, FilesAside DEF Aside, allVars
  <2>4. QED
    BY <1>4, <2>1, <2>2, <2>3
<1>5. CASE GetAll
  <2>1. gpc' = "rooted" /\ wpc' = "idle"
    BY <1>2, <1>5 DEF GetAll, Listing, walk
  <2>2. QED
    BY <2>1 DEF NoneLost
<1>6. CASE GetAllStep
  <2>1. CASE wpc' = "idle"
    BY <1>1, <1>6, <2>1, NoneLostBefore
  <2>2. CASE wpc' # "idle"
    <3>1. gpc' = "walk" /\ wpc' = "enter"
      BY <1>2, <1>6, <2>2 DEF GetAllStep, Rooted, Discover, Check, Compare_Root, EnterDeck,
         ListCards, Iterate, Listed, Leave, LeaveStep, GetAllReturn, Listing, allVars, walk
    <3>2. QED
      BY <3>1 DEF NoneLost
  <2>3. QED
    BY <2>1, <2>2
<1>7. CASE Again \/ ContentRead \/ ContentReturn \/ \E i \in DOMAIN list : GetContent(i)
  <2>1. /\ UNCHANGED <<list, steady>> /\ wpc' = "idle" /\ Ids' = Ids
        /\ gpc \in {"returned", "content", "content_read"}
        /\ gpc' \in {"idle", "returned", "content", "content_read"}
    BY <1>2, <1>7 DEF Again, ContentRead, ContentReturn, GetContent, Listing, allVars, walk, Ids
  <2>2. AllBut({})
    BY <1>1, <2>1 DEF NoneLost
  <2>3. QED
    BY <2>1, <2>2 DEF NoneLost, AllBut
<1>8. CASE CardStep /\ ~FileStep
  BY <1>1, <1>8, NoneLostCard
<1>9. CASE WalkerStep
  BY <1>1, <1>9, NoneLostWalker
<1>10. QED
  BY <1>4, <1>5, <1>6, <1>7, <1>8, <1>9 DEF CardsNext, Library

\* Each card is listed once, under its own name and directory, and none that was
\* there from the call of GetAll on is left out, whatever else came and went:
\* for every tree in which each directory has one parent and the deck's cards
\* have a directory, where nothing there is denied and reading does not fail.
THEOREM CardsAreAlwaysListed ==
    ASSUME DeckNamed, Clear
    PROVE  CardsSpec => []CardsListed
<1>1. CardsInit => (Smooth => NoneLost)
  BY DEF CardsInit, WalkInit, NoneLost
<1>2. /\ CardsTypes /\ IInv /\ (Clear => Chained) /\ OneByOne /\ Located /\ (Smooth => NoneLost)
      /\ [CardsNext]_everything
      => (Smooth => NoneLost)'
  BY NoneLostStep
<1>3. ASSUME CardsTypes, OneByOne, Located, Smooth => NoneLost PROVE CardsListed
  <2> SUFFICES ASSUME gpc = "returned", Smooth
               PROVE  /\ \A i, j \in DOMAIN list : list[i].id = list[j].id => i = j
                      /\ \A i \in DOMAIN list : list[i].path = Child[CardsDir][list[i].id]
                      /\ \A e \in Name :
                            Child[CardsDir][e] \in steady => \E i \in DOMAIN list : list[i].id = e
    BY DEF CardsListed
  <2>1. DOMAIN list = 1..Len(list) /\ \A i \in DOMAIN list : list[i].path \in Dir
    BY <1>3, LenProperties DEF CardsTypes, CardsTypeOK
  <2>2. ListedWhere /\ AllBut({})
    BY <1>3 DEF Located, NoneLost
  <2>3. \A i \in DOMAIN list : list[i].path = Child[CardsDir][list[i].id]
    BY <2>1, <2>2, NullAssumption DEF ListedWhere, CardAt
  <2>4. \A i, j \in DOMAIN list : list[i].id = list[j].id => i = j
    BY <1>3, <2>1 DEF OneByOne
  <2>5. \A e \in Name : Child[CardsDir][e] \in steady => \E i \in DOMAIN list : list[i].id = e
    BY <2>1, <2>2 DEF AllBut, Ids
  <2>6. QED
    BY <2>3, <2>4, <2>5
<1>4. QED
  BY <1>1, <1>2, <1>3, CardsListing, PTL DEF CardsSpec
=============================================================================
