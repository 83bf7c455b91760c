---------------------------- MODULE ServerProofs ----------------------------
(***************************************************************************)
(* What the REST server guarantees for every directory tree, every disk,   *)
(* any number of clients, requests and edits, and whatever fails: it       *)
(* serves the root it was started with or nobody, and leaves nothing       *)
(* behind when it ends.                                                    *)
(***************************************************************************)
EXTENDS Server, ModelRootProofs

-----------------------------------------------------------------------------
(* Steps of the server as steps of the model.                              *)

\* The log is opened, or its handle is used although it could not be.
LogStep == /\ UNCHANGED <<present, stack, gitVars, modelVars>>
           /\ status = "running" /\ status' \in {"running", "crashed"}

\* Whether a deck exists is asked through srsDir_GetCWD.
PeekStep == GetCWD /\ UNCHANGED <<gitVars, modelVars>>

\* An editor works in the files the model does not look at.
EditStep == /\ UNCHANGED <<vars, gitVars>>
            /\ UNCHANGED <<srsModel_ROOT_PATH, mpc, task, okay, mret, error, calls, origin, meddled>>
            /\ changes < MaxChanges /\ changes' = changes + 1

ModelPart == ModelNext \/ UNCHANGED all \/ LogStep \/ PeekStep \/ EditStep

LEMMA ServerModelPart ==
    ASSUME document_root \in Argument, [ServerNext]_everyVar
    PROVE  ModelPart
<1>1. CASE Options \/ Started \/ Poll \/ EndPoll \/ CloseLog
  BY <1>1 DEF Options, Started, Poll, EndPoll, CloseLog, Still, all, ModelPart
<1>2. ASSUME NEW c \in Client, HandlePlain(c) PROVE ModelPart
  BY <1>2 DEF HandlePlain, Takes, Still, all, ModelPart
<1>3. ASSUME NEW c \in Client, HandleGetNextCard(c) PROVE ModelPart
  BY <1>3 DEF HandleGetNextCard, Takes, PeekStep, ModelPart
<1>4. CASE ReadAt \/ ReadSchedule
  BY <1>4 DEF ReadAt, ReadSchedule, Going, Still, all, ModelPart
<1>5. ASSUME NEW c \in Client, Sends(c) PROVE ModelPart
  BY <1>5 DEF Sends, all, ModelPart
<1>6. CASE Fails \/ Bind
  <2>1. Logs /\ status = "running"
    BY <1>6 DEF Fails, Bind, Main, In, At
  <2>2. QED
    BY <2>1 DEF Logs, LogStep, ModelPart
<1>7. CASE StartRoot
  <2>1. document_root # NULL => document_root \in Dir \cup Name
    BY DEF Argument
  <2>2. QED
    BY <1>7, <2>1 DEF StartRoot, ModelPart, ModelNext, Call
<1>8. CASE CloseRoot
  BY <1>8 DEF CloseRoot, ModelPart, ModelNext, Call
<1>9. CASE Setting
  BY <1>9 DEF ModelPart, ModelNext, Library
<1>10. ASSUME NEW d \in Dir, EditorWrites(d) PROVE ModelPart
  BY <1>10 DEF EditorWrites, EditStep, ModelPart
<1>11. CASE Removes
  BY <1>11 DEF Removes, ModelPart, ModelNext
<1>12. CASE UNCHANGED everyVar
  BY <1>12 DEF everyVar, ModelPart
<1>13. QED
  BY <1>1, <1>2, <1>3, <1>4, <1>5, <1>6, <1>7, <1>8, <1>9, <1>10, <1>11, <1>12
     DEF ServerNext, Program

\* Base is what ModelRootProofs shows of every caller of the model.
LEMMA ServerBaseStep ==
    ASSUME Base, ModelPart
    PROVE  Base'
<1>1. CASE ModelNext \/ UNCHANGED all
  BY <1>1, BaseStep
<1>2. CASE LogStep
  <2>1. IInv'
    BY <1>2 DEF LogStep, Base, IInv, stack, histVars, TypeOK, CacheCoherent, ResidueBound,
       Matched, Saving
  <2>2. ModelTypes' /\ GitInv'
    BY <1>2 DEF LogStep, Base, modelVars, gitVars, git, ModelTypes, GitInv, GitTypeOK,
       InitsAreOpens, PathFollowsRepo, Running
  <2>3. QED
    BY <2>1, <2>2 DEF Base
<1>3. CASE PeekStep
  <2>1. Next /\ UNCHANGED status
    BY <1>3 DEF PeekStep, Next, Calls, GetCWD
  <2>2. IInv'
    BY <2>1, IInvStep DEF Base
  <2>3. ModelTypes' /\ GitInv'
    BY <1>3, <2>1 DEF PeekStep, Base, modelVars, gitVars, git, ModelTypes, GitInv, GitTypeOK,
       InitsAreOpens, PathFollowsRepo, Running
  <2>4. QED
    BY <2>2, <2>3 DEF Base
<1>4. CASE EditStep
  <2>1. UNCHANGED vars /\ UNCHANGED status
    BY <1>4 DEF EditStep, vars
  <2>2. IInv'
    BY <2>1, IInvStep DEF Base
  <2>3. ModelTypes' /\ GitInv'
    BY <1>4, <2>1 DEF EditStep, Base, gitVars, git, ModelTypes, GitInv, GitTypeOK,
       InitsAreOpens, PathFollowsRepo, Running
  <2>4. QED
    BY <2>2, <2>3 DEF Base
<1>5. QED
  BY <1>1, <1>2, <1>3, <1>4 DEF ModelPart

-----------------------------------------------------------------------------
(* The types of the model's other variables, which no proof about the      *)
(* model alone has needed.                                                 *)

CallTypes == /\ okay \in BOOLEAN /\ meddled \in BOOLEAN /\ changes \in 0..MaxChanges
             /\ mret \in {"none", "OK", "FAIL", "TRUE", "FALSE"}
             /\ error \in {"none", "FAIL", "API", "INPUT"}
             /\ calls \in 0..MaxCalls

LEMMA BeginsCounts ==
    ASSUME CallTypes, NEW kind, NEW path, Begins(kind, path)
    PROVE  calls' \in 0..MaxCalls /\ changes' \in 0..MaxChanges /\ okay' \in BOOLEAN
<1>1. calls < MaxCalls /\ calls' = calls + 1 /\ UNCHANGED changes /\ okay' = FALSE
  BY DEF Begins
<1>2. calls \in 0..MaxCalls /\ changes \in 0..MaxChanges
  BY DEF CallTypes
<1>3. calls' \in 0..MaxCalls
  BY <1>1, <1>2, MaxCallsAssumption
<1>4. QED
  BY <1>1, <1>2, <1>3

LEMMA CallTypesStep ==
    ASSUME CallTypes, ModelPart
    PROVE  CallTypes'
<1>1. ASSUME UNCHANGED <<okay, meddled, changes, calls, error>>,
             mret' \in {mret, "OK", "FAIL", "TRUE", "FALSE"}
      PROVE  CallTypes'
  BY <1>1 DEF CallTypes
<1>2. CASE SetRoot_None \/ SetRoot_Again
  BY <1>2, BeginsCounts DEF SetRoot_None, SetRoot_Again, Set_Directory, CallTypes
<1>3. ASSUME NEW path, SetRoot(path) PROVE CallTypes'
  BY <1>3, BeginsCounts DEF SetRoot, Set_Directory, CallTypes
<1>4. ASSUME NEW path, IsValidRoot(path) PROVE CallTypes'
  BY <1>4, BeginsCounts DEF IsValidRoot, CallTypes
<1>5. ASSUME NEW path, ExistsInRoot(path) PROVE CallTypes'
  BY <1>5, BeginsCounts DEF ExistsInRoot, CallTypes
<1>6. ASSUME NEW kind, NEW path, CreateRoot(kind, path) PROVE CallTypes'
  BY <1>6, BeginsCounts DEF CreateRoot, CallTypes
<1>7. ASSUME NEW path, ExistsInRoot_Refused(path) PROVE CallTypes'
  BY <1>7, BeginsCounts DEF ExistsInRoot_Refused, CallTypes
<1>8. CASE Git
  BY <1>8, BeginsCounts DEF Git, Caller_Close, Caller_Shutdown, Caller_Add, Caller_Commit,
     CallsGit, CallTypes
<1>9. CASE Set_Repo \/ Set_Enter \/ Set_Checked \/ Set_Open \/ Valid_Checked
           \/ Create_Enter \/ Create_End \/ Exists_Left \/ Exists_End
  BY <1>1, <1>9 DEF Set_Repo, Set_Enter, Set_Checked, Set_Open, Valid_Checked, Create_Enter,
     Create_End, Exists_Left, Exists_End, Goto, Answers, Set_Directory, history
<1>10. CASE Set_Check
  BY <1>10 DEF Set_Check, Goto, Here, history, CallTypes
<1>11. CASE Set_Opened
  BY <1>11 DEF Set_Opened, Answers, CallTypes
<1>12. CASE Valid_Check
  BY <1>12 DEF Valid_Check, Goto, Answers, Here, history, CallTypes
<1>13. CASE Create_File
  BY <1>13 DEF Create_File, Goto, Here, history, CallTypes
<1>14. CASE Exists_Search
  BY <1>14 DEF Exists_Search, Stops, Goto, Answers, history, CallTypes
<1>15. CASE Exists_Compare
  BY <1>15 DEF Exists_Compare, RootItself, Goto, history, CallTypes
<1>16. CASE Steps /\ UNCHANGED <<gitVars, modelVars>>
  BY <1>1, <1>16 DEF modelVars
<1>17. CASE Caller_Moves \/ LogStep \/ PeekStep \/ UNCHANGED all
  BY <1>1, <1>17 DEF Caller_Moves, LogStep, PeekStep, all, modelVars
<1>18. CASE Disturb \/ EditStep
  BY <1>18, ChangesAssumption DEF Disturb, EditStep, CallTypes
<1>19. QED
  BY <1>2, <1>3, <1>4, <1>5, <1>6, <1>7, <1>8, <1>9, <1>10, <1>11, <1>12, <1>13, <1>14, <1>15,
     <1>16, <1>17, <1>18 DEF ModelPart, ModelNext, Call, Library, Setting

-----------------------------------------------------------------------------
(* The types of the server's own variables.                                *)

Points  == {"options", "bind", "set_root", "started", "loop", "poll", "last_poll",
            "close_root", "close_log", "exited", "failed"}
Polls   == {"poll", "last_poll"}
Fates   == {"none", "knocking", "open", "late", "answered", "ignored"}
Replies == {200, 400, 500}

AnswersFit == /\ answer = [c \in Client |-> answer[c]]
              /\ \A c \in Client : answer[c].code \in Replies \cup {0}
              /\ \A c \in Client : answer[c].code # 0 <=> conn[c] = "answered"
Handled  == /\ batch \subseteq {c \in Client : conn[c] = "open"}
            /\ serving \in batch \cup {NULL}
            /\ line > 0 => serving # NULL
            /\ spc \notin Polls => batch = {} /\ serving = NULL

ServerTypes == /\ spc \in Points /\ document_root \in Argument
               /\ kill_me_now \in BOOLEAN /\ log \in {"none", "open", "closed"}
               /\ conn \in [Client -> Fates]
               /\ request \in [Client -> Request \cup {NoRequest}]
               /\ AnswersFit /\ Handled

\* One connection gets its answer.
LEMMA RespondsStep ==
    ASSUME ServerTypes, NEW c \in batch, NEW reply, Responds(c, reply), reply.code \in Replies,
           spc \in Polls, UNCHANGED <<spc, document_root, log, request>>, kill_me_now' \in BOOLEAN
    PROVE  /\ ServerTypes'
           /\ \A e \in Client : answer'[e] = IF e = c THEN reply ELSE answer[e]
           /\ \A e \in Client : conn'[e] = IF e = c THEN "answered" ELSE conn[e]
<1>1. c \in Client /\ conn[c] = "open"
  BY DEF ServerTypes, Handled
<1>2. \A e \in Client : answer'[e] = IF e = c THEN reply ELSE answer[e]
  BY <1>1 DEF Responds, ServerTypes, AnswersFit
<1>3. \A e \in Client : conn'[e] = IF e = c THEN "answered" ELSE conn[e]
  BY <1>1 DEF Responds, ServerTypes
<1>4. conn' \in [Client -> Fates]
  BY <1>1 DEF Responds, ServerTypes, Fates
<1>5. answer' = [e \in Client |-> answer'[e]]
  BY <1>1 DEF Responds, ServerTypes, AnswersFit
<1>6. AnswersFit'
  BY <1>2, <1>3, <1>5 DEF ServerTypes, AnswersFit, Replies
<1>7. Handled'
  BY <1>3 DEF Responds, ServerTypes, Handled
<1>8. QED
  BY <1>2, <1>3, <1>4, <1>6, <1>7 DEF ServerTypes

\* A step that leaves the connections alone.
LEMMA ClientsStay ==
    ASSUME ServerTypes, UNCHANGED <<clients, handling>>, spc \notin Polls \/ UNCHANGED spc,
           spc' \in Points, document_root' \in Argument, kill_me_now' \in BOOLEAN,
           log' \in {"none", "open", "closed"}
    PROVE  ServerTypes'
  BY DEF ServerTypes, AnswersFit, Handled, clients, handling

LEMMA LogsType ==
    ASSUME ServerTypes, Logs
    PROVE  log' \in {"none", "open", "closed"}
  BY DEF Logs

LEMMA ServerTypesStep ==
    ASSUME ServerTypes, [ServerNext]_everyVar
    PROVE  ServerTypes'
<1>1. CASE Options
  BY <1>1, ClientsStay, RootsAssumption DEF Options, Main, ServerTypes, Points, Polls
<1>2. CASE Fails \/ Bind
  BY <1>2, ClientsStay, LogsType DEF Fails, Bind, Main, ServerTypes, Points, Polls
<1>3. CASE StartRoot \/ CloseRoot \/ CloseLog
  BY <1>3, ClientsStay DEF StartRoot, CloseRoot, CloseLog, Main, ServerTypes, Points, Polls
<1>4. CASE Started
  BY <1>4, ClientsStay DEF Started, Kills, Main, ServerTypes, Points, Polls
<1>5. CASE (Setting /\ UNCHANGED serverVars) \/ Removes \/ UNCHANGED everyVar
  <2>1. UNCHANGED <<mainVars, clients, handling>>
    BY <1>5 DEF Removes, everyVar, serverVars
  <2>2. QED
    BY <2>1, ClientsStay DEF mainVars, ServerTypes
<1>6. ASSUME NEW d \in Dir, EditorWrites(d) PROVE ServerTypes'
  BY <1>6, ClientsStay DEF EditorWrites, mainVars, ServerTypes
<1>7. CASE Poll
  <2>1. /\ batch = {} /\ serving = NULL /\ spc' \in Polls
        /\ batch' = {c \in Client : conn[c] = "open"}
        /\ UNCHANGED <<document_root, kill_me_now, log, request, answer, serving, line>>
    BY <1>7 DEF Poll, WhilePolls, Main, ServerTypes, Handled, Polls
  <2>2. \A c \in Client : conn'[c] = IF conn[c] = "knocking"
                                     THEN IF kill_me_now THEN "late" ELSE "open"
                                     ELSE conn[c]
    BY <1>7 DEF Poll
  <2>3. conn' \in [Client -> Fates]
    BY <1>7, <2>2 DEF Poll, ServerTypes, Fates
  <2>4. AnswersFit'
    BY <2>1, <2>2 DEF ServerTypes, AnswersFit
  <2>5. Handled'
    BY <2>1, <2>2 DEF ServerTypes, Handled
  <2>6. QED
    BY <2>1, <2>3, <2>4, <2>5 DEF ServerTypes, Points, Polls
<1>8. CASE EndPoll
  <2>1. /\ batch = {} /\ serving = NULL /\ spc' \in {"loop", "close_root"}
        /\ UNCHANGED <<document_root, kill_me_now, log, clients, handling>>
    BY <1>8 DEF EndPoll, Polled
  <2>2. QED
    BY <2>1 DEF ServerTypes, Points, AnswersFit, Handled, clients, handling
<1>9. ASSUME NEW c \in Client, HandlePlain(c) PROVE ServerTypes'
  <2>1. /\ spc \in Polls /\ serving = NULL /\ c \in batch /\ kill_me_now' \in BOOLEAN
        /\ UNCHANGED <<spc, document_root, log, request>>
    BY <1>9 DEF HandlePlain, Takes, Main, Polls, ServerTypes
  <2>2. CASE request[c].kind = "printcontent"
    <3>1. /\ conn' = [conn EXCEPT ![c] = "ignored"] /\ batch' = batch \ {c}
          /\ UNCHANGED <<answer, serving, line>>
      BY <1>9, <2>2 DEF HandlePlain
    <3>2. /\ conn[c] = "open" /\ answer[c].code = 0
          /\ \A e \in Client : conn'[e] = IF e = c THEN "ignored" ELSE conn[e]
      BY <2>1, <3>1 DEF ServerTypes, Handled, AnswersFit
    <3>3. conn' \in [Client -> Fates]
      BY <3>1 DEF ServerTypes, Fates
    <3>4. AnswersFit'
      BY <3>1, <3>2 DEF ServerTypes, AnswersFit
    <3>5. Handled'
      BY <2>1, <3>1, <3>2 DEF ServerTypes, Handled
    <3>6. QED
      BY <2>1, <3>3, <3>4, <3>5 DEF ServerTypes
  <2>3. CASE request[c].kind # "printcontent"
    <3>1. PICK reply : reply.code = 200 /\ Responds(c, reply)
      BY <1>9, <2>3 DEF HandlePlain, NoAnswer
    <3>2. QED
      BY <2>1, <3>1, RespondsStep DEF Replies
  <2>4. QED
    BY <2>2, <2>3
<1>10. ASSUME NEW c \in Client, HandleGetNextCard(c) PROVE ServerTypes'
  <2>1. /\ spc \in Polls /\ serving = NULL /\ c \in batch /\ kill_me_now' \in BOOLEAN
        /\ UNCHANGED <<spc, document_root, log, request>>
    BY <1>10 DEF HandleGetNextCard, Takes, Main, Polls, ServerTypes
  <2>2. CASE Dir_Exists(request[c].deck)
    <3>1. serving' = c /\ UNCHANGED <<conn, answer, batch, line>>
      BY <1>10, <2>2 DEF HandleGetNextCard
    <3>2. QED
      BY <2>1, <3>1 DEF ServerTypes, AnswersFit, Handled
  <2>3. CASE ~Dir_Exists(request[c].deck)
    <3>1. PICK reply : reply.code = 400 /\ Responds(c, reply)
      BY <1>10, <2>3 DEF HandleGetNextCard, NoAnswer
    <3>2. QED
      BY <2>1, <3>1, RespondsStep DEF Replies
  <2>4. QED
    BY <2>2, <2>3
<1>11. CASE ReadAt \/ ReadSchedule
  <2>1. /\ serving # NULL /\ UNCHANGED <<mainVars, request>>
        /\ UNCHANGED <<spc, document_root, log, request, kill_me_now>>
    BY <1>11 DEF ReadAt, ReadSchedule, Going, mainVars
  <2>2. serving \in batch /\ spc \in Polls
    BY <2>1 DEF ServerTypes, Handled
  <2>3. CASE UNCHANGED <<conn, answer, batch, serving>>
    BY <2>1, <2>2, <2>3 DEF ServerTypes, AnswersFit, Handled
  <2>4. CASE \E reply : reply.code \in Replies /\ Responds(serving, reply)
    BY <2>1, <2>2, <2>4, RespondsStep DEF ServerTypes
  <2>5. CASE ReadAt
    <3>1. \/ UNCHANGED <<conn, answer, batch, serving>>
          \/ Responds(serving, [NoAnswer EXCEPT !.code = 500])
      BY <2>5 DEF ReadAt
    <3>2. [NoAnswer EXCEPT !.code = 500].code \in Replies
      BY DEF NoAnswer, Replies
    <3>3. QED
      BY <2>3, <2>4, <3>1, <3>2
  <2>6. CASE ReadSchedule
    <3>1. PICK card : \/ Responds(serving, [NoAnswer EXCEPT !.code = 200, !.card = card])
                      \/ Responds(serving, [NoAnswer EXCEPT !.code = 500])
      BY <2>6 DEF ReadSchedule
    <3>2. /\ [NoAnswer EXCEPT !.code = 200, !.card = card].code \in Replies
          /\ [NoAnswer EXCEPT !.code = 500].code \in Replies
      BY DEF NoAnswer, Replies
    <3>3. QED
      BY <2>4, <3>1, <3>2
  <2>7. QED
    BY <1>11, <2>5, <2>6
<1>12. ASSUME NEW c \in Client, Sends(c) PROVE ServerTypes'
  <2>1. PICK r \in Request : request' = [request EXCEPT ![c] = r]
    BY <1>12 DEF Sends
  <2>2. /\ conn[c] \in {"none", "answered"}
        /\ conn' = [conn EXCEPT ![c] = "knocking"]
        /\ answer' = [answer EXCEPT ![c] = NoAnswer]
        /\ UNCHANGED <<spc, document_root, kill_me_now, log, batch, serving, line>>
    BY <1>12 DEF Sends, mainVars, handling
  <2>3. /\ conn' \in [Client -> Fates]
        /\ \A e \in Client : conn'[e] = IF e = c THEN "knocking" ELSE conn[e]
    BY <2>2 DEF ServerTypes, Fates
  <2>4. /\ answer' = [e \in Client |-> answer'[e]]
        /\ \A e \in Client : answer'[e] = IF e = c THEN NoAnswer ELSE answer[e]
    BY <2>2 DEF ServerTypes, AnswersFit
  <2>5. request' \in [Client -> Request \cup {NoRequest}]
    BY <2>1 DEF ServerTypes
  <2>6. AnswersFit'
    BY <2>3, <2>4 DEF ServerTypes, AnswersFit, NoAnswer
  <2>7. Handled'
    BY <2>2, <2>3 DEF ServerTypes, Handled
  <2>8. QED
    BY <2>2, <2>3, <2>5, <2>6, <2>7 DEF ServerTypes
<1>13. QED
  BY <1>1, <1>2, <1>3, <1>4, <1>5, <1>6, <1>7, <1>8, <1>9, <1>10, <1>11, <1>12
     DEF ServerNext, Program

-----------------------------------------------------------------------------
(* The calls of the model that main makes, SetRoot at the start and at the *)
(* end, and what they leave on the stack.                                  *)

SetPoints == {"set_repo", "set_enter", "set_check", "set_checked", "set_open", "set_opened"}

MainCalls ==
    /\ mpc \in SetPoints \cup {"idle"}
    /\ mpc \in SetPoints => /\ spc = "started" /\ task.kind = "set" /\ task.path = document_root
                            /\ document_root # NULL
    /\ pc # "idle" => mpc \in {"set_check", "set_checked"}
    /\ mpc = "set_check" => pc \in {"push", "chdir", "refresh", "idle"}
    /\ mpc = "set_checked" => pc \in {"pop", "idle"}
    /\ pc \in {"push", "chdir"} => call.path = task.path
    /\ pc = "chdir" => ret # NULL

\* Between SetRoot's push and its pop one directory is saved, or none if the
\* chdir failed, and one pop is owed.
NothingSaved == dirstack = <<>> /\ owed = <<>>
OneOwed      == Len(dirstack) <= 1 /\ Len(owed) = 1

StackCourse ==
    /\ mpc \notin {"set_check", "set_checked"} => NothingSaved
    /\ mpc = "set_check" =>
         /\ pc = "push" => NothingSaved
         /\ pc \in {"chdir", "refresh"} => Len(dirstack) = 1 /\ owed = <<>>
         /\ pc = "idle" => IF ret = NULL THEN NothingSaved ELSE OneOwed
    /\ mpc = "set_checked" => IF pc = "pop" THEN OneOwed ELSE NothingSaved

\* The actions of main that are not SetRoot leave the model where it is.
ModelRests == /\ UNCHANGED <<mpc, task, dirstack, pc, call, owed>>
              /\ pc = "idle" /\ mpc = "idle"

LEMMA OutsideRests ==
    ASSUME \/ Options \/ Fails \/ Bind \/ Started \/ Poll \/ EndPoll \/ ReadAt \/ ReadSchedule \/ CloseLog
           \/ \E c \in Client : HandlePlain(c) \/ HandleGetNextCard(c)
    PROVE  ModelRests
<1>1. ASSUME Still, UNCHANGED modelVars, In("idle") PROVE ModelRests
  BY <1>1 DEF Still, vars, modelVars, In, At, ModelRests, histVars
<1>2. CASE Options \/ Started \/ Poll \/ EndPoll \/ ReadAt \/ ReadSchedule \/ CloseLog
  BY <1>1, <1>2 DEF Options, Started, Poll, EndPoll, ReadAt, ReadSchedule, Going, CloseLog, Main
<1>3. CASE Fails \/ Bind
  BY <1>3 DEF Fails, Bind, Main, Logs, stack, modelVars, In, At, ModelRests, histVars
<1>4. ASSUME NEW c \in Client, HandlePlain(c) PROVE ModelRests
  BY <1>1, <1>4 DEF HandlePlain, Takes, Main
<1>5. ASSUME NEW c \in Client, HandleGetNextCard(c) PROVE ModelRests
  BY <1>5 DEF HandleGetNextCard, Takes, Main, GetCWD, In, At, modelVars, ModelRests, histVars
<1>6. QED
  BY <1>2, <1>3, <1>4, <1>5

\* Clients, editors and other processes.
LEMMA OthersRest ==
    ASSUME \/ Removes \/ UNCHANGED everyVar
           \/ \E c \in Client : Sends(c)
           \/ \E d \in Dir : EditorWrites(d)
    PROVE  /\ UNCHANGED <<mpc, task, okay, mret, dirstack, pc, call, ret, owed, directory_current>>
           /\ UNCHANGED <<srsModel_ROOT_PATH, srsGit_REPO, srsGit_REPO_PATH, gret>>
           /\ UNCHANGED <<spc, document_root, kill_me_now, log, status>>
<1>1. CASE Removes
  BY <1>1 DEF Removes, Disturb, Environment, DirRemoved, DirCreated, histVars, mainVars, git
<1>2. CASE UNCHANGED everyVar
  BY <1>2 DEF everyVar, all, vars, gitVars, git, modelVars, serverVars, mainVars
<1>3. ASSUME NEW c \in Client, Sends(c)
      PROVE  UNCHANGED <<vars, gitVars, modelVars, mainVars>>
  BY <1>3 DEF Sends
<1>4. ASSUME NEW d \in Dir, EditorWrites(d)
      PROVE  UNCHANGED <<vars, gitVars, srsModel_ROOT_PATH, mpc, task, okay, mret, mainVars>>
  BY <1>4 DEF EditorWrites
<1>5. QED
  BY <1>1, <1>2, <1>3, <1>4 DEF vars, gitVars, git, modelVars, mainVars

\* A step of PushCWD or PopCWD within SetRoot.
LEMMA StepsMainCalls ==
    ASSUME TypeOK, MainCalls, Steps, UNCHANGED <<gitVars, modelVars>>, UNCHANGED serverVars
    PROVE  MainCalls'
<1>1. UNCHANGED <<mpc, task, spc, document_root>>
  BY DEF modelVars, serverVars, mainVars
<1>2. CASE SetCWD_Refresh
  BY <1>2 DEF SetCWD_Refresh, At, MainCalls
<1>3. CASE PushCWD_Save
  BY <1>1, <1>3 DEF PushCWD_Save, At, Return, MainCalls, SetPoints
<1>4. CASE PushCWD_Chdir
  BY <1>1, <1>4 DEF PushCWD_Chdir, At, Return, MainCalls, SetPoints
<1>5. CASE PushCWD_Refresh
  BY <1>1, <1>5 DEF PushCWD_Refresh, At, Return, MainCalls, SetPoints
<1>6. CASE PopCWD_Empty \/ PopCWD_Enter \/ PopCWD_Skip
  BY <1>1, <1>6 DEF PopCWD_Empty, PopCWD_Enter, PopCWD_Skip, At, Return, MainCalls, SetPoints
<1>7. QED
  BY <1>2, <1>3, <1>4, <1>5, <1>6 DEF Steps

\* Front of a sequence of one element is the empty one.
LEMMA FrontOfOne ==
    ASSUME NEW S, NEW s \in Seq(S), Len(s) <= 1
    PROVE  /\ Front(s) = <<>>
           /\ s # <<>> => Len(s) = 1 /\ Last(s) = s[1]
<1>1. Len(s) \in Nat /\ Front(s) \in Seq(S)
  BY LenProperties, FrontProperties
<1>2. s # <<>> => Len(Front(s)) = Len(s) - 1 /\ Len(s) > 0
  BY FrontProperties
<1>3. Len(Front(s)) <= Len(s) /\ Len(Front(s)) \in Nat
  BY <1>1, FrontProperties, LenProperties
<1>4. s = <<>> => Len(s) = 0
  BY EmptySeq
<1>5. Len(Front(s)) = 0
  BY <1>1, <1>2, <1>3, <1>4
<1>6. Front(s) = <<>>
  BY <1>1, <1>5, EmptySeq
<1>7. s # <<>> => Len(s) = 1
  BY <1>1, <1>2
<1>8. QED
  BY <1>6, <1>7 DEF Last

LEMMA StepsStackCourse ==
    ASSUME TypeOK, MainCalls, StackCourse, Steps, UNCHANGED <<gitVars, modelVars>>, status' = "running"
    PROVE  StackCourse'
<1>1. UNCHANGED mpc /\ dirstack \in Seq(Dir) /\ owed \in Seq(Dir \cup {NULL})
  BY DEF modelVars, TypeOK
<1>2. CASE SetCWD_Refresh
  BY <1>2 DEF SetCWD_Refresh, At, MainCalls
<1>3. CASE PushCWD_Save
  <2>1. /\ pc = "push" /\ mpc = "set_check" /\ NothingSaved /\ UNCHANGED owed
        /\ \/ pc' = "chdir" /\ \E cwd \in Dir \cup {NULL} : dirstack' = Append(dirstack, cwd)
           \/ pc' = "idle" /\ ret' = NULL /\ UNCHANGED dirstack
    <3>1. CachedOrSystem \subseteq Dir \cup {NULL}
      BY DEF CachedOrSystem, TypeOK
    <3>2. QED
      BY <1>3, <3>1 DEF PushCWD_Save, At, Return, MainCalls, StackCourse
  <2>2. ASSUME NEW cwd \in Dir \cup {NULL}, dirstack' = Append(dirstack, cwd)
        PROVE  Len(dirstack') = 1
    BY <2>1, <2>2, EmptySeq, AppendProperties DEF NothingSaved
  <2>3. QED
    BY <1>1, <2>1, <2>2 DEF StackCourse, NothingSaved
<1>4. CASE PushCWD_Chdir
  <2>1. /\ pc = "chdir" /\ mpc = "set_check" /\ Len(dirstack) = 1 /\ owed = <<>> /\ ret # NULL
        /\ \/ pc' = "refresh" /\ UNCHANGED <<dirstack, owed>>
           \/ /\ pc' = "idle" /\ ret' = ret /\ dirstack' = Front(dirstack)
              /\ owed' = Append(owed, call.from)
    BY <1>4 DEF PushCWD_Chdir, At, Return, PopSaved, MainCalls, StackCourse
  <2>2. Len(Append(owed, call.from)) = 1
    BY <2>1, EmptySeq, AppendProperties DEF TypeOK
  <2>3. Len(Front(dirstack)) <= 1
    <3>0. Len(dirstack) <= 1
      BY <2>1
    <3>1. Front(dirstack) = <<>>
      BY <1>1, <3>0, FrontOfOne
    <3>2. QED
      BY <3>1, EmptySeq
  <2>4. QED
    BY <1>1, <2>1, <2>2, <2>3 DEF StackCourse, OneOwed
<1>5. CASE PushCWD_Refresh
  <2>1. /\ pc = "refresh" /\ mpc = "set_check" /\ Len(dirstack) = 1 /\ owed = <<>>
        /\ pc' = "idle" /\ ret' # NULL /\ UNCHANGED dirstack /\ owed' = Append(owed, call.from)
    BY <1>5 DEF PushCWD_Refresh, At, Return, MainCalls, StackCourse
  <2>2. Len(Append(owed, call.from)) = 1
    BY <2>1, EmptySeq, AppendProperties DEF TypeOK
  <2>3. OneOwed'
    <3>1. Len(dirstack') = 1 /\ Len(owed') = 1
      BY <2>1, <2>2
    <3>2. QED
      BY <3>1 DEF OneOwed
  <2>4. QED
    BY <1>1, <2>1, <2>3 DEF StackCourse
<1>6. CASE PopCWD_Empty \/ PopCWD_Enter \/ PopCWD_Skip
  <2>1. pc = "pop" /\ mpc = "set_checked" /\ OneOwed
    BY <1>6 DEF PopCWD_Empty, PopCWD_Enter, PopCWD_Skip, At, MainCalls, StackCourse
  <2>2. Front(dirstack) = <<>> /\ Len(Front(dirstack)) <= 1
    <3>1. Front(dirstack) = <<>>
      BY <1>1, <2>1, FrontOfOne DEF OneOwed
    <3>2. QED
      BY <3>1, EmptySeq
  <2>3. OweOneLess = <<>>
    <3>0. Len(owed) <= 1
      BY <2>1 DEF OneOwed
    <3>1. Front(owed) = <<>>
      BY <1>1, <3>0, FrontOfOne
    <3>2. QED
      BY <3>1 DEF OweOneLess
  <2>4. CASE PopCWD_Skip
    BY <1>1, <2>1, <2>2, <2>4 DEF PopCWD_Skip, PopSaved, StackCourse, OneOwed
  <2>5. CASE PopCWD_Empty \/ PopCWD_Enter
    BY <1>1, <2>1, <2>2, <2>3, <2>5
       DEF PopCWD_Empty, PopCWD_Enter, PopSaved, Return, StackCourse, NothingSaved
  <2>6. QED
    BY <1>6, <2>4, <2>5
<1>7. QED
  BY <1>2, <1>3, <1>4, <1>5, <1>6 DEF Steps

\* SetRoot's own steps.
LEMMA SettingMainCalls ==
    ASSUME TypeOK, MainCalls, StackCourse, Setting, UNCHANGED serverVars
    PROVE  MainCalls' /\ (Running' => StackCourse')
<1>1. UNCHANGED <<spc, document_root>>
  BY DEF serverVars, mainVars
<1>2. CASE Set_Repo
  <2>1. /\ mpc = "set_repo" /\ pc = "idle" /\ NothingSaved
        /\ UNCHANGED <<pc, call, dirstack, owed, task>> /\ mpc' \in {"set_enter", "idle"}
    BY <1>2 DEF Set_Repo, In, At, IsRepo, stack, histVars, Goto, Answers, StackCourse
  <2>2. QED
    BY <1>1, <2>1 DEF MainCalls, StackCourse, SetPoints, NothingSaved
<1>3. CASE Set_Enter
  <2>1. /\ mpc = "set_enter" /\ pc = "idle" /\ NothingSaved
        /\ UNCHANGED <<dirstack, owed, task>> /\ mpc' = "set_check"
        /\ \/ pc' = "idle" /\ ret' = NULL
           \/ pc' = "push" /\ call'.path = task.path
    BY <1>3 DEF Set_Enter, In, At, Enters, PushCWD_Missing, PushCWD, NoCall, Return, histVars,
       Goto, StackCourse
  <2>2. QED
    BY <1>1, <2>1 DEF MainCalls, StackCourse, SetPoints, NothingSaved
<1>4. CASE Set_Check
  <2>1. /\ mpc = "set_check" /\ pc = "idle" /\ UNCHANGED <<dirstack, owed, task, call>>
        /\ \/ ret = NULL /\ mpc' = "set_open" /\ pc' = "idle"
           \/ ret # NULL /\ mpc' = "set_checked" /\ pc' = "pop"
    BY <1>4 DEF Set_Check, In, At, Still, vars, Leaves, PopCWD, histVars, Goto
  <2>2. QED
    BY <1>1, <2>1 DEF MainCalls, StackCourse, SetPoints, NothingSaved, OneOwed
<1>5. CASE Set_Checked \/ Set_Open \/ Set_Opened
  <2>1. /\ mpc \in {"set_checked", "set_open", "set_opened"} /\ pc = "idle"
        /\ UNCHANGED <<pc, call, dirstack, owed, task>>
        /\ mpc' \in {"set_open", "set_opened", "idle"}
    BY <1>5 DEF Set_Checked, Set_Open, Set_Opened, In, At, Still, vars, Repo_Open, stack, histVars,
       Goto, Answers
  <2>2. QED
    BY <1>1, <2>1 DEF MainCalls, StackCourse, SetPoints, NothingSaved
<1>6. CASE Steps /\ UNCHANGED <<gitVars, modelVars>>
  BY <1>6, StepsMainCalls, StepsStackCourse DEF Running
<1>7. QED
  BY <1>2, <1>3, <1>4, <1>5, <1>6 DEF Setting

\* main's calls of SetRoot.
LEMMA RootCalled ==
    ASSUME StartRoot \/ CloseRoot
    PROVE  /\ mpc = "idle" /\ pc = "idle" /\ UNCHANGED <<pc, call, dirstack, owed>>
           /\ UNCHANGED <<present, sysCwd, directory_current, status>>
           /\ UNCHANGED <<document_root, kill_me_now, log, clients, handling>>
           /\ \/ /\ spc' = "started" /\ spc = "set_root" /\ document_root # NULL
                 /\ mpc' \in {"set_repo", "idle"}
                 /\ task'.kind = "set" /\ task'.path = document_root
                 /\ mpc' = "idle" => mret' = "FAIL"
                 /\ UNCHANGED <<srsModel_ROOT_PATH, srsGit_REPO, srsGit_REPO_PATH>>
              \/ /\ \/ spc' = "started" /\ spc = "set_root" /\ document_root = NULL
                    \/ spc' = "close_log" /\ spc = "close_root"
                 /\ mpc' = "idle" /\ srsModel_ROOT_PATH' = NULL /\ srsGit_REPO' = NULL
<1>1. ASSUME SetRoot_None
      PROVE  /\ UNCHANGED <<pc, call, dirstack, owed, present, sysCwd, directory_current, status>>
             /\ mpc = "idle" /\ mpc' = "idle" /\ pc = "idle" /\ srsModel_ROOT_PATH' = NULL
             /\ srsGit_REPO' = NULL
  BY <1>1 DEF SetRoot_None, Begins, In, At, Repo_Close, Close, stack, histVars
<1>2. ASSUME SetRoot(document_root)
      PROVE  /\ UNCHANGED <<pc, call, dirstack, owed, present, sysCwd, directory_current, status>>
             /\ mpc = "idle" /\ pc = "idle" /\ mpc' \in {"set_repo", "idle"}
             /\ task'.kind = "set" /\ task'.path = document_root
             /\ mpc' = "idle" => mret' = "FAIL"
             /\ UNCHANGED <<srsModel_ROOT_PATH, srsGit_REPO, srsGit_REPO_PATH>>
  BY <1>2 DEF SetRoot, Begins, Set_Directory, In, At, Still, vars, gitVars, git
<1>3. CASE CloseRoot
  BY <1>1, <1>3 DEF CloseRoot, Main
<1>4. CASE StartRoot /\ document_root = NULL
  BY <1>1, <1>4 DEF StartRoot, Main
<1>5. CASE StartRoot /\ document_root # NULL
  BY <1>2, <1>5 DEF StartRoot, Main
<1>6. QED
  BY <1>3, <1>4, <1>5

\* What main has begun on the stack it completes.
CallInv == MainCalls /\ (Running => StackCourse)

LEMMA RunningBefore ==
    ASSUME [ServerNext]_everyVar, Running'
    PROVE  Running
<1>1. CASE Setting
  BY <1>1 DEF Setting, Set_Repo, Set_Enter, Set_Check, Set_Checked, Set_Open, Set_Opened, In, At,
     Steps, SetCWD_Refresh, PushCWD_Save, PushCWD_Chdir, PushCWD_Refresh, PopCWD_Empty,
     PopCWD_Enter, PopCWD_Skip, Running
<1>2. CASE Options \/ Fails \/ Bind \/ StartRoot \/ Started \/ Poll \/ EndPoll \/ ReadAt
           \/ ReadSchedule \/ CloseRoot \/ CloseLog
  BY <1>2 DEF Options, Fails, Bind, StartRoot, Started, Poll, EndPoll, ReadAt, ReadSchedule, Going,
     CloseRoot, CloseLog, Main, In, At, Running
<1>3. ASSUME NEW c \in Client, HandlePlain(c) \/ HandleGetNextCard(c) PROVE Running
  BY <1>3 DEF HandlePlain, HandleGetNextCard, Takes, Main, In, At, Running
<1>4. CASE Removes \/ UNCHANGED everyVar \/ (\E c \in Client : Sends(c))
           \/ (\E d \in Dir : EditorWrites(d))
  BY <1>4, OthersRest DEF Running
<1>5. QED
  BY <1>1, <1>2, <1>3, <1>4 DEF ServerNext, Program

LEMMA CallInvStep ==
    ASSUME TypeOK, CallInv, [ServerNext]_everyVar
    PROVE  CallInv'
<1>1. Running' => Running
  BY RunningBefore
<1>2. CASE Setting /\ UNCHANGED serverVars
  <2>1. Running
    BY <1>2 DEF Setting, Set_Repo, Set_Enter, Set_Check, Set_Checked, Set_Open, Set_Opened, In, At,
       Steps, SetCWD_Refresh, PushCWD_Save, PushCWD_Chdir, PushCWD_Refresh, PopCWD_Empty,
       PopCWD_Enter, PopCWD_Skip, Running
  <2>2. QED
    BY <1>2, <2>1, SettingMainCalls DEF CallInv
<1>3. CASE StartRoot \/ CloseRoot
  <2>1. MainCalls'
    BY <1>3, RootCalled DEF CallInv, MainCalls, SetPoints
  <2>2. Running => NothingSaved
    BY <1>3, RootCalled DEF CallInv, StackCourse
  <2>3. Running' => StackCourse'
    BY <1>1, <1>3, <2>2, RootCalled DEF StackCourse, NothingSaved
  <2>4. QED
    BY <2>1, <2>3 DEF CallInv
<1>4. CASE ModelRests
  BY <1>1, <1>4 DEF ModelRests, CallInv, MainCalls, StackCourse, SetPoints, NothingSaved
<1>5. CASE UNCHANGED <<mpc, task, dirstack, pc, call, ret, owed, spc, document_root>>
  BY <1>1, <1>5 DEF CallInv, MainCalls, StackCourse, NothingSaved, OneOwed
<1>6. QED
  BY <1>2, <1>3, <1>4, <1>5, OutsideRests, OthersRest DEF ServerNext, Program

-----------------------------------------------------------------------------
(* The end.                                                                *)

\* What the last poll has taken it answers, and then the root goes, and then
\* the log.
EndInv ==
    /\ spc = "last_poll" => \A c \in Client : conn[c] = "open" => c \in batch
    /\ spc \in {"close_root", "close_log", "exited"} => \A c \in Client : conn[c] # "open"
    /\ spc \in {"close_log", "exited"} => srsModel_ROOT_PATH = NULL /\ srsGit_REPO = NULL
    /\ log = "closed" => spc = "exited" /\ Running

\* SetRoot only goes on at the start.
LEMMA SettingIsStarted ==
    ASSUME CallInv, Setting
    PROVE  spc = "started" /\ Running
<1>1. CASE \E p \in SetPoints : In(p)
  BY <1>1 DEF In, At, CallInv, MainCalls, Running
<1>2. CASE Steps
  <2>1. pc # "idle" /\ Running
    BY <1>2 DEF Steps, SetCWD_Refresh, PushCWD_Save, PushCWD_Chdir, PushCWD_Refresh, PopCWD_Empty,
       PopCWD_Enter, PopCWD_Skip, At, Running
  <2>2. QED
    BY <2>1 DEF CallInv, MainCalls, SetPoints
<1>3. QED
  BY <1>1, <1>2 DEF Setting, Set_Repo, Set_Enter, Set_Check, Set_Checked, Set_Open, Set_Opened,
     SetPoints

\* A step of the poll: one connection gets another fate.
LEMMA EndInvServes ==
    ASSUME ServerTypes, EndInv, NEW c \in batch, spc \in Polls, UNCHANGED <<spc, log>>,
           NEW fate \in {"answered", "ignored"},
           conn' = [conn EXCEPT ![c] = fate], batch' = batch \ {c}
    PROVE  EndInv'
<1>1. \A e \in Client : conn'[e] = "open" => e # c /\ conn[e] = "open"
  BY DEF ServerTypes, Handled
<1>2. QED
  BY <1>1 DEF EndInv, Polls

LEMMA EndInvStays ==
    ASSUME EndInv, UNCHANGED <<conn, batch, spc, log, srsModel_ROOT_PATH, srsGit_REPO, status>>
    PROVE  EndInv'
  BY DEF EndInv, Running

LEMMA EndInvStep ==
    ASSUME ServerTypes, CallInv, EndInv, [ServerNext]_everyVar
    PROVE  EndInv'
<1>1. CASE Options \/ StartRoot \/ Started
  BY <1>1 DEF Options, StartRoot, Started, Main, EndInv
<1>2. CASE Fails \/ Bind
  BY <1>2 DEF Fails, Bind, Logs, EndInv
<1>3. CASE Setting /\ UNCHANGED serverVars
  BY <1>3, SettingIsStarted DEF serverVars, mainVars, EndInv
<1>4. CASE Poll
  <2>1. /\ spc = "loop" /\ spc' = (IF kill_me_now THEN "last_poll" ELSE "poll")
        /\ batch' = {c \in Client : conn[c] = "open"} /\ UNCHANGED log
        /\ \A c \in Client : conn'[c] = IF conn[c] = "knocking"
                                        THEN IF kill_me_now THEN "late" ELSE "open"
                                        ELSE conn[c]
    BY <1>4 DEF Poll, Main, WhilePolls
  <2>2. QED
    BY <2>1 DEF EndInv
<1>5. CASE EndPoll
  <2>1. /\ spc \in Polls /\ spc' = (IF spc = "poll" THEN "loop" ELSE "close_root") /\ batch = {}
        /\ UNCHANGED <<conn, batch, log>>
    BY <1>5 DEF EndPoll, Polled, Main, Polls, clients, handling
  <2>2. QED
    BY <2>1 DEF EndInv, Polls
<1>6. ASSUME NEW c \in Client, HandlePlain(c) PROVE EndInv'
  <2>1. spc \in Polls /\ c \in batch /\ UNCHANGED <<spc, log>>
    BY <1>6 DEF HandlePlain, Takes, Main, Polls
  <2>2. PICK fate \in {"answered", "ignored"} : /\ conn' = [conn EXCEPT ![c] = fate]
                                                /\ batch' = batch \ {c}
    BY <1>6 DEF HandlePlain, Responds
  <2>3. QED
    BY <2>1, <2>2, EndInvServes
<1>7. ASSUME NEW c \in Client, HandleGetNextCard(c) PROVE EndInv'
  <2>1. spc \in Polls /\ c \in batch /\ UNCHANGED <<spc, log>>
    BY <1>7 DEF HandleGetNextCard, Takes, Main, Polls
  <2>2. CASE conn' = [conn EXCEPT ![c] = "answered"] /\ batch' = batch \ {c}
    BY <2>1, <2>2, EndInvServes
  <2>3. CASE UNCHANGED <<conn, batch>>
    BY <2>1, <2>3 DEF EndInv, Polls
  <2>4. QED
    BY <1>7, <2>2, <2>3 DEF HandleGetNextCard, Responds
<1>8. CASE ReadAt \/ ReadSchedule
  <2>1. serving \in batch /\ spc \in Polls /\ UNCHANGED <<spc, log>>
    BY <1>8 DEF ReadAt, ReadSchedule, Going, mainVars, ServerTypes, Handled
  <2>2. CASE conn' = [conn EXCEPT ![serving] = "answered"] /\ batch' = batch \ {serving}
    BY <2>1, <2>2, EndInvServes
  <2>3. CASE UNCHANGED <<conn, batch>>
    BY <2>1, <2>3 DEF EndInv, Polls
  <2>4. QED
    BY <1>8, <2>2, <2>3 DEF ReadAt, ReadSchedule, Responds
<1>9. CASE CloseRoot
  <2>1. /\ spc = "close_root" /\ spc' = "close_log" /\ UNCHANGED <<conn, batch, log>>
        /\ srsModel_ROOT_PATH' = NULL /\ srsGit_REPO' = NULL
    BY <1>9, RootCalled DEF CloseRoot, Main, clients, handling
  <2>2. QED
    BY <2>1 DEF EndInv
<1>10. CASE CloseLog
  <2>1. /\ spc = "close_log" /\ spc' = "exited" /\ Running /\ UNCHANGED <<conn, status>>
        /\ UNCHANGED <<srsModel_ROOT_PATH, srsGit_REPO>>
    BY <1>10 DEF CloseLog, Main, In, At, Still, vars, gitVars, git, modelVars, clients, Running
  <2>2. QED
    BY <2>1 DEF EndInv, Running
<1>11. CASE Removes
  BY <1>11, EndInvStays, OthersRest DEF Removes, clients, handling
<1>12. CASE UNCHANGED everyVar
  BY <1>12, EndInvStays, OthersRest DEF everyVar, serverVars, clients, handling
<1>13. ASSUME NEW d \in Dir, EditorWrites(d) PROVE EndInv'
  BY <1>13, EndInvStays, OthersRest DEF EditorWrites, clients, handling
<1>14. ASSUME NEW c \in Client, Sends(c) PROVE EndInv'
  <2>1. /\ UNCHANGED <<batch, spc, log, srsModel_ROOT_PATH, srsGit_REPO, status>>
        /\ conn' = [conn EXCEPT ![c] = "knocking"]
    BY <1>14, OthersRest DEF Sends, handling
  <2>2. \A e \in Client : conn'[e] = "open" => conn[e] = "open"
    BY <2>1 DEF ServerTypes
  <2>3. QED
    BY <2>1, <2>2 DEF EndInv, Running
<1>15. QED
  BY <1>1, <1>2, <1>3, <1>4, <1>5, <1>6, <1>7, <1>8, <1>9, <1>10, <1>11, <1>12, <1>13, <1>14
     DEF ServerNext, Program

-----------------------------------------------------------------------------
(* Where the process is until its root is set: in the directory it was     *)
(* started in, but for SetRoot's visit to what the document root names.    *)
(* The directory may be removed, but not while the process is in a child.  *)

CwdIsThere == sysCwd # NULL => sysCwd \in present

AtStart   == sysCwd \in {Start, NULL} /\ directory_current \in {Start, NULL}
Visiting  == \/ task.path \in Dir \/ sysCwd = NULL
             \/ sysCwd = From(Start, task.path) /\ Start \in present
Returning == task.path \in Dir \/ sysCwd \in {Start, NULL}

\* A push that returned has saved the start for its pop, or has not moved.
Pushed == \/ dirstack = <<>> /\ Returning
          \/ dirstack = <<Start>> /\ Visiting

RootOpened == srsGit_REPO = From(Start, document_root) /\ srsGit_REPO_PATH = NULL

StartCourse ==
    /\ spc \in {"options", "bind", "set_root"} \/ mpc \in {"set_repo", "set_enter"} => AtStart
    /\ mpc = "set_check" =>
         /\ pc = "push" => AtStart
         /\ pc = "chdir" => dirstack = <<Start>> /\ AtStart
         /\ pc = "refresh" => dirstack = <<Start>> /\ Visiting
         /\ pc = "idle" => IF ret = NULL THEN AtStart ELSE Pushed
    /\ mpc = "set_checked" => IF pc = "pop" THEN Pushed ELSE Returning
    /\ mpc = "set_open" => Returning
    /\ mpc = "set_opened" /\ gret = TRUE => RootOpened

\* The process moves by SetRoot's push and pop alone.
LEMMA CwdMoves ==
    ASSUME TypeOK, [ServerNext]_everyVar
    PROVE  \/ UNCHANGED <<present, sysCwd>>
           \/ sysCwd' \in present /\ UNCHANGED present
           \/ Removes
<1>1. CASE StartRoot \/ CloseRoot
  BY <1>1, RootCalled
<1>2. ASSUME NEW c \in Client, Sends(c) \/ HandlePlain(c) \/ HandleGetNextCard(c)
      PROVE  UNCHANGED <<present, sysCwd>>
  BY <1>2 DEF Sends, HandlePlain, Still, HandleGetNextCard, GetCWD, fsVars, vars
<1>3. ASSUME NEW d \in Dir, EditorWrites(d) PROVE UNCHANGED <<present, sysCwd>>
  BY <1>3 DEF EditorWrites, vars
<1>4. CASE Options \/ Started \/ Poll \/ EndPoll \/ ReadAt \/ ReadSchedule \/ CloseLog
           \/ Fails \/ Bind
  BY <1>4 DEF Options, Started, Poll, EndPoll, ReadAt, ReadSchedule, Going, CloseLog, Fails, Bind,
     Logs, Still, vars, stack
<1>5. CASE Set_Repo \/ Set_Open \/ Set_Opened
  BY <1>5 DEF Set_Repo, IsRepo, Set_Open, Repo_Open, Set_Opened, stack
<1>6. CASE Set_Enter \/ Set_Check \/ Set_Checked
  BY <1>6 DEF Set_Enter, Enters, PushCWD_Missing, PushCWD, Set_Check, Still, Leaves, PopCWD,
     Set_Checked, fsVars, vars
<1>7. CASE Steps
  <2>1. CASE PushCWD_Chdir
    BY <2>1 DEF PushCWD_Chdir, CanEnter, Entered
  <2>2. CASE PopCWD_Enter
    <3>1. Last(dirstack) \in Dir /\ Resolve(Last(dirstack)) = Last(dirstack)
      BY <2>2, FrontProperties DEF PopCWD_Enter, TypeOK, Resolve
    <3>2. QED
      BY <2>2, <3>1 DEF PopCWD_Enter, CanEnter, Entered
  <2>3. QED
    BY <1>7, <2>1, <2>2 DEF Steps, SetCWD_Refresh, PushCWD_Save, PushCWD_Refresh, PopCWD_Empty,
       PopCWD_Skip, fsVars
<1>8. CASE UNCHANGED everyVar
  BY <1>8 DEF everyVar, all, vars
<1>9. QED
  BY <1>1, <1>2, <1>3, <1>4, <1>5, <1>6, <1>7, <1>8 DEF ServerNext, Program, Setting

\* A directory that goes has no child left, and the process in it is nowhere.
LEMMA RemovesMoves ==
    ASSUME TypeOK, CwdIsThere, Removes
    PROVE  /\ CwdIsThere'
           /\ sysCwd' \in {sysCwd, NULL}
           /\ \A d \in Dir : d \in present /\ d \notin present' =>
                \A n \in Name : sysCwd' # Child[d][n] \/ sysCwd' = NULL
<1>1. PICK d \in Dir : DirRemoved(d) \/ DirCreated(d)
  BY DEF Removes, Disturb, Environment
<1>2. CASE DirRemoved(d)
  <2>1. /\ present' = present \ {d} /\ sysCwd' = (IF sysCwd = d THEN NULL ELSE sysCwd)
        /\ \A n \in Name : Child[d][n] \notin present
    BY <1>2 DEF DirRemoved
  <2>2. QED
    BY <2>1 DEF CwdIsThere
<1>3. CASE DirCreated(d)
  BY <1>3 DEF DirCreated, CwdIsThere
<1>4. QED
  BY <1>1, <1>2, <1>3

LEMMA CwdIsThereStep ==
    ASSUME TypeOK, CwdIsThere, [ServerNext]_everyVar
    PROVE  CwdIsThere'
<1>1. CASE Removes
  BY <1>1, RemovesMoves
<1>2. CASE UNCHANGED <<present, sysCwd>> \/ (sysCwd' \in present /\ UNCHANGED present)
  BY <1>2 DEF CwdIsThere
<1>3. QED
  BY <1>1, <1>2, CwdMoves

\* Other processes at work.
LEMMA StartCourseRemoves ==
    ASSUME TypeOK, CwdIsThere, StartCourse, Removes
    PROVE  StartCourse'
<1>1. /\ UNCHANGED <<mpc, task, dirstack, pc, ret, directory_current, spc, document_root>>
      /\ UNCHANGED <<srsGit_REPO, srsGit_REPO_PATH, gret>>
  BY OthersRest
<1>2. sysCwd' \in {sysCwd, NULL}
  BY RemovesMoves
<1>3. AtStart => AtStart'
  BY <1>1, <1>2 DEF AtStart
<1>4. Returning => Returning'
  BY <1>1, <1>2 DEF Returning
<1>5. Visiting => Visiting'
  <2> SUFFICES ASSUME sysCwd' = sysCwd, sysCwd # NULL, task.path \notin Dir,
                      sysCwd = From(Start, task.path), Start \in present
               PROVE  Start \in present'
    BY <1>1, <1>2 DEF Visiting
  <2>1. task.path \in Name /\ sysCwd = Child[Start][task.path]
    BY DEF From
  <2>2. QED
    BY <2>1, RemovesMoves, StartAssumption
<1>6. Pushed => Pushed'
  BY <1>1, <1>4, <1>5 DEF Pushed
<1>7. RootOpened => RootOpened'
  BY <1>1 DEF RootOpened
<1>8. QED
  BY <1>1, <1>3, <1>4, <1>5, <1>6, <1>7 DEF StartCourse

\* A visit goes to what the document root names, as seen from the start.
LEMMA VisitGoes ==
    ASSUME TypeOK, CwdIsThere, AtStart, task.path \in Argument, CanEnter(task.path)
    PROVE  \/ task.path \in Dir
           \/ Resolve(task.path) = From(Start, task.path) /\ Start \in present
<1> SUFFICES ASSUME task.path \notin Dir PROVE Resolve(task.path) = From(Start, task.path) /\ Start \in present
  OBVIOUS
<1>1. Resolve(task.path) # NULL
  BY NullAssumption DEF CanEnter, TypeOK
<1>2. task.path \in Name /\ sysCwd # NULL
  BY <1>1 DEF Resolve
<1>3. sysCwd = Start
  BY <1>2 DEF AtStart
<1>4. QED
  BY <1>2, <1>3, NullAssumption, StartAssumption DEF Resolve, From, CwdIsThere

LEMMA StepsStartCourse ==
    ASSUME Start \notin Unsearchable, TypeOK, task.path \in Argument, CwdIsThere, CallInv, Running',
           StartCourse, Steps, UNCHANGED <<gitVars, modelVars>>, UNCHANGED serverVars
    PROVE  StartCourse'
<1>1. /\ UNCHANGED <<mpc, task, spc, document_root, srsGit_REPO, srsGit_REPO_PATH, gret>>
      /\ RootOpened' = RootOpened
  BY DEF modelVars, serverVars, mainVars, gitVars, git, RootOpened
<1>2. Running /\ MainCalls /\ StackCourse
  <2>1. Running
    BY DEF Steps, SetCWD_Refresh, PushCWD_Save, PushCWD_Chdir, PushCWD_Refresh, PopCWD_Empty,
       PopCWD_Enter, PopCWD_Skip, At, Running
  <2>2. QED
    BY <2>1 DEF CallInv
<1>3. CASE SetCWD_Refresh
  BY <1>2, <1>3 DEF SetCWD_Refresh, At, MainCalls
<1>4. CASE PushCWD_Save
  <2>1. /\ pc = "push" /\ mpc = "set_check" /\ spc = "started" /\ AtStart /\ dirstack = <<>>
        /\ UNCHANGED <<sysCwd, present>>
    BY <1>2, <1>4 DEF PushCWD_Save, At, MainCalls, SetPoints, StackCourse, NothingSaved, StartCourse, fsVars
  <2>2. CachedOrSystem \subseteq {Start, NULL}
    BY <2>1 DEF CachedOrSystem, AtStart
  <2>3. PICK cwd \in {Start, NULL} :
           /\ cwd # NULL /\ directory_current' = cwd
           /\ \/ pc' = "chdir" /\ dirstack' = Append(dirstack, cwd)
              \/ pc' = "idle" /\ ret' = NULL
    BY <1>4, <2>2 DEF PushCWD_Save, Return, Running
  <2>4. AtStart'
    BY <2>1, <2>3 DEF AtStart
  <2>5. Append(dirstack, Start) = <<Start>>
    BY <2>1
  <2>6. QED
    BY <1>1, <2>1, <2>3, <2>4, <2>5 DEF StartCourse
<1>5. CASE PushCWD_Chdir
  <2>1. /\ pc = "chdir" /\ mpc = "set_check" /\ spc = "started" /\ AtStart /\ dirstack = <<Start>>
        /\ ret # NULL /\ call.path = task.path
    BY <1>2, <1>5 DEF PushCWD_Chdir, At, MainCalls, SetPoints, StartCourse
  <2>2. CASE CanEnter(call.path)
    <3>1. /\ sysCwd' = Resolve(task.path) /\ pc' = "refresh" /\ UNCHANGED <<present, dirstack>>
      BY <1>5, <2>1, <2>2 DEF PushCWD_Chdir, Entered
    <3>2. Visiting'
      BY <1>1, <2>1, <2>2, <3>1, VisitGoes DEF Visiting
    <3>3. QED
      BY <1>1, <2>1, <3>1, <3>2 DEF StartCourse
  <2>3. CASE ~CanEnter(call.path)
    <3>1. pc' = "idle" /\ ret' # NULL /\ dirstack' = Front(dirstack) /\ UNCHANGED sysCwd
      BY <1>5, <2>1, <2>3 DEF PushCWD_Chdir, PopSaved, Return
    <3>2. Front(dirstack) = <<>>
      <4>1. dirstack \in Seq(Dir) /\ Len(dirstack) <= 1
        BY <2>1 DEF TypeOK
      <4>2. QED
        BY <4>1, FrontOfOne
    <3>3. Pushed'
      BY <1>1, <2>1, <3>1, <3>2 DEF Pushed, Returning, AtStart
    <3>4. QED
      BY <1>1, <2>1, <3>1, <3>3 DEF StartCourse
  <2>4. QED
    BY <2>2, <2>3
<1>6. CASE PushCWD_Refresh
  <2>1. /\ pc = "refresh" /\ mpc = "set_check" /\ spc = "started" /\ dirstack = <<Start>> /\ Visiting
        /\ UNCHANGED <<dirstack, sysCwd, present>>
        /\ pc' = "idle" /\ ret' # NULL
    BY <1>2, <1>6 DEF PushCWD_Refresh, At, MainCalls, SetPoints, StartCourse, fsVars, Return, Running
  <2>2. Pushed'
    BY <1>1, <2>1 DEF Pushed, Visiting
  <2>3. QED
    BY <1>1, <2>1, <2>2 DEF StartCourse
<1>7. CASE PopCWD_Empty \/ PopCWD_Enter \/ PopCWD_Skip
  <2>1. pc = "pop" /\ mpc = "set_checked" /\ spc = "started" /\ Pushed
    BY <1>2, <1>7 DEF PopCWD_Empty, PopCWD_Enter, PopCWD_Skip, At, MainCalls, SetPoints, StartCourse
  <2>2. CASE dirstack = <<>>
    <3>1. PopCWD_Empty
      BY <1>7, <2>2 DEF PopCWD_Enter, PopCWD_Skip
    <3>2. Returning' /\ pc' = "idle"
      BY <1>1, <2>1, <2>2, <3>1 DEF PopCWD_Empty, Return, Pushed, Returning, fsVars
    <3>3. QED
      BY <1>1, <2>1, <3>2 DEF StartCourse
  <2>3. CASE dirstack # <<>>
    <3>1. dirstack = <<Start>> /\ Visiting /\ Last(dirstack) = Start
      BY <2>1, <2>3 DEF Pushed, Last
    <3>2. CASE PopCWD_Enter
      <4>1. sysCwd' = Start /\ pc' = "idle"
        BY <3>1, <3>2 DEF PopCWD_Enter, Entered, Return
      <4>2. QED
        BY <1>1, <2>1, <4>1 DEF StartCourse, Returning
    <3>3. CASE PopCWD_Skip
      <4>1. ~CanEnter(Start) /\ dirstack' = Front(dirstack) /\ UNCHANGED <<sysCwd, pc>>
        BY <3>1, <3>3 DEF PopCWD_Skip, PopSaved, fsVars
      <4>2. Start \notin present
        BY <4>1, StartAssumption DEF CanEnter, Resolve
      <4>3. Front(dirstack) = <<>>
        <5>1. dirstack \in Seq(Dir) /\ Len(dirstack) <= 1
          BY <3>1 DEF TypeOK
        <5>2. QED
          BY <5>1, FrontOfOne
      <4>4. Pushed'
        BY <1>1, <3>1, <4>1, <4>2, <4>3 DEF Pushed, Visiting, Returning
      <4>5. QED
        BY <1>1, <2>1, <4>1, <4>4 DEF StartCourse
    <3>4. QED
      BY <1>7, <2>3, <3>2, <3>3 DEF PopCWD_Empty
  <2>4. QED
    BY <2>2, <2>3
<1>8. QED
  BY <1>3, <1>4, <1>5, <1>6, <1>7 DEF Steps

LEMMA SettingStartCourse ==
    ASSUME Start \notin Unsearchable, TypeOK, task.path \in Argument, CwdIsThere, CallInv, Running',
           StartCourse, Setting, UNCHANGED serverVars
    PROVE  StartCourse'
<1>1. UNCHANGED <<spc, document_root>> /\ spc = "started" /\ Running /\ MainCalls /\ StackCourse
  BY SettingIsStarted DEF serverVars, mainVars, CallInv
<1>2. CASE Set_Repo
  <2>1. /\ mpc = "set_repo" /\ AtStart /\ UNCHANGED <<sysCwd, directory_current, pc>>
        /\ mpc' \in {"set_enter", "idle"}
    BY <1>2 DEF Set_Repo, In, IsRepo, stack, Goto, Answers, StartCourse
  <2>2. AtStart'
    BY <2>1 DEF AtStart
  <2>3. QED
    BY <1>1, <2>1, <2>2 DEF StartCourse
<1>3. CASE Set_Enter
  <2>1. /\ mpc = "set_enter" /\ mpc' = "set_check" /\ AtStart
        /\ UNCHANGED <<sysCwd, directory_current>>
        /\ \/ pc' = "idle" /\ ret' = NULL
           \/ pc' = "push"
    BY <1>3 DEF Set_Enter, In, Enters, PushCWD_Missing, PushCWD, Return, fsVars, Goto, StartCourse
  <2>2. AtStart'
    BY <2>1 DEF AtStart
  <2>3. QED
    BY <1>1, <2>1, <2>2 DEF StartCourse
<1>4. CASE Set_Check
  <2>1. mpc = "set_check" /\ pc = "idle" /\ UNCHANGED <<sysCwd, present, dirstack, task>>
    BY <1>4 DEF Set_Check, In, At, Still, vars, Leaves, PopCWD, fsVars, Goto
  <2>2. CASE ret = NULL
    <3>1. mpc' = "set_open" /\ AtStart
      BY <1>4, <2>1, <2>2 DEF Set_Check, Goto, StartCourse
    <3>2. Returning'
      BY <2>1, <3>1 DEF AtStart, Returning
    <3>3. QED
      BY <1>1, <3>1, <3>2 DEF StartCourse
  <2>3. CASE ret # NULL
    <3>1. mpc' = "set_checked" /\ pc' = "pop" /\ Pushed
      BY <1>4, <2>1, <2>3 DEF Set_Check, Leaves, PopCWD, Goto, StartCourse
    <3>2. Pushed'
      BY <2>1, <3>1 DEF Pushed, Returning, Visiting
    <3>3. QED
      BY <1>1, <3>1, <3>2 DEF StartCourse
  <2>4. QED
    BY <2>2, <2>3
<1>5. CASE Set_Checked
  <2>1. /\ mpc = "set_checked" /\ pc = "idle" /\ Returning /\ UNCHANGED <<sysCwd, task>>
        /\ mpc' \in {"set_open", "idle"}
    BY <1>5 DEF Set_Checked, In, At, Still, vars, Goto, Answers, StartCourse
  <2>2. Returning'
    BY <2>1 DEF Returning
  <2>3. QED
    BY <1>1, <2>1, <2>2 DEF StartCourse
<1>6. CASE Set_Open
  <2>1. /\ mpc = "set_open" /\ mpc' = "set_opened" /\ Returning /\ task.kind = "set"
        /\ task.path = document_root
    BY <1>1, <1>6 DEF Set_Open, In, Goto, StartCourse, MainCalls, SetPoints
  <2>2. Repo_Open(task.path)
    BY <1>6, <2>1 DEF Set_Open, OpenedPath
  <2>3. gret' = TRUE => /\ srsGit_REPO' = Resolve(task.path) /\ srsGit_REPO_PATH' = NULL
                        /\ IsRepository(Resolve(task.path))
    BY <2>2 DEF Repo_Open, Dies, Running
  <2>4. IsRepository(Resolve(task.path)) => Resolve(task.path) = From(Start, task.path)
    <3> SUFFICES ASSUME IsRepository(Resolve(task.path)) PROVE Resolve(task.path) = From(Start, task.path)
      OBVIOUS
    <3>1. Resolve(task.path) # NULL
      BY NullAssumption DEF IsRepository, TypeOK
    <3>2. QED
      BY <2>1, <3>1, NullAssumption, StartAssumption DEF Resolve, From, Returning
  <2>5. gret' = TRUE => RootOpened'
    BY <1>1, <2>1, <2>3, <2>4 DEF RootOpened
  <2>6. QED
    BY <1>1, <2>1, <2>5 DEF StartCourse
<1>7. CASE Set_Opened
  BY <1>1, <1>7 DEF Set_Opened, Answers, StartCourse
<1>8. CASE Steps /\ UNCHANGED <<gitVars, modelVars>>
  BY <1>8, StepsStartCourse
<1>9. QED
  BY <1>2, <1>3, <1>4, <1>5, <1>6, <1>7, <1>8 DEF Setting

LEMMA StartCourseStep ==
    ASSUME Start \notin Unsearchable, TypeOK, task.path \in Argument, CwdIsThere, CallInv,
           Running => StartCourse, [ServerNext]_everyVar, Running'
    PROVE  StartCourse'
<1>1. Running /\ StartCourse
  BY RunningBefore
<1>2. CASE Setting /\ UNCHANGED serverVars
  BY <1>1, <1>2, SettingStartCourse
<1>3. CASE Removes
  BY <1>1, <1>3, StartCourseRemoves
<1>4. CASE StartRoot \/ CloseRoot
  <2>1. AtStart /\ mpc' = "set_repo" => AtStart'
    BY <1>4, RootCalled DEF AtStart
  <2>2. spc = "set_root" => AtStart
    BY <1>1 DEF StartCourse
  <2>3. mpc' = "set_repo" => spc = "set_root"
    BY <1>4, RootCalled
  <2>4. QED
    BY <1>4, <2>1, <2>2, <2>3, RootCalled DEF StartCourse
<1>5. ASSUME UNCHANGED <<sysCwd, directory_current>>, spc' = spc \/ spc' \notin {"options", "set_root"},
             spc' = "bind" => spc = "options", ModelRests
      PROVE  StartCourse'
  <2>1. mpc' = "idle" /\ (AtStart => AtStart')
    BY <1>5 DEF ModelRests, AtStart
  <2>2. QED
    BY <1>1, <1>5, <2>1 DEF StartCourse
<1>6. CASE Bind
  <2>1. /\ spc = "bind" /\ UNCHANGED <<sysCwd, directory_current>> /\ ModelRests
    BY <1>6, OutsideRests DEF Bind, Main, Logs, stack
  <2>2. mpc' = "idle" /\ AtStart'
    BY <1>1, <2>1 DEF ModelRests, AtStart, StartCourse
  <2>3. QED
    BY <2>2 DEF StartCourse
<1>7. CASE Options \/ Fails \/ Started \/ Poll \/ EndPoll \/ ReadAt \/ ReadSchedule \/ CloseLog
  <2>1. UNCHANGED <<sysCwd, directory_current>> /\ ModelRests
    BY <1>7, OutsideRests DEF Options, Fails, Started, Poll, EndPoll, ReadAt, ReadSchedule, Going,
       CloseLog, Logs, Still, vars, stack
  <2>2. \/ spc' = spc \/ spc' \notin {"options", "bind", "set_root"}
        \/ spc = "options" /\ spc' = "bind"
    BY <1>7 DEF Options, Fails, Started, Poll, EndPoll, ReadAt, ReadSchedule, Going, CloseLog, Main,
       WhilePolls, mainVars
  <2>3. CASE spc' = "bind" /\ spc = "bind"
    <3>1. mpc' = "idle" /\ AtStart'
      BY <1>1, <2>1, <2>3 DEF ModelRests, AtStart, StartCourse
    <3>2. QED
      BY <3>1 DEF StartCourse
  <2>4. QED
    BY <1>5, <2>1, <2>2, <2>3
<1>8. ASSUME NEW c \in Client, HandlePlain(c) \/ HandleGetNextCard(c) PROVE StartCourse'
  <2>1. spc \in Polls /\ UNCHANGED spc /\ ModelRests
    BY <1>8, OutsideRests DEF HandlePlain, HandleGetNextCard, Takes, Main, Polls
  <2>2. QED
    BY <2>1 DEF ModelRests, Polls, StartCourse
<1>9. CASE UNCHANGED everyVar \/ (\E c \in Client : Sends(c)) \/ (\E d \in Dir : EditorWrites(d))
  <2>1. /\ UNCHANGED <<mpc, task, dirstack, pc, ret, directory_current, spc, document_root>>
        /\ UNCHANGED <<srsGit_REPO, srsGit_REPO_PATH, gret>>
    BY <1>9, OthersRest
  <2>2. UNCHANGED <<sysCwd, present>>
    BY <1>9 DEF everyVar, all, vars, Sends, EditorWrites
  <2>3. QED
    BY <1>1, <2>1, <2>2 DEF StartCourse, AtStart, Visiting, Returning, Pushed, RootOpened
<1>10. QED
  BY <1>2, <1>3, <1>4, <1>6, <1>7, <1>8, <1>9 DEF ServerNext, Program

-----------------------------------------------------------------------------
(* Whom the server serves, and with which root.                            *)

HasRoot    == /\ srsModel_ROOT_PATH = From(Start, document_root) /\ srsGit_REPO = srsModel_ROOT_PATH
              /\ document_root # NULL => srsModel_ROOT_PATH # NULL
Touched(c) == conn[c] \in {"open", "answered", "ignored"}

\* No connection is taken before the root is known to be set.
Unserved == spc \in {"options", "bind", "set_root", "started"} => \A c \in Client : ~Touched(c)

RootSet == /\ spc = "started" /\ mpc = "idle" /\ mret = "OK" => HasRoot
           /\ spc = "loop" /\ ~kill_me_now => HasRoot
           /\ spc = "poll" => HasRoot
           /\ spc \in {"loop", "last_poll"} /\ (\E c \in Client : Touched(c)) => HasRoot

\* The request being handled in parts is for a deck, and the root that was
\* answered is the one that was named.
AnswersInv == /\ serving # NULL => request[serving].kind = "card/next"
              /\ \A c \in Client : request[c].kind = "model-root" /\ answer[c].code # 0 =>
                   answer[c].root = From(Start, document_root)

\* A step that neither takes a connection nor answers one.
LEMMA NobodyServed ==
    ASSUME Unserved, spc' = spc \/ spc \in {"options", "bind", "set_root", "started"}, UNCHANGED conn
    PROVE  Unserved'
  BY DEF Unserved, Touched

LEMMA UnservedStep ==
    ASSUME ServerTypes, Unserved, [ServerNext]_everyVar
    PROVE  Unserved'
<1>1. CASE Options \/ Fails \/ Bind \/ StartRoot \/ Started
  BY <1>1, NobodyServed DEF Options, Fails, Bind, StartRoot, Started, Main, clients
<1>2. CASE Setting /\ UNCHANGED serverVars
  BY <1>2, NobodyServed DEF serverVars, mainVars, clients
<1>3. CASE Poll \/ EndPoll \/ CloseRoot \/ CloseLog
  BY <1>3 DEF Poll, EndPoll, CloseRoot, CloseLog, Main, WhilePolls, Unserved
<1>4. ASSUME NEW c \in Client, HandlePlain(c) \/ HandleGetNextCard(c) PROVE Unserved'
  BY <1>4 DEF HandlePlain, HandleGetNextCard, Takes, Main, Unserved
<1>5. CASE ReadAt \/ ReadSchedule
  BY <1>5 DEF ReadAt, ReadSchedule, Going, mainVars, ServerTypes, Handled, Polls, Unserved
<1>6. CASE Removes \/ UNCHANGED everyVar \/ \E d \in Dir : EditorWrites(d)
  BY <1>6, NobodyServed DEF Removes, everyVar, serverVars, EditorWrites, mainVars, clients
<1>7. ASSUME NEW c \in Client, Sends(c) PROVE Unserved'
  <2>1. UNCHANGED spc /\ conn' = [conn EXCEPT ![c] = "knocking"]
    BY <1>7 DEF Sends, mainVars
  <2>2. \A e \in Client : Touched(e)' => Touched(e)
    BY <2>1 DEF ServerTypes, Touched
  <2>3. QED
    BY <2>1, <2>2 DEF Unserved
<1>8. QED
  BY <1>1, <1>2, <1>3, <1>4, <1>5, <1>6, <1>7 DEF ServerNext, Program

\* The root stays as it is while the server polls.
LEMMA RootStays ==
    ASSUME HasRoot, UNCHANGED <<srsModel_ROOT_PATH, srsGit_REPO, document_root>>
    PROVE  HasRoot' /\ RootSet'
<1>1. HasRoot'
  BY DEF HasRoot
<1>2. QED
  BY <1>1 DEF RootSet

LEMMA RootSetWaits ==
    ASSUME RootSet, UNCHANGED <<srsModel_ROOT_PATH, srsGit_REPO, document_root>>,
           UNCHANGED <<spc, mpc, mret, kill_me_now>>,
           \A c \in Client : Touched(c)' => Touched(c)
    PROVE  RootSet'
<1>1. HasRoot => HasRoot'
  BY DEF HasRoot
<1>2. QED
  BY <1>1 DEF RootSet

\* The root is set when SetRoot has opened it.
LEMMA SettingRootSet ==
    ASSUME CallInv, StartCourse, Setting, UNCHANGED serverVars, Running'
    PROVE  RootSet'
<1>1. UNCHANGED <<spc, document_root>> /\ spc = "started" /\ Running /\ MainCalls
  BY SettingIsStarted DEF serverVars, mainVars, CallInv
<1>2. CASE Set_Opened /\ gret = TRUE
  <2>1. PICK current \in CurrentPath : /\ srsModel_ROOT_PATH' = current /\ UNCHANGED srsGit_REPO
                                       /\ current # NULL
    BY <1>2 DEF Set_Opened, Running
  <2>2. srsGit_REPO = From(Start, document_root) /\ srsGit_REPO_PATH = NULL
    BY <1>2 DEF Set_Opened, In, StartCourse, RootOpened
  <2>3. current = srsGit_REPO
    BY <2>1, <2>2 DEF CurrentPath
  <2>4. HasRoot'
    BY <1>1, <2>1, <2>2, <2>3 DEF HasRoot
  <2>5. QED
    BY <2>4 DEF RootSet
<1>3. mpc' = "idle" => (Set_Opened /\ gret = TRUE) \/ mret' = "FAIL"
  <2>1. CASE Set_Repo \/ Set_Enter \/ Set_Check \/ Set_Checked \/ Set_Open \/ Set_Opened
    BY <2>1 DEF Set_Repo, Set_Enter, Set_Check, Set_Checked, Set_Open, Set_Opened, Goto, Answers
  <2>2. CASE Steps /\ UNCHANGED <<gitVars, modelVars>>
    <3>1. pc # "idle" /\ UNCHANGED mpc
      BY <2>2 DEF Steps, SetCWD_Refresh, PushCWD_Save, PushCWD_Chdir, PushCWD_Refresh, PopCWD_Empty,
         PopCWD_Enter, PopCWD_Skip, At, modelVars
    <3>2. QED
      BY <1>1, <3>1 DEF MainCalls
  <2>3. QED
    BY <2>1, <2>2 DEF Setting
<1>4. QED
  BY <1>1, <1>2, <1>3 DEF RootSet

LEMMA RootSetStep ==
    ASSUME ServerTypes, CallInv, StartCourse, Unserved, RootSet, [ServerNext]_everyVar, Running'
    PROVE  RootSet'
<1>1. CASE Options \/ Fails \/ Bind \/ CloseRoot \/ CloseLog
  BY <1>1 DEF Options, Fails, Bind, CloseRoot, CloseLog, RootSet
<1>2. CASE StartRoot
  <2>1. spc' = "started"
    BY <1>2 DEF StartRoot
  <2>2. CASE document_root = NULL
    <3>1. srsModel_ROOT_PATH' = NULL /\ srsGit_REPO' = NULL /\ document_root' = NULL
      BY <1>2, <2>1, <2>2, RootCalled
    <3>2. QED
      BY <2>1, <3>1, NullAssumption DEF RootSet, HasRoot, From
  <2>3. CASE document_root # NULL
    <3>1. mpc' = "idle" => mret' = "FAIL"
      BY <1>2, <2>1, <2>3, RootCalled
    <3>2. QED
      BY <2>1, <3>1 DEF RootSet
  <2>4. QED
    BY <2>2, <2>3
<1>3. CASE Started
  <2>1. /\ spc = "started" /\ mpc = "idle" /\ spc' = "loop" /\ kill_me_now' = (mret # "OK")
        /\ UNCHANGED <<conn, document_root, srsModel_ROOT_PATH, srsGit_REPO>>
    BY <1>3 DEF Started, Main, In, Kills, Still, gitVars, git, modelVars, clients
  <2>2. \A c \in Client : ~Touched(c)'
    BY <2>1 DEF Unserved, Touched
  <2>3. mret = "OK" => HasRoot'
    BY <2>1 DEF RootSet, HasRoot
  <2>4. QED
    BY <2>1, <2>2, <2>3 DEF RootSet
<1>4. CASE Setting /\ UNCHANGED serverVars
  BY <1>4, SettingRootSet
<1>5. CASE Poll
  <2>1. /\ spc = "loop" /\ spc' = (IF kill_me_now THEN "last_poll" ELSE "poll")
        /\ UNCHANGED <<document_root, srsModel_ROOT_PATH, srsGit_REPO>>
        /\ \A c \in Client : conn'[c] = IF conn[c] = "knocking"
                                        THEN IF kill_me_now THEN "late" ELSE "open"
                                        ELSE conn[c]
    BY <1>5 DEF Poll, Main, WhilePolls, Still, gitVars, git, modelVars
  <2>2. CASE HasRoot
    BY <2>1, <2>2, RootStays
  <2>3. CASE ~HasRoot
    <3>1. kill_me_now /\ \A c \in Client : ~Touched(c)
      BY <2>1, <2>3 DEF RootSet
    <3>2. \A c \in Client : ~Touched(c)'
      BY <2>1, <3>1 DEF Touched
    <3>3. QED
      BY <2>1, <3>1, <3>2 DEF RootSet
  <2>4. QED
    BY <2>2, <2>3
<1>6. CASE EndPoll
  <2>1. /\ spc \in Polls /\ spc' = (IF spc = "poll" THEN "loop" ELSE "close_root")
        /\ UNCHANGED <<document_root, srsModel_ROOT_PATH, srsGit_REPO>>
    BY <1>6 DEF EndPoll, Main, Polls, Still, gitVars, git, modelVars
  <2>2. CASE spc = "poll"
    BY <2>1, <2>2, RootStays DEF RootSet
  <2>3. CASE spc # "poll"
    BY <2>1, <2>3 DEF RootSet
  <2>4. QED
    BY <2>2, <2>3
<1>7. ASSUME NEW c \in batch, spc \in Polls,
             UNCHANGED <<document_root, srsModel_ROOT_PATH, srsGit_REPO>>
      PROVE  RootSet'
  <2>1. c \in Client /\ Touched(c)
    BY <1>7 DEF ServerTypes, Handled, Touched
  <2>2. QED
    BY <1>7, <2>1, RootStays DEF RootSet, Polls
<1>8. ASSUME NEW c \in Client, HandlePlain(c) \/ HandleGetNextCard(c) PROVE RootSet'
  BY <1>7, <1>8 DEF HandlePlain, HandleGetNextCard, Takes, Main, Polls, Still, gitVars, git, modelVars
<1>9. CASE ReadAt \/ ReadSchedule
  <2>1. serving \in batch /\ spc \in Polls
    BY <1>9 DEF ReadAt, ReadSchedule, Going, ServerTypes, Handled
  <2>2. UNCHANGED <<document_root, srsModel_ROOT_PATH, srsGit_REPO>>
    BY <1>9 DEF ReadAt, ReadSchedule, Going, Still, gitVars, git, modelVars, mainVars
  <2>3. QED
    BY <1>7, <2>1, <2>2
<1>10. ASSUME NEW c \in Client, Sends(c) PROVE RootSet'
  <2>1. conn' = [conn EXCEPT ![c] = "knocking"]
    BY <1>10 DEF Sends
  <2>2. \A e \in Client : Touched(e)' => Touched(e)
    BY <2>1 DEF ServerTypes, Touched
  <2>3. QED
    BY <1>10, <2>2, OthersRest, RootSetWaits
<1>11. CASE Removes \/ UNCHANGED everyVar \/ \E d \in Dir : EditorWrites(d)
  <2>1. UNCHANGED conn
    BY <1>11 DEF Removes, everyVar, serverVars, EditorWrites, clients
  <2>2. \A e \in Client : Touched(e)' => Touched(e)
    BY <2>1 DEF Touched
  <2>3. QED
    BY <1>11, <2>2, OthersRest, RootSetWaits
<1>12. QED
  BY <1>1, <1>2, <1>3, <1>4, <1>5, <1>6, <1>8, <1>9, <1>10, <1>11 DEF ServerNext, Program

\* The replies on the way.
LEMMA AnswersStay ==
    ASSUME AnswersInv, UNCHANGED <<serving, request, answer, document_root>>
    PROVE  AnswersInv'
  BY DEF AnswersInv

\* A reply names no root, or the one the server has.
LEMMA AnswersOne ==
    ASSUME ServerTypes, AnswersInv, NEW c \in batch, NEW reply, Responds(c, reply), spc \in Polls,
           UNCHANGED <<spc, document_root, log, request>>, kill_me_now' \in BOOLEAN,
           reply.code \in Replies,
           request[c].kind = "model-root" => reply.root = From(Start, document_root)
    PROVE  AnswersInv'
<1>1. \A e \in Client : answer'[e] = IF e = c THEN reply ELSE answer[e]
  BY RespondsStep
<1>2. serving' = NULL
  BY DEF Responds
<1>3. QED
  BY <1>1, <1>2 DEF AnswersInv

LEMMA AnswersInvStep ==
    ASSUME ServerTypes, CallInv, Unserved, Running => RootSet, AnswersInv, [ServerNext]_everyVar
    PROVE  AnswersInv'
<1>1. CASE Options
  <2>1. \A c \in Client : answer[c].code = 0
    BY <1>1 DEF Options, Main, Unserved, Touched, ServerTypes, AnswersFit
  <2>2. UNCHANGED <<serving, request, answer>>
    BY <1>1 DEF Options, clients, handling
  <2>3. QED
    BY <2>1, <2>2 DEF AnswersInv
<1>2. CASE Fails \/ Bind \/ StartRoot \/ Started \/ Poll \/ EndPoll \/ CloseRoot \/ CloseLog
  BY <1>2, AnswersStay DEF Fails, Bind, StartRoot, Started, Poll, EndPoll, CloseRoot, CloseLog,
     clients, handling
<1>3. CASE (Setting /\ UNCHANGED serverVars) \/ Removes \/ UNCHANGED everyVar
           \/ \E d \in Dir : EditorWrites(d)
  BY <1>3, AnswersStay DEF Removes, everyVar, EditorWrites, serverVars, mainVars, clients, handling
<1>4. ASSUME NEW c \in Client, HandlePlain(c) PROVE AnswersInv'
  <2>1. /\ spc \in Polls /\ Running /\ c \in batch /\ serving = NULL /\ kill_me_now' \in BOOLEAN
        /\ UNCHANGED <<spc, document_root, log, request>>
    BY <1>4 DEF HandlePlain, Takes, Main, In, At, Polls, Running, ServerTypes
  <2>2. srsModel_ROOT_PATH = From(Start, document_root)
    <3>1. Touched(c)
      BY <2>1 DEF ServerTypes, Handled, Touched
    <3>2. QED
      BY <2>1, <3>1 DEF RootSet, Polls, HasRoot
  <2>3. CASE request[c].kind = "printcontent"
    BY <1>4, <2>1, <2>3, AnswersStay DEF HandlePlain
  <2>4. CASE request[c].kind = "model-root"
    <3> DEFINE reply == [NoAnswer EXCEPT !.code = 200, !.root = srsModel_ROOT_PATH]
    <3>1. Responds(c, reply)
      BY <1>4, <2>4 DEF HandlePlain
    <3>2. reply.code \in Replies /\ reply.root = From(Start, document_root)
      BY <2>2 DEF NoAnswer, Replies
    <3> HIDE DEF reply
    <3>3. QED
      BY <2>1, <3>1, <3>2, AnswersOne
  <2>5. CASE request[c].kind \notin {"printcontent", "model-root"}
    <3> DEFINE reply == [NoAnswer EXCEPT !.code = 200]
    <3>1. Responds(c, reply)
      BY <1>4, <2>5 DEF HandlePlain
    <3>2. reply.code \in Replies
      BY DEF NoAnswer, Replies
    <3> HIDE DEF reply
    <3>3. QED
      BY <2>1, <2>5, <3>1, <3>2, AnswersOne
  <2>6. QED
    BY <2>3, <2>4, <2>5
<1>5. ASSUME NEW c \in Client, HandleGetNextCard(c) PROVE AnswersInv'
  <2>1. /\ spc \in Polls /\ c \in batch /\ kill_me_now' \in BOOLEAN
        /\ request[c].kind = "card/next"
        /\ UNCHANGED <<spc, document_root, log, request>>
    BY <1>5 DEF HandleGetNextCard, Takes, Main, Polls, ServerTypes
  <2>2. CASE Dir_Exists(request[c].deck)
    BY <1>5, <2>1, <2>2 DEF HandleGetNextCard, AnswersInv
  <2>3. CASE ~Dir_Exists(request[c].deck)
    <3> DEFINE reply == [NoAnswer EXCEPT !.code = 400]
    <3>1. Responds(c, reply)
      BY <1>5, <2>3 DEF HandleGetNextCard
    <3>2. reply.code \in Replies
      BY DEF NoAnswer, Replies
    <3> HIDE DEF reply
    <3>3. QED
      BY <2>1, <3>1, <3>2, AnswersOne
  <2>4. QED
    BY <2>2, <2>3
<1>6. CASE ReadAt \/ ReadSchedule
  <2>1. /\ serving \in batch /\ spc \in Polls /\ kill_me_now' \in BOOLEAN
        /\ request[serving].kind = "card/next"
        /\ UNCHANGED <<spc, document_root, log, request>>
    BY <1>6 DEF ReadAt, ReadSchedule, Going, mainVars, ServerTypes, Handled, AnswersInv
  <2>2. ASSUME NEW reply, Responds(serving, reply), reply.code \in Replies PROVE AnswersInv'
    BY <2>1, <2>2, AnswersOne
  <2>3. CASE ReadAt
    <3>1. \/ UNCHANGED <<answer, serving>>
          \/ Responds(serving, [NoAnswer EXCEPT !.code = 500])
      BY <2>3 DEF ReadAt
    <3>2. [NoAnswer EXCEPT !.code = 500].code \in Replies
      BY DEF NoAnswer, Replies
    <3>3. QED
      BY <2>1, <2>2, <3>1, <3>2, AnswersStay
  <2>4. CASE ReadSchedule
    <3>1. PICK card : \/ Responds(serving, [NoAnswer EXCEPT !.code = 200, !.card = card])
                      \/ Responds(serving, [NoAnswer EXCEPT !.code = 500])
      BY <2>4 DEF ReadSchedule
    <3>2. /\ [NoAnswer EXCEPT !.code = 200, !.card = card].code \in Replies
          /\ [NoAnswer EXCEPT !.code = 500].code \in Replies
      BY DEF NoAnswer, Replies
    <3>3. QED
      BY <2>2, <3>1, <3>2
  <2>5. QED
    BY <1>6, <2>3, <2>4
<1>7. ASSUME NEW c \in Client, Sends(c) PROVE AnswersInv'
  <2>1. PICK r : request' = [request EXCEPT ![c] = r]
    BY <1>7 DEF Sends
  <2>2. /\ conn[c] \in {"none", "answered"} /\ answer' = [answer EXCEPT ![c] = NoAnswer]
        /\ UNCHANGED <<serving, document_root>>
    BY <1>7 DEF Sends, mainVars, handling
  <2>3. \A e \in Client : /\ answer'[e] = IF e = c THEN NoAnswer ELSE answer[e]
                          /\ e # c => request'[e] = request[e]
    BY <2>1, <2>2 DEF ServerTypes, AnswersFit
  <2>4. serving # NULL => serving \in Client /\ serving # c
    BY <2>2 DEF ServerTypes, Handled
  <2>5. NoAnswer.code = 0
    BY DEF NoAnswer
  <2>6. QED
    BY <2>2, <2>3, <2>4, <2>5 DEF AnswersInv
<1>8. QED
  BY <1>1, <1>2, <1>3, <1>4, <1>5, <1>6, <1>7 DEF ServerNext, Program

-----------------------------------------------------------------------------
(* The theorems.                                                           *)

ServerInv == Base /\ CallTypes /\ ServerTypes /\ CallInv /\ CwdIsThere /\ Unserved /\ EndInv

RootServed == (Running => StartCourse /\ RootSet) /\ AnswersInv

LEMMA ServerInvInit ==
    ASSUME ServerInit
    PROVE  ServerInv /\ RootServed
<1>1. ModelInit /\ Base
  BY BaseInit DEF ServerInit
<1>2. /\ present = Dir /\ sysCwd = Start /\ directory_current = NULL /\ dirstack = <<>> /\ owed = <<>>
      /\ pc = "idle" /\ mpc = "idle" /\ spc = "options" /\ log = "none"
  BY DEF ServerInit, ModelInit, GitInit, Init
<1>3. CallTypes
  <2>1. okay = FALSE /\ meddled = FALSE /\ changes = 0 /\ mret = "none" /\ error = "none" /\ calls = 0
    BY <1>1 DEF ModelInit
  <2>2. calls \in 0..MaxCalls /\ changes \in 0..MaxChanges
    BY <2>1, MaxCallsAssumption, ChangesAssumption
  <2>3. QED
    BY <2>1, <2>2 DEF CallTypes
<1>4. ServerTypes
  <2>1. AnswersFit /\ Handled
    BY DEF ServerInit, AnswersFit, Handled, NoAnswer
  <2>2. conn \in [Client -> Fates] /\ request \in [Client -> Request \cup {NoRequest}]
    BY DEF ServerInit, Fates
  <2>3. QED
    BY <2>1, <2>2 DEF ServerInit, ServerTypes, Points, Argument
<1>5. CallInv
  BY <1>2 DEF CallInv, MainCalls, StackCourse, SetPoints, NothingSaved
<1>6. CwdIsThere /\ EndInv
  BY <1>2, StartAssumption DEF CwdIsThere, EndInv
<1>7. Unserved
  BY DEF ServerInit, Unserved, Touched
<1>8. StartCourse /\ RootSet
  BY <1>2 DEF StartCourse, AtStart, RootSet
<1>9. AnswersInv
  BY DEF ServerInit, AnswersInv, NoAnswer
<1>10. QED
  BY <1>1, <1>3, <1>4, <1>5, <1>6, <1>7, <1>8, <1>9 DEF ServerInv, RootServed

LEMMA ServerInvStep == ServerInv /\ [ServerNext]_everyVar => ServerInv'
<1> SUFFICES ASSUME ServerInv, [ServerNext]_everyVar PROVE ServerInv'
  OBVIOUS
<1>1. /\ Base /\ CallTypes /\ ServerTypes /\ CallInv /\ CwdIsThere /\ Unserved /\ EndInv
      /\ TypeOK /\ document_root \in Argument
  BY DEF ServerInv, Base, IInv, ServerTypes
<1>2. ModelPart
  BY <1>1, ServerModelPart
<1>3. Base' /\ CallTypes'
  BY <1>1, <1>2, ServerBaseStep, CallTypesStep
<1>4. ServerTypes' /\ CallInv' /\ CwdIsThere' /\ Unserved' /\ EndInv'
  BY <1>1, ServerTypesStep, CallInvStep, CwdIsThereStep, UnservedStep, EndInvStep
<1>5. QED
  BY <1>3, <1>4 DEF ServerInv

LEMMA RootServedStep ==
    ASSUME Start \notin Unsearchable
    PROVE  ServerInv /\ RootServed /\ [ServerNext]_everyVar => RootServed'
<1> SUFFICES ASSUME ServerInv, RootServed, [ServerNext]_everyVar PROVE RootServed'
  OBVIOUS
<1>1. /\ ServerTypes /\ CallInv /\ CwdIsThere /\ Unserved /\ TypeOK /\ task.path \in Argument
  BY DEF ServerInv, Base, IInv, ModelTypes
<1>2. Running' => Running
  BY RunningBefore
<1>3. Running' => StartCourse'
  BY <1>1, StartCourseStep DEF RootServed
<1>4. Running' => RootSet'
  BY <1>1, <1>2, RootSetStep DEF RootServed
<1>5. AnswersInv'
  BY <1>1, AnswersInvStep DEF RootServed
<1>6. QED
  BY <1>3, <1>4, <1>5 DEF RootServed

LEMMA ServerInvAlways == ServerSpec => []ServerInv
  BY ServerInvInit, ServerInvStep, PTL DEF ServerSpec

\* ServerTypeOK: among the types, that only connections which are open wait for
\* the poll, that a request handled in parts is one of them, and that a
\* connection counts as answered exactly when it has an answer.
THEOREM ServerTypesHold == ServerSpec => []ServerTypeOK
<1>1. ServerInv => ServerTypeOK
  <2> SUFFICES ASSUME ServerInv PROVE ServerTypeOK
    OBVIOUS
  <2>1. Base /\ CallTypes /\ ServerTypes
    BY DEF ServerInv
  <2>2. ModelTypeOK /\ GitTypeOK
    BY <2>1 DEF Base, IInv, ModelTypes, CallTypes, GitInv, ModelTypeOK
  <2>3. QED
    BY <2>1, <2>2 DEF ServerTypes, AnswersFit, Handled, Points, Fates, Replies, ServerTypeOK
<1>2. QED
  BY <1>1, ServerInvAlways, PTL

\* ExitsClean: a server that ends has dealt with every connection it had taken,
\* the exit's own poll included, and has let go of its root, its repository and
\* the directories it saved before it closes the log.
THEOREM AlwaysExitsClean == ServerSpec => []ExitsClean
<1>1. ServerInv => ExitsClean
  BY DEF ServerInv, CallInv, EndInv, ServerTypes, Handled, Polls, MainCalls, SetPoints, StackCourse,
     NothingSaved, ExitsClean
<1>2. QED
  BY <1>1, ServerInvAlways, PTL

\* ServesItsRoot: a server that answers has the root it was started with, if it
\* was started with one, and none otherwise, and the open repository is that
\* root's, whatever was removed or failed while SetRoot visited it. The process can search the directory it was started in:
\* the model reads relative names in one it cannot search.
THEOREM AlwaysServesItsRoot ==
    ASSUME Start \notin Unsearchable
    PROVE  ServerSpec => []ServesItsRoot
<1>1. ServerInv /\ RootServed => ServesItsRoot
  <2> SUFFICES ASSUME ServerInv, RootServed, spc \in Polls, Running,
                      NEW c \in Client, answer[c].code # 0
               PROVE  HasRoot
    BY NullAssumption DEF ServesItsRoot, Polls, Running, RootServed, AnswersInv, HasRoot, From
  <2>1. Touched(c)
    BY DEF ServerInv, ServerTypes, AnswersFit, Touched
  <2>2. QED
    BY <2>1 DEF RootServed, RootSet, Polls
<1>2. ServerInit => RootServed
  BY ServerInvInit
<1>3. ServerSpec => []RootServed
  BY <1>2, RootServedStep, ServerInvAlways, PTL DEF ServerSpec
<1>4. QED
  BY <1>1, <1>3, ServerInvAlways, PTL
=============================================================================
