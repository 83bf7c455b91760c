-------------------------------- MODULE Server --------------------------------
(***************************************************************************)
(* The REST server (src/server/main.c): it sets the model root, answers    *)
(* the requests of each poll of its connections one after the other until  *)
(* one of them sets the kill flag, and cleans up the root and the log      *)
(* (src/src/log.c).  Clients send at any time; editors rewrite, and remove,*)
(* decks between the reads of a request.  mongoose is external: a poll     *)
(* takes the connections that wait and handles what has come on those it   *)
(* took before, and mg_mgr_free polls a last time.                         *)
(***************************************************************************)
EXTENDS ModelRoot, NextCard

CONSTANTS
    Client,         \* connections, each with one request at a time
    DocumentRoots,  \* paths of the document root; NULL without -d or directory
    Decks,          \* values of the query variable "deck"
    InitialStudy,   \* what .at and .schedule may hold, in every directory
    Edits,          \* what editors make of them
    CARD_ID_MAX,    \* srsMODEL_CARD_ID_MAX
    LogOutcome,     \* whether the log file can be opened
    MaxRequests     \* bound: requests

ASSUME RootsAssumption  == DocumentRoots \subseteq Argument /\ Decks \subseteq Argument
ASSUME ServerAssumption == CARD_ID_MAX \in Nat /\ MaxRequests \in Nat /\ LogOutcome \subseteq BOOLEAN
ASSUME StudyAssumption  == \A s \in InitialStudy : DOMAIN s = Dir

VARIABLES
    spc,            \* where main is, "exited" or "failed" at its end
    document_root,  \* of s_http_server_opts
    kill_me_now,
    log,            \* the log handle: "none", "open", "closed"
    conn,           \* what has become of each connection
    request,        \* its request
    answer,         \* the answer to it
    batch,          \* the connections whose requests this poll handles
    serving,        \* the connection whose request is being handled, or NULL
    line,           \* the line number read from .at, 0 before that
    study,          \* .at and .schedule of every directory
    requests,       \* history: requests so far
    asked           \* history: changes when the handling of a deck began

clients    == <<conn, request, answer>>
handling   == <<batch, serving, line>>
mainVars   == <<spc, document_root, kill_me_now, log>>
serverVars == <<mainVars, clients, handling, study, requests, asked>>

NoAnswer == [code |-> 0, card |-> <<>>, root |-> NULL]
NoStudy  == [at |-> Missing, schedule |-> Missing]
Plain    == {"exit", "version", "model-root", "printcontent"}
Request  == {[kind |-> k, deck |-> NULL] : k \in Plain} \cup
            {[kind |-> "card/next", deck |-> d] : d \in Decks}
NoRequest == [kind |-> "none", deck |-> NULL]

ServerInit == /\ ModelInit
              /\ spc = "options"
              /\ document_root = NULL
              /\ kill_me_now = FALSE
              /\ log = "none"
              /\ conn = [c \in Client |-> "none"]
              /\ request = [c \in Client |-> NoRequest]
              /\ answer = [c \in Client |-> NoAnswer]
              /\ batch = {} /\ serving = NULL /\ line = 0
              /\ study \in InitialStudy
              /\ requests = 0
              /\ asked = 0

\* main goes on: no call of the model is running.
Main(p) == spc = p /\ In("idle")

-----------------------------------------------------------------------------
(* Start                                                                   *)

\* srsLog_GetHandle opens the log once; writing to a handle that could not be
\* opened crashes.
Logs == \E ok \in LogOutcome :
          /\ log' = IF ok THEN "open" ELSE "none"
          /\ status' = IF ok THEN status ELSE "crashed"
          /\ UNCHANGED <<present, stack, gitVars, modelVars>>

Options ==
    /\ Main("options")
    /\ document_root' \in DocumentRoots
    /\ spc' = "bind"
    /\ Still
    /\ UNCHANGED <<kill_me_now, log, clients, handling, study, requests, asked, modelVars>>

\* An unknown option, or a port that cannot be bound: exit(1).
Fails ==
    /\ Main("options") \/ Main("bind")
    /\ Logs
    /\ spc' = "failed"
    /\ UNCHANGED <<document_root, kill_me_now, clients, handling, study, requests, asked>>

Bind ==
    /\ Main("bind")
    /\ Logs
    /\ spc' = "set_root"
    /\ UNCHANGED <<document_root, kill_me_now, clients, handling, study, requests, asked>>

StartRoot ==
    /\ Main("set_root")
    /\ IF document_root = NULL THEN SetRoot_None ELSE SetRoot(document_root)
    /\ spc' = "started"
    /\ UNCHANGED <<document_root, kill_me_now, log, clients, handling, study, requests, asked>>

Kills_Never(result) == FALSE
Kills(result) == result # "OK"
Started ==
    /\ Main("started")
    /\ kill_me_now' = Kills(mret)
    /\ spc' = "loop"
    /\ Still
    /\ UNCHANGED <<document_root, log, clients, handling, study, requests, asked, modelVars>>

-----------------------------------------------------------------------------
(* mg_mgr_poll: the requests on the connections that are open are handled, *)
(* and the connections that wait are opened.  A connection opened by the   *)
(* last poll is late.                                                      *)

WhilePolls_Ever(kill) == "poll"
WhilePolls(kill) == IF kill THEN "last_poll" ELSE "poll"
Poll ==
    /\ Main("loop")
    /\ spc' = WhilePolls(kill_me_now)
    /\ batch' = {c \in Client : conn[c] = "open"}
    /\ conn' = [c \in Client |-> IF conn[c] = "knocking"
                                 THEN IF kill_me_now THEN "late" ELSE "open"
                                 ELSE conn[c]]
    /\ Still
    /\ UNCHANGED <<document_root, kill_me_now, log, request, answer, serving, line, study,
                   requests, asked, modelVars>>

Polled_AtOnce == kill_me_now \/ batch = {}
Polled == batch = {}
EndPoll ==
    /\ Main("poll") \/ Main("last_poll")
    /\ serving = NULL /\ Polled
    /\ spc' = IF spc = "poll" THEN "loop" ELSE "close_root"
    /\ Still
    /\ UNCHANGED <<document_root, kill_me_now, log, clients, handling, study, requests, asked,
                   modelVars>>

-----------------------------------------------------------------------------
(* ev_handler                                                              *)

Takes(c, kinds) ==
    /\ Main("poll") \/ Main("last_poll")
    /\ serving = NULL
    /\ c \in batch
    /\ request[c].kind \in kinds
    /\ UNCHANGED <<spc, document_root, log, request, study, requests, modelVars>>

\* rest_respond
Responds_GoesOn(c, reply) == /\ answer' = [answer EXCEPT ![c] = reply]
                             /\ conn' = [conn EXCEPT ![c] = "answered"]
                             /\ batch' = batch \ {c}
                             /\ UNCHANGED serving /\ line' = 0
Responds(c, reply) == /\ answer' = [answer EXCEPT ![c] = reply]
                      /\ conn' = [conn EXCEPT ![c] = "answered"]
                      /\ batch' = batch \ {c}
                      /\ serving' = NULL /\ line' = 0

\* Nobody answers a "/printcontent".  Any other URI is left to mongoose.
HandlePlain(c) ==
    /\ Takes(c, Plain)
    /\ CASE request[c].kind = "printcontent" ->
              /\ conn' = [conn EXCEPT ![c] = "ignored"]
              /\ batch' = batch \ {c}
              /\ UNCHANGED <<answer, serving, line>>
         [] request[c].kind = "model-root" ->
              Responds(c, [NoAnswer EXCEPT !.code = 200, !.root = srsModel_ROOT_PATH])
         [] OTHER -> Responds(c, [NoAnswer EXCEPT !.code = 200])
    /\ kill_me_now' = (kill_me_now \/ request[c].kind = "exit")
    /\ Still /\ UNCHANGED asked

\* handle_GetNextCard
HandleGetNextCard(c) ==
    /\ Takes(c, {"card/next"})
    /\ GetCWD /\ UNCHANGED gitVars
    /\ IF Dir_Exists(request[c].deck)
       THEN serving' = c /\ UNCHANGED <<conn, answer, batch, line>>
       ELSE Responds(c, [NoAnswer EXCEPT !.code = 400])
    /\ asked' = changes
    /\ UNCHANGED kill_me_now

\* What srsModel_Card_GetNextID finds in the deck.
Reads(file) == LET d == Resolve(request[serving].deck)
               IN  IF d \in present THEN study[d][file] ELSE Missing

Going == /\ In("idle") /\ serving # NULL
         /\ Still
         /\ UNCHANGED <<mainVars, request, study, requests, asked, modelVars>>

ReadAt ==
    /\ Going
    /\ line = 0
    /\ IF NamesLine(Reads("at"))
       THEN line' = Reads("at").number /\ UNCHANGED <<conn, answer, batch, serving>>
       ELSE Responds(serving, [NoAnswer EXCEPT !.code = 500])

ReadSchedule ==
    /\ Going
    /\ line > 0
    /\ LET next == NextID(Reads("schedule"), line, CARD_ID_MAX, CARD_ID_MAX)
       IN  Responds(serving, IF next.found
                             THEN [NoAnswer EXCEPT !.code = 200, !.card = next.id]
                             ELSE [NoAnswer EXCEPT !.code = 500])

-----------------------------------------------------------------------------
(* The end                                                                 *)

CloseRoot ==
    /\ Main("close_root")
    /\ SetRoot_None
    /\ spc' = "close_log"
    /\ UNCHANGED <<document_root, kill_me_now, log, clients, handling, study, requests, asked>>

\* srsLog_Exit
CloseLog ==
    /\ Main("close_log")
    /\ log' = "closed"
    /\ spc' = "exited"
    /\ Still
    /\ UNCHANGED <<document_root, kill_me_now, clients, handling, study, requests, asked, modelVars>>

-----------------------------------------------------------------------------
(* Clients and editors                                                     *)

Bound == spc \notin {"options", "bind", "exited", "failed"} /\ status = "running"

Sends(c) ==
    /\ Bound
    /\ conn[c] \in {"none", "answered"}
    /\ requests < MaxRequests
    /\ requests' = requests + 1
    /\ request' \in {[request EXCEPT ![c] = r] : r \in Request}
    /\ conn' = [conn EXCEPT ![c] = "knocking"]
    /\ answer' = [answer EXCEPT ![c] = NoAnswer]
    /\ UNCHANGED <<vars, gitVars, modelVars, mainVars, handling, study, asked>>

EditorWrites(d) ==
    /\ Bound
    /\ d \in present
    /\ changes < MaxChanges
    /\ changes' = changes + 1
    /\ \E edit \in Edits : study' = [study EXCEPT ![d] = edit]
    /\ UNCHANGED <<vars, gitVars, srsModel_ROOT_PATH, mpc, task, okay, mret, error, calls, origin,
                   meddled, mainVars, clients, handling, requests, asked>>

Removes == /\ Bound
           /\ Disturb
           /\ study' = [d \in Dir |-> IF d \in present /\ d \in present' THEN study[d] ELSE NoStudy]
           /\ UNCHANGED <<mainVars, clients, handling, requests, asked>>

Program == \/ Options \/ Fails \/ Bind \/ StartRoot \/ Started
           \/ Poll \/ EndPoll
           \/ \E c \in Client : HandlePlain(c) \/ HandleGetNextCard(c)
           \/ ReadAt \/ ReadSchedule
           \/ CloseRoot \/ CloseLog
           \/ Setting /\ UNCHANGED serverVars

ServerNext == \/ Program
              \/ \E c \in Client : Sends(c)
              \/ \E d \in Dir : EditorWrites(d)
              \/ Removes

everyVar == <<all, serverVars>>

\* main is one thread, and what it has begun it continues.
ServerSpec == ServerInit /\ [][ServerNext]_everyVar /\ WF_everyVar(Program)

-----------------------------------------------------------------------------
(* Properties                                                              *)

Gone == status # "running" \/ spc \in {"exited", "failed"}

ServerTypeOK ==
    /\ ModelTypeOK /\ GitTypeOK
    /\ spc \in {"options", "bind", "set_root", "started", "loop", "poll", "last_poll",
                "close_root", "close_log", "exited", "failed"}
    /\ kill_me_now \in BOOLEAN /\ log \in {"none", "open", "closed"}
    /\ \A c \in Client :
         /\ conn[c] \in {"none", "knocking", "open", "late", "answered", "ignored"}
         /\ answer[c].code \in {0, 200, 400, 500}
         /\ answer[c].code # 0 <=> conn[c] = "answered"
    /\ batch \subseteq {c \in Client : conn[c] = "open"}
    /\ serving \in batch \cup {NULL}
    /\ line > 0 => serving # NULL

\* A server with a document root answers nobody unless its root is the directory
\* of that name, and that is the open repository, from the first answer to the
\* last: one that fails to set its root leaves before it serves.  One without a
\* document root (no -d, and a program name without a directory) serves all the
\* same, with no root and no repository.
ServesItsRoot ==
    spc \in {"poll", "last_poll"} /\ status = "running" /\ (\E c \in Client : answer[c].code # 0) =>
        /\ IF document_root = NULL THEN srsModel_ROOT_PATH = NULL
           ELSE srsModel_ROOT_PATH # NULL /\ srsModel_ROOT_PATH = From(Start, document_root)
        /\ srsGit_REPO = srsModel_ROOT_PATH
        /\ \A c \in Client : request[c].kind = "model-root" /\ answer[c].code # 0 =>
             answer[c].root = srsModel_ROOT_PATH

\* A deck's next card is the line that .at names, however the lines are ended
\* and whatever the file has after its last line; what is not a deck, or is one
\* without such a line, gets an error.  Lines are shorter than CARD_ID_MAX, and
\* nobody edits the deck between the reads of the request.
AnswersTheNamedLine ==
    [][\A c \in Client :
         conn[c] = "open" /\ conn'[c] = "answered" /\ request[c].kind = "card/next"
             /\ changes = asked' =>
         LET d    == From(sysCwd, request[c].deck)
             was  == study[d]
             n    == was.at.number
             card == answer'[c].card
         IN  IF answer'[c].code = 200
             THEN d \in present /\ card \in LineSet(was.schedule, n) \ {<<>>}
             ELSE \/ d \notin present
                  \/ was.at = Missing \/ was.schedule = Missing
                  \/ ~was.at.digits \/ n \notin 1..(INT32_MAX - 1)
                  \/ LineSet(was.schedule, n) \subseteq {<<>>}]_everyVar

\* A server that ends leaves no root, no repository and no saved directory, and
\* nothing is logged after the log has been closed.  Every request that came on
\* a connection it had opened before the last poll has been dealt with by then:
\* also those that came together with the exit.
ExitsClean ==
    log = "closed" => /\ spc = "exited"
                      /\ \A c \in Client : conn[c] # "open"
                      /\ srsModel_ROOT_PATH = NULL /\ srsGit_REPO = NULL
                      /\ dirstack = <<>> /\ owed = <<>>
                      /\ batch = {} /\ serving = NULL

\* Every request is dealt with, or the server ends; and the kill flag ends it,
\* whatever is asked of it meanwhile.
RequestsEnd ==
    /\ \A c \in Client : conn[c] = "knocking" ~> (conn[c] \in {"answered", "ignored"} \/ Gone)
    /\ kill_me_now ~> Gone
=============================================================================
