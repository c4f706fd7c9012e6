------------------------------- MODULE Languages -------------------------------
(* A session's language server: LspManager, which starts it at the first ask  *)
(* and stops it with the session, LspClient, and the JSON-RPC connection that *)
(* matches answers by id, over a process that may be slow, silent or gone.    *)
(*                                                                            *)
(* One server and one file stand for each; texts are their versions on disk.  *)
(* What a promise's settling sets off runs before anything else does, so no   *)
(* other action comes before Continue.  What the file's text is, the bytes of *)
(* a frame and the requests that a server makes are left out.                 *)
EXTENDS Naturals, FiniteSets, Sequences

CONSTANTS
  Asks,        \* calls of diagnostics(), or of at() or symbols(), each made once or never
  MaxEdits,    \* bound: edits of the file
  MaxServers,  \* bound: processes started
  MaxDeaths    \* bound: processes that end of themselves

NoServer == 0
NoText == 0
InitializeId == 1

ASSUME LanguagesAssumption ==
  /\ IsFiniteSet(Asks)
  /\ {MaxEdits, MaxServers, MaxDeaths} \subseteq Nat

VARIABLES
  disk,      \* the file's text
  running,   \* the manager's entry for the server
  servers,   \* every process started, with its client and connection
  asks,
  close,     \* how far close() is, the entry it saw, and how many were started by then
  deaths

vars == <<disk, running, servers, asks, close, deaths>>

Starting ==
  [proc |-> "up", start |-> "starting", exited |-> FALSE, closed |-> FALSE,
   inbox |-> <<[kind |-> "ask", id |-> InitializeId, text |-> NoText]>>, outbox |-> <<>>, todo |-> {},
   knows |-> NoText, said |-> NoText,
   pending |-> {InitializeId}, nextId |-> InitializeId + 1, stop |-> "no"]

Gone(server) == [server EXCEPT !.proc = "gone", !.inbox = <<>>, !.todo = {}]

Idle == [at |-> "idle", kind |-> "none", on |-> NoServer, id |-> 0, text |-> NoText, answer |-> NoText, how |-> "none"]

-----------------------------------------------------------------------------
(* Promises.                                                                  *)

Resumes(a) == asks[a].at = "starting" /\ servers[asks[a].on].start # "starting"
Quiet == \A a \in Asks : ~Resumes(a)

Done(ask, how, text) ==
  [Idle EXCEPT !.at = "done", !.how = how, !.answer = text, !.text = IF how = "error" THEN NoText ELSE ask.text]

(* The asks that wait for a request of this server's connection.              *)
Waiting(s) == {a \in Asks : asks[a].at = "answering" /\ asks[a].on = s}

(* Every request still waiting on it is rejected.                             *)
Rejected(s) == [a \in Asks |-> IF a \in Waiting(s) THEN Done(asks[a], "error", NoText) ELSE asks[a]]

(* A start that fails deletes the entry by name, whichever start holds it.    *)
EntryDeleted == running' = NoServer

-----------------------------------------------------------------------------
(* LspManager.                                                                *)

Asked(a, s) ==
  \E kind \in {"diagnostics", "at"} :
    asks' = [asks EXCEPT ![a].at = "starting", ![a].kind = kind, ![a].on = s]

(* clientFor: the entry's start, or a start of its own that others share.     *)
Begin(a) ==
  /\ Quiet /\ asks[a].at = "idle"
  /\ \/ /\ running # NoServer
        /\ Asked(a, running)
        /\ UNCHANGED <<running, servers>>
     \/ /\ running = NoServer /\ Len(servers) < MaxServers
        /\ \E server \in {Starting, Gone(Starting)} : servers' = Append(servers, server)
        /\ running' = Len(servers')
        /\ Asked(a, running')
  /\ UNCHANGED <<disk, close, deaths>>

(* The client is there: the file's text goes to the server, and the request   *)
(* after it; or the server failed to start, or is gone since.                 *)
StartFailed(a) ==
  /\ Resumes(a) /\ servers[asks[a].on].start = "failed"
  /\ asks' = [asks EXCEPT ![a] = Done(@, "error", NoText)]
  /\ UNCHANGED <<disk, running, servers, close, deaths>>

FoundGone(a) ==
  /\ Resumes(a) /\ servers[asks[a].on].start = "ready" /\ servers[asks[a].on].exited
  /\ running' = NoServer
  /\ asks' = [asks EXCEPT ![a] = Done(@, "error", NoText)]
  /\ UNCHANGED <<disk, servers, close, deaths>>

(* What a connection that is closed, or a process that is gone, gets is lost. *)
Sent(server, messages) ==
  IF server.closed \/ server.proc = "gone" THEN server.inbox ELSE server.inbox \o messages
Sync == [kind |-> "sync", id |-> 0, text |-> disk]

AsksDiagnostics(a) ==
  LET s == asks[a].on IN
  /\ Resumes(a) /\ servers[s].start = "ready" /\ ~servers[s].exited /\ asks[a].kind = "diagnostics"
  /\ servers' = [servers EXCEPT ![s].inbox = Sent(servers[s], <<Sync>>)]
  /\ asks' = [asks EXCEPT ![a].at = "reporting", ![a].text = disk]
  /\ UNCHANGED <<disk, running, close, deaths>>

AsksPosition(a) ==
  LET s == asks[a].on
      id == servers[s].nextId IN
  /\ Resumes(a) /\ servers[s].start = "ready" /\ ~servers[s].exited /\ asks[a].kind = "at"
  /\ IF servers[s].closed
     THEN asks' = [asks EXCEPT ![a] = Done(@, "error", NoText)] /\ UNCHANGED servers
     ELSE /\ servers' = [servers EXCEPT ![s].inbox = Sent(servers[s], <<Sync, [kind |-> "ask", id |-> id, text |-> NoText]>>),
                                        ![s].pending = @ \cup {id}, ![s].nextId = id + 1]
          /\ asks' = [asks EXCEPT ![a].at = "answering", ![a].id = id, ![a].text = disk]
  /\ UNCHANGED <<disk, running, close, deaths>>

-----------------------------------------------------------------------------
(* LspClient and its connection.                                              *)

(* The shutdown is answered, refused or late: exit, and the connection closes.  *)
LeavesServer(server) ==
  [server EXCEPT !.inbox = Sent(server, <<[kind |-> "exit", id |-> 0, text |-> NoText]>>),
                 !.closed = TRUE, !.pending = {}, !.stop = IF server.exited THEN "stopped" ELSE "exiting"]

(* The ask of an answer: by its id.                                           *)
AskOfAny(s, id) == {CHOOSE a \in Waiting(s) : \A b \in Waiting(s) : asks[a].id <= asks[b].id}
AskOf(s, id) == {a \in Waiting(s) : asks[a].id = id}

Popped(s) == [servers[s] EXCEPT !.outbox = Tail(@)]

(* An answer that nobody waits for any more is dropped.                       *)
DeliverAnswer(s) ==
  /\ Quiet /\ servers[s].outbox # <<>>
  /\ LET m == Head(servers[s].outbox)
         taken == [Popped(s) EXCEPT !.pending = @ \ {m.id}] IN
     /\ m.kind = "answer"
     /\ \/ /\ m.id \notin servers[s].pending
           /\ servers' = [servers EXCEPT ![s] = Popped(s)] /\ UNCHANGED asks
        \/ /\ m.id \in servers[s].pending /\ m.id = InitializeId
           /\ servers' = [servers EXCEPT ![s] = [taken EXCEPT !.start = "ready"]] /\ UNCHANGED asks
        \/ /\ m.id \in servers[s].pending \ {InitializeId} /\ Waiting(s) # {} /\ AskOf(s, m.id) # {}
           /\ servers' = [servers EXCEPT ![s] = taken]
           /\ asks' = [a \in Asks |-> IF a \in AskOf(s, m.id) THEN Done(asks[a], "answer", m.text) ELSE asks[a]]
        \/ /\ m.id \in servers[s].pending \ {InitializeId} /\ \A a \in Waiting(s) : asks[a].id # m.id
           /\ servers' = [servers EXCEPT ![s] = LeavesServer(taken)]
           /\ asks' = Rejected(s)
  /\ UNCHANGED <<disk, running, close, deaths>>

(* publishDiagnostics: every wait for a newer report ends.                    *)
DeliverReport(s) ==
  /\ Quiet /\ servers[s].outbox # <<>>
  /\ LET m == Head(servers[s].outbox) IN
     /\ m.kind = "report"
     /\ servers' = [servers EXCEPT ![s] = [Popped(s) EXCEPT !.said = m.text]]
     /\ asks' = [a \in Asks |-> IF asks[a].at = "reporting" /\ asks[a].on = s
                                THEN Done(asks[a], "fresh", m.text) ELSE asks[a]]
  /\ UNCHANGED <<disk, running, close, deaths>>

ReportTimeout(a) ==
  /\ Quiet /\ asks[a].at = "reporting"
  /\ asks' = [asks EXCEPT ![a] = Done(@, "known", servers[@.on].said)]
  /\ UNCHANGED <<disk, running, servers, close, deaths>>

RequestTimeout(a) ==
  /\ Quiet /\ asks[a].at = "answering"
  /\ servers' = [servers EXCEPT ![asks[a].on].pending = @ \ {asks[a].id}]
  /\ asks' = [asks EXCEPT ![a] = Done(@, "error", NoText)]
  /\ UNCHANGED <<disk, running, close, deaths>>

(* initialize is not answered in time: the process is left as it is.          *)
StartTimeout(s) ==
  /\ Quiet /\ servers[s].start = "starting" /\ InitializeId \in servers[s].pending
  /\ servers' = [servers EXCEPT ![s].start = "failed", ![s].pending = @ \ {InitializeId}]
  /\ EntryDeleted
  /\ UNCHANGED <<disk, asks, close, deaths>>

(* The process's exit is heard, or that it could not be started.              *)
GoneServer(server) ==
  [server EXCEPT !.exited = TRUE, !.closed = TRUE, !.pending = {},
                 !.stop = IF @ = "no" THEN "no" ELSE "stopped"]

ExitedSilently(s) ==
  /\ Quiet /\ servers[s].proc = "gone" /\ ~servers[s].exited
  /\ servers' = [servers EXCEPT ![s] = GoneServer(@)]
  /\ asks' = Rejected(s)
  /\ UNCHANGED <<disk, running, close, deaths>>
Exited(s) ==
  /\ Quiet /\ servers[s].proc = "gone" /\ ~servers[s].exited
  /\ servers' = [servers EXCEPT ![s] = [GoneServer(servers[s]) EXCEPT !.start = IF @ = "starting" THEN "failed" ELSE @]]
  /\ IF servers[s].start = "starting" THEN EntryDeleted ELSE UNCHANGED running
  /\ asks' = Rejected(s)
  /\ UNCHANGED <<disk, close, deaths>>

-----------------------------------------------------------------------------
(* close(): the start under way is waited for, then the server is stopped.    *)

Close ==
  /\ Quiet /\ close.phase = "open"
  /\ close' = [phase |-> "settling", saw |-> running, known |-> Len(servers)]
  /\ UNCHANGED <<disk, running, servers, asks, deaths>>

(* Promise.allSettled, of what was running.                                   *)
SettledAtOnce == close.phase = "settling"
Settled == close.phase = "settling" /\ (close.saw # NoServer => servers[close.saw].start # "starting")

ShutdownAsked(server) ==
  [server EXCEPT !.inbox = Sent(server, <<[kind |-> "ask", id |-> server.nextId, text |-> NoText]>>),
                 !.pending = @ \cup {server.nextId}, !.nextId = @ + 1, !.stop = "shutdown"]

Stop ==
  /\ Quiet /\ Settled
  /\ running' = NoServer
  /\ close' = [close EXCEPT !.phase = "stopping"]
  /\ IF close.saw = NoServer \/ servers[close.saw].start # "ready" THEN UNCHANGED servers
     ELSE servers' = [servers EXCEPT ![close.saw] = IF @.exited THEN [@ EXCEPT !.stop = "stopped"] ELSE ShutdownAsked(@)]
  /\ UNCHANGED <<disk, asks, deaths>>

ShutdownTimeout(s) ==
  /\ Quiet /\ servers[s].stop = "shutdown"
  /\ servers' = [servers EXCEPT ![s] = LeavesServer(@)]
  /\ asks' = Rejected(s)
  /\ UNCHANGED <<disk, running, close, deaths>>

Kill(s) ==
  /\ Quiet /\ servers[s].stop = "exiting"
  /\ servers' = [servers EXCEPT ![s] = [Gone(@) EXCEPT !.stop = "stopped"]]
  /\ UNCHANGED <<disk, running, asks, close, deaths>>

Closed ==
  /\ Quiet /\ close.phase = "stopping"
  /\ close.saw # NoServer => servers[close.saw].stop \in {"no", "stopped"}
  /\ close' = [close EXCEPT !.phase = "closed"]
  /\ UNCHANGED <<disk, running, servers, asks, deaths>>

-----------------------------------------------------------------------------
(* The server: it reads in order, answers in any, and reports on a text or not.*)

Alive(s) == Quiet /\ servers[s].proc = "up"

ServerReads(s) ==
  /\ Alive(s) /\ servers[s].inbox # <<>>
  /\ LET m == Head(servers[s].inbox)
         read == [servers[s] EXCEPT !.inbox = Tail(@)] IN
     \/ /\ m.kind = "sync"
        /\ \E reports \in {<<>>, <<[kind |-> "report", id |-> 0, text |-> m.text]>>} :
             servers' = [servers EXCEPT ![s] = [read EXCEPT !.knows = m.text, !.outbox = @ \o reports]]
     \/ /\ m.kind = "ask"
        /\ servers' = [servers EXCEPT ![s] = [read EXCEPT !.todo = @ \cup {[id |-> m.id, text |-> read.knows]}]]
     \/ /\ m.kind = "exit"
        /\ servers' = [servers EXCEPT ![s] = Gone(read)]
  /\ UNCHANGED <<disk, running, asks, close, deaths>>

ServerAnswers(s) ==
  /\ Alive(s)
  /\ \E m \in servers[s].todo :
       servers' = [servers EXCEPT ![s].todo = @ \ {m},
                                  ![s].outbox = Append(@, [kind |-> "answer", id |-> m.id, text |-> m.text])]
  /\ UNCHANGED <<disk, running, asks, close, deaths>>

Dies(s) ==
  /\ Alive(s) /\ deaths < MaxDeaths /\ deaths' = deaths + 1
  /\ servers' = [servers EXCEPT ![s] = Gone(@)]
  /\ UNCHANGED <<disk, running, asks, close>>

(* An edit of the file.                                                       *)
Edit ==
  /\ Quiet /\ disk < 1 + MaxEdits /\ disk' = disk + 1
  /\ UNCHANGED <<running, servers, asks, close, deaths>>

-----------------------------------------------------------------------------
Init ==
  /\ disk = 1 /\ running = NoServer /\ servers = <<>> /\ deaths = 0
  /\ asks = [a \in Asks |-> Idle]
  /\ close = [phase |-> "open", saw |-> NoServer, known |-> 0]

AskSteps(a) == Begin(a) \/ StartFailed(a) \/ FoundGone(a) \/ AsksDiagnostics(a) \/ AsksPosition(a)
               \/ ReportTimeout(a) \/ RequestTimeout(a)
ServerSteps(s) == ServerReads(s) \/ ServerAnswers(s) \/ Dies(s) \/ DeliverAnswer(s)
                  \/ DeliverReport(s) \/ StartTimeout(s) \/ Exited(s) \/ ShutdownTimeout(s) \/ Kill(s)

Next ==
  \/ \E a \in Asks : AskSteps(a)
  \/ \E s \in DOMAIN servers : ServerSteps(s)
  \/ Edit \/ Close \/ Stop \/ Closed

Spec == Init /\ [][Next]_vars

(* The program's own steps, its timers, and the exits that the system tells   *)
(* of; nothing is asked of the server.                                        *)
Fairness ==
  /\ \A a \in Asks :
       WF_vars(StartFailed(a) \/ FoundGone(a) \/ AsksDiagnostics(a) \/ AsksPosition(a)
               \/ ReportTimeout(a) \/ RequestTimeout(a))
  /\ \A s \in 1..MaxServers :
       WF_vars(s \in DOMAIN servers /\ (StartTimeout(s) \/ Exited(s) \/ ShutdownTimeout(s) \/ Kill(s)))
  /\ WF_vars(Stop \/ Closed)
FairSpec == Spec /\ Fairness

-----------------------------------------------------------------------------
(* Properties.                                                                *)

(* An answer is about the text that its ask sent, whatever came between.      *)
AnswersAreOfTheirText ==
  \A a \in Asks : asks[a].how = "answer" => asks[a].answer = asks[a].text

(* Its start was given up for its silence: the entry is gone, and no one will *)
(* stop the process (client.ts start; manager.ts clientFor).                  *)
TimedOut(s) == servers[s].start = "failed" /\ ~servers[s].exited

(* Until the session closes, a process that runs is the manager's entry, or   *)
(* one whose start timed out.                                                 *)
OneServer ==
  close.phase \in {"open", "settling"} =>
    \A s \in DOMAIN servers : servers[s].proc = "up" => s = running \/ TimedOut(s)

(* Of the processes started before close() was called, none is left but those *)
(* whose start timed out.                                                     *)
CloseLeavesNone ==
  close.phase = "closed" =>
    \A s \in 1..close.known : servers[s].proc = "up" => TimedOut(s)

(* No process is out of the manager's reach but one: that whose start timed   *)
(* out stays up beside the next and after the session, and so does one asked  *)
(* for while close() runs, though manager.ts:56-59 has them all stopped with  *)
(* the session.  Nothing else slips away (manager.ts clientFor, close).       *)
ServersHold == OneServer /\ CloseLeavesNone

(* Every ask ends, and so does the close, whatever the server does.           *)
WaitsEnd ==
  /\ \A a \in Asks : asks[a].at # "idle" ~> asks[a].at = "done"
  /\ close.phase = "settling" ~> close.phase = "closed"
=============================================================================
