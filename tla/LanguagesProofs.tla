---------------------------- MODULE LanguagesProofs ----------------------------
(* Theorems about Languages, for any number of asks, edits, servers and        *)
(* deaths.  The invariant has three parts: what is on its way between a client *)
(* and a server carries the text its ask sent (TextInv); the manager's entry   *)
(* is the one server that is live (EntryInv); what close() saw was that one,   *)
(* and what it stops, it stops for good (CloseInv).  Composer is extended for  *)
(* the theorem about it, beside those about other parts of MCParts.            *)
EXTENDS Languages, Composer, FiniteSetTheorems, SequenceTheorems, WellFoundedInduction, TLAPS

(* What is said between a client and a server.                                *)
Message == [kind : {"ask", "sync", "exit", "answer", "report"}, id : Nat, text : Nat]

Server ==
  [proc : {"up", "gone"}, start : {"starting", "ready", "failed"}, exited : BOOLEAN, closed : BOOLEAN,
   inbox : Seq(Message), outbox : Seq(Message), todo : SUBSET [id : Nat, text : Nat],
   knows : Nat, said : Nat, pending : SUBSET Nat, nextId : Nat, stop : {"no", "shutdown", "exiting", "stopped"}]

Ask ==
  [at : {"idle", "starting", "reporting", "answering", "done"}, kind : {"none", "diagnostics", "at"},
   on : Nat, id : Nat, text : Nat, answer : Nat, how : {"none", "error", "answer", "fresh", "known"}]

(* Ids are counted up, and nothing under way has one that is not yet given.   *)
IdsCounted(v) ==
  /\ v.nextId > InitializeId
  /\ \A id \in v.pending : id < v.nextId
  /\ \A k \in DOMAIN v.inbox : v.inbox[k].id < v.nextId
  /\ \A m \in v.todo : m.id < v.nextId
  /\ \A k \in DOMAIN v.outbox : v.outbox[k].id < v.nextId

(* What ends stays ended.                                                     *)
EndsInOrder(v) ==
  /\ v.exited => v.proc = "gone" /\ v.closed /\ v.pending = {} /\ v.start # "starting"
  /\ v.start = "failed" => InitializeId \notin v.pending
  /\ v.stop \in {"exiting", "stopped"} => v.closed /\ v.pending = {}
  /\ v.stop = "stopped" => v.proc = "gone"

ServerInv(v) == v \in Server /\ IdsCounted(v) /\ EndsInOrder(v)

(* Wherever the ask of this id is on its way, it is about this text: it reads  *)
(* the file right after it was sent, and its answer says what was known then.  *)
Carries(v, id, text) ==
  /\ \A k \in DOMAIN v.inbox : v.inbox[k].kind = "ask" /\ v.inbox[k].id = id =>
       IF k = 1 THEN v.knows = text ELSE v.inbox[k - 1].kind = "sync" /\ v.inbox[k - 1].text = text
  /\ \A m \in v.todo : m.id = id => m.text = text
  /\ \A k \in DOMAIN v.outbox : v.outbox[k].kind = "answer" /\ v.outbox[k].id = id => v.outbox[k].text = text

AskInv(a, all) ==
  /\ a.at \in {"starting", "reporting", "answering"} => a.on \in DOMAIN all
  /\ a.at = "answering" => a.id < all[a.on].nextId /\ Carries(all[a.on], a.id, a.text)
  /\ a.how # "none" => a.at = "done"
  /\ a.how = "answer" => a.answer = a.text

TextInv ==
  /\ disk \in Nat /\ servers \in Seq(Server) /\ asks \in [Asks -> Ask]
  /\ \A s \in DOMAIN servers : ServerInv(servers[s])
  /\ \A a \in Asks : AskInv(asks[a], servers)

Live(s) == servers[s].start # "failed" /\ ~servers[s].exited

(* The entry is the server that is started or runs.                           *)
EntryInv ==
  /\ running \in Nat /\ (running # NoServer => running \in DOMAIN servers)
  /\ close \in [phase : {"open", "settling", "stopping", "closed"}, saw : Nat, known : Nat]
  /\ close.phase \in {"open", "settling"} =>
       /\ \A s \in DOMAIN servers : Live(s) => s = running
       /\ \A a \in Asks : Resumes(a) /\ servers[asks[a].on].start = "ready" /\ servers[asks[a].on].exited =>
            running \in {NoServer, asks[a].on}

(* What close() saw is what was live; what it stops, it stops for good.       *)
CloseInv ==
  close.phase # "open" =>
    /\ close.known <= Len(servers)
    /\ close.saw # NoServer => close.saw \in DOMAIN servers
    /\ \A s \in 1..close.known : s # close.saw => ~Live(s)
    /\ close.phase # "settling" /\ close.saw # NoServer =>
         servers[close.saw].start = "failed" \/ servers[close.saw].stop # "no"
    /\ close.phase = "closed" /\ close.saw # NoServer =>
         servers[close.saw].start = "failed" \/ servers[close.saw].stop = "stopped"

-----------------------------------------------------------------------------
(* What becomes of a server.                                                  *)

(* What was on its way still is, or was read; what ended stays ended.         *)
Evolves(v, w) ==
  /\ ServerInv(w)
  /\ v.nextId <= w.nextId
  /\ \A id, text \in Nat : id < v.nextId /\ Carries(v, id, text) => Carries(w, id, text)
  /\ v.exited => w.exited
  /\ v.start # "starting" => w.start = v.start

StaysStopped(v, w) == (v.stop # "no" => w.stop # "no") /\ (v.stop = "stopped" => w.stop = "stopped")

Onward(v, w) == Evolves(v, w) /\ StaysStopped(v, w)

LEMMA OnwardAgain == ASSUME NEW u, NEW v, NEW w, ServerInv(u), Onward(u, v), Onward(v, w) PROVE Onward(u, w)
BY SMTT(40) DEF Onward, Evolves, StaysStopped, ServerInv, Server

LEMMA NoMessages == <<>> \in Seq(Message)
OBVIOUS

\* A server that keeps what is under way, or loses it.
LEMMA KeepsItsWay ==
  ASSUME NEW v, NEW w, ServerInv(v), w \in Server, w.nextId = v.nextId, w.knows = v.knows, w.outbox = v.outbox,
         w.inbox \in {v.inbox, <<>>}, w.todo \in {v.todo, {}}, w.pending \subseteq v.pending,
         EndsInOrder(w), v.exited => w.exited, v.start # "starting" => w.start = v.start, StaysStopped(v, w)
  PROVE  Onward(v, w)
<1>1. v.nextId \in Nat
  BY DEF ServerInv, Server
<1>2. IdsCounted(w)
  BY DEF ServerInv, IdsCounted
<1>3. \A id, text \in Nat : Carries(v, id, text) => Carries(w, id, text)
  BY DEF Carries
<1>4. QED
  BY <1>1, <1>2, <1>3 DEF Onward, Evolves, ServerInv

LEMMA Pops ==
  ASSUME NEW v, ServerInv(v), v.outbox # <<>> PROVE Onward(v, [v EXCEPT !.outbox = Tail(@)])
<1> DEFINE w == [v EXCEPT !.outbox = Tail(@)]
<1>1. v \in Server /\ v.outbox \in Seq(Message) /\ v.nextId \in Nat
  BY DEF ServerInv, Server
<1>2. Tail(v.outbox) \in Seq(Message)
  BY <1>1
<1>3. w \in Server /\ w.outbox = Tail(v.outbox)
  BY <1>1, <1>2 DEF Server
<1>4. \A k \in DOMAIN w.outbox : k + 1 \in DOMAIN v.outbox /\ w.outbox[k] = v.outbox[k + 1]
  BY <1>1, <1>3
<1>5. /\ w.inbox = v.inbox /\ w.todo = v.todo /\ w.knows = v.knows /\ w.pending = v.pending /\ w.nextId = v.nextId
      /\ w.proc = v.proc /\ w.start = v.start /\ w.exited = v.exited /\ w.closed = v.closed /\ w.stop = v.stop
  BY <1>1 DEF Server
<1> HIDE DEF w
<1>6. IdsCounted(w) /\ EndsInOrder(w)
  BY <1>4, <1>5 DEF ServerInv, IdsCounted, EndsInOrder
<1>7. \A id, text \in Nat : Carries(v, id, text) => Carries(w, id, text)
  BY <1>4, <1>5 DEF Carries
<1>8. Onward(v, w)
  BY <1>1, <1>3, <1>5, <1>6, <1>7 DEF Onward, Evolves, StaysStopped, ServerInv
<1>9. QED
  BY <1>8 DEF w

\* A request is no longer waited for.
LEMMA Forgets ==
  ASSUME NEW v, ServerInv(v), NEW id PROVE Onward(v, [v EXCEPT !.pending = @ \ {id}])
<1> DEFINE w == [v EXCEPT !.pending = @ \ {id}]
<1>1. v \in Server
  BY DEF ServerInv
<1>2. /\ w \in Server /\ w.nextId = v.nextId /\ w.knows = v.knows /\ w.outbox = v.outbox
      /\ w.inbox \in {v.inbox, <<>>} /\ w.todo \in {v.todo, {}} /\ w.pending \subseteq v.pending
  BY <1>1, NoMessages DEF Server
<1>3. EndsInOrder(w) /\ (v.exited => w.exited) /\ (v.start # "starting" => w.start = v.start) /\ StaysStopped(v, w)
  BY <1>1 DEF Server, ServerInv, EndsInOrder, StaysStopped
<1>4. QED
  BY <1>2, <1>3, KeepsItsWay

\* A report is taken.
LEMMA Says ==
  ASSUME NEW v, ServerInv(v), NEW text \in Nat PROVE Onward(v, [v EXCEPT !.said = text])
<1> DEFINE w == [v EXCEPT !.said = text]
<1>1. v \in Server
  BY DEF ServerInv
<1>2. /\ w \in Server /\ w.nextId = v.nextId /\ w.knows = v.knows /\ w.outbox = v.outbox
      /\ w.inbox \in {v.inbox, <<>>} /\ w.todo \in {v.todo, {}} /\ w.pending \subseteq v.pending
  BY <1>1, NoMessages DEF Server
<1>3. EndsInOrder(w) /\ (v.exited => w.exited) /\ (v.start # "starting" => w.start = v.start) /\ StaysStopped(v, w)
  BY <1>1 DEF Server, ServerInv, EndsInOrder, StaysStopped
<1>4. QED
  BY <1>2, <1>3, KeepsItsWay

\* initialize is answered.
LEMMA Readies ==
  ASSUME NEW v, ServerInv(v), ~v.exited, v.start # "failed", InitializeId \notin v.pending PROVE Onward(v, [v EXCEPT !.start = "ready"])
<1> DEFINE w == [v EXCEPT !.start = "ready"]
<1>1. v \in Server
  BY DEF ServerInv
<1>2. /\ w \in Server /\ w.nextId = v.nextId /\ w.knows = v.knows /\ w.outbox = v.outbox
      /\ w.inbox \in {v.inbox, <<>>} /\ w.todo \in {v.todo, {}} /\ w.pending \subseteq v.pending
  BY <1>1, NoMessages DEF Server
<1>3. EndsInOrder(w) /\ (v.exited => w.exited) /\ (v.start # "starting" => w.start = v.start) /\ StaysStopped(v, w)
  BY <1>1 DEF Server, ServerInv, EndsInOrder, StaysStopped
<1>4. QED
  BY <1>2, <1>3, KeepsItsWay

\* initialize is not answered in time.
LEMMA Fails ==
  ASSUME NEW v, ServerInv(v), v.start = "starting" PROVE Onward(v, [v EXCEPT !.start = "failed", !.pending = @ \ {InitializeId}])
<1> DEFINE w == [v EXCEPT !.start = "failed", !.pending = @ \ {InitializeId}]
<1>1. v \in Server
  BY DEF ServerInv
<1>2. /\ w \in Server /\ w.nextId = v.nextId /\ w.knows = v.knows /\ w.outbox = v.outbox
      /\ w.inbox \in {v.inbox, <<>>} /\ w.todo \in {v.todo, {}} /\ w.pending \subseteq v.pending
  BY <1>1, NoMessages DEF Server
<1>3. EndsInOrder(w) /\ (v.exited => w.exited) /\ (v.start # "starting" => w.start = v.start) /\ StaysStopped(v, w)
  BY <1>1 DEF Server, ServerInv, EndsInOrder, StaysStopped
<1>4. QED
  BY <1>2, <1>3, KeepsItsWay

\* The process ends.
LEMMA Goes ==
  ASSUME NEW v, ServerInv(v) PROVE Onward(v, Gone(v))
<1> DEFINE w == Gone(v)
<1>1. v \in Server
  BY DEF ServerInv
<1>2. /\ w \in Server /\ w.nextId = v.nextId /\ w.knows = v.knows /\ w.outbox = v.outbox
      /\ w.inbox \in {v.inbox, <<>>} /\ w.todo \in {v.todo, {}} /\ w.pending \subseteq v.pending
  BY <1>1, NoMessages DEF Server, Gone
<1>3. EndsInOrder(w) /\ (v.exited => w.exited) /\ (v.start # "starting" => w.start = v.start) /\ StaysStopped(v, w)
  BY <1>1 DEF Server, ServerInv, EndsInOrder, StaysStopped, Gone
<1>4. QED
  BY <1>2, <1>3, KeepsItsWay

\* The process's end is heard.
LEMMA Exits ==
  ASSUME NEW v, ServerInv(v), v.proc = "gone" PROVE Onward(v, [GoneServer(v) EXCEPT !.start = IF @ = "starting" THEN "failed" ELSE @])
<1> DEFINE w == [GoneServer(v) EXCEPT !.start = IF @ = "starting" THEN "failed" ELSE @]
<1>1. v \in Server
  BY DEF ServerInv
<1>2. /\ w \in Server /\ w.nextId = v.nextId /\ w.knows = v.knows /\ w.outbox = v.outbox
      /\ w.inbox \in {v.inbox, <<>>} /\ w.todo \in {v.todo, {}} /\ w.pending \subseteq v.pending
  BY <1>1, NoMessages DEF Server, GoneServer
<1>3. EndsInOrder(w) /\ (v.exited => w.exited) /\ (v.start # "starting" => w.start = v.start) /\ StaysStopped(v, w)
  BY <1>1 DEF Server, ServerInv, EndsInOrder, StaysStopped, GoneServer
<1>4. QED
  BY <1>2, <1>3, KeepsItsWay

\* What does not end is killed.
LEMMA Killed ==
  ASSUME NEW v, ServerInv(v), v.stop = "exiting" PROVE Onward(v, [Gone(v) EXCEPT !.stop = "stopped"])
<1> DEFINE w == [Gone(v) EXCEPT !.stop = "stopped"]
<1>1. v \in Server
  BY DEF ServerInv
<1>2. /\ w \in Server /\ w.nextId = v.nextId /\ w.knows = v.knows /\ w.outbox = v.outbox
      /\ w.inbox \in {v.inbox, <<>>} /\ w.todo \in {v.todo, {}} /\ w.pending \subseteq v.pending
  BY <1>1, NoMessages DEF Server, Gone
<1>3. EndsInOrder(w) /\ (v.exited => w.exited) /\ (v.start # "starting" => w.start = v.start) /\ StaysStopped(v, w)
  BY <1>1 DEF Server, ServerInv, EndsInOrder, StaysStopped, Gone
<1>4. QED
  BY <1>2, <1>3, KeepsItsWay

\* What a server is sent comes last, after what it has not read yet.
LEMMA IsSent ==
  ASSUME NEW v, ServerInv(v), NEW messages \in Seq(Message), NEW w \in Server,
         w.nextId \in {v.nextId, v.nextId + 1}, w.inbox = Sent(v, messages),
         w.knows = v.knows, w.outbox = v.outbox, w.todo = v.todo, w.exited = v.exited, w.start = v.start,
         \A id \in w.pending : id \in v.pending \/ id < w.nextId,
         \A k \in DOMAIN messages : messages[k].id < w.nextId /\ (messages[k].kind = "ask" => v.nextId <= messages[k].id),
         EndsInOrder(w)
  PROVE  Evolves(v, w)
<1>1. v.inbox \in Seq(Message) /\ v.nextId \in Nat /\ w.nextId \in Nat /\ v.nextId <= w.nextId /\ messages \in Seq(Message)
  BY DEF ServerInv, Server
<1>2. \A k \in DOMAIN w.inbox :
        \/ k \in DOMAIN v.inbox /\ w.inbox[k] = v.inbox[k]
        \/ w.inbox[k].id < w.nextId /\ (w.inbox[k].kind = "ask" => v.nextId <= w.inbox[k].id)
  <2>1. CASE w.inbox = v.inbox
    BY <2>1
  <2>2. CASE w.inbox = v.inbox \o messages
    <3> SUFFICES ASSUME NEW k \in DOMAIN w.inbox, k \notin DOMAIN v.inbox
                 PROVE  k - Len(v.inbox) \in DOMAIN messages /\ w.inbox[k] = messages[k - Len(v.inbox)]
      BY <1>1, <2>2
    <3>1. QED
      BY <1>1, <2>2
  <2>3. QED
    BY <2>1, <2>2 DEF Sent
<1>3. \A k \in DOMAIN v.inbox : k \in DOMAIN w.inbox /\ w.inbox[k] = v.inbox[k]
  BY <1>1 DEF Sent
<1>4. IdsCounted(w)
  <2>1. \A m \in v.todo : m.id \in Nat /\ m.id < v.nextId
    BY DEF ServerInv, Server, IdsCounted
  <2>2. \A k \in DOMAIN v.outbox : v.outbox[k].id \in Nat /\ v.outbox[k].id < v.nextId
    <3>1. \A k \in DOMAIN v.outbox : v.outbox[k] \in Message
      BY DEF ServerInv, Server
    <3>2. QED
      BY <3>1 DEF ServerInv, IdsCounted, Message
  <2>3. \A k \in DOMAIN v.inbox : v.inbox[k].id \in Nat /\ v.inbox[k].id < v.nextId
    <3>1. \A k \in DOMAIN v.inbox : v.inbox[k] \in Message
      BY DEF ServerInv, Server
    <3>2. QED
      BY <3>1 DEF ServerInv, IdsCounted, Message
  <2>4. \A id \in v.pending : id \in Nat /\ id < v.nextId
    BY DEF ServerInv, Server, IdsCounted
  <2>5. InitializeId < v.nextId
    BY DEF ServerInv, IdsCounted
  <2>6. QED
    BY <1>1, <1>2, <2>1, <2>2, <2>3, <2>4, <2>5 DEF IdsCounted, InitializeId
<1>5. ASSUME NEW id \in Nat, NEW text \in Nat, id < v.nextId, Carries(v, id, text) PROVE Carries(w, id, text)
  <2>1. ASSUME NEW k \in DOMAIN w.inbox, w.inbox[k].kind = "ask", w.inbox[k].id = id
        PROVE  k \in DOMAIN v.inbox /\ w.inbox[k] = v.inbox[k] /\ (k # 1 => w.inbox[k - 1] = v.inbox[k - 1])
    <3>1. k \in DOMAIN v.inbox /\ w.inbox[k] = v.inbox[k]
      BY <1>1, <1>2, <1>5, <2>1
    <3>2. k # 1 => k - 1 \in DOMAIN v.inbox
      BY <1>1, <3>1
    <3>3. QED
      BY <1>3, <3>1, <3>2
  <2>2. QED
    BY <1>5, <2>1 DEF Carries
<1>6. QED
  BY <1>1, <1>4, <1>5 DEF Evolves, ServerInv

\* A client that stops says exit and closes its connection.
LEMMA Leaves ==
  ASSUME NEW v, ServerInv(v), v.stop # "stopped" PROVE Onward(v, LeavesServer(v))
<1> DEFINE exit == <<[kind |-> "exit", id |-> 0, text |-> NoText]>>
           w == LeavesServer(v)
<1>1. v \in Server /\ v.inbox \in Seq(Message) /\ exit \in Seq(Message) /\ InitializeId < v.nextId /\ v.nextId \in Nat
  BY DEF ServerInv, Server, Message, NoText, IdsCounted
<1>2. Sent(v, exit) \in Seq(Message)
  BY <1>1 DEF Sent
<1>3. w \in Server
  BY <1>1, <1>2 DEF LeavesServer, Server
<1>4. /\ w.nextId = v.nextId /\ w.inbox = Sent(v, exit) /\ w.knows = v.knows /\ w.outbox = v.outbox
      /\ w.todo = v.todo /\ w.exited = v.exited /\ w.start = v.start /\ w.pending = {}
  BY <1>1 DEF LeavesServer, Server
<1>5. EndsInOrder(w) /\ StaysStopped(v, w)
  BY <1>1 DEF LeavesServer, Server, ServerInv, EndsInOrder, StaysStopped
<1>6. \A k \in DOMAIN exit : exit[k].id < w.nextId /\ exit[k].kind # "ask"
  BY <1>1, <1>4 DEF InitializeId
<1> HIDE DEF exit, w
<1>7. Evolves(v, w)
  BY <1>1, <1>3, <1>4, <1>5, <1>6, IsSent
<1>8. QED
  BY <1>5, <1>7 DEF Onward, w

\* The shutdown is asked for.
LEMMA ShutsDown ==
  ASSUME NEW v, ServerInv(v), ~v.exited, v.start = "ready" PROVE Evolves(v, ShutdownAsked(v)) /\ ShutdownAsked(v).stop = "shutdown"
<1> DEFINE ask == <<[kind |-> "ask", id |-> v.nextId, text |-> NoText]>>
           w == ShutdownAsked(v)
<1>1. v \in Server /\ v.inbox \in Seq(Message) /\ InitializeId < v.nextId /\ v.nextId \in Nat
  BY DEF ServerInv, Server, IdsCounted
<1>2. ask \in Seq(Message) /\ Sent(v, ask) \in Seq(Message)
  <2>1. [kind |-> "ask", id |-> v.nextId, text |-> NoText] \in Message
    BY <1>1 DEF Message, NoText
  <2>2. QED
    BY <1>1, <2>1 DEF Sent
<1>3. w \in Server
  <2>1. w = [v EXCEPT !.inbox = Sent(v, ask), !.pending = v.pending \cup {v.nextId}, !.nextId = v.nextId + 1,
                      !.stop = "shutdown"]
    BY DEF ShutdownAsked
  <2>2. v.pending \cup {v.nextId} \in SUBSET Nat /\ v.nextId + 1 \in Nat
    BY <1>1 DEF Server
  <2> HIDE DEF ask, w
  <2>3. QED
    BY <1>1, <1>2, <2>1, <2>2 DEF Server
<1>4. /\ w.nextId = v.nextId + 1 /\ w.inbox = Sent(v, ask) /\ w.knows = v.knows /\ w.outbox = v.outbox
      /\ w.todo = v.todo /\ w.exited = v.exited /\ w.start = v.start /\ w.pending = v.pending \cup {v.nextId}
      /\ w.stop = "shutdown"
  BY <1>1 DEF ShutdownAsked, Server
<1>5. EndsInOrder(w)
  BY <1>4 DEF EndsInOrder
<1>6. \A k \in DOMAIN ask : ask[k].id < w.nextId /\ v.nextId <= ask[k].id
  BY <1>1, <1>4
<1> HIDE DEF ask, w
<1>7. Evolves(v, w)
  BY <1>1, <1>2, <1>3, <1>4, <1>5, <1>6, IsSent
<1>8. QED
  BY <1>4, <1>7 DEF w

\* The text of the file is sent before a wait for its report.
LEMMA SendsText ==
  ASSUME NEW v, ServerInv(v), NEW text \in Nat
  PROVE  Onward(v, [v EXCEPT !.inbox = Sent(v, <<[kind |-> "sync", id |-> 0, text |-> text]>>)])
<1> DEFINE sync == <<[kind |-> "sync", id |-> 0, text |-> text]>>
           w == [v EXCEPT !.inbox = Sent(v, sync)]
<1>1. v \in Server /\ v.inbox \in Seq(Message) /\ InitializeId < v.nextId /\ v.nextId \in Nat
  BY DEF ServerInv, Server, IdsCounted
<1>2. sync \in Seq(Message) /\ Sent(v, sync) \in Seq(Message)
  <2>1. [kind |-> "sync", id |-> 0, text |-> text] \in Message
    BY DEF Message
  <2>2. QED
    BY <1>1, <2>1 DEF Sent
<1>3. \A k \in DOMAIN sync : sync[k].id < v.nextId /\ sync[k].kind # "ask"
  BY <1>1 DEF InitializeId
<1> HIDE DEF sync
<1>4. w \in Server
  BY <1>1, <1>2 DEF Server
<1>5. /\ w.nextId = v.nextId /\ w.inbox = Sent(v, sync) /\ w.knows = v.knows /\ w.outbox = v.outbox
      /\ w.todo = v.todo /\ w.exited = v.exited /\ w.start = v.start /\ w.pending = v.pending
      /\ w.stop = v.stop /\ w.closed = v.closed /\ w.proc = v.proc
  BY <1>1 DEF Server
<1> HIDE DEF w
<1>6. EndsInOrder(w)
  BY <1>5 DEF ServerInv, EndsInOrder
<1>7. Onward(v, w)
  BY <1>1, <1>2, <1>3, <1>4, <1>5, <1>6, IsSent DEF Onward, StaysStopped
<1>8. QED
  BY <1>7 DEF w, sync

\* A request about a place goes out right behind the text, and is about it.
LEMMA SendsRequest ==
  ASSUME NEW v, ServerInv(v), ~v.closed, NEW text \in Nat,
         NEW w, w = [v EXCEPT !.inbox = Sent(v, <<[kind |-> "sync", id |-> 0, text |-> text],
                                                  [kind |-> "ask", id |-> v.nextId, text |-> NoText]>>),
                              !.pending = @ \cup {v.nextId}, !.nextId = v.nextId + 1]
  PROVE  Onward(v, w) /\ v.nextId < w.nextId /\ Carries(w, v.nextId, text)
<1> DEFINE messages == <<[kind |-> "sync", id |-> 0, text |-> text], [kind |-> "ask", id |-> v.nextId, text |-> NoText]>>
<1>1. v \in Server /\ v.inbox \in Seq(Message) /\ InitializeId < v.nextId /\ v.nextId \in Nat
  BY DEF ServerInv, Server, IdsCounted
<1>2. messages \in Seq(Message) /\ Sent(v, messages) \in Seq(Message)
  <2>1. [kind |-> "sync", id |-> 0, text |-> text] \in Message /\ [kind |-> "ask", id |-> v.nextId, text |-> NoText] \in Message
    BY <1>1 DEF Message, NoText
  <2>2. QED
    BY <1>1, <2>1 DEF Sent
<1>3. \A k \in DOMAIN messages : messages[k].id < v.nextId + 1 /\ (messages[k].kind = "ask" => messages[k].id = v.nextId)
  BY <1>1 DEF InitializeId
<1>4. Len(messages) = 2 /\ messages[1].kind = "sync" /\ messages[1].text = text
  OBVIOUS
<1>5. w = [v EXCEPT !.inbox = Sent(v, messages), !.pending = v.pending \cup {v.nextId}, !.nextId = v.nextId + 1]
  OBVIOUS
<1> HIDE DEF messages
<1>6. w \in Server
  <2>1. v.pending \cup {v.nextId} \in SUBSET Nat /\ v.nextId + 1 \in Nat
    BY <1>1 DEF Server
  <2>2. QED
    BY <1>1, <1>2, <1>5, <2>1 DEF Server
<1>7. /\ w.nextId = v.nextId + 1 /\ w.inbox = Sent(v, messages) /\ w.knows = v.knows /\ w.outbox = v.outbox
      /\ w.todo = v.todo /\ w.exited = v.exited /\ w.start = v.start /\ w.pending = v.pending \cup {v.nextId}
      /\ w.stop = v.stop /\ w.closed = v.closed /\ w.proc = v.proc
  BY <1>1, <1>5 DEF Server
<1>8. EndsInOrder(w)
  BY <1>1, <1>7 DEF ServerInv, EndsInOrder, InitializeId, Server
<1>9. \A id \in w.pending : id \in v.pending \/ id < w.nextId
  BY <1>1, <1>7
<1>10. Evolves(v, w)
  <2>1. \A k \in DOMAIN messages : messages[k].id < w.nextId /\ (messages[k].kind = "ask" => v.nextId <= messages[k].id)
    BY <1>1, <1>3, <1>7
  <2>2. QED
    BY <1>2, <1>6, <1>7, <1>8, <1>9, <2>1, IsSent
<1>11. Carries(w, v.nextId, text)
  <2>1. \A k \in DOMAIN v.inbox : v.inbox[k].id < v.nextId /\ v.inbox[k].id \in Nat
    <3>1. \A k \in DOMAIN v.inbox : v.inbox[k] \in Message
      BY <1>1
    <3>2. QED
      BY <3>1 DEF ServerInv, IdsCounted, Message
  <2>2. ASSUME NEW k \in DOMAIN w.inbox, w.inbox[k].kind = "ask", w.inbox[k].id = v.nextId
        PROVE  k # 1 /\ w.inbox[k - 1].kind = "sync" /\ w.inbox[k - 1].text = text
    <3>1. CASE w.inbox = v.inbox
      BY <1>1, <2>1, <2>2, <3>1
    <3>2. CASE w.inbox = v.inbox \o messages
      <4> DEFINE n == Len(v.inbox)
      <4>1. /\ n \in Nat /\ Len(w.inbox) = n + 2 /\ w.inbox \in Seq(Message)
            /\ \A j \in 1..n : w.inbox[j] = v.inbox[j]
            /\ w.inbox[n + 1] = messages[1]
        <5>1. /\ w.inbox \in Seq(Message) /\ Len(w.inbox) = n + 2
              /\ \A j \in 1..(n + 2) : w.inbox[j] = IF j <= n THEN v.inbox[j] ELSE messages[j - n]
          <6>1. /\ w.inbox \in Seq(Message) /\ Len(w.inbox) = n + Len(messages)
                /\ \A j \in 1..(n + Len(messages)) : w.inbox[j] = IF j <= n THEN v.inbox[j] ELSE messages[j - n]
            BY ONLY <1>1, <1>2, <3>2, ConcatProperties
          <6>2. QED
            BY <6>1, <1>4
        <5>2. n \in Nat
          BY <1>1
        <5> HIDE DEF n
        <5>3. (n + 1) - n = 1 /\ n + 1 \in 1..(n + 2) /\ ~(n + 1 <= n) /\ \A j \in 1..n : j \in 1..(n + 2) /\ j <= n
          BY <5>2
        <5>4. QED
          BY <5>1, <5>2, <5>3
      <4>2. k \in 1..(n + 2)
        BY <2>2, <4>1
      <4>3. k \notin 1..n
        <5>1. \A j \in 1..n : v.inbox[j].id < v.nextId /\ v.inbox[j].id \in Nat
          BY <1>1, <2>1
        <5>2. \A j \in 1..n : w.inbox[j] = v.inbox[j] /\ v.inbox[j].id # v.nextId
          <6>1. \A j \in 1..n : v.inbox[j].id # v.nextId
            BY <1>1, <5>1
          <6>2. \A j \in 1..n : w.inbox[j] = v.inbox[j]
            BY <4>1
          <6>3. QED
            BY <6>1, <6>2
        <5>3. QED
          BY <2>2, <5>2
      <4> HIDE DEF n
      <4>4. k = n + 1 \/ k = n + 2
        BY <4>1, <4>2, <4>3
      <4>5. k = n + 2 /\ k - 1 = n + 1 /\ k # 1
        BY <1>4, <2>2, <4>1, <4>4
      <4>6. QED
        BY <1>4, <4>1, <4>5
    <3>3. QED
      BY <1>7, <3>1, <3>2 DEF Sent
  <2>3. \A m \in w.todo : m.id # v.nextId
    BY <1>1, <1>7 DEF ServerInv, IdsCounted, Server
  <2>4. \A k \in DOMAIN w.outbox : w.outbox[k].id # v.nextId
    BY <1>1, <1>7 DEF ServerInv, IdsCounted
  <2>5. QED
    BY <2>2, <2>3, <2>4 DEF Carries
<1>12. QED
  BY <1>1, <1>7, <1>10, <1>11 DEF Onward, StaysStopped

\* The server reads what came first.
LEMMA Reads ==
  ASSUME NEW v, ServerInv(v), v.inbox # <<>>, NEW m, m = Head(v.inbox),
         NEW read, read = [v EXCEPT !.inbox = Tail(@)]
  PROVE  /\ m \in Message /\ m = v.inbox[1] /\ m.id < v.nextId
         /\ read \in Server /\ read.inbox = Tail(v.inbox) /\ v.inbox \in Seq(Message)
         /\ \A k \in DOMAIN read.inbox : k + 1 \in DOMAIN v.inbox /\ read.inbox[k] = v.inbox[k + 1]
<1>1. v \in Server /\ v.inbox \in Seq(Message)
  BY DEF ServerInv, Server
<1>2. Tail(v.inbox) \in Seq(Message) /\ 1 \in DOMAIN v.inbox /\ m = v.inbox[1] /\ m \in Message
  BY <1>1
<1>3. read \in Server /\ read.inbox = Tail(v.inbox)
  BY <1>1, <1>2 DEF Server
<1>4. \A k \in DOMAIN read.inbox : k + 1 \in DOMAIN v.inbox /\ read.inbox[k] = v.inbox[k + 1]
  BY <1>1, <1>2, <1>3
<1>5. QED
  BY <1>1, <1>2, <1>3, <1>4 DEF ServerInv, IdsCounted

\* A text it reads is what it knows from then on; it may report on it.
LEMMA ReadsText ==
  ASSUME NEW v, ServerInv(v), v.inbox # <<>>, NEW m, m = Head(v.inbox), m.kind = "sync",
         NEW reports \in {<<>>, <<[kind |-> "report", id |-> 0, text |-> m.text]>>},
         NEW w, w = [[v EXCEPT !.inbox = Tail(@)] EXCEPT !.knows = m.text, !.outbox = @ \o reports]
  PROVE  Onward(v, w)
<1> DEFINE read == [v EXCEPT !.inbox = Tail(@)]
<1>1. /\ m \in Message /\ m = v.inbox[1] /\ read \in Server /\ read.inbox = Tail(v.inbox) /\ v.inbox \in Seq(Message)
      /\ \A k \in DOMAIN read.inbox : k + 1 \in DOMAIN v.inbox /\ read.inbox[k] = v.inbox[k + 1]
  BY Reads
<1>2. v \in Server /\ v.nextId \in Nat /\ InitializeId < v.nextId /\ v.outbox \in Seq(Message) /\ read.outbox = v.outbox
  BY DEF ServerInv, Server, IdsCounted
<1>3. reports \in Seq(Message) /\ \A k \in DOMAIN reports : reports[k].kind # "answer" /\ reports[k].id < v.nextId
  <2>1. [kind |-> "report", id |-> 0, text |-> m.text] \in Message
    BY <1>1 DEF Message
  <2>2. CASE reports = <<>>
    BY <2>2
  <2>3. CASE reports = <<[kind |-> "report", id |-> 0, text |-> m.text]>>
    BY <1>2, <2>1, <2>3 DEF InitializeId
  <2>4. QED
    BY <2>2, <2>3
<1>4. v.outbox \o reports \in Seq(Message) /\ m.text \in Nat
  BY <1>1, <1>2, <1>3 DEF Message
<1>5. w \in Server /\ w.knows = m.text /\ w.outbox = v.outbox \o reports /\ w.inbox = read.inbox
  BY <1>1, <1>2, <1>4 DEF Server
<1>6. /\ w.todo = v.todo /\ w.pending = v.pending /\ w.nextId = v.nextId
      /\ w.proc = v.proc /\ w.start = v.start /\ w.exited = v.exited /\ w.closed = v.closed /\ w.stop = v.stop
  BY <1>2 DEF Server
<1> HIDE DEF read
<1>7. \A k \in DOMAIN w.outbox :
        \/ k \in DOMAIN v.outbox /\ w.outbox[k] = v.outbox[k]
        \/ w.outbox[k].kind # "answer" /\ w.outbox[k].id < v.nextId
  <2> SUFFICES ASSUME NEW k \in DOMAIN w.outbox, k \notin DOMAIN v.outbox
               PROVE  k - Len(v.outbox) \in DOMAIN reports /\ w.outbox[k] = reports[k - Len(v.outbox)]
    BY <1>2, <1>3, <1>5
  <2>1. QED
    BY <1>2, <1>3, <1>5
<1>8. IdsCounted(w)
  BY <1>1, <1>5, <1>6, <1>7 DEF ServerInv, IdsCounted
<1>9. ASSUME NEW id \in Nat, NEW text \in Nat, Carries(v, id, text) PROVE Carries(w, id, text)
  <2>1. ASSUME NEW k \in DOMAIN w.inbox, w.inbox[k].kind = "ask", w.inbox[k].id = id
        PROVE  IF k = 1 THEN w.knows = text ELSE w.inbox[k - 1].kind = "sync" /\ w.inbox[k - 1].text = text
    <3>0. k \in Nat \ {0}
      BY <1>1, <1>5, <2>1
    <3>1. k + 1 \in DOMAIN v.inbox /\ w.inbox[k] = v.inbox[k + 1]
      BY <1>1, <1>5, <2>1
    <3>2. v.inbox[k].kind = "sync" /\ v.inbox[k].text = text
      <4>1. k + 1 # 1 /\ (k + 1) - 1 = k
        BY <3>0
      <4>2. QED
        BY <1>9, <2>1, <3>1, <4>1 DEF Carries
    <3>3. CASE k = 1
      BY <1>1, <1>5, <3>2, <3>3
    <3>4. CASE k # 1
      <4>1. k - 1 \in DOMAIN w.inbox /\ (k - 1) + 1 = k
        BY <1>1, <1>5, <2>1, <3>0, <3>4
      <4>2. w.inbox[k - 1] = v.inbox[k]
        BY <1>1, <1>5, <4>1
      <4>3. QED
        BY <3>2, <3>4, <4>2
    <3>5. QED
      BY <3>3, <3>4
  <2>2. QED
    BY <1>6, <1>7, <1>9, <2>1 DEF Carries
<1>10. QED
  BY <1>2, <1>5, <1>6, <1>8, <1>9 DEF Onward, Evolves, StaysStopped, ServerInv, EndsInOrder

\* A request it reads is about what it knows.
LEMMA ReadsRequest ==
  ASSUME NEW v, ServerInv(v), v.inbox # <<>>, NEW m, m = Head(v.inbox), m.kind = "ask",
         NEW w, w = [[v EXCEPT !.inbox = Tail(@)] EXCEPT !.todo = @ \cup {[id |-> m.id, text |-> v.knows]}]
  PROVE  Onward(v, w)
<1> DEFINE read == [v EXCEPT !.inbox = Tail(@)]
           new == [id |-> m.id, text |-> v.knows]
<1>1. /\ m \in Message /\ m = v.inbox[1] /\ m.id < v.nextId
      /\ read \in Server /\ read.inbox = Tail(v.inbox) /\ v.inbox \in Seq(Message)
      /\ \A k \in DOMAIN read.inbox : k + 1 \in DOMAIN v.inbox /\ read.inbox[k] = v.inbox[k + 1]
  BY Reads
<1>2. v \in Server /\ v.nextId \in Nat /\ read.todo = v.todo
  BY DEF ServerInv, Server
<1>3. new \in [id : Nat, text : Nat]
  BY <1>1, <1>2 DEF Message, Server
<1>4. w \in Server /\ w.todo = v.todo \cup {new} /\ w.inbox = read.inbox
  BY <1>1, <1>2, <1>3 DEF Server
<1>5. /\ w.knows = v.knows /\ w.pending = v.pending /\ w.nextId = v.nextId /\ w.outbox = v.outbox
      /\ w.proc = v.proc /\ w.start = v.start /\ w.exited = v.exited /\ w.closed = v.closed /\ w.stop = v.stop
  BY <1>2 DEF Server
<1> HIDE DEF read
<1>6. IdsCounted(w)
  BY <1>1, <1>4, <1>5 DEF ServerInv, IdsCounted
<1>7. ASSUME NEW id \in Nat, NEW text \in Nat, Carries(v, id, text) PROVE Carries(w, id, text)
  <2>1. ASSUME NEW k \in DOMAIN w.inbox, w.inbox[k].kind = "ask", w.inbox[k].id = id
        PROVE  k # 1 /\ w.inbox[k - 1].kind = "sync" /\ w.inbox[k - 1].text = text
    <3>1. k + 1 \in DOMAIN v.inbox /\ w.inbox[k] = v.inbox[k + 1] /\ k \in Nat \ {0}
      BY <1>1, <1>4, <2>1
    <3>2. v.inbox[k].kind = "sync" /\ v.inbox[k].text = text
      <4>1. k + 1 # 1 /\ (k + 1) - 1 = k
        BY <3>1
      <4>2. QED
        BY <1>7, <2>1, <3>1, <4>1 DEF Carries
    <3>3. k # 1
      BY <1>1, <3>2
    <3>4. k - 1 \in DOMAIN w.inbox /\ (k - 1) + 1 = k
      BY <1>1, <1>4, <2>1, <3>1, <3>3
    <3>5. w.inbox[k - 1] = v.inbox[k]
      BY <1>1, <1>4, <3>4
    <3>6. QED
      BY <3>2, <3>3, <3>5
  <2>2. m.id = id => v.knows = text
    BY <1>1, <1>7 DEF Carries
  <2>3. QED
    BY <1>4, <1>5, <1>7, <2>1, <2>2 DEF Carries
<1>8. QED
  BY <1>2, <1>4, <1>5, <1>6, <1>7 DEF Onward, Evolves, StaysStopped, ServerInv, EndsInOrder

\* It answers with what it knew then.
LEMMA Answers ==
  ASSUME NEW v, ServerInv(v), NEW m \in v.todo,
         NEW w, w = [v EXCEPT !.todo = @ \ {m}, !.outbox = Append(@, [kind |-> "answer", id |-> m.id, text |-> m.text])]
  PROVE  Onward(v, w)
<1> DEFINE answer == [kind |-> "answer", id |-> m.id, text |-> m.text]
<1>1. v \in Server /\ v.nextId \in Nat /\ m.id \in Nat /\ m.text \in Nat /\ m.id < v.nextId /\ v.outbox \in Seq(Message)
  BY DEF ServerInv, Server, IdsCounted
<1>2. answer \in Message /\ Append(v.outbox, answer) \in Seq(Message)
  BY <1>1 DEF Message
<1>3. w \in Server /\ w.todo = v.todo \ {m} /\ w.outbox = Append(v.outbox, answer)
  BY <1>1, <1>2 DEF Server
<1>4. /\ w.inbox = v.inbox /\ w.knows = v.knows /\ w.pending = v.pending /\ w.nextId = v.nextId
      /\ w.proc = v.proc /\ w.start = v.start /\ w.exited = v.exited /\ w.closed = v.closed /\ w.stop = v.stop
  BY <1>1 DEF Server
<1>5. \A k \in DOMAIN w.outbox : (k \in DOMAIN v.outbox /\ w.outbox[k] = v.outbox[k]) \/ w.outbox[k] = answer
  BY <1>1, <1>2, <1>3
<1>6. IdsCounted(w)
  BY <1>1, <1>3, <1>4, <1>5 DEF ServerInv, IdsCounted
<1>7. \A id, text \in Nat : Carries(v, id, text) => Carries(w, id, text)
  BY <1>3, <1>4, <1>5 DEF Carries
<1>8. QED
  BY <1>1, <1>3, <1>4, <1>6, <1>7 DEF Onward, Evolves, StaysStopped, ServerInv, EndsInOrder

-----------------------------------------------------------------------------
(* What becomes of a session's servers and asks.                              *)

Moves(all, next) ==
  /\ next \in Seq(Server)
  /\ DOMAIN all \subseteq DOMAIN next
  /\ \A s \in DOMAIN next : ServerInv(next[s])
  /\ \A s \in DOMAIN all : Evolves(all[s], next[s])

LEMMA Stays == ASSUME NEW v, ServerInv(v) PROVE Onward(v, v)
BY DEF Onward, Evolves, StaysStopped, ServerInv, Server

LEMMA NoneMoves == TextInv => Moves(servers, servers)
BY Stays DEF TextInv, Moves, Onward

LEMMA OneMoves ==
  ASSUME TextInv, NEW s \in DOMAIN servers, NEW w, Evolves(servers[s], w), servers' = [servers EXCEPT ![s] = w]
  PROVE  /\ Moves(servers, servers') /\ DOMAIN servers' = DOMAIN servers /\ Len(servers') = Len(servers)
         /\ servers'[s] = w /\ \A t \in DOMAIN servers : t # s => servers'[t] = servers[t]
<1>1. servers \in Seq(Server) /\ w \in Server /\ ServerInv(w)
  BY DEF TextInv, Evolves, ServerInv
<1>2. servers' \in Seq(Server) /\ DOMAIN servers' = DOMAIN servers /\ Len(servers') = Len(servers)
  BY <1>1
<1>3. \A t \in DOMAIN servers : servers'[t] = IF t = s THEN w ELSE servers[t]
  BY <1>1
<1>4. \A t \in DOMAIN servers : ServerInv(servers'[t]) /\ Evolves(servers[t], servers'[t])
  BY <1>1, <1>3, Stays DEF TextInv, Onward
<1>5. QED
  BY <1>2, <1>3, <1>4 DEF Moves

LEMMA IsDone ==
  ASSUME NEW ask \in Ask, NEW how \in {"error", "answer", "fresh", "known"}, NEW text \in Nat, NEW all,
         how = "answer" => text = ask.text
  PROVE  Done(ask, how, text) \in Ask /\ AskInv(Done(ask, how, text), all) /\ Done(ask, how, text).at = "done"
BY DEF Done, Idle, Ask, AskInv, NoText, NoServer

\* An ask stays good while servers move, and so do new ones that are.
LEMMA AsksMove ==
  ASSUME TextInv, disk' \in Nat, Moves(servers, servers'), asks' \in [Asks -> Ask],
         \A a \in Asks : asks'[a] = asks[a] \/ AskInv(asks'[a], servers')
  PROVE  TextInv'
<1>1. ASSUME NEW a \in Asks, asks'[a] = asks[a] PROVE AskInv(asks'[a], servers')
  <2>1. asks[a] \in Ask /\ AskInv(asks[a], servers) /\ asks[a].id \in Nat /\ asks[a].text \in Nat
    BY DEF TextInv, Ask
  <2>2. CASE asks[a].at = "answering"
    <3>1. asks[a].on \in DOMAIN servers
      BY <2>1, <2>2 DEF AskInv
    <3>2. Evolves(servers[asks[a].on], servers'[asks[a].on]) /\ asks[a].on \in DOMAIN servers'
      BY <3>1 DEF Moves
    <3>3. servers[asks[a].on].nextId \in Nat /\ servers'[asks[a].on].nextId \in Nat
      BY <3>1, <3>2 DEF TextInv, ServerInv, Server, Moves
    <3>4. asks[a].id < servers'[asks[a].on].nextId /\ Carries(servers'[asks[a].on], asks[a].id, asks[a].text)
      BY <2>1, <2>2, <3>2, <3>3 DEF AskInv, Evolves
    <3>5. QED
      BY <1>1, <2>1, <2>2, <3>2, <3>4 DEF AskInv
  <2>3. CASE asks[a].at # "answering"
    BY <1>1, <2>1, <2>3 DEF AskInv, Moves
  <2>4. QED
    BY <2>2, <2>3
<1>2. QED
  BY <1>1 DEF TextInv, Moves

\* The asks of a connection that closes are rejected.
LEMMA AreRejected ==
  ASSUME TextInv, disk' \in Nat, NEW s, asks' = Rejected(s), Moves(servers, servers')
  PROVE  TextInv' /\ \A a \in Asks : asks'[a].at = "starting" => asks'[a] = asks[a]
<1>1. \A a \in Asks : asks[a] \in Ask /\ (asks'[a] = asks[a] \/ asks'[a] = Done(asks[a], "error", NoText))
  BY DEF TextInv, Rejected
<1>2. \A a \in Asks : asks'[a] \in Ask /\ (asks'[a] = asks[a] \/ (AskInv(asks'[a], servers') /\ asks'[a].at = "done"))
  <2>1. NoText \in Nat
    BY DEF NoText
  <2>2. SUFFICES ASSUME NEW a \in Asks, asks'[a] = Done(asks[a], "error", NoText)
                 PROVE  asks'[a] \in Ask /\ AskInv(asks'[a], servers') /\ asks'[a].at = "done"
    BY <1>1
  <2>3. QED
    BY <1>1, <2>1, <2>2, IsDone
<1>3. asks' \in [Asks -> Ask]
  BY <1>2 DEF Rejected
<1>4. QED
  BY <1>2, <1>3, AsksMove

\* One ask that is done.
LEMMA OneIsDone ==
  ASSUME TextInv, disk' \in Nat, Moves(servers, servers'), NEW a \in Asks, NEW how \in {"error", "fresh", "known"},
         NEW text \in Nat, asks' = [asks EXCEPT ![a] = Done(asks[a], how, text)]
  PROVE  TextInv' /\ \A b \in Asks : asks'[b].at = "starting" => asks'[b] = asks[b]
<1>1. \A b \in Asks : asks[b] \in Ask
  BY DEF TextInv
<1>2. Done(asks[a], how, text) \in Ask /\ AskInv(Done(asks[a], how, text), servers') /\ Done(asks[a], how, text).at = "done"
  BY <1>1, IsDone
<1>3. \A b \in Asks : asks'[b] = IF b = a THEN Done(asks[a], how, text) ELSE asks[b]
  BY DEF TextInv
<1>4. asks' \in [Asks -> Ask]
  BY <1>1, <1>2 DEF TextInv
<1>5. QED
  BY <1>2, <1>3, <1>4, AsksMove

\* What a step does to the servers, and that it keeps the texts.
Stepped == TextInv' /\ Moves(servers, servers')
StopsStand == \A s \in DOMAIN servers : StaysStopped(servers[s], servers'[s])
\* No server's start or end is told, and no ask begins to wait for one.
Steady ==
  /\ DOMAIN servers' = DOMAIN servers
  /\ \A s \in DOMAIN servers : servers'[s].start = servers[s].start /\ servers'[s].exited = servers[s].exited
  /\ \A a \in Asks : asks'[a].at = "starting" => asks'[a] = asks[a]
Calm == Stepped /\ StopsStand /\ Steady

LEMMA CalmOne ==
  ASSUME TextInv, TextInv', NEW s \in DOMAIN servers, NEW w, Onward(servers[s], w), servers' = [servers EXCEPT ![s] = w],
         w.start = servers[s].start, w.exited = servers[s].exited,
         \A a \in Asks : asks'[a].at = "starting" => asks'[a] = asks[a]
  PROVE  Calm
<1>1. /\ Moves(servers, servers') /\ DOMAIN servers' = DOMAIN servers
      /\ servers'[s] = w /\ \A t \in DOMAIN servers : t # s => servers'[t] = servers[t]
  BY OneMoves DEF Onward
<1>2. \A t \in DOMAIN servers : StaysStopped(servers[t], servers'[t])
  BY <1>1, Stays DEF Onward, TextInv
<1>3. QED
  BY <1>1, <1>2 DEF Calm, Stepped, StopsStand, Steady

LEMMA CalmNone ==
  ASSUME TextInv, TextInv', servers' = servers, \A a \in Asks : asks'[a].at = "starting" => asks'[a] = asks[a]
  PROVE  Calm
<1>1. \A t \in DOMAIN servers : StaysStopped(servers[t], servers'[t])
  BY DEF StaysStopped
<1>2. QED
  BY <1>1, NoneMoves DEF Calm, Stepped, StopsStand, Steady

\* Nothing of the asks changes.
LEMMA AsksStay ==
  ASSUME TextInv, disk' \in Nat, Moves(servers, servers'), asks' = asks
  PROVE  TextInv' /\ \A a \in Asks : asks'[a].at = "starting" => asks'[a] = asks[a]
BY AsksMove DEF TextInv

LEMMA CalmServer ==
  ASSUME TextInv, disk' \in Nat, asks' = asks, NEW s \in DOMAIN servers, NEW w, Onward(servers[s], w),
         servers' = [servers EXCEPT ![s] = w], w.start = servers[s].start, w.exited = servers[s].exited
  PROVE  Calm
BY OneMoves, AsksStay, CalmOne DEF Onward

\* Where an ask stands.
LEMMA AskStands ==
  ASSUME TextInv, NEW a \in Asks, asks[a].at \in {"starting", "reporting", "answering"}
  PROVE  /\ asks[a] \in Ask /\ asks[a].on \in DOMAIN servers
         /\ ServerInv(servers[asks[a].on]) /\ servers[asks[a].on] \in Server
BY DEF TextInv, AskInv, ServerInv

LEMMA StartFailedStep == ASSUME TextInv, NEW a \in Asks, StartFailed(a) PROVE Calm
<1>1. asks' = [asks EXCEPT ![a] = Done(asks[a], "error", NoText)] /\ servers' = servers /\ disk' = disk
  BY DEF StartFailed
<1>2. disk' \in Nat /\ NoText \in Nat
  BY <1>1 DEF TextInv, NoText
<1>3. Moves(servers, servers')
  BY <1>1, NoneMoves
<1>4. QED
  BY <1>1, <1>2, <1>3, OneIsDone, CalmNone

LEMMA FoundGoneStep == ASSUME TextInv, NEW a \in Asks, FoundGone(a) PROVE Calm
<1>1. asks' = [asks EXCEPT ![a] = Done(asks[a], "error", NoText)] /\ servers' = servers /\ disk' = disk
  BY DEF FoundGone
<1>2. disk' \in Nat /\ NoText \in Nat
  BY <1>1 DEF TextInv, NoText
<1>3. Moves(servers, servers')
  BY <1>1, NoneMoves
<1>4. QED
  BY <1>1, <1>2, <1>3, OneIsDone, CalmNone

LEMMA ReportTimeoutStep == ASSUME TextInv, NEW a \in Asks, ReportTimeout(a) PROVE Calm
<1> DEFINE text == servers[asks[a].on].said
<1>1. asks' = [asks EXCEPT ![a] = Done(asks[a], "known", text)] /\ servers' = servers /\ disk' = disk
  BY DEF ReportTimeout, TextInv
<1>2. disk' \in Nat /\ text \in Nat
  BY <1>1, AskStands DEF ReportTimeout, TextInv, Server
<1>3. Moves(servers, servers')
  BY <1>1, NoneMoves
<1> HIDE DEF text
<1>4. QED
  BY <1>1, <1>2, <1>3, OneIsDone, CalmNone

LEMMA RequestTimeoutStep == ASSUME TextInv, NEW a \in Asks, RequestTimeout(a) PROVE Calm
<1> DEFINE s == asks[a].on
           w == [servers[s] EXCEPT !.pending = @ \ {asks[a].id}]
<1>1. s \in DOMAIN servers /\ ServerInv(servers[s]) /\ servers[s] \in Server /\ disk' \in Nat /\ NoText \in Nat
  BY AskStands DEF RequestTimeout, TextInv, NoText
<1>2. asks' = [asks EXCEPT ![a] = Done(asks[a], "error", NoText)]
  BY DEF RequestTimeout, TextInv
<1>3. servers' = [servers EXCEPT ![s] = w]
  BY <1>1 DEF RequestTimeout, TextInv
<1>4. Onward(servers[s], w) /\ w.start = servers[s].start /\ w.exited = servers[s].exited
  BY <1>1, Forgets DEF Server
<1> HIDE DEF s, w
<1>5. Moves(servers, servers')
  BY <1>1, <1>3, <1>4, OneMoves DEF Onward
<1>6. QED
  BY <1>1, <1>2, <1>3, <1>4, <1>5, OneIsDone, CalmOne

LEMMA AsksDiagnosticsStep == ASSUME TextInv, NEW a \in Asks, AsksDiagnostics(a) PROVE Calm
<1> DEFINE s == asks[a].on
           w == [servers[s] EXCEPT !.inbox = Sent(servers[s], <<Sync>>)]
<1>1. /\ s \in DOMAIN servers /\ ServerInv(servers[s]) /\ servers[s] \in Server /\ disk \in Nat /\ disk' \in Nat
      /\ asks[a] \in Ask
  BY AskStands DEF AsksDiagnostics, Resumes, TextInv
<1>2. servers' = [servers EXCEPT ![s] = w]
  BY <1>1 DEF AsksDiagnostics, TextInv
<1>3. Onward(servers[s], w)
  BY <1>1, SendsText DEF Sync
<1>4. w.start = servers[s].start /\ w.exited = servers[s].exited
  BY <1>1 DEF Server
<1> HIDE DEF w
<1>5. Moves(servers, servers') /\ DOMAIN servers' = DOMAIN servers
  BY <1>1, <1>2, <1>3, OneMoves DEF Onward
<1> DEFINE new == [asks[a] EXCEPT !.at = "reporting", !.text = disk]
<1>6. asks' = [asks EXCEPT ![a] = new]
  BY DEF AsksDiagnostics, TextInv
<1>7. new \in Ask /\ new.at = "reporting" /\ new.on = s /\ new.how = "none"
  <2>1. asks[a].how = "none"
    BY <1>1 DEF AsksDiagnostics, Resumes, TextInv, AskInv
  <2>2. QED
    BY <1>1, <2>1 DEF Ask
<1>8. AskInv(new, servers')
  BY <1>1, <1>5, <1>7 DEF AskInv
<1> HIDE DEF new, s
<1>9. asks' \in [Asks -> Ask] /\ \A b \in Asks : asks'[b] = IF b = a THEN new ELSE asks[b]
  BY <1>6, <1>7 DEF TextInv
<1>10. TextInv'
  BY <1>1, <1>5, <1>8, <1>9, AsksMove
<1>11. QED
  BY <1>1, <1>2, <1>3, <1>4, <1>7, <1>9, <1>10, CalmOne

LEMMA AsksPositionStep == ASSUME TextInv, NEW a \in Asks, AsksPosition(a) PROVE Calm
<1> DEFINE s == asks[a].on
           id == servers[s].nextId
           w == [servers[s] EXCEPT !.inbox = Sent(servers[s], <<Sync, [kind |-> "ask", id |-> id, text |-> NoText]>>),
                                   !.pending = @ \cup {id}, !.nextId = id + 1]
           new == [asks[a] EXCEPT !.at = "answering", !.id = id, !.text = disk]
<1>1. /\ s \in DOMAIN servers /\ ServerInv(servers[s]) /\ servers[s] \in Server /\ disk \in Nat /\ disk' \in Nat
      /\ asks[a] \in Ask /\ asks[a].how = "none" /\ id \in Nat
  BY AskStands DEF AsksPosition, Resumes, TextInv, AskInv, Server
<1>2. CASE servers[s].closed
  <2>1. asks' = [asks EXCEPT ![a] = Done(asks[a], "error", NoText)] /\ servers' = servers /\ NoText \in Nat
    BY <1>2 DEF AsksPosition, TextInv, NoText
  <2>2. Moves(servers, servers')
    BY <2>1, NoneMoves
  <2>3. QED
    BY <1>1, <2>1, <2>2, OneIsDone, CalmNone
<1>3. CASE ~servers[s].closed
  <2>1. servers' = [servers EXCEPT ![s] = w] /\ asks' = [asks EXCEPT ![a] = new]
    BY <1>1, <1>3 DEF AsksPosition, TextInv
  <2>2. Onward(servers[s], w) /\ id < w.nextId /\ Carries(w, id, disk)
    BY <1>1, <1>3, SendsRequest DEF Sync
  <2>3. w.start = servers[s].start /\ w.exited = servers[s].exited
    BY <1>1 DEF Server
  <2> HIDE DEF w
  <2>4. Moves(servers, servers') /\ DOMAIN servers' = DOMAIN servers /\ servers'[s] = w
    BY <1>1, <2>1, <2>2, OneMoves DEF Onward
  <2>5. new \in Ask /\ new.at = "answering" /\ new.on = s /\ new.id = id /\ new.text = disk /\ new.how = "none"
    BY <1>1 DEF Ask
  <2> HIDE DEF new, s, id
  <2>6. AskInv(new, servers')
    BY <1>1, <2>2, <2>4, <2>5 DEF AskInv
  <2>7. asks' \in [Asks -> Ask] /\ \A b \in Asks : asks'[b] = IF b = a THEN new ELSE asks[b]
    BY <2>1, <2>5 DEF TextInv
  <2>8. TextInv'
    BY <1>1, <2>4, <2>6, <2>7, AsksMove
  <2>9. QED
    BY <1>1, <2>1, <2>2, <2>3, <2>5, <2>7, <2>8, CalmOne
<1>4. QED
  BY <1>2, <1>3

LEMMA DeliverReportStep == ASSUME TextInv, NEW s \in DOMAIN servers, DeliverReport(s) PROVE Calm
<1> DEFINE v == servers[s]
           m == Head(v.outbox)
           popped == [v EXCEPT !.outbox = Tail(@)]
           w == [popped EXCEPT !.said = m.text]
<1>1. v \in Server /\ ServerInv(v) /\ v.outbox # <<>> /\ v.outbox \in Seq(Message) /\ disk' \in Nat
  BY DEF TextInv, ServerInv, Server, DeliverReport
<1>2. m \in Message
  BY <1>1
<1>3. m.text \in Nat
  BY <1>2 DEF Message
<1>4. Onward(v, popped) /\ popped \in Server /\ ServerInv(popped)
  BY <1>1, Pops DEF Onward, Evolves, ServerInv
<1>5. Onward(v, w)
  <2> HIDE DEF v, popped, m
  <2>1. Onward(popped, w)
    BY <1>3, <1>4, Says
  <2>2. QED
    BY <1>1, <1>4, <2>1, OnwardAgain
<1>6. w.start = v.start /\ w.exited = v.exited
  BY <1>1 DEF Server
<1>7. servers' = [servers EXCEPT ![s] = w]
  BY DEF DeliverReport, Popped
<1>8. \A a \in Asks : asks'[a] = asks[a] \/ asks'[a] = Done(asks[a], "fresh", m.text)
  BY DEF DeliverReport
<1>9. asks' = [a \in Asks |-> asks'[a]]
  BY DEF DeliverReport
<1> HIDE DEF v, m, w
<1>10. Moves(servers, servers')
  BY <1>5, <1>7, OneMoves DEF Onward, v
<1>11. \A a \in Asks : asks'[a] \in Ask /\ (asks'[a] = asks[a] \/ (AskInv(asks'[a], servers') /\ asks'[a].at = "done"))
  <2>1. \A a \in Asks : asks[a] \in Ask
    BY DEF TextInv
  <2>2. SUFFICES ASSUME NEW a \in Asks, asks'[a] = Done(asks[a], "fresh", m.text)
                 PROVE  asks'[a] \in Ask /\ AskInv(asks'[a], servers') /\ asks'[a].at = "done"
    BY <1>8, <2>1
  <2>3. QED
    BY <1>3, <2>1, <2>2, IsDone
<1>12. TextInv'
  BY <1>1, <1>9, <1>10, <1>11, AsksMove
<1>13. QED
  BY <1>5, <1>6, <1>7, <1>11, <1>12, CalmOne DEF v

\* An answer is of the text its ask sent.
LEMMA IsAnswered ==
  ASSUME TextInv, NEW s \in DOMAIN servers, NEW m, servers[s].outbox # <<>>, m = Head(servers[s].outbox), m.kind = "answer",
         NEW a \in AskOf(s, m.id)
  PROVE  a \in Asks /\ m.text \in Nat /\ m.text = asks[a].text
<1>1. servers[s].outbox \in Seq(Message)
  BY DEF TextInv, ServerInv, Server
<1>2. m \in Message /\ 1 \in DOMAIN servers[s].outbox /\ m = servers[s].outbox[1]
  BY <1>1
<1>3. a \in Asks /\ asks[a].at = "answering" /\ asks[a].on = s /\ asks[a].id = m.id
  BY DEF AskOf, Waiting
<1>4. Carries(servers[s], m.id, asks[a].text)
  BY <1>3 DEF TextInv, AskInv
<1>5. QED
  BY <1>2, <1>3, <1>4 DEF Carries, Message

LEMMA DeliverAnswerStep ==
  ASSUME TextInv, NEW s \in DOMAIN servers, DeliverAnswer(s)
  PROVE  \/ Calm
         \/ /\ Stepped /\ StopsStand /\ asks' = asks /\ DOMAIN servers' = DOMAIN servers
            /\ ~servers'[s].exited /\ ~servers[s].exited /\ servers[s].start # "failed"
            /\ \A t \in DOMAIN servers : t # s => servers'[t] = servers[t]
<1> DEFINE v == servers[s]
           m == Head(v.outbox)
           popped == [v EXCEPT !.outbox = Tail(@)]
           taken == [popped EXCEPT !.pending = @ \ {m.id}]
<1>1. v \in Server /\ ServerInv(v) /\ v.outbox # <<>> /\ disk' \in Nat /\ m.kind = "answer" /\ servers \in Seq(Server)
  BY DEF TextInv, ServerInv, DeliverAnswer
<1>2. Onward(v, popped) /\ popped \in Server /\ ServerInv(popped)
  BY <1>1, Pops DEF Onward, Evolves, ServerInv
<1>3. popped.pending = v.pending /\ popped.start = v.start /\ popped.exited = v.exited /\ popped.stop = v.stop
  BY <1>1 DEF Server
<1>4. Onward(popped, taken) /\ taken \in Server /\ ServerInv(taken)
  <2> HIDE DEF popped, m
  <2>1. Onward(popped, taken)
    BY <1>2, Forgets
  <2>2. QED
    BY <2>1 DEF Onward, Evolves, ServerInv
<1>5. taken.pending = v.pending \ {m.id} /\ taken.start = v.start /\ taken.exited = v.exited /\ taken.stop = v.stop
  <2> HIDE DEF popped, m
  <2>1. QED
    BY <1>2, <1>3 DEF Server
<1>6. Onward(v, taken)
  <2> HIDE DEF v, popped, taken, m
  <2>1. QED
    BY <1>1, <1>2, <1>4, OnwardAgain
<1>7. CASE m.id \notin v.pending /\ servers' = [servers EXCEPT ![s] = popped] /\ asks' = asks
  <2> HIDE DEF popped
  <2>1. QED
    BY <1>1, <1>2, <1>3, <1>7, CalmServer
<1>8. CASE m.id \in v.pending /\ m.id = InitializeId /\ servers' = [servers EXCEPT ![s] = [taken EXCEPT !.start = "ready"]] /\ asks' = asks
  <2> DEFINE w == [taken EXCEPT !.start = "ready"]
  <2>1. ~v.exited /\ v.start # "failed" /\ InitializeId \notin taken.pending
    BY <1>1, <1>5, <1>8 DEF ServerInv, EndsInOrder
  <2> HIDE DEF taken
  <2>2. Onward(taken, w)
    BY <1>4, <1>5, <2>1, Readies
  <2>3. Onward(v, w) /\ w.exited = v.exited
    <3>1. w.exited = v.exited
      BY <1>4, <1>5 DEF Server
    <3> HIDE DEF w, v
    <3>2. QED
      BY <1>1, <1>6, <2>2, <3>1, OnwardAgain
  <2>4. servers' = [servers EXCEPT ![s] = w]
    BY <1>8
  <2> HIDE DEF w
  <2>5. /\ Moves(servers, servers') /\ DOMAIN servers' = DOMAIN servers
        /\ servers'[s] = w /\ \A t \in DOMAIN servers : t # s => servers'[t] = servers[t]
    BY <2>3, <2>4, OneMoves DEF Onward
  <2>6. TextInv'
    BY <1>1, <1>8, <2>5, AsksStay
  <2>7. StopsStand
    <3>1. \A t \in DOMAIN servers : t # s => StaysStopped(servers[t], servers'[t])
      BY <2>5 DEF StaysStopped
    <3>2. QED
      BY <2>3, <2>5, <3>1 DEF Onward, StopsStand
  <2>8. QED
    BY <1>8, <2>1, <2>3, <2>5, <2>6, <2>7 DEF Stepped
<1>9. CASE /\ servers' = [servers EXCEPT ![s] = taken]
           /\ asks' = [a \in Asks |-> IF a \in AskOf(s, m.id) THEN Done(asks[a], "answer", m.text) ELSE asks[a]]
  <2>1. \A a \in Asks : asks'[a] = asks[a] \/ (a \in AskOf(s, m.id) /\ asks'[a] = Done(asks[a], "answer", m.text))
    BY <1>9
  <2>2. \A a \in AskOf(s, m.id) : m.text \in Nat /\ m.text = asks[a].text
    BY <1>1, IsAnswered
  <2>3. asks' = [a \in Asks |-> asks'[a]]
    BY <1>9
  <2> HIDE DEF m, taken
  <2>4. Moves(servers, servers')
    BY <1>6, <1>9, OneMoves DEF Onward
  <2>5. \A a \in Asks : asks'[a] \in Ask /\ (asks'[a] = asks[a] \/ (AskInv(asks'[a], servers') /\ asks'[a].at = "done"))
    <3>1. \A a \in Asks : asks[a] \in Ask
      BY DEF TextInv
    <3>2. SUFFICES ASSUME NEW a \in Asks, a \in AskOf(s, m.id), asks'[a] = Done(asks[a], "answer", m.text)
                   PROVE  asks'[a] \in Ask /\ AskInv(asks'[a], servers') /\ asks'[a].at = "done"
      BY <2>1, <3>1
    <3>3. QED
      BY <2>2, <3>1, <3>2, IsDone
  <2>6. TextInv'
    BY <1>1, <2>3, <2>4, <2>5, AsksMove
  <2>7. QED
    BY <1>5, <1>6, <1>9, <2>5, <2>6, CalmOne
<1>10. CASE m.id \in v.pending /\ servers' = [servers EXCEPT ![s] = LeavesServer(taken)] /\ asks' = Rejected(s)
  <2>1. taken.stop # "stopped"
    BY <1>1, <1>5, <1>10 DEF ServerInv, EndsInOrder
  <2> HIDE DEF taken
  <2> DEFINE w == LeavesServer(taken)
  <2>2. Onward(taken, w)
    BY <1>4, <2>1, Leaves
  <2>3. w.start = v.start /\ w.exited = v.exited
    BY <1>4, <1>5 DEF LeavesServer, Server
  <2>4. Onward(v, w)
    <3> HIDE DEF w, v
    <3>1. QED
      BY <1>1, <1>6, <2>2, OnwardAgain
  <2>5. servers' = [servers EXCEPT ![s] = w]
    BY <1>10
  <2> HIDE DEF w
  <2>6. Moves(servers, servers')
    BY <2>4, <2>5, OneMoves DEF Onward
  <2>7. TextInv' /\ \A a \in Asks : asks'[a].at = "starting" => asks'[a] = asks[a]
    BY <1>1, <1>10, <2>6, AreRejected
  <2>8. QED
    BY <2>3, <2>4, <2>5, <2>7, CalmOne
<1>11. QED
  BY <1>7, <1>8, <1>9, <1>10 DEF DeliverAnswer, Popped

LEMMA ShutdownTimeoutStep == ASSUME TextInv, NEW s \in DOMAIN servers, ShutdownTimeout(s) PROVE Calm
<1> DEFINE w == LeavesServer(servers[s])
<1>1. servers[s] \in Server /\ ServerInv(servers[s]) /\ disk' \in Nat /\ servers[s].stop = "shutdown"
  BY DEF TextInv, ServerInv, ShutdownTimeout
<1>2. Onward(servers[s], w)
  BY <1>1, Leaves
<1>3. w.start = servers[s].start /\ w.exited = servers[s].exited
  BY <1>1 DEF LeavesServer, Server
<1>4. servers' = [servers EXCEPT ![s] = w] /\ asks' = Rejected(s)
  BY DEF ShutdownTimeout
<1> HIDE DEF w
<1>5. Moves(servers, servers')
  BY <1>2, <1>4, OneMoves DEF Onward
<1>6. TextInv' /\ \A a \in Asks : asks'[a].at = "starting" => asks'[a] = asks[a]
  BY <1>1, <1>4, <1>5, AreRejected
<1>7. QED
  BY <1>2, <1>3, <1>4, <1>6, CalmOne

LEMMA ServerReadsStep == ASSUME TextInv, NEW s \in DOMAIN servers, ServerReads(s) PROVE Calm
<1> DEFINE v == servers[s]
           m == Head(v.inbox)
           read == [v EXCEPT !.inbox = Tail(@)]
<1>1. v \in Server /\ ServerInv(v) /\ v.inbox # <<>> /\ disk' \in Nat /\ asks' = asks
  BY DEF TextInv, ServerInv, ServerReads
<1>2. read \in Server /\ read.start = v.start /\ read.exited = v.exited /\ read.knows = v.knows
  BY <1>1, Reads DEF Server
<1>3. CASE m.kind = "sync" /\ \E reports \in {<<>>, <<[kind |-> "report", id |-> 0, text |-> m.text]>>} :
             servers' = [servers EXCEPT ![s] = [read EXCEPT !.knows = m.text, !.outbox = @ \o reports]]
  <2>1. PICK reports \in {<<>>, <<[kind |-> "report", id |-> 0, text |-> m.text]>>} :
             servers' = [servers EXCEPT ![s] = [read EXCEPT !.knows = m.text, !.outbox = @ \o reports]]
    BY <1>3
  <2> DEFINE w == [read EXCEPT !.knows = m.text, !.outbox = @ \o reports]
  <2>2. Onward(v, w)
    BY <1>1, <1>3, ReadsText
  <2> HIDE DEF read, m
  <2>3. w.start = v.start /\ w.exited = v.exited
    BY <1>2 DEF Server
  <2> HIDE DEF w
  <2>4. QED
    BY <1>1, <2>1, <2>2, <2>3, CalmServer DEF w
<1>4. CASE m.kind = "ask" /\ servers' = [servers EXCEPT ![s] = [read EXCEPT !.todo = @ \cup {[id |-> m.id, text |-> read.knows]}]]
  <2> DEFINE w == [read EXCEPT !.todo = @ \cup {[id |-> m.id, text |-> v.knows]}]
  <2>1. Onward(v, w)
    BY <1>1, <1>4, ReadsRequest
  <2>2. servers' = [servers EXCEPT ![s] = w]
    BY <1>2, <1>4
  <2> HIDE DEF read, m
  <2>3. w.start = v.start /\ w.exited = v.exited
    BY <1>2 DEF Server
  <2> HIDE DEF w
  <2>4. QED
    BY <1>1, <2>1, <2>2, <2>3, CalmServer
<1>5. CASE servers' = [servers EXCEPT ![s] = Gone(read)]
  <2>1. Gone(read) = Gone(v)
    BY <1>1, <1>2 DEF Gone, Server
  <2>2. Onward(v, Gone(v)) /\ Gone(v).start = v.start /\ Gone(v).exited = v.exited
    BY <1>1, Goes DEF Gone, Server
  <2>3. QED
    BY <1>1, <1>5, <2>1, <2>2, CalmServer
<1>6. QED
  BY <1>3, <1>4, <1>5 DEF ServerReads

LEMMA ServerAnswersStep == ASSUME TextInv, NEW s \in DOMAIN servers, ServerAnswers(s) PROVE Calm
<1>1. servers[s] \in Server /\ ServerInv(servers[s]) /\ disk' \in Nat /\ asks' = asks /\ servers \in Seq(Server)
  BY DEF TextInv, ServerInv, ServerAnswers
<1>2. PICK m \in servers[s].todo :
        servers' = [servers EXCEPT ![s].todo = @ \ {m},
                                   ![s].outbox = Append(@, [kind |-> "answer", id |-> m.id, text |-> m.text])]
  BY DEF ServerAnswers
<1> DEFINE w == [servers[s] EXCEPT !.todo = @ \ {m}, !.outbox = Append(@, [kind |-> "answer", id |-> m.id, text |-> m.text])]
<1>3. servers' = [servers EXCEPT ![s] = w]
  BY <1>1, <1>2
<1>4. Onward(servers[s], w)
  BY <1>1, Answers
<1>5. w.start = servers[s].start /\ w.exited = servers[s].exited
  BY <1>1 DEF Server
<1> HIDE DEF w
<1>6. QED
  BY <1>1, <1>3, <1>4, <1>5, CalmServer

LEMMA DiesStep == ASSUME TextInv, NEW s \in DOMAIN servers, Dies(s) PROVE Calm
<1>1. ServerInv(servers[s]) /\ servers[s] \in Server /\ disk' \in Nat
  BY DEF TextInv, ServerInv, Dies
<1>2. Gone(servers[s]).start = servers[s].start /\ Gone(servers[s]).exited = servers[s].exited
  BY <1>1 DEF Gone, Server
<1>3. QED
  BY <1>1, <1>2, Goes, CalmServer DEF Dies

LEMMA KillStep == ASSUME TextInv, NEW s \in DOMAIN servers, Kill(s) PROVE Calm
<1> DEFINE w == [Gone(servers[s]) EXCEPT !.stop = "stopped"]
<1>1. ServerInv(servers[s]) /\ servers[s] \in Server /\ disk' \in Nat
  BY DEF TextInv, ServerInv, Kill
<1>2. w.start = servers[s].start /\ w.exited = servers[s].exited
  BY <1>1 DEF Gone, Server
<1>3. Onward(servers[s], w)
  BY <1>1, Killed DEF Kill
<1>4. servers' = [servers EXCEPT ![s] = w] /\ asks' = asks
  BY DEF Kill
<1> HIDE DEF w
<1>5. QED
  BY <1>1, <1>2, <1>3, <1>4, CalmServer

LEMMA StartsWell == \A server \in {Starting, Gone(Starting)} :
                      ServerInv(server) /\ server.start = "starting" /\ ~server.exited
<1> DEFINE initialize == [kind |-> "ask", id |-> InitializeId, text |-> NoText]
<1>1. initialize \in Message
  BY DEF Message, InitializeId, NoText
<1>2. <<initialize>> \in Seq(Message) /\ <<>> \in Seq(Message)
  BY <1>1
<1>3. Starting \in Server
  <2> HIDE DEF initialize
  <2>1. Starting = [proc |-> "up", start |-> "starting", exited |-> FALSE, closed |-> FALSE,
                    inbox |-> <<initialize>>, outbox |-> <<>>, todo |-> {}, knows |-> NoText, said |-> NoText,
                    pending |-> {InitializeId}, nextId |-> InitializeId + 1, stop |-> "no"]
    BY DEF Starting, initialize
  <2>2. InitializeId \in Nat /\ InitializeId + 1 \in Nat /\ NoText \in Nat
    BY DEF InitializeId, NoText
  <2>3. QED
    BY <1>2, <2>1, <2>2 DEF Server
<1>4. IdsCounted(Starting) /\ EndsInOrder(Starting)
  <2>1. \A k \in DOMAIN Starting.inbox : Starting.inbox[k].id = InitializeId
    BY DEF Starting
  <2>2. Starting.nextId = 2 /\ Starting.pending = {1} /\ Starting.todo = {} /\ DOMAIN Starting.outbox = {}
    BY DEF Starting, InitializeId
  <2>3. QED
    BY <2>1, <2>2 DEF IdsCounted, EndsInOrder, InitializeId, Starting
<1>5. ServerInv(Starting)
  BY <1>3, <1>4 DEF ServerInv
<1>6. ServerInv(Gone(Starting))
  BY <1>5, Goes DEF Onward, Evolves
<1>7. Starting.start = "starting" /\ ~Starting.exited
  BY DEF Starting
<1>8. Gone(Starting).start = Starting.start /\ Gone(Starting).exited = Starting.exited
  BY <1>3 DEF Gone, Server
<1>9. QED
  BY <1>5, <1>6, <1>7, <1>8

LEMMA OneMore ==
  ASSUME TextInv, NEW server, ServerInv(server), servers' = Append(servers, server)
  PROVE  /\ Moves(servers, servers') /\ StopsStand
         /\ Len(servers') = Len(servers) + 1 /\ Len(servers) \in Nat /\ servers'[Len(servers')] = server
         /\ DOMAIN servers' = DOMAIN servers \cup {Len(servers')}
         /\ \A s \in DOMAIN servers : servers'[s] = servers[s] /\ s # Len(servers')
<1>1. servers \in Seq(Server) /\ server \in Server
  BY DEF TextInv, ServerInv
<1>2. /\ servers' \in Seq(Server) /\ Len(servers') = Len(servers) + 1 /\ Len(servers) \in Nat
      /\ servers'[Len(servers')] = server /\ DOMAIN servers' = DOMAIN servers \cup {Len(servers')}
      /\ \A s \in DOMAIN servers : servers'[s] = servers[s] /\ s # Len(servers')
  BY <1>1
<1>3. \A s \in DOMAIN servers : StaysStopped(servers[s], servers'[s]) /\ Evolves(servers[s], servers'[s])
  BY <1>2, Stays DEF TextInv, Onward
<1>4. QED
  BY <1>2, <1>3 DEF Moves, StopsStand, TextInv

\* An ask that waits for a server's start.
LEMMA AsksStart ==
  ASSUME TextInv, disk' \in Nat, Moves(servers, servers'), NEW a \in Asks, asks[a].at = "idle", NEW s \in DOMAIN servers', Asked(a, s)
  PROVE  /\ TextInv' /\ asks'[a].at = "starting" /\ asks'[a].on = s
         /\ \A b \in Asks : b # a => asks'[b] = asks[b]
<1>1. PICK kind \in {"diagnostics", "at"} : asks' = [asks EXCEPT ![a].at = "starting", ![a].kind = kind, ![a].on = s]
  BY DEF Asked
<1> DEFINE new == [asks[a] EXCEPT !.at = "starting", !.kind = kind, !.on = s]
<1>2. asks' = [asks EXCEPT ![a] = new]
  BY <1>1 DEF TextInv
<1>3. asks[a] \in Ask /\ asks[a].how = "none"
  BY DEF TextInv, AskInv
<1>4. s \in Nat
  BY DEF Moves
<1>5. new \in Ask /\ new.at = "starting" /\ new.on = s /\ new.how = "none"
  BY <1>3, <1>4 DEF Ask
<1> HIDE DEF new
<1>6. asks' \in [Asks -> Ask] /\ \A b \in Asks : asks'[b] = IF b = a THEN new ELSE asks[b]
  BY <1>2, <1>5 DEF TextInv
<1>7. AskInv(new, servers')
  BY <1>5 DEF AskInv
<1>8. QED
  BY <1>5, <1>6, <1>7, AsksMove

LEMMA BeginStep ==
  ASSUME TextInv, running # NoServer => running \in DOMAIN servers, NEW a \in Asks, Begin(a)
  PROVE  /\ Stepped /\ StopsStand /\ Quiet
         /\ asks'[a].at = "starting" /\ asks'[a].on = running' /\ running' \in DOMAIN servers'
         /\ \A b \in Asks : b # a => asks'[b] = asks[b]
         /\ \A s \in DOMAIN servers : servers'[s] = servers[s]
         /\ \/ DOMAIN servers' = DOMAIN servers /\ running' = running
            \/ DOMAIN servers' = DOMAIN servers \cup {running'} /\ running = NoServer /\ ~servers'[running'].exited
<1>1. disk' \in Nat /\ Quiet /\ asks[a].at = "idle"
  BY DEF Begin, TextInv
<1>2. CASE running # NoServer /\ Asked(a, running) /\ UNCHANGED <<running, servers>>
  <2>1. Moves(servers, servers') /\ servers' = servers /\ running' = running /\ running \in DOMAIN servers'
    BY <1>2, NoneMoves
  <2>2. /\ TextInv' /\ asks'[a].at = "starting" /\ asks'[a].on = running
        /\ \A b \in Asks : b # a => asks'[b] = asks[b]
    BY <1>1, <1>2, <2>1, AsksStart
  <2>3. StopsStand
    BY <2>1 DEF StopsStand, StaysStopped
  <2>4. QED
    BY <1>1, <2>1, <2>2, <2>3 DEF Stepped
<1>3. CASE /\ running = NoServer
           /\ \E server \in {Starting, Gone(Starting)} : servers' = Append(servers, server)
           /\ running' = Len(servers') /\ Asked(a, running')
  <2>1. PICK server \in {Starting, Gone(Starting)} : servers' = Append(servers, server)
    BY <1>3
  <2>2. ServerInv(server) /\ ~server.exited
    BY StartsWell
  <2>3. /\ Moves(servers, servers') /\ StopsStand
        /\ servers'[Len(servers')] = server /\ DOMAIN servers' = DOMAIN servers \cup {Len(servers')}
        /\ \A s \in DOMAIN servers : servers'[s] = servers[s]
    BY <2>1, <2>2, OneMore
  <2>4. /\ TextInv' /\ asks'[a].at = "starting" /\ asks'[a].on = running'
        /\ \A b \in Asks : b # a => asks'[b] = asks[b]
    BY <1>1, <1>3, <2>3, AsksStart
  <2>5. QED
    BY <1>1, <1>3, <2>2, <2>3, <2>4 DEF Stepped
<1>4. QED
  BY <1>2, <1>3 DEF Begin

LEMMA StartTimeoutStep ==
  ASSUME TextInv, NEW s \in DOMAIN servers, StartTimeout(s)
  PROVE  /\ Stepped /\ StopsStand /\ asks' = asks /\ DOMAIN servers' = DOMAIN servers
         /\ servers'[s].start = "failed"
         /\ \A t \in DOMAIN servers : t # s => servers'[t] = servers[t]
<1> DEFINE w == [servers[s] EXCEPT !.start = "failed", !.pending = @ \ {InitializeId}]
<1>1. ServerInv(servers[s]) /\ servers[s] \in Server /\ disk' \in Nat /\ asks' = asks /\ servers \in Seq(Server)
  BY DEF TextInv, ServerInv, StartTimeout
<1>2. Onward(servers[s], w) /\ w.start = "failed"
  BY <1>1, Fails DEF StartTimeout, Server
<1>3. servers' = [servers EXCEPT ![s] = w]
  BY <1>1 DEF StartTimeout
<1> HIDE DEF w
<1>4. /\ Moves(servers, servers') /\ DOMAIN servers' = DOMAIN servers
      /\ servers'[s] = w /\ \A t \in DOMAIN servers : t # s => servers'[t] = servers[t]
  BY <1>2, <1>3, OneMoves DEF Onward
<1>5. TextInv'
  BY <1>1, <1>4, AsksStay
<1>6. StopsStand
  <2>1. \A t \in DOMAIN servers : t # s => StaysStopped(servers[t], servers'[t])
    BY <1>4 DEF StaysStopped
  <2>2. QED
    BY <1>2, <1>4, <2>1 DEF StopsStand, Onward
<1>7. QED
  BY <1>1, <1>2, <1>4, <1>5, <1>6 DEF Stepped

LEMMA ExitedStep ==
  ASSUME TextInv, NEW s \in DOMAIN servers, Exited(s)
  PROVE  /\ Stepped /\ StopsStand /\ DOMAIN servers' = DOMAIN servers
         /\ servers'[s].exited /\ servers'[s].start = (IF servers[s].start = "starting" THEN "failed" ELSE servers[s].start)
         /\ \A t \in DOMAIN servers : t # s => servers'[t] = servers[t]
         /\ \A a \in Asks : asks'[a].at = "starting" => asks'[a] = asks[a]
<1> DEFINE w == [GoneServer(servers[s]) EXCEPT !.start = IF @ = "starting" THEN "failed" ELSE @]
<1>1. ServerInv(servers[s]) /\ servers[s] \in Server /\ disk' \in Nat /\ asks' = Rejected(s) /\ servers \in Seq(Server)
  BY DEF TextInv, ServerInv, Exited
<1>2. Onward(servers[s], w)
  BY <1>1, Exits DEF Exited
<1>3. w.exited /\ w.start = (IF servers[s].start = "starting" THEN "failed" ELSE servers[s].start)
  BY <1>1 DEF GoneServer, Server
<1>4. servers' = [servers EXCEPT ![s] = w]
  BY <1>1 DEF Exited
<1> HIDE DEF w
<1>5. /\ Moves(servers, servers') /\ DOMAIN servers' = DOMAIN servers
      /\ servers'[s] = w /\ \A t \in DOMAIN servers : t # s => servers'[t] = servers[t]
  BY <1>2, <1>4, OneMoves DEF Onward
<1>6. TextInv' /\ \A a \in Asks : asks'[a].at = "starting" => asks'[a] = asks[a]
  BY <1>1, <1>5, AreRejected
<1>7. StopsStand
  <2>1. \A t \in DOMAIN servers : t # s => StaysStopped(servers[t], servers'[t])
    BY <1>5 DEF StaysStopped
  <2>2. QED
    BY <1>2, <1>5, <2>1 DEF StopsStand, Onward
<1>8. QED
  BY <1>3, <1>5, <1>6, <1>7 DEF Stepped

\* close() asks for the shutdown of what runs, and waits for what stops.
LEMMA StopStep ==
  ASSUME TextInv, close.saw # NoServer => close.saw \in DOMAIN servers, Stop
  PROVE  /\ Stepped
         /\ \A s \in DOMAIN servers : servers'[s].start = servers[s].start /\ servers'[s].exited = servers[s].exited
         /\ close.saw # NoServer => servers'[close.saw].start = "failed" \/ servers'[close.saw].stop # "no"
<1> DEFINE s == close.saw
<1>1. disk' \in Nat /\ asks' = asks /\ servers \in Seq(Server)
  BY DEF TextInv, Stop
<1>2. CASE (s = NoServer \/ servers[s].start # "ready") /\ servers' = servers
  <2>1. s # NoServer => servers[s].start = "failed"
    <3>1. ASSUME s # NoServer PROVE servers[s] \in Server
      BY <3>1 DEF TextInv, ServerInv
    <3>2. QED
      BY <1>2, <3>1 DEF Stop, Settled, Server
  <2>2. QED
    BY <1>1, <1>2, <2>1, NoneMoves, AsksStay DEF Stepped
<1>3. CASE /\ s # NoServer /\ servers[s].start = "ready"
           /\ servers' = [servers EXCEPT ![s] = IF @.exited THEN [@ EXCEPT !.stop = "stopped"] ELSE ShutdownAsked(@)]
  <2> DEFINE v == servers[s]
             w == IF v.exited THEN [v EXCEPT !.stop = "stopped"] ELSE ShutdownAsked(v)
  <2>1. s \in DOMAIN servers /\ ServerInv(v) /\ v \in Server
    BY <1>3 DEF TextInv, ServerInv
  <2>2. servers' = [servers EXCEPT ![s] = w]
    BY <1>1, <1>3, <2>1
  <2>3. Evolves(v, w) /\ w.stop # "no" /\ w.start = v.start /\ w.exited = v.exited
    <3>1. CASE v.exited
      <4> DEFINE u == [v EXCEPT !.stop = "stopped"]
      <4>1. /\ u \in Server /\ u.nextId = v.nextId /\ u.knows = v.knows /\ u.outbox = v.outbox /\ u.inbox = v.inbox
            /\ u.todo = v.todo /\ u.pending = v.pending /\ u.stop = "stopped" /\ u.exited = v.exited /\ u.start = v.start
        BY <2>1 DEF Server
      <4>2. EndsInOrder(u)
        BY <2>1, <3>1 DEF Server, ServerInv, EndsInOrder
      <4>3. v.nextId \in Nat /\ IdsCounted(u) /\ \A id, text \in Nat : Carries(v, id, text) => Carries(u, id, text)
        BY <2>1, <4>1 DEF ServerInv, Server, IdsCounted, Carries
      <4>4. Evolves(v, u)
        BY <4>1, <4>2, <4>3 DEF Evolves, ServerInv
      <4>5. QED
        BY <3>1, <4>1, <4>4
    <3>2. CASE ~v.exited
      <4>1. Evolves(v, ShutdownAsked(v)) /\ ShutdownAsked(v).stop = "shutdown"
        BY <1>3, <2>1, <3>2, ShutsDown
      <4>2. ShutdownAsked(v).start = v.start /\ ShutdownAsked(v).exited = v.exited
        BY <2>1 DEF ShutdownAsked, Server
      <4>3. QED
        BY <3>2, <4>1, <4>2
    <3>3. QED
      BY <3>1, <3>2
  <2> HIDE DEF w
  <2>4. /\ Moves(servers, servers') /\ DOMAIN servers' = DOMAIN servers
        /\ servers'[s] = w /\ \A t \in DOMAIN servers : t # s => servers'[t] = servers[t]
    BY <2>1, <2>2, <2>3, OneMoves
  <2>5. TextInv'
    BY <1>1, <2>4, AsksStay
  <2>6. QED
    BY <2>3, <2>4, <2>5 DEF Stepped
<1>4. QED
  BY <1>2, <1>3 DEF Stop

-----------------------------------------------------------------------------
(* Every step.                                                                *)

OwnSteps(a) == StartFailed(a) \/ AsksDiagnostics(a) \/ AsksPosition(a) \/ ReportTimeout(a) \/ RequestTimeout(a)
CalmSteps(s) == ServerReads(s) \/ ServerAnswers(s) \/ Dies(s) \/ DeliverReport(s) \/ ShutdownTimeout(s) \/ Kill(s)

LEMMA CalmStep ==
  ASSUME TextInv,
         \/ \E a \in Asks : OwnSteps(a) \/ FoundGone(a)
         \/ \E s \in DOMAIN servers : CalmSteps(s)
         \/ Edit \/ Close \/ Closed \/ UNCHANGED vars
  PROVE  Calm
<1>1. ASSUME NEW a \in Asks, OwnSteps(a) \/ FoundGone(a) PROVE Calm
  BY <1>1, StartFailedStep, FoundGoneStep, AsksDiagnosticsStep, AsksPositionStep, ReportTimeoutStep, RequestTimeoutStep
  DEF OwnSteps
<1>2. ASSUME NEW s \in DOMAIN servers, CalmSteps(s) PROVE Calm
  BY <1>2, ServerReadsStep, ServerAnswersStep, DiesStep, DeliverReportStep, ShutdownTimeoutStep, KillStep DEF CalmSteps
<1>3. CASE Edit \/ Close \/ Closed \/ UNCHANGED vars
  <2>1. servers' = servers /\ asks' = asks /\ disk' \in Nat
    BY <1>3 DEF Edit, Close, Closed, vars, TextInv
  <2>2. TextInv' /\ \A a \in Asks : asks'[a].at = "starting" => asks'[a] = asks[a]
    BY <2>1, NoneMoves, AsksStay
  <2>3. QED
    BY <2>1, <2>2, CalmNone
<1>4. QED
  BY <1>1, <1>2, <1>3

\* A step is one of these.
LEMMA Kinds ==
  ASSUME [Next]_vars
  PROVE  \/ \/ \E a \in Asks : OwnSteps(a) \/ FoundGone(a)
            \/ \E s \in DOMAIN servers : CalmSteps(s)
            \/ Edit \/ Close \/ Closed \/ UNCHANGED vars
         \/ \E a \in Asks : Begin(a)
         \/ \E s \in DOMAIN servers : DeliverAnswer(s) \/ StartTimeout(s) \/ Exited(s)
         \/ Stop
<1>1. ASSUME NEW a \in Asks, AskSteps(a) PROVE Begin(a) \/ OwnSteps(a) \/ FoundGone(a)
  BY <1>1 DEF AskSteps, OwnSteps
<1>2. ASSUME NEW s \in DOMAIN servers, ServerSteps(s)
      PROVE  CalmSteps(s) \/ DeliverAnswer(s) \/ StartTimeout(s) \/ Exited(s)
  BY <1>2 DEF ServerSteps, CalmSteps
<1>3. QED
  BY <1>1, <1>2 DEF Next

Inv == TextInv /\ EntryInv /\ CloseInv

\* The entry, over a step at which nothing is told of a start or an end.
LEMMA EntrySteady ==
  ASSUME TextInv, EntryInv, Steady, running' = running,
         close' \in [phase : {"open", "settling", "stopping", "closed"}, saw : Nat, known : Nat],
         close'.phase \in {"open", "settling"} => close.phase \in {"open", "settling"}
  PROVE  EntryInv'
<1>1. running' \in Nat /\ (running' # NoServer => running' \in DOMAIN servers')
  BY DEF EntryInv, Steady
<1>2. ASSUME close.phase \in {"open", "settling"}, NEW s \in DOMAIN servers', Live(s)' PROVE s = running'
  BY <1>2 DEF EntryInv, Steady, Live
<1>3. ASSUME close.phase \in {"open", "settling"}, NEW a \in Asks, Resumes(a)',
             servers'[asks'[a].on].start = "ready", servers'[asks'[a].on].exited
      PROVE  running' \in {NoServer, asks'[a].on}
  <2>1. asks'[a] = asks[a] /\ asks[a].at = "starting" /\ asks[a].on \in DOMAIN servers
    BY <1>3, AskStands DEF Resumes, Steady
  <2>2. QED
    BY <1>3, <2>1 DEF EntryInv, Resumes, Steady
<1>4. QED
  BY <1>1, <1>2, <1>3 DEF EntryInv

\* What resumes after a quiet state waits for the server whose start or end was told.
LEMMA ResumesNew ==
  ASSUME TextInv, Quiet, NEW s, \A t \in DOMAIN servers : t # s => servers'[t] = servers[t],
         NEW a \in Asks, asks'[a] = asks[a], Resumes(a)'
  PROVE  asks[a].on = s
<1>1. asks[a].at = "starting" /\ asks[a].on \in DOMAIN servers
  BY AskStands DEF Resumes
<1>2. QED
  BY <1>1 DEF Resumes, Quiet

LEMMA EntryStep == TextInv /\ EntryInv /\ CloseInv /\ [Next]_vars => EntryInv'
<1> SUFFICES ASSUME TextInv, EntryInv, CloseInv, [Next]_vars PROVE EntryInv'
  OBVIOUS
<1>1. ASSUME NEW a \in Asks, FoundGone(a) PROVE EntryInv'
  <2>1. /\ running' = NoServer /\ close' = close /\ Resumes(a)
        /\ servers' = servers /\ servers[asks[a].on].start = "ready" /\ servers[asks[a].on].exited
    BY <1>1 DEF FoundGone
  <2>2. close.phase \in {"open", "settling"} => \A s \in DOMAIN servers : ~Live(s)
    <3>1. NoServer \notin DOMAIN servers
      BY DEF NoServer, TextInv
    <3>2. QED
      BY <2>1, <3>1 DEF EntryInv, Live
  <2>3. QED
    BY <2>1, <2>2 DEF EntryInv, NoServer, Live
<1>2. CASE \/ \E a \in Asks : OwnSteps(a)
           \/ \E s \in DOMAIN servers : CalmSteps(s)
           \/ Edit \/ UNCHANGED vars
  <2>1. Steady
    BY <1>2, CalmStep DEF Calm
  <2>2. running' = running /\ close' = close
    BY <1>2 DEF OwnSteps, StartFailed, AsksDiagnostics, AsksPosition, ReportTimeout, RequestTimeout,
       CalmSteps, ServerReads, ServerAnswers, Dies, DeliverReport, ShutdownTimeout, Kill, Edit, vars
  <2>3. QED
    BY <2>1, <2>2, EntrySteady DEF EntryInv
<1>3. CASE Close \/ Closed
  <2>1. Steady
    BY <1>3, CalmStep DEF Calm
  <2>2. /\ running' = running
        /\ close'.phase \in {"open", "settling"} => close.phase \in {"open", "settling"}
    BY <1>3 DEF Close, Closed, EntryInv
  <2>3. close' \in [phase : {"open", "settling", "stopping", "closed"}, saw : Nat, known : Nat]
    <3>1. CASE Close
      <4>1. Len(servers) \in Nat /\ running \in Nat
        BY DEF TextInv, EntryInv
      <4>2. QED
        BY <3>1, <4>1 DEF Close
    <3>2. CASE Closed
      BY <3>2 DEF Closed, EntryInv
    <3>3. QED
      BY <1>3, <3>1, <3>2
  <2>4. QED
    BY <2>1, <2>2, <2>3, EntrySteady
<1>4. ASSUME NEW a \in Asks, Begin(a) PROVE EntryInv'
  <2>1. /\ Stepped /\ Quiet /\ asks'[a].at = "starting" /\ asks'[a].on = running' /\ running' \in DOMAIN servers'
        /\ \A b \in Asks : b # a => asks'[b] = asks[b]
        /\ \A s \in DOMAIN servers : servers'[s] = servers[s]
        /\ \/ DOMAIN servers' = DOMAIN servers /\ running' = running
           \/ DOMAIN servers' = DOMAIN servers \cup {running'} /\ running = NoServer /\ ~servers'[running'].exited
    BY <1>4, BeginStep DEF EntryInv
  <2>2. close' = close /\ running' \in Nat
    BY <1>4, <2>1 DEF Begin, TextInv, Stepped
  <2>3. ASSUME close.phase \in {"open", "settling"}, NEW s \in DOMAIN servers', Live(s)' PROVE s = running'
    <3>1. CASE s \in DOMAIN servers
      <4>1. s = running
        BY <2>1, <2>3, <3>1 DEF EntryInv, Live
      <4>2. s # NoServer
        BY <3>1 DEF NoServer, TextInv
      <4>3. QED
        BY <2>1, <4>1, <4>2
    <3>2. CASE s \notin DOMAIN servers
      BY <2>1, <2>3, <3>2
    <3>3. QED
      BY <3>1, <3>2
  <2>4. ASSUME NEW b \in Asks, Resumes(b)' PROVE b = a
    <3>1. CASE b # a
      <4>1. asks'[b] = asks[b]
        BY <2>1, <3>1
      <4>2. asks[b].at = "starting" /\ asks[b].on \in DOMAIN servers
        BY <2>4, <4>1, AskStands DEF Resumes
      <4>3. QED
        BY <2>1, <2>4, <4>1, <4>2 DEF Resumes, Quiet
    <3>2. QED
      BY <3>1
  <2>5. QED
    BY <2>1, <2>2, <2>3, <2>4 DEF EntryInv
<1>5. ASSUME NEW s \in DOMAIN servers, DeliverAnswer(s) PROVE EntryInv'
  <2>1. running' = running /\ close' = close /\ Quiet
    BY <1>5 DEF DeliverAnswer
  <2>2. CASE Calm
    BY <2>1, <2>2, EntrySteady DEF Calm, EntryInv
  <2>3. CASE /\ Stepped /\ StopsStand /\ asks' = asks /\ DOMAIN servers' = DOMAIN servers
             /\ ~servers'[s].exited /\ ~servers[s].exited /\ servers[s].start # "failed"
             /\ \A t \in DOMAIN servers : t # s => servers'[t] = servers[t]
    <3>1. \A t \in DOMAIN servers : Live(t)' => Live(t)
      BY <2>3 DEF Live
    <3>2. ASSUME NEW a \in Asks, Resumes(a)', servers'[asks'[a].on].exited PROVE FALSE
      BY <2>1, <2>3, <3>2, ResumesNew
    <3>3. QED
      BY <2>1, <2>3, <3>1, <3>2 DEF EntryInv
  <2>4. QED
    BY <1>5, <2>2, <2>3, DeliverAnswerStep
<1>6. ASSUME NEW s \in DOMAIN servers, Quiet, close' = close, running' \in {running, NoServer},
             running' # running => Live(s),
             DOMAIN servers' = DOMAIN servers, ~Live(s)',
             servers'[s].start = "ready" => servers[s].start = "ready",
             \A t \in DOMAIN servers : t # s => servers'[t] = servers[t],
             \A a \in Asks : asks'[a].at = "starting" => asks'[a] = asks[a]
      PROVE  EntryInv'
  <2>1. running' \in Nat /\ (running' # NoServer => running' \in DOMAIN servers')
    BY <1>6 DEF EntryInv, NoServer
  <2>2. ASSUME close.phase \in {"open", "settling"}, NEW t \in DOMAIN servers', Live(t)' PROVE t = running'
    BY <1>6, <2>2 DEF EntryInv, Live
  <2>3. ASSUME NEW a \in Asks, Resumes(a)', servers'[asks'[a].on].start = "ready" PROVE FALSE
    <3>1. asks'[a] = asks[a] /\ asks[a].at = "starting"
      BY <1>6, <2>3 DEF Resumes
    <3>2. asks[a].on = s
      BY <1>6, <2>3, <3>1, ResumesNew
    <3>3. QED
      BY <1>6, <2>3, <3>1, <3>2 DEF Resumes, Quiet
  <2>4. QED
    BY <1>6, <2>1, <2>2, <2>3 DEF EntryInv
<1>7. ASSUME NEW s \in DOMAIN servers, StartTimeout(s) PROVE EntryInv'
  <2>1. /\ asks' = asks /\ DOMAIN servers' = DOMAIN servers /\ servers'[s].start = "failed"
        /\ \A t \in DOMAIN servers : t # s => servers'[t] = servers[t]
    BY <1>7, StartTimeoutStep
  <2>2. Quiet /\ close' = close /\ running' = NoServer /\ servers[s].start = "starting"
    BY <1>7 DEF StartTimeout, EntryDeleted
  <2>3. Live(s)
    BY <2>2 DEF Live, TextInv, ServerInv, EndsInOrder
  <2>4. ~Live(s)'
    BY <2>1 DEF Live
  <2>5. QED
    BY <1>6, <2>1, <2>2, <2>3, <2>4
<1>8. ASSUME NEW s \in DOMAIN servers, Exited(s) PROVE EntryInv'
  <2>1. /\ DOMAIN servers' = DOMAIN servers
        /\ servers'[s].exited /\ servers'[s].start = (IF servers[s].start = "starting" THEN "failed" ELSE servers[s].start)
        /\ \A t \in DOMAIN servers : t # s => servers'[t] = servers[t]
        /\ \A a \in Asks : asks'[a].at = "starting" => asks'[a] = asks[a]
    BY <1>8, ExitedStep
  <2>2. ~Live(s)'
    BY <2>1 DEF Live
  <2>3. Quiet /\ close' = close /\ running' \in {running, NoServer} /\ (running' # running => Live(s))
    BY <1>8 DEF Exited, EntryDeleted, Live
  <2>4. QED
    BY <1>6, <2>1, <2>2, <2>3
<1>9. CASE Stop
  <2>1. running' = NoServer /\ close' = [close EXCEPT !.phase = "stopping"]
    BY <1>9 DEF Stop
  <2>2. QED
    BY <2>1 DEF EntryInv, NoServer
<1>10. QED
  BY <1>1, <1>2, <1>3, <1>4, <1>5, <1>7, <1>8, <1>9, Kinds

\* The servers, the entry or not, over any step.
LEMMA AnyStep ==
  ASSUME TextInv, EntryInv, CloseInv, [Next]_vars
  PROVE  Stepped /\ (StopsStand \/ Stop)
<1>1. ASSUME NEW a \in Asks, Begin(a) PROVE Stepped /\ StopsStand
  BY <1>1, BeginStep DEF EntryInv
<1>2. ASSUME NEW s \in DOMAIN servers, DeliverAnswer(s) \/ StartTimeout(s) \/ Exited(s) PROVE Stepped /\ StopsStand
  BY <1>2, DeliverAnswerStep, StartTimeoutStep, ExitedStep DEF Calm
<1>3. ASSUME Stop PROVE Stepped
  <2>1. close.saw # NoServer => close.saw \in DOMAIN servers
    BY <1>3 DEF Stop, Settled, CloseInv
  <2>2. QED
    BY <1>3, <2>1, StopStep
<1>4. QED
  BY <1>1, <1>2, <1>3, CalmStep, Kinds DEF Calm

\* A step that is not of close() leaves it as it is.
LEMMA CloseStays == ASSUME [Next]_vars, ~Close, ~Stop, ~Closed PROVE close' = close
BY DEF Next, vars, AskSteps, ServerSteps, Begin, StartFailed, FoundGone, AsksDiagnostics, AsksPosition, ReportTimeout, RequestTimeout,
   ServerReads, ServerAnswers, Dies, DeliverAnswer, DeliverReport, StartTimeout, Exited, ShutdownTimeout, Kill, Edit

LEMMA CloseStep == TextInv /\ EntryInv /\ CloseInv /\ [Next]_vars => CloseInv'
<1> SUFFICES ASSUME TextInv, EntryInv, CloseInv, [Next]_vars PROVE CloseInv'
  OBVIOUS
<1>1. TextInv' /\ Moves(servers, servers')
  BY AnyStep DEF Stepped
<1>2. /\ servers \in Seq(Server) /\ servers' \in Seq(Server) /\ close.known \in Nat /\ close.saw \in Nat
      /\ \A s \in DOMAIN servers : s \in DOMAIN servers' /\ servers[s] \in Server
      /\ Len(servers) \in Nat /\ Len(servers) <= Len(servers') /\ Len(servers') \in Nat
  <2>1. servers \in Seq(Server) /\ servers' \in Seq(Server) /\ DOMAIN servers \subseteq DOMAIN servers'
    BY <1>1 DEF TextInv, Moves
  <2>2. Len(servers) <= Len(servers')
    BY <2>1
  <2>3. close.known \in Nat /\ close.saw \in Nat
    BY DEF EntryInv
  <2>4. QED
    BY <2>1, <2>2, <2>3
<1>3. \A s \in DOMAIN servers : (~Live(s) => ~Live(s)') /\ (servers[s].start = "failed" => servers'[s].start = "failed")
  BY <1>1 DEF Moves, Evolves, Live
<1>4. CASE Close
  <2>1. close' = [phase |-> "settling", saw |-> running, known |-> Len(servers)] /\ servers' = servers /\ close.phase = "open"
    BY <1>4 DEF Close
  <2>2. \A s \in 1..Len(servers) : s # running => ~Live(s)
    BY <1>2, <2>1 DEF EntryInv
  <2>3. \A s \in 1..Len(servers) : Live(s)' => Live(s)
    BY <2>1 DEF Live
  <2>4. QED
    BY <1>2, <2>1, <2>2, <2>3 DEF CloseInv, EntryInv
<1>5. CASE Stop
  <2>1. close' = [close EXCEPT !.phase = "stopping"] /\ close.phase = "settling"
    BY <1>5 DEF Stop, Settled
  <2>2. close'.phase = "stopping" /\ close'.saw = close.saw /\ close'.known = close.known
    BY <2>1 DEF EntryInv
  <2>3. close.saw # NoServer => servers'[close.saw].start = "failed" \/ servers'[close.saw].stop # "no"
    BY <1>5, <2>1, StopStep DEF CloseInv
  <2>4. \A s \in 1..close.known : s \in DOMAIN servers
    BY <1>2, <2>1 DEF CloseInv
  <2>5. QED
    BY <1>2, <1>3, <2>1, <2>2, <2>3, <2>4 DEF CloseInv
<1>6. CASE Closed
  <2>1. close' = [close EXCEPT !.phase = "closed"] /\ close.phase = "stopping" /\ servers' = servers
    BY <1>6 DEF Closed
  <2>2. close'.phase = "closed" /\ close'.saw = close.saw /\ close'.known = close.known
    BY <2>1 DEF EntryInv
  <2>3. close.saw # NoServer => servers[close.saw].start = "failed" \/ servers[close.saw].stop = "stopped"
    BY <1>6, <2>1 DEF Closed, CloseInv
  <2>4. \A s \in 1..close.known : s # close.saw => ~Live(s)'
    BY <2>1 DEF CloseInv, Live
  <2>5. QED
    BY <2>1, <2>2, <2>3, <2>4 DEF CloseInv
<1>7. CASE close' = close /\ StopsStand
  <2> SUFFICES ASSUME close.phase # "open" PROVE CloseInv'
    BY <1>7 DEF CloseInv
  <2>1. \A s \in 1..close.known : s \in DOMAIN servers
    BY <1>2 DEF CloseInv
  <2>2. close.known <= Len(servers')
    BY <1>2 DEF CloseInv
  <2>3. ASSUME close.saw # NoServer
        PROVE  /\ close.saw \in DOMAIN servers'
               /\ servers[close.saw].stop # "no" => servers'[close.saw].stop # "no"
               /\ servers[close.saw].stop = "stopped" => servers'[close.saw].stop = "stopped"
               /\ servers[close.saw].start = "failed" => servers'[close.saw].start = "failed"
    BY <1>2, <1>3, <1>7, <2>3 DEF CloseInv, StopsStand, StaysStopped
  <2>4. QED
    BY <1>3, <1>7, <2>1, <2>2, <2>3 DEF CloseInv
<1>8. QED
  BY <1>4, <1>5, <1>6, <1>7, AnyStep, CloseStays

-----------------------------------------------------------------------------
(* Theorems.                                                                  *)

\* The invariant the others rest on.
THEOREM Inductive == Spec => []Inv
<1>1. Init => Inv
  <2> SUFFICES ASSUME Init PROVE Inv
    OBVIOUS
  <2>1. servers = <<>> /\ DOMAIN servers = {} /\ servers \in Seq(Server) /\ disk \in Nat /\ running = NoServer
    BY DEF Init
  <2>2. Idle \in Ask /\ AskInv(Idle, servers)
    BY DEF Idle, Ask, NoServer, NoText, AskInv
  <2>3. TextInv
    BY <2>1, <2>2 DEF TextInv, Init
  <2>4. \A a \in Asks : ~Resumes(a)
    BY DEF Init, Resumes, Idle
  <2>5. EntryInv
    BY <2>1, <2>4 DEF EntryInv, Init, NoServer
  <2>6. CloseInv
    BY DEF CloseInv, Init
  <2>7. QED
    BY <2>3, <2>5, <2>6 DEF Inv
<1>2. Inv /\ [Next]_vars => Inv'
  BY AnyStep, EntryStep, CloseStep DEF Inv, Stepped
<1>3. QED
  BY <1>1, <1>2, PTL DEF Spec

\* An answer is about the text its ask sent, whatever was edited, asked or reported in between, for
\* any number of asks, edits, servers and deaths.
THEOREM AnswersHold == Spec => []AnswersAreOfTheirText
<1>1. Inv => AnswersAreOfTheirText
  BY DEF Inv, TextInv, AskInv, AnswersAreOfTheirText
<1>2. QED
  BY <1>1, Inductive, PTL

\* Until the session closes, a process that runs is the manager's entry or one whose start timed out;
\* and of those started before close() was called, the close leaves none but the ones whose start
\* timed out: for any number of asks, edits, servers and deaths.
THEOREM ServersAreEnded == Spec => []ServersHold
<1>1. ASSUME Inv, NEW s \in DOMAIN servers, servers[s].proc = "up" PROVE Live(s) \/ TimedOut(s)
  BY <1>1 DEF Inv, TextInv, ServerInv, EndsInOrder, Live, TimedOut
<1>2. ASSUME Inv PROVE OneServer
  BY <1>1, <1>2 DEF Inv, EntryInv, OneServer
<1>3. ASSUME Inv PROVE CloseLeavesNone
  <2> SUFFICES ASSUME close.phase = "closed", NEW s \in 1..close.known, servers[s].proc = "up"
               PROVE  TimedOut(s)
    BY DEF CloseLeavesNone
  <2>1. s \in DOMAIN servers /\ ServerInv(servers[s])
    BY <1>3 DEF Inv, CloseInv, TextInv, EntryInv
  <2>2. Live(s) \/ TimedOut(s)
    BY <1>1, <1>3, <2>1
  <2>3. CASE s # close.saw
    BY <1>3, <2>2, <2>3 DEF Inv, CloseInv
  <2>4. CASE s = close.saw
    <3>1. s # NoServer
      BY DEF NoServer
    <3>2. servers[s].start = "failed" \/ servers[s].stop = "stopped"
      BY <1>3, <2>4, <3>1 DEF Inv, CloseInv
    <3>3. servers[s].start = "failed"
      BY <2>1, <3>2 DEF ServerInv, EndsInOrder
    <3>4. QED
      BY <2>2, <3>3 DEF Live
  <2>5. QED
    BY <2>3, <2>4
<1>4. QED
  BY <1>2, <1>3, Inductive, PTL DEF ServersHold

-----------------------------------------------------------------------------
(* The manager of the MCP servers a session is a client of (McpClient), and  *)
(* the sign-ins to them: for any servers, calls and sign-ins, a server has at *)
(* most one live connection, the manager's, and only tokens its own sign-in  *)
(* fetched.                                                                  *)

CONSTANTS Servers, Remote, Calls, MaxMade, MaxLogins
VARIABLES made, connections, connecting, task, offers, closed, tokens, login

Mcp == INSTANCE McpClient

(* The connections are counted as sets are.                                   *)
LEMMA SameCount == \A S : Mcp!Cardinality(S) = Cardinality(S)
BY DEF Mcp!Cardinality, Cardinality

MadeStates == {"making", "open", "failed", "dead", "closed"}
Made == [server : Servers, state : MadeStates, with : Nat, listed : BOOLEAN]
Logins == [server : Servers, at : {"connects", "sent", "redeems", "ended"}, page : BOOLEAN,
           came : {<<>>} \cup (Nat \X BOOLEAN)]

(* Of the manager's state and of the sign-ins, the kinds.                     *)
ServersTyped ==
  /\ made \in Seq(Made) /\ login \in Seq(Logins)
  /\ connections \in [Servers -> Nat] /\ connecting \in [Servers -> Nat]
  /\ tokens \in [Servers -> Nat]

(* One that is being made is the one its server's entry waits for, and one    *)
(* that is open is its server's connection; the manager never has both.       *)
OneEach ==
  /\ \A id \in Mcp!Ids : made[id].state = "making" => connecting[made[id].server] = id
  /\ \A id \in Mcp!Ids : made[id].state = "open" => connections[made[id].server] = id
  /\ \A s \in Servers : connecting[s] # 0 => connections[s] = 0

(* Tokens, stored or read as a connection was made, came of a sign-in to      *)
(* their server, and what a sign-in redeems came of its own page.             *)
FromOwnSignIn ==
  /\ \A s \in Servers : tokens[s] # 0 => tokens[s] \in DOMAIN login /\ login[tokens[s]].server = s
  /\ \A id \in Mcp!Ids : made[id].with # 0 =>
       made[id].with \in DOMAIN login /\ login[made[id].with].server = made[id].server
  /\ \A n \in DOMAIN login : login[n].at = "redeems" => login[n].came # <<>> /\ login[n].came[1] = n

ServersInv == ServersTyped /\ OneEach /\ FromOwnSignIn

(* What the manager made and the sign-ins are, one by one.                    *)
LEMMA MadeAre == ASSUME ServersTyped
                 PROVE  /\ DOMAIN made = 1..Len(made) /\ Len(made) \in Nat
                        /\ \A i \in DOMAIN made : /\ made[i] \in Made /\ i \in Nat /\ i # 0
                                                  /\ made[i].server \in Servers /\ made[i].with \in Nat
<1>1. DOMAIN made = 1..Len(made) /\ Len(made) \in Nat
  BY DEF ServersTyped
<1>2. \A i \in 1..Len(made) : made[i] \in Made
  BY ElementOfSeq DEF ServersTyped
<1>3. QED
  BY <1>1, <1>2 DEF Made

(* What the sign-ins are, one by one.                                         *)
LEMMA LoginsAre == ASSUME ServersTyped
                   PROVE  /\ DOMAIN login = 1..Len(login) /\ Len(login) \in Nat
                          /\ \A i \in DOMAIN login : login[i] \in Logins /\ i \in Nat /\ login[i].server \in Servers
<1>1. DOMAIN login = 1..Len(login) /\ Len(login) \in Nat
  BY DEF ServersTyped
<1>2. \A i \in 1..Len(login) : login[i] \in Logins
  BY ElementOfSeq DEF ServersTyped
<1>3. QED
  BY <1>1, <1>2 DEF Logins

(* A sequence with one of its elements replaced.                              *)
LEMMA Put == ASSUME NEW S, NEW q \in Seq(S), NEW i, NEW e \in S
             PROVE  /\ [q EXCEPT ![i] = e] \in Seq(S) /\ DOMAIN [q EXCEPT ![i] = e] = DOMAIN q
                    /\ i \in DOMAIN q => [q EXCEPT ![i] = e][i] = e
                    /\ \A j \in DOMAIN q : j # i => [q EXCEPT ![i] = e][j] = q[j]
<1>1. Len(q) \in Nat /\ DOMAIN q = 1..Len(q) /\ \A j \in 1..Len(q) : q[j] \in S
  BY ElementOfSeq
<1>2. [q EXCEPT ![i] = e] \in [1..Len(q) -> S]
  BY <1>1
<1>3. QED
  BY <1>1, <1>2

(* Nothing is made, and no one has signed in.                                 *)
LEMMA InitInv == Mcp!Init => ServersInv
BY DEF Mcp!Init, ServersInv, ServersTyped, OneEach, FromOwnSignIn, Mcp!Ids

(* A connection asked for is the one there is, the one on its way, or a new   *)
(* one.                                                                       *)
LEMMA MakesInv == ASSUME ServersInv, NEW t, NEW s \in Servers, Mcp!GetConnection(t, s),
                         UNCHANGED <<connections, tokens, login>>
                  PROVE  ServersInv'
<1>1. CASE UNCHANGED <<made, connecting>>
  BY <1>1 DEF ServersInv, ServersTyped, OneEach, FromOwnSignIn, Mcp!Ids
<1>2. CASE connections[s] = 0 /\ connecting[s] = 0 /\ Mcp!MakesOne(t, s)
  <2> DEFINE id == Len(made) + 1
             c == [server |-> s, state |-> "making", with |-> tokens[s], listed |-> FALSE]
  <2>1. /\ made' = Append(made, c) /\ connecting' = [connecting EXCEPT ![s] = id]
        /\ made \in Seq(Made) /\ c \in Made /\ id \in Nat /\ id # 0
    BY <1>2 DEF Mcp!MakesOne, ServersInv, ServersTyped, Made, MadeStates
  <2>2. /\ DOMAIN made = 1..Len(made) /\ DOMAIN made' = 1..id /\ made'[id] = c
        /\ \A i \in DOMAIN made : i # id /\ i \in DOMAIN made' /\ made'[i] = made[i]
        /\ \A i \in DOMAIN made' : i = id \/ i \in DOMAIN made
    BY <2>1
  <2> HIDE DEF id
  <2>3. ServersTyped'
    BY <2>1 DEF ServersInv, ServersTyped
  <2>4. \A i \in DOMAIN made : made[i].server = s => made[i].state \notin {"making", "open"}
    BY <1>2, <2>2 DEF ServersInv, OneEach, Mcp!Ids
  <2>5. \A u \in Servers : connecting'[u] = IF u = s THEN id ELSE connecting[u]
    BY <2>1 DEF ServersInv, ServersTyped
  <2>6. \A i \in DOMAIN made : made[i].server \in Servers
    BY MadeAre DEF ServersInv
  <2>7. OneEach'
    BY <1>2, <2>2, <2>4, <2>5, <2>6 DEF ServersInv, OneEach, Mcp!Ids
  <2>8. FromOwnSignIn'
    BY <2>2 DEF ServersInv, FromOwnSignIn, Mcp!Ids
  <2>9. QED
    BY <2>3, <2>7, <2>8 DEF ServersInv
<1>3. QED
  BY <1>1, <1>2 DEF Mcp!GetConnection, Mcp!Goes

(* A connection that is made is its server's, with the tokens it was made     *)
(* with.                                                                      *)
LEMMA ConnectedInv == ASSUME ServersInv, NEW id \in Mcp!Ids, Mcp!Connected(id) PROVE ServersInv'
<1> DEFINE srv == made[id].server
<1>1. /\ id \in DOMAIN made /\ srv \in Servers /\ connecting[srv] = id /\ id # 0 /\ connections[srv] = 0
      /\ made[id].state = "making" /\ made[id].with \in Nat /\ id \in Nat
  BY MadeAre DEF Mcp!Connected, ServersInv, OneEach, Mcp!Ids
<1>2. /\ made' = [made EXCEPT ![id].state = "open"]
      /\ connections' = [connections EXCEPT ![srv] = id] /\ connecting' = [connecting EXCEPT ![srv] = 0]
      /\ tokens' \in {tokens, [tokens EXCEPT ![srv] = made[id].with]}
      /\ srv \in Remote => made[id].with # 0
      /\ tokens' # tokens => srv \in Remote
      /\ login' = login
  BY DEF Mcp!Connected
<1>3. /\ DOMAIN made' = DOMAIN made /\ made'[id].state = "open" /\ made' \in Seq(Made)
      /\ \A i \in DOMAIN made : /\ made'[i].server = made[i].server /\ made'[i].with = made[i].with
                                /\ i # id => made'[i] = made[i]
  <2>1. made[id] \in Made /\ made \in Seq(Made)
    BY <1>1, MadeAre DEF ServersInv, ServersTyped
  <2>2. /\ [made[id] EXCEPT !.state = "open"] \in Made
        /\ made' = [made EXCEPT ![id] = [made[id] EXCEPT !.state = "open"]]
    BY <1>1, <1>2, <2>1 DEF Made, MadeStates
  <2>3. QED
    BY <1>1, <2>1, <2>2, Put DEF Made
<1> HIDE DEF srv
<1>4. /\ \A u \in Servers : connections'[u] = IF u = srv THEN id ELSE connections[u]
      /\ \A u \in Servers : connecting'[u] = IF u = srv THEN 0 ELSE connecting[u]
      /\ \A u \in Servers : tokens'[u] = tokens[u] \/ (u = srv /\ tokens'[u] = made[id].with)
      /\ tokens' \in [Servers -> Nat]
  BY <1>1, <1>2 DEF ServersInv, ServersTyped
<1>5. ServersTyped'
  BY <1>1, <1>2, <1>3, <1>4 DEF ServersInv, ServersTyped
<1>6. \A i \in DOMAIN made : made[i].server \in Servers /\ i # 0
  BY MadeAre DEF ServersInv
<1>7. OneEach'
  <2>1. \A i \in DOMAIN made : i # id => /\ made'[i].server = made[i].server /\ made'[i].state = made[i].state
                                         /\ made[i].state \in {"making", "open"} => made[i].server # srv
    BY <1>1, <1>3, <1>6 DEF ServersInv, OneEach, Mcp!Ids
  <2>2. made'[id].server = srv
    BY <1>1, <1>3 DEF srv
  <2>3. \A i \in DOMAIN made' : /\ made'[i].state = "making" => connecting'[made'[i].server] = i
                                /\ made'[i].state = "open" => connections'[made'[i].server] = i
    <3>1. ASSUME NEW i \in DOMAIN made', i # id
          PROVE  /\ made'[i].state = "making" => connecting'[made'[i].server] = i
                 /\ made'[i].state = "open" => connections'[made'[i].server] = i
      BY <1>3, <1>4, <1>6, <2>1, <3>1 DEF ServersInv, OneEach, Mcp!Ids
    <3>2. QED
      BY <1>1, <1>3, <1>4, <2>2, <3>1
  <2>4. \A u \in Servers : connecting'[u] # 0 => connections'[u] = 0
    BY <1>4 DEF ServersInv, OneEach
  <2>5. QED
    BY <2>3, <2>4 DEF OneEach, Mcp!Ids
<1>8. FromOwnSignIn'
  BY <1>1, <1>2, <1>3, <1>4 DEF ServersInv, FromOwnSignIn, Mcp!Ids, srv
<1>9. QED
  BY <1>5, <1>7, <1>8 DEF ServersInv

(* One that is not made leaves its server without any.                        *)
LEMMA NotConnectedInv == ASSUME ServersInv, NEW id \in Mcp!Ids, Mcp!NotConnected(id) PROVE ServersInv'
<1> DEFINE srv == made[id].server
<1>1. /\ id \in DOMAIN made /\ srv \in Servers /\ connecting[srv] = id /\ made[id].state = "making"
  BY MadeAre DEF Mcp!NotConnected, ServersInv, OneEach, Mcp!Ids
<1>2. /\ made' = [made EXCEPT ![id].state = "failed"] /\ connecting' = [connecting EXCEPT ![srv] = 0]
      /\ tokens' \in {tokens, [tokens EXCEPT ![srv] = 0]} /\ UNCHANGED <<connections, login>>
  BY DEF Mcp!NotConnected
<1>3. /\ DOMAIN made' = DOMAIN made /\ made'[id].state = "failed" /\ made' \in Seq(Made)
      /\ \A i \in DOMAIN made : /\ made'[i].server = made[i].server /\ made'[i].with = made[i].with
                                /\ i # id => made'[i] = made[i]
  <2>1. made[id] \in Made /\ made \in Seq(Made)
    BY <1>1, MadeAre DEF ServersInv, ServersTyped
  <2>2. /\ [made[id] EXCEPT !.state = "failed"] \in Made
        /\ made' = [made EXCEPT ![id] = [made[id] EXCEPT !.state = "failed"]]
    BY <1>1, <1>2, <2>1 DEF Made, MadeStates
  <2>3. QED
    BY <1>1, <2>1, <2>2, Put DEF Made
<1> HIDE DEF srv
<1>4. /\ \A u \in Servers : connecting'[u] = IF u = srv THEN 0 ELSE connecting[u]
      /\ \A u \in Servers : tokens'[u] \in {tokens[u], 0}
      /\ tokens' \in [Servers -> Nat] /\ connecting' \in [Servers -> Nat]
  <2>1. connecting \in [Servers -> Nat] /\ tokens \in [Servers -> Nat]
    BY DEF ServersInv, ServersTyped
  <2>2. QED
    BY <1>1, <1>2, <2>1
<1>5. ServersTyped'
  BY <1>2, <1>3, <1>4 DEF ServersInv, ServersTyped
<1>6. \A i \in DOMAIN made : made[i].server \in Servers /\ i # 0
  BY MadeAre DEF ServersInv
<1>7. OneEach'
  BY <1>1, <1>2, <1>3, <1>4, <1>6 DEF ServersInv, OneEach, Mcp!Ids, srv
<1>8. FromOwnSignIn'
  BY <1>2, <1>3, <1>4 DEF ServersInv, FromOwnSignIn, Mcp!Ids
<1>9. QED
  BY <1>5, <1>7, <1>8 DEF ServersInv

(* An answer changes no more than that the tools were listed.                 *)
LEMMA AnsweredInv == ASSUME ServersInv, NEW t, Mcp!Answered(t) PROVE ServersInv'
<1>1. UNCHANGED <<connections, connecting, tokens, login>>
  BY DEF Mcp!Answered
<1>2. CASE made' = made
  BY <1>1, <1>2 DEF ServersInv, ServersTyped, OneEach, FromOwnSignIn, Mcp!Ids
<1>3. CASE made' = [made EXCEPT ![task[t].id].listed = TRUE]
  <2>1. /\ DOMAIN made' = DOMAIN made /\ made' \in Seq(Made)
        /\ \A i \in DOMAIN made : /\ made'[i].server = made[i].server /\ made'[i].with = made[i].with
                                  /\ made'[i].state = made[i].state
    <3> DEFINE id == task[t].id
    <3>1. CASE id \notin DOMAIN made
      <4>1. made' = made
        BY <1>3, <3>1, MadeAre DEF ServersInv, ServersTyped
      <4>2. QED
        BY <4>1 DEF ServersInv, ServersTyped
    <3>2. CASE id \in DOMAIN made
      <4>1. /\ made[id] \in Made /\ [made[id] EXCEPT !.listed = TRUE] \in Made /\ made \in Seq(Made)
            /\ made' = [made EXCEPT ![id] = [made[id] EXCEPT !.listed = TRUE]]
        BY <1>3, <3>2, MadeAre DEF ServersInv, ServersTyped, Made
      <4> DEFINE c == [made[id] EXCEPT !.listed = TRUE]
      <4>2. c \in Made /\ c.server = made[id].server /\ c.with = made[id].with /\ c.state = made[id].state
        BY <4>1 DEF Made
      <4>3. made' = [made EXCEPT ![id] = c]
        BY <4>1
      <4> HIDE DEF c, id
      <4>4. QED
        BY <3>2, <4>1, <4>2, <4>3, Put
    <3>3. QED
      BY <3>1, <3>2
  <2>2. QED
    BY <1>1, <2>1 DEF ServersInv, ServersTyped, OneEach, FromOwnSignIn, Mcp!Ids
<1>4. QED
  BY <1>2, <1>3 DEF Mcp!Answered

(* A server that dies keeps its place.                                        *)
LEMMA DiesInv == ASSUME ServersInv, NEW id \in Mcp!Ids, Mcp!ServerDies(id) PROVE ServersInv'
<1>1. UNCHANGED <<connections, connecting, tokens, login>>
  BY DEF Mcp!ServerDies
<1>2. /\ DOMAIN made' = DOMAIN made /\ made' \in Seq(Made)
      /\ \A i \in DOMAIN made : /\ made'[i].server = made[i].server /\ made'[i].with = made[i].with
                                /\ made'[i].state \in {made[i].state, "dead"}
  <2>1. /\ made[id] \in Made /\ [made[id] EXCEPT !.state = "dead"] \in Made /\ made \in Seq(Made)
        /\ made' = [made EXCEPT ![id] = [made[id] EXCEPT !.state = "dead"]]
    BY MadeAre DEF Mcp!ServerDies, ServersInv, ServersTyped, Made, MadeStates, Mcp!Ids
  <2>2. QED
    BY <2>1, Put DEF Made, Mcp!Ids
<1>3. QED
  BY <1>1, <1>2 DEF ServersInv, ServersTyped, OneEach, FromOwnSignIn, Mcp!Ids

(* close() ends what the manager holds; what it still makes goes on.          *)
LEMMA CloseManagerInv == ASSUME ServersInv, Mcp!Close PROVE ServersInv'
<1>1. /\ UNCHANGED <<connecting, tokens, login>> /\ connections' = [s \in Servers |-> 0]
      /\ made' = [i \in Mcp!Ids |-> IF i \in Mcp!Held THEN [made[i] EXCEPT !.state = "closed"] ELSE made[i]]
  BY DEF Mcp!Close
<1>2. /\ DOMAIN made' = DOMAIN made
      /\ \A i \in DOMAIN made : /\ made'[i] \in Made
                                /\ made'[i].server = made[i].server /\ made'[i].with = made[i].with
                                /\ made'[i].state = IF i \in Mcp!Held THEN "closed" ELSE made[i].state
  <2>1. \A i \in DOMAIN made : made[i] \in Made
    BY MadeAre DEF ServersInv
  <2>2. QED
    BY <1>1, <2>1 DEF Made, MadeStates, Mcp!Ids
<1>3. made' \in Seq(Made)
  <2>1. Len(made) \in Nat /\ DOMAIN made = 1..Len(made)
    BY MadeAre DEF ServersInv
  <2>2. made' \in [1..Len(made) -> Made]
    BY <1>1, <1>2, <2>1 DEF Mcp!Ids
  <2>3. QED
    BY <2>1, <2>2
<1>4. \A i \in DOMAIN made : made[i].state = "open" => i \in Mcp!Held
  <2>1. \A i \in DOMAIN made : i # 0 /\ made[i].server \in Servers
    BY MadeAre DEF ServersInv
  <2>2. QED
    BY <2>1 DEF ServersInv, OneEach, Mcp!Held, Mcp!Ids
<1>5. QED
  BY <1>1, <1>2, <1>3, <1>4 DEF ServersInv, ServersTyped, OneEach, FromOwnSignIn, Mcp!Ids

(* A sign-in begins, after the others.                                        *)
LEMMA LoginStartsInv == ASSUME ServersInv, NEW s \in Servers, Mcp!LoginStarts(s) PROVE ServersInv'
<1> DEFINE l == [server |-> s, at |-> "connects", page |-> FALSE, came |-> <<>>]
<1>1. /\ UNCHANGED <<made, connections, connecting, tokens>> /\ login' = Append(login, l)
      /\ login \in Seq(Logins) /\ l \in Logins
  BY DEF Mcp!LoginStarts, Mcp!manager, ServersInv, ServersTyped, Logins
<1>2. /\ login' \in Seq(Logins)
      /\ \A n \in DOMAIN login : n \in DOMAIN login' /\ login'[n] = login[n]
      /\ \A n \in DOMAIN login' : n \in DOMAIN login \/ login'[n] = l
  BY <1>1
<1>3. QED
  BY <1>1, <1>2 DEF ServersInv, ServersTyped, OneEach, FromOwnSignIn, Mcp!Ids

(* A step of one sign-in: only its own server's tokens may be its own.        *)
LEMMA LoginInv == ASSUME ServersInv, NEW n \in DOMAIN login, UNCHANGED Mcp!manager,
                         login' \in Seq(Logins), DOMAIN login' = DOMAIN login,
                         \A m \in DOMAIN login : login'[m].server = login[m].server /\ (m # n => login'[m] = login[m]),
                         login'[n].at = "redeems" => login'[n].came # <<>> /\ login'[n].came[1] = n,
                         tokens' \in [Servers -> Nat],
                         \A s \in Servers : \/ tokens'[s] \in {tokens[s], 0}
                                            \/ s = login[n].server /\ tokens'[s] = n
                  PROVE  ServersInv'
<1>1. UNCHANGED <<made, connections, connecting>>
  BY DEF Mcp!manager
<1>2. FromOwnSignIn'
  BY <1>1 DEF ServersInv, FromOwnSignIn, Mcp!Ids
<1>3. QED
  BY <1>1, <1>2 DEF ServersInv, ServersTyped, OneEach, Mcp!Ids

(* Of a step of a sign-in that changes it in its place.                       *)
LEMMA SignsInInv == ASSUME ServersInv, NEW n \in DOMAIN login,
                           Mcp!LoginConnects(n) \/ Mcp!LoginResumes(n) \/ Mcp!LoginTimesOut(n) \/ Mcp!Redeems(n)
                    PROVE  ServersInv'
<1>1. /\ login \in Seq(Logins) /\ n \in Nat /\ login[n] \in Logins /\ tokens \in [Servers -> Nat]
      /\ login[n].server \in Servers
  BY LoginsAre DEF ServersInv, ServersTyped
<1>2. CASE Mcp!LoginConnects(n)
  <2>1. login' = [login EXCEPT ![n].at = "ended"] \/ login' = [login EXCEPT ![n].at = "sent", ![n].page = TRUE]
    BY <1>2 DEF Mcp!LoginConnects
  <2>2. /\ login' \in Seq(Logins) /\ DOMAIN login' = DOMAIN login /\ login'[n].at # "redeems"
        /\ \A m \in DOMAIN login : login'[m].server = login[m].server /\ (m # n => login'[m] = login[m])
    <3> DEFINE l == IF login' = [login EXCEPT ![n].at = "ended"] THEN [login[n] EXCEPT !.at = "ended"]
                    ELSE [login[n] EXCEPT !.at = "sent", !.page = TRUE]
    <3>1. l \in Logins /\ l.server = login[n].server /\ l.at # "redeems" /\ login' = [login EXCEPT ![n] = l]
      BY <1>1, <2>1 DEF Logins
    <3> HIDE DEF l
    <3>2. QED
      BY <1>1, <3>1, Put
  <2>3. tokens' \in [Servers -> Nat] /\ \A s \in Servers : tokens'[s] \in {tokens[s], 0}
    BY <1>1, <1>2 DEF Mcp!LoginConnects
  <2>4. QED
    BY <1>2, <2>2, <2>3, LoginInv DEF Mcp!LoginConnects
<1>3. CASE Mcp!LoginResumes(n)
  <2>1. /\ UNCHANGED <<Mcp!manager, tokens>> /\ login[n].came # <<>>
        /\ \/ login' = [login EXCEPT ![n].at = "ended"]
           \/ login' = [login EXCEPT ![n].at = "redeems"] /\ login[n].came[1] = n
    BY <1>3 DEF Mcp!LoginResumes, Mcp!OwnState
  <2>2. /\ login' \in Seq(Logins) /\ DOMAIN login' = DOMAIN login
        /\ \A m \in DOMAIN login : login'[m].server = login[m].server /\ (m # n => login'[m] = login[m])
        /\ login'[n].came = login[n].came
        /\ login'[n].at = "redeems" => login[n].came[1] = n
    <3> DEFINE l == IF login' = [login EXCEPT ![n].at = "ended"] THEN [login[n] EXCEPT !.at = "ended"]
                    ELSE [login[n] EXCEPT !.at = "redeems"]
    <3>1. /\ l \in Logins /\ l.server = login[n].server /\ l.came = login[n].came
          /\ l.at = "redeems" => login[n].came[1] = n
          /\ login' = [login EXCEPT ![n] = l]
      BY <1>1, <2>1 DEF Logins
    <3> HIDE DEF l
    <3>2. QED
      BY <1>1, <3>1, Put
  <2>3. QED
    BY <1>1, <2>1, <2>2, LoginInv
<1>4. CASE Mcp!LoginTimesOut(n)
  <2>1. UNCHANGED <<Mcp!manager, tokens>> /\ login' = [login EXCEPT ![n].at = "ended"]
    BY <1>4 DEF Mcp!LoginTimesOut
  <2>2. /\ login' \in Seq(Logins) /\ DOMAIN login' = DOMAIN login /\ login'[n].at # "redeems"
        /\ \A m \in DOMAIN login : login'[m].server = login[m].server /\ (m # n => login'[m] = login[m])
    <3>1. [login[n] EXCEPT !.at = "ended"] \in Logins /\ login' = [login EXCEPT ![n] = [login[n] EXCEPT !.at = "ended"]]
      BY <1>1, <2>1 DEF Logins
    <3>2. QED
      BY <1>1, <3>1, Put DEF Logins
  <2>3. QED
    BY <1>1, <2>1, <2>2, LoginInv
<1>5. CASE Mcp!Redeems(n)
  <2>1. /\ UNCHANGED Mcp!manager /\ login' = [login EXCEPT ![n].at = "ended"] /\ login[n].at = "redeems"
        /\ tokens' \in {tokens, [tokens EXCEPT ![login[n].server] = login[n].came[1]]}
    BY <1>5 DEF Mcp!Redeems
  <2>2. /\ login' \in Seq(Logins) /\ DOMAIN login' = DOMAIN login /\ login'[n].at # "redeems"
        /\ \A m \in DOMAIN login : login'[m].server = login[m].server /\ (m # n => login'[m] = login[m])
    <3>1. [login[n] EXCEPT !.at = "ended"] \in Logins /\ login' = [login EXCEPT ![n] = [login[n] EXCEPT !.at = "ended"]]
      BY <1>1, <2>1 DEF Logins
    <3>2. QED
      BY <1>1, <3>1, Put DEF Logins
  <2>3. login[n].came[1] = n
    BY <2>1 DEF ServersInv, FromOwnSignIn
  <2>4. /\ tokens' \in [Servers -> Nat]
        /\ \A s \in Servers : tokens'[s] = tokens[s] \/ (s = login[n].server /\ tokens'[s] = n)
    BY <1>1, <2>1, <2>3
  <2>5. QED
    BY <2>1, <2>2, <2>4, LoginInv
<1>6. QED
  BY <1>2, <1>3, <1>4, <1>5

(* A browser comes back to a sign-in with a page, its own or another's.       *)
LEMMA ReturnsInv == ASSUME ServersInv, NEW n \in DOMAIN login, NEW m \in DOMAIN login, NEW refused \in BOOLEAN,
                           Mcp!BrowserReturns(n, m, refused)
                    PROVE  ServersInv'
<1>1. /\ login \in Seq(Logins) /\ n \in Nat /\ m \in Nat /\ login[n] \in Logins /\ tokens \in [Servers -> Nat]
  BY LoginsAre DEF ServersInv, ServersTyped
<1>2. /\ login' = [login EXCEPT ![n].came = <<m, refused>>] /\ UNCHANGED <<Mcp!manager, tokens>>
      /\ login[n].at \in {"connects", "sent"}
  BY DEF Mcp!BrowserReturns
<1>3. /\ login' \in Seq(Logins) /\ DOMAIN login' = DOMAIN login /\ login'[n].at # "redeems"
      /\ \A k \in DOMAIN login : login'[k].server = login[k].server /\ (k # n => login'[k] = login[k])
  <2>1. /\ [login[n] EXCEPT !.came = <<m, refused>>] \in Logins
        /\ login' = [login EXCEPT ![n] = [login[n] EXCEPT !.came = <<m, refused>>]]
    BY <1>1, <1>2 DEF Logins
  <2>2. QED
    BY <1>1, <1>2, <2>1, Put DEF Logins
<1>4. QED
  BY <1>1, <1>2, <1>3, LoginInv

(* A logout forgets tokens, and nothing else.                                 *)
LEMMA LogoutInv == ASSUME ServersInv, NEW s \in Servers, Mcp!Logout(s) PROVE ServersInv'
<1>1. /\ tokens' \in [Servers -> Nat] /\ \A u \in Servers : tokens'[u] \in {tokens[u], 0}
      /\ UNCHANGED <<made, connections, connecting, login>>
  BY DEF Mcp!Logout, Mcp!manager, ServersInv, ServersTyped
<1>2. QED
  BY <1>1 DEF ServersInv, ServersTyped, OneEach, FromOwnSignIn, Mcp!Ids

(* Whatever a server, a call, a browser or a sign-in does next.               *)
LEMMA NextInv == ServersInv /\ [Mcp!Next]_(Mcp!mcVars) => ServersInv'
<1> SUFFICES ASSUME ServersInv, [Mcp!Next]_(Mcp!mcVars) PROVE ServersInv'
  OBVIOUS
<1>1. ASSUME NEW s \in Servers, Mcp!Registers(s) PROVE ServersInv'
  BY <1>1, MakesInv DEF Mcp!Registers
<1>2. ASSUME NEW c, NEW s \in Servers, Mcp!CallsTool(c, s) \/ Mcp!Reads(c, s) PROVE ServersInv'
  BY <1>2, MakesInv DEF Mcp!CallsTool, Mcp!Reads
<1>3. ASSUME NEW t, Mcp!TimedOut(t) \/ Mcp!Refused(t) \/ UNCHANGED Mcp!mcVars PROVE ServersInv'
  <2>1. UNCHANGED <<made, connections, connecting, tokens, login>>
    BY <1>3 DEF Mcp!TimedOut, Mcp!Refused, Mcp!mcVars
  <2>2. QED
    BY <2>1 DEF ServersInv, ServersTyped, OneEach, FromOwnSignIn, Mcp!Ids
<1>4. CASE UNCHANGED Mcp!mcVars
  BY <1>3, <1>4
<1>5. QED
  BY <1>1, <1>2, <1>3, <1>4, ConnectedInv, NotConnectedInv, AnsweredInv, DiesInv, CloseManagerInv,
       LoginStartsInv,
     SignsInInv, ReturnsInv, LogoutInv DEF Mcp!Next

(* The invariant of the connections and the sign-ins, in every state.         *)
THEOREM ServersInvariant == Mcp!Spec => []ServersInv
<1>1. QED
  BY InitInv, NextInv, PTL DEF Mcp!Spec

(* Whatever calls race for a server, however its connections end and whoever  *)
(* signs in beside it, a server has at most one connection, and its tokens    *)
(* are those of a sign-in to it (McpManager.getConnection, McpOAuthProvider). *)
THEOREM ConnectedHolds == Mcp!Spec => []Mcp!ConnectedOnce
<1>1. ServersInv => Mcp!ConnectedOnce
  <2> SUFFICES ASSUME ServersInv, NEW s \in Servers
               PROVE  /\ Cardinality(Mcp!Live(s)) <= 1
                      /\ \A id \in Mcp!Live(s) : made[id].state = "open" => connections[s] = id
                      /\ tokens[s] # 0 => login[tokens[s]].server = s
    BY SameCount DEF Mcp!ConnectedOnce
  <2>1. Mcp!Live(s) = {} \/ \E id \in Mcp!Ids : Mcp!Live(s) = {id}
    <3>1. \A i, j \in Mcp!Live(s) : i = j
      <4>1. \A i \in Mcp!Live(s) : i \in Mcp!Ids /\ made[i].server = s /\ i # 0 /\ (connecting[s] = i \/ connections[s] = i)
        BY DEF ServersInv, ServersTyped, OneEach, Mcp!Live, Mcp!Ids
      <4>2. QED
        BY <4>1 DEF ServersInv, OneEach
    <3>2. QED
      BY <3>1 DEF Mcp!Live
  <2>2. Cardinality(Mcp!Live(s)) <= 1
    <3>1. CASE Mcp!Live(s) = {}
      BY <3>1, FS_EmptySet
    <3>2. ASSUME NEW id \in Mcp!Live(s) PROVE Cardinality(Mcp!Live(s)) <= 1
      <4>1. Mcp!Live(s) = {id}
        BY <2>1
      <4>2. QED
        BY <4>1, FS_Singleton
    <3>3. QED
      BY <3>1, <3>2
  <2>3. \A id \in Mcp!Live(s) : made[id].state = "open" => connections[s] = id
    BY DEF ServersInv, OneEach, Mcp!Live
  <2>4. QED
    BY <2>2, <2>3 DEF ServersInv, FromOwnSignIn
<1>2. QED
  BY <1>1, ServersInvariant, PTL

-----------------------------------------------------------------------------
(* What a provider is asked for (Catalog): for any models, whatever the       *)
(* directory and the provider answer and whenever, a request sets only fields *)
(* its model takes, on answers no older than they are good for.               *)

CONSTANTS Sessions, Models, Configured, Day, Hour, MaxTime, MaxTurns
VARIABLES family, truth, says, configured, now, cached, given, dirFile, loaded, dirFailed, asking, refreshing, shown,
  known, age, opened, turns

Cat == INSTANCE Catalog

(* What is waited for, and what was kept, is of a provider that knows.        *)
CatalogInv ==
  /\ truth \in Models /\ configured \in Configured
  /\ cached # Cat!Never => "provider" \in says
  /\ DOMAIN asking = Sessions /\ DOMAIN known = Sessions /\ opened \subseteq Sessions
  /\ \A s \in Sessions :
       /\ asking[s] \in {"said", "kept"} => "provider" \in says
       /\ \A n \in Cat!Names : known[s][n] # "none" => known[s][n] \in says

(* Nothing is known, and no session is opened.                                *)
LEMMA NoCatalogInv == Cat!Init => CatalogInv
BY DEF Cat!Init, CatalogInv

(* A fact comes from a source that says something.                            *)
LEMMA FromWhoSays ==
  ASSUME NEW s \in Sessions, NEW reported, reported => "provider" \in says, NEW n \in Cat!Names
  PROVE  Cat!Combine(s, reported)[n] # "none" => Cat!Combine(s, reported)[n] \in says
<1> DEFINE knows == ({"config", "bundled"} \cap says)
                      \cup (IF reported THEN {"provider"} ELSE {})
                      \cup (IF Cat!DirectoryKnows(s) THEN {"directory"} ELSE {})
           at == Cat!SelectInSeq(Cat!Sources, LAMBDA src : src \in knows /\ n \in Cat!Tells(src))
<1>1. Cat!Combine(s, reported)[n] = IF at = 0 THEN "none" ELSE Cat!Sources[at]
  BY DEF Cat!Combine
<1>2. knows \subseteq says
  BY DEF Cat!DirectoryKnows
<1>3. at # 0 => at \in 1..4 /\ Cat!Sources[at] \in knows
  <2> DEFINE I == {i \in 1..Len(Cat!Sources) : Cat!Sources[i] \in knows
              /\ n \in Cat!Tells(Cat!Sources[i])}
  <2>1. at = IF I # {} THEN Cat!Min(I) ELSE 0
    BY DEF Cat!SelectInSeq
  <2>2. I \subseteq 1..4 /\ \A i \in I : Cat!Sources[i] \in knows
    BY DEF Cat!Sources
  <2> HIDE DEF I, knows
  <2>3. I # {} => Cat!Min(I) \in I
    <3> SUFFICES ASSUME I # {} PROVE \E x \in I : \A y \in I : x <= y
      BY DEF Cat!Min
    <3>1. \A y \in I : y \in {1, 2, 3, 4}
      BY <2>2
    <3>2. CASE 1 \in I
      BY <3>1, <3>2
    <3>3. CASE 1 \notin I /\ 2 \in I
      BY <3>1, <3>3
    <3>4. CASE 1 \notin I /\ 2 \notin I /\ 3 \in I
      BY <3>1, <3>4
    <3>5. CASE 1 \notin I /\ 2 \notin I /\ 3 \notin I
      BY <3>1, <3>5
    <3> QED BY <3>2, <3>3, <3>4, <3>5
  <2> QED BY <2>1, <2>2, <2>3
<1> QED BY <1>1, <1>2, <1>3

(* Whatever the directory, the provider, a session or the clock does next.    *)
LEMMA CatalogNextInv == CatalogInv /\ [Cat!Next]_(Cat!caVars) => CatalogInv'
<1> SUFFICES ASSUME CatalogInv, [Cat!Next]_(Cat!caVars) PROVE CatalogInv'
  OBVIOUS
<1> USE DEF Cat!model, Cat!files, Cat!counted
<1>1. ASSUME NEW s \in Sessions, Cat!Resolves(s) PROVE CatalogInv'
  <2>1. Cat!Good(cached, Day) => "provider" \in says
    BY DEF CatalogInv, Cat!Good
  <2>2. \A n \in Cat!Names : Cat!Combine(s, Cat!Good(cached, Day))[n] # "none" => Cat!Combine(s, Cat!Good(cached, Day))[n] \in says
    BY <2>1, FromWhoSays
  <2> QED BY <1>1, <2>1, <2>2 DEF Cat!Resolves, CatalogInv
<1>2. ASSUME NEW s \in Sessions, Cat!Resolved(s) PROVE CatalogInv'
  <2>1. Cat!Answer(s) => "provider" \in says
    BY DEF CatalogInv, Cat!Answer
  <2>2. \A n \in Cat!Names : Cat!Combine(s, Cat!Answer(s))[n] # "none" => Cat!Combine(s, Cat!Answer(s))[n] \in says
    BY <2>1, FromWhoSays
  <2> QED BY <1>2, <2>1, <2>2 DEF Cat!Resolved, Cat!Keeps, CatalogInv
<1>3. ASSUME NEW s \in Sessions, Cat!ProviderSays(s) \/ Cat!ProviderSilent(s) PROVE CatalogInv'
  BY <1>3 DEF Cat!ProviderSays, Cat!ProviderSilent, CatalogInv
<1>4. CASE Cat!Tick \/ (\E s \in Sessions : Cat!Downloads(s) \/ Cat!DownloadFails(s) \/ Cat!Shows(s)) \/ UNCHANGED Cat!caVars
  BY <1>4 DEF Cat!Tick, Cat!Downloads, Cat!DownloadFails, Cat!Shows, CatalogInv, Cat!caVars
<1> QED BY <1>1, <1>2, <1>3, <1>4 DEF Cat!Next

(* The time an answer was kept at is the time it was given: only an answer    *)
(* given in this very wait is kept.  A session that no longer waits has read  *)
(* a directory it found fresh, or just downloaded, or its refresh failed.     *)
AgesInv ==
  /\ now \in Nat /\ cached \in Int /\ dirFile \in Int /\ given = cached
  /\ age \in [Sessions -> [provider : Int, directory : Int]]
  /\ loaded \in [Sessions -> Int] /\ DOMAIN dirFailed = Sessions
  /\ DOMAIN asking = Sessions /\ DOMAIN refreshing = Sessions
FreshInv ==
  \A s \in Sessions :
    /\ age[s].provider < Day
    /\ Cat!Idle(s) => age[s].directory < Hour \/ dirFailed[s]
    /\ asking[s] # "idle" /\ refreshing[s] # "waiting" => Cat!Good(loaded[s], Hour) \/ dirFailed[s]

(* Nothing is kept or waited for.                                             *)
LEMMA NoAges == Cat!AreNumbers /\ Cat!Init => AgesInv /\ FreshInv
BY DEF Cat!AreNumbers, Cat!Init, AgesInv, FreshInv, Cat!Idle, Cat!Never

(* Whatever the directory, the provider, a session or the clock does next.    *)
LEMMA AgesNext ==
  ASSUME Cat!AreNumbers, AgesInv, FreshInv, [Cat!Next]_(Cat!caVars) PROVE AgesInv' /\ FreshInv'
<1> USE DEF Cat!model, Cat!files, Cat!counted, Cat!Idle
<1> Day \in Nat \ {0} /\ Hour \in Nat \ {0}
  BY DEF Cat!AreNumbers
<1>1. ASSUME NEW s \in Sessions, Cat!Resolves(s) PROVE AgesInv' /\ FreshInv'
  <2> DEFINE p == Cat!AgeOf(IF Cat!Good(cached, Day) THEN given ELSE Cat!Never)
             d == Cat!AgeOf(Cat!Read(s))
  <2>1. Cat!Read(s) \in Int
    BY DEF AgesInv, Cat!Read
  <2>2. p \in Int /\ d \in Int /\ p < Day
    BY <2>1 DEF AgesInv, Cat!AgeOf, Cat!Good, Cat!Never
  <2>3. age' = [age EXCEPT ![s] = [provider |-> p, directory |-> d]]
    BY <1>1 DEF Cat!Resolves
  <2>4. /\ loaded' = [loaded EXCEPT ![s] = Cat!Read(s)]
        /\ asking' = [asking EXCEPT ![s] = IF Cat!Good(cached, Day) THEN "kept" ELSE "waiting"]
        /\ refreshing' = [refreshing EXCEPT ![s] = IF Cat!Stale(s) THEN "waiting" ELSE "idle"]
        /\ UNCHANGED <<now, cached, given, dirFile, dirFailed>>
    BY <1>1 DEF Cat!Resolves
  <2>5. refreshing'[s] # "waiting" => Cat!Good(Cat!Read(s), Hour) \/ dirFailed[s]
    BY <2>4 DEF Cat!Stale, AgesInv
  <2> HIDE DEF p, d
  <2>6. AgesInv'
    BY <2>1, <2>2, <2>3, <2>4 DEF AgesInv
  <2>7. asking'[s] # "idle" /\ loaded'[s] = Cat!Read(s) /\ age'[s].provider = p
    BY <2>3, <2>4 DEF AgesInv
  <2>8. \A t \in Sessions \ {s} : age'[t] = age[t] /\ loaded'[t] = loaded[t]
            /\ asking'[t] = asking[t] /\ refreshing'[t] = refreshing[t]
    BY <2>3, <2>4 DEF AgesInv
  <2> QED BY <2>2, <2>4, <2>5, <2>6, <2>7, <2>8 DEF FreshInv, Cat!Good
<1>2. ASSUME NEW s \in Sessions, Cat!Resolved(s) PROVE AgesInv' /\ FreshInv'
  <2> DEFINE p == IF asking[s] = "kept" THEN age[s].provider ELSE 0
             d == Cat!AgeOf(Cat!Read(s))
  <2>1. Cat!Read(s) \in Int
    BY DEF AgesInv, Cat!Read
  <2>2. p \in Int /\ d \in Int /\ p < Day
    BY <2>1 DEF AgesInv, FreshInv, Cat!AgeOf
  <2>3. age' = [age EXCEPT ![s] = [provider |-> p, directory |-> d]]
    BY <1>2 DEF Cat!Resolved, AgesInv
  <2>4. /\ asking' = [asking EXCEPT ![s] = "idle"] /\ refreshing' = [refreshing EXCEPT ![s] = "idle"]
        /\ UNCHANGED <<now, loaded, dirFailed>>
        /\ asking[s] # "idle" /\ refreshing[s] # "waiting"
    BY <1>2 DEF Cat!Resolved
  <2>5. Cat!Good(loaded[s], Hour) \/ dirFailed[s]
    BY <2>4 DEF FreshInv
  <2>6. d < Hour \/ dirFailed[s]
    BY <2>5 DEF Cat!Good, Cat!Read, Cat!AgeOf, AgesInv
  <2>7. Cat!Keeps(s) => p = 0
    BY DEF Cat!Keeps
  <2> HIDE DEF p, d
  <2>8. age'[s].provider = p /\ age'[s].directory = d
    BY <2>3 DEF AgesInv
  <2>9. cached' \in Int /\ dirFile' \in Int /\ given' = cached'
    BY <1>2, <2>7, <2>8 DEF Cat!Resolved, AgesInv
  <2>10. AgesInv'
    BY <2>2, <2>3, <2>4, <2>9 DEF AgesInv
  <2>11. \A t \in Sessions \ {s} : age'[t] = age[t] /\ asking'[t] = asking[t] /\ refreshing'[t] = refreshing[t]
    BY <2>3, <2>4 DEF AgesInv
  <2> QED BY <2>2, <2>4, <2>6, <2>8, <2>10, <2>11 DEF FreshInv, Cat!Good, AgesInv
<1>3. ASSUME NEW s \in Sessions, Cat!ProviderSays(s) \/ Cat!ProviderSilent(s) PROVE AgesInv' /\ FreshInv'
  BY <1>3 DEF Cat!ProviderSays, Cat!ProviderSilent, AgesInv, FreshInv, Cat!Good
<1>4. ASSUME NEW s \in Sessions, Cat!Downloads(s) PROVE AgesInv' /\ FreshInv'
  BY <1>4 DEF Cat!Downloads, AgesInv, FreshInv, Cat!Good, Cat!Never
<1>5. ASSUME NEW s \in Sessions, Cat!DownloadFails(s) PROVE AgesInv' /\ FreshInv'
  BY <1>5 DEF Cat!DownloadFails, AgesInv, FreshInv, Cat!Good
<1>6. CASE Cat!Tick
  BY <1>6 DEF Cat!Tick, AgesInv, FreshInv, Cat!Good
<1>7. CASE (\E s \in Sessions : Cat!Shows(s)) \/ UNCHANGED Cat!caVars
  BY <1>7 DEF Cat!Shows, AgesInv, FreshInv, Cat!caVars, Cat!Good
<1> QED BY <1>1, <1>2, <1>3, <1>4, <1>5, <1>6, <1>7 DEF Cat!Next

(* The tokens asked for are a number, and half of them fewer.                 *)
LEMMA Tokens ==
  ASSUME Cat!AreNumbers, CatalogInv, NEW s \in Sessions
  PROVE  /\ Cat!MaxTokens(s) \in Nat
         /\ Cat!MaxTokens(s) \div 2 >= Cat!MinThinkingBudget => Cat!MaxTokens(s) \div 2 < Cat!MaxTokens(s)
         /\ Cat!Knows(s, "maxOutput") => Cat!MaxTokens(s) <= truth.maxOutput
<1>1. truth.maxOutput \in Nat /\ configured \in Nat
  BY DEF Cat!AreNumbers, CatalogInv
<1>2. Cat!MaxTokens(s) \in Nat /\ (Cat!Knows(s, "maxOutput") => Cat!MaxTokens(s) <= truth.maxOutput)
  BY <1>1 DEF Cat!MaxTokens, Cat!Least, Cat!DefaultOutput
<1>3. \A n \in Nat : n \div 2 >= Cat!MinThinkingBudget => n \div 2 < n
  BY DEF Cat!MinThinkingBudget
<1> QED BY <1>2, <1>3

(* Whatever the directory and the provider answer, a request sets effort,     *)
(* budget, temperature and thinking only as its model takes them, what is     *)
(* kept for other sessions is an answer of the provider's, and none that one  *)
(* counts on is a day old (core/catalog, routing/capabilities.ts).            *)
THEOREM FactsHold == ASSUME Cat!AreNumbers PROVE Cat!Spec => []Cat!RequestsAccepted
<1> DEFINE CatInv == CatalogInv /\ AgesInv /\ FreshInv
<1>1. CatInv => Cat!RequestsAccepted
  <2> SUFFICES ASSUME CatInv PROVE Cat!RequestsAccepted
    OBVIOUS
  <2>4. Cat!FactsAreRecent
    BY DEF Cat!FactsAreRecent, FreshInv
  <2>1. Cat!KeepsAnswers
    BY DEF CatalogInv, Cat!KeepsAnswers
  <2>2. \A s \in Sessions : Cat!AcceptedByOllama(s)
    BY DEF Cat!AcceptedByOllama, Cat!SendsThink
  <2>3. ASSUME NEW s \in Sessions, NEW c \in Cat!ThinkingChoices PROVE Cat!AcceptedByMessages(s, c)
    <3> DEFINE reasoning == Cat!ReasoningOf(c)
               thinking == Cat!Thinking(s, reasoning)
    <3>1. Cat!AcceptsTemperature(s, reasoning) => truth.style = "budget" /\ thinking # "enabled"
      BY DEF Cat!AcceptsTemperature, Cat!Style, Cat!Thinking
    <3>2. thinking \in {"adaptive", "disabled"} => truth.style = "adaptive"
      BY DEF Cat!Style, Cat!Thinking
    <3>3. thinking = "disabled" => ~truth.always \/ ~Cat!Knows(s, "always")
      BY DEF Cat!Thinking, Cat!Is
    <3>4. thinking = "enabled" => truth.style = "budget" /\ Cat!MaxTokens(s) \div 2 < Cat!MaxTokens(s)
      BY Tokens DEF Cat!Thinking, Cat!Style
    <3>5. Cat!SendsEffort(s, c) => truth.effort
      BY DEF Cat!SendsEffort, Cat!Is
    <3>6. Cat!Knows(s, "maxOutput") => Cat!MaxTokens(s) <= truth.maxOutput
      BY Tokens
    <3> QED BY <3>1, <3>2, <3>3, <3>4, <3>5, <3>6 DEF Cat!AcceptedByMessages
  <2> QED BY <2>1, <2>2, <2>3, <2>4 DEF Cat!RequestsAccepted, CatalogInv
<1>2. Cat!Init => CatInv
  BY NoCatalogInv, NoAges
<1>3. CatInv /\ [Cat!Next]_(Cat!caVars) => CatInv'
  BY CatalogNextInv, AgesNext
<1> HIDE DEF CatInv
<1> QED BY <1>1, <1>2, <1>3, PTL DEF Cat!Spec

-----------------------------------------------------------------------------
(* What a person types (Composer), for any number of words, prompts and        *)
(* sessions.  The invariant says where a word is without counting the draft    *)
(* file of the session that is shown, which any key overwrites: in the         *)
(* composer, behind the walk, among the prompts, in the file of a session that *)
(* ended, or excused (WordsInv).  That needs three more: what a walk shows was *)
(* recorded (WalkInv), what is to be on disk is what the composer would lose   *)
(* (DraftInv), and no file lies where a session is yet to open (LaterInv).     *)

(* A set of numbers that is not empty has a least one.                        *)
LEMMA LeastIndex ==
  ASSUME NEW S \in SUBSET Nat, S # {}
  PROVE  \E i \in S : \A j \in S : ~(j < i)
<1> DEFINE R == {ss \in Nat \X Nat : ss[1] < ss[2]}
<1>1. IsWellFoundedOn(R, Nat)
  BY NatLessThanWellFounded DEF OpToRel
<1>2. PICK i \in S : \A j \in S : ~(<<j, i>> \in R)
  <2> HIDE DEF R
  <2> QED BY <1>1, WFMin
<1>3. \A j \in S : ~(j < i)
  BY <1>2
<1> QED BY <1>3

Texts == SUBSET Nat
RecordedWords == UNION { UNION Range(prompts[s]) : s \in SessionIds }
Elsewhere == IF up THEN SessionIds \ {here} ELSE SessionIds
Drafted == UNION { drafts[s] : s \in Elsewhere }

TypingTypes ==
  /\ typed \in Nat /\ composer \in Texts /\ excused \in Texts
  /\ walk \in [entries : Seq(Texts), index : Nat, shown : Texts, stash : Texts]
  /\ here \in SessionIds /\ up \in BOOLEAN /\ opening \in BOOLEAN /\ timer \in BOOLEAN
  /\ prompts \in [SessionIds -> Seq(Texts)] /\ queued \in Seq(Texts)
  /\ kept \in [id : SessionIds, text : Texts] /\ written \in [id : SessionIds, text : Texts]
  /\ drafts \in [SessionIds -> Texts]
(* A walk shows one of its entries, and each of them was recorded.            *)
WalkInv ==
  Walking =>
    /\ walk.index \in DOMAIN walk.entries
    /\ walk.shown = walk.entries[walk.index]
    /\ \A i \in DOMAIN walk.entries : walk.entries[i] \subseteq RecordedWords
(* What is to be on disk is the draft, and once the timer went it is there.   *)
DraftInv ==
  up =>
    /\ kept = [id |-> here, text |-> IF IsRecalled(walk, composer) THEN walk.stash ELSE composer]
    /\ written.id = here /\ drafts[here] = written.text
    /\ ~ timer => written = kept
(* Nothing is typed where no process runs, nor left by sessions to come.      *)
LaterInv ==
  /\ ~ up => composer = {} /\ walk = NoWalk /\ here < MaxSessions /\ ~ opening
  /\ opening => here < MaxSessions
  /\ \A s \in SessionIds : s > here => drafts[s] = {}
(* The words are there without the draft of the session that is shown.        *)
WordsInv == 1 .. typed \subseteq composer \cup walk.stash \cup RecordedWords \cup Drafted \cup excused

TypingInv == TypingTypes /\ WalkInv /\ DraftInv /\ LaterInv /\ WordsInv

(* The invariant says more than the property: the draft of the session that   *)
(* is shown is left out.                                                      *)
LEMMA WordsKept == TypingInv => NothingTypedIsLost
<1> SUFFICES ASSUME TypingInv PROVE NothingTypedIsLost
  OBVIOUS
<1>1. Drafted \subseteq UNION Range(drafts)
  BY DEF Drafted, Elsewhere, Range, TypingInv, TypingTypes
<1>2. Found = composer \cup walk.stash \cup RecordedWords \cup UNION Range(drafts)
  BY DEF Found, RecordedWords
<1> QED BY <1>1, <1>2 DEF TypingInv, WordsInv, NothingTypedIsLost

(* Before the first key there is nothing to keep.                             *)
LEMMA TypingStarts == ASSUME TypingInit PROVE TypingInv
<1> USE DEF TypingInit, Texts
<1>1. 1 \in SessionIds
  BY ComposerAssumption DEF SessionIds
<1>2. TypingTypes
  <2>1. walk \in [entries : Seq(Texts), index : Nat, shown : Texts, stash : Texts]
    BY DEF NoWalk
  <2>2. prompts \in [SessionIds -> Seq(Texts)] /\ queued \in Seq(Texts) /\ drafts \in [SessionIds -> Texts]
    OBVIOUS
  <2>3. kept \in [id : SessionIds, text : Texts] /\ written \in [id : SessionIds, text : Texts]
    BY <1>1
  <2> QED BY <1>1, <2>1, <2>2, <2>3 DEF TypingTypes
<1>3. WalkInv
  BY DEF WalkInv, Walking
<1>4. DraftInv
  <2>1. walk.stash = {} /\ composer = {}
    BY DEF NoWalk
  <2> QED BY <1>1, <2>1 DEF DraftInv
<1>5. LaterInv
  BY DEF LaterInv
<1>6. WordsInv
  BY DEF WordsInv
<1> QED BY <1>2, <1>3, <1>4, <1>5, <1>6 DEF TypingInv

(* What is recorded stays recorded, and what is added is.                     *)
LEMMA RecordsMore ==
  ASSUME TypingTypes, NEW more \in Seq(Texts), prompts' = [prompts EXCEPT ![here] = @ \o more]
  PROVE  /\ RecordedWords \subseteq RecordedWords'
         /\ \A i \in DOMAIN more : more[i] \subseteq RecordedWords'
         /\ prompts' \in [SessionIds -> Seq(Texts)]
<1> USE DEF TypingTypes
<1>1. prompts[here] \in Seq(Texts) /\ prompts'[here] = prompts[here] \o more
  OBVIOUS
<1>2. prompts' \in [SessionIds -> Seq(Texts)]
  BY <1>1
<1>3. \A i \in DOMAIN prompts[here] : i \in DOMAIN prompts'[here] /\ prompts'[here][i] = prompts[here][i]
  BY <1>1
<1>4. \A i \in DOMAIN more : /\ Len(prompts[here]) + i \in DOMAIN prompts'[here]
                             /\ prompts'[here][Len(prompts[here]) + i] = more[i]
  BY <1>1
<1>5. \A s \in SessionIds : UNION Range(prompts[s]) \subseteq UNION Range(prompts'[s])
  <2> TAKE s \in SessionIds
  <2>1. CASE s = here
    BY <2>1, <1>3 DEF Range
  <2>2. CASE s # here
    BY <2>2
  <2> QED BY <2>1, <2>2
<1>6. RecordedWords \subseteq RecordedWords'
  BY <1>5 DEF RecordedWords
<1>7. \A i \in DOMAIN more : more[i] \subseteq UNION Range(prompts'[here])
  BY <1>4 DEF Range
<1>8. \A i \in DOMAIN more : more[i] \subseteq RecordedWords'
  BY <1>7 DEF RecordedWords
<1> QED BY <1>2, <1>6, <1>8

(* An entry of a text holds all of its words.                                 *)
LEMMA EntryOf ==
  ASSUME NEW t \in Texts
  PROVE  /\ Entry(t) \in Seq(Texts)
         /\ \A w \in t : \E i \in DOMAIN Entry(t) : w \in Entry(t)[i]
<1>1. CASE t = {}
  BY <1>1 DEF Entry
<1>2. CASE t # {}
  <2>1. Entry(t) = <<t>>
    BY <1>2 DEF Entry
  <2>2. <<t>> \in Seq(Texts) /\ 1 \in DOMAIN <<t>> /\ <<t>>[1] = t
    OBVIOUS
  <2> QED BY <2>1, <2>2
<1> QED BY <1>1, <1>2

(* The words in a sequence of texts.                                          *)
LEMMA RecordsText ==
  ASSUME TypingTypes, NEW more \in Seq(Texts), prompts' = [prompts EXCEPT ![here] = @ \o more],
         NEW t, \A w \in t : \E i \in DOMAIN more : w \in more[i]
  PROVE  t \subseteq RecordedWords'
BY RecordsMore

(* A walk that may be shown.                                                  *)
WalkTypes == [entries : Seq(Texts), index : Nat, shown : Texts, stash : Texts]

(* What puts a text and a walk into the composer keeps the draft of it.       *)
LEMMA ShowsDraft ==
  ASSUME TypingInv, up, NEW t \in Texts, NEW w \in WalkTypes, Show(t, w),
         UNCHANGED <<written, drafts, up, here>>
  PROVE  DraftInv' /\ kept' \in [id : SessionIds, text : Texts] /\ timer' \in BOOLEAN
<1>1. kept' = [id |-> here, text |-> IF IsRecalled(w, t) THEN w.stash ELSE t] /\ timer' = TRUE
  BY DEF Show, KeepDraft
<1>2. composer' = t /\ walk' = w
  BY DEF Show
<1>3. w.stash \in Texts /\ here \in SessionIds
  BY DEF WalkTypes, TypingInv, TypingTypes
<1>4. (written.id = here /\ drafts[here] = written.text)'
  BY DEF TypingInv, DraftInv
<1> QED BY <1>1, <1>2, <1>3, <1>4 DEF DraftInv, IsRecalled

(* A walk nobody takes a step of stays at recorded entries.                   *)
LEMMA WalkKept ==
  ASSUME WalkInv, walk' = walk, RecordedWords \subseteq RecordedWords'
  PROVE  WalkInv'
BY DEF WalkInv, Walking

(* A step that writes no draft file and opens no session leaves later ones    *)
(* empty.                                                                     *)
LEMMA LaterKept ==
  ASSUME LaterInv, up, UNCHANGED <<up, here, drafts, opening>>
  PROVE  LaterInv'
BY DEF LaterInv

(* A key adds its word to the composer, and the draft follows it.             *)
LEMMA TypeKept == ASSUME TypingInv, Type PROVE TypingInv'
<1> USE DEF TypingInv, Type, session, work
<1>1. composer \cup {typed + 1} \in Texts /\ walk \in WalkTypes
  BY DEF TypingTypes, Texts, WalkTypes
<1>2. composer' = composer \cup {typed + 1} /\ walk' = walk /\ UNCHANGED RecordedWords
  BY DEF Show, RecordedWords
<1>3. DraftInv' /\ kept' \in [id : SessionIds, text : Texts] /\ timer' \in BOOLEAN
  BY <1>1, ShowsDraft
<1>4. TypingTypes'
  BY <1>1, <1>2, <1>3 DEF TypingTypes
<1>5. WalkInv' /\ LaterInv'
  BY <1>2, WalkKept, LaterKept
<1>6. WordsInv'
  <2>1. 1 .. typed' \subseteq (1 .. typed) \cup {typed + 1}
    BY DEF TypingTypes
  <2> QED BY <1>2, <2>1 DEF WordsInv, Drafted, Elsewhere
<1> QED BY <1>3, <1>4, <1>5, <1>6

(* A word deleted is excused.                                                 *)
LEMMA EraseKept == ASSUME TypingInv, Erase PROVE TypingInv'
<1> USE DEF TypingInv, Erase, session, work
<1>1. PICK word \in composer : excused' = excused \cup {word} /\ Show(composer \ {word}, walk)
  OBVIOUS
<1>2. composer \ {word} \in Texts /\ walk \in WalkTypes /\ excused' \in Texts
  BY <1>1 DEF TypingTypes, Texts, WalkTypes
<1>3. composer' = composer \ {word} /\ walk' = walk /\ UNCHANGED RecordedWords
  BY <1>1 DEF Show, RecordedWords
<1>4. DraftInv' /\ kept' \in [id : SessionIds, text : Texts] /\ timer' \in BOOLEAN
  BY <1>1, <1>2, ShowsDraft
<1>5. TypingTypes'
  BY <1>2, <1>3, <1>4 DEF TypingTypes
<1>6. WalkInv' /\ LaterInv'
  BY <1>3, WalkKept, LaterKept
<1>7. WordsInv'
  BY <1>1, <1>3 DEF WordsInv, Drafted, Elsewhere
<1> QED BY <1>4, <1>5, <1>6, <1>7

(* The timer writes what is to be on disk, under the session that is shown.   *)
LEMMA WriteKept == ASSUME TypingInv, WriteDraft PROVE TypingInv'
<1> USE DEF TypingInv, WriteDraft, keyboard, session, work
<1>1. kept.id = here /\ kept.text \in Texts /\ here \in SessionIds
  BY DEF DraftInv, TypingTypes
<1>2. \A s \in SessionIds \ {here} : drafts'[s] = drafts[s]
  BY <1>1 DEF TypingTypes
<1>3. TypingTypes'
  <2>1. drafts' \in [SessionIds -> Texts] /\ written' \in [id : SessionIds, text : Texts]
    BY <1>1 DEF TypingTypes
  <2> QED BY <2>1 DEF TypingTypes
<1>4. WalkInv'
  <2>1. UNCHANGED RecordedWords
    BY DEF RecordedWords
  <2> QED BY <2>1, WalkKept
<1>5. DraftInv'
  <2>1. written' = kept
    OBVIOUS
  <2>2. drafts'[here] = kept.text
    <3>1. CASE kept = written
      BY <3>1 DEF DraftInv
    <3>2. CASE kept # written
      BY <3>2, <1>1 DEF TypingTypes
    <3> QED BY <3>1, <3>2
  <2>3. UNCHANGED <<kept, walk, composer, here, up>>
    OBVIOUS
  <2> QED BY <2>1, <2>2, <2>3, <1>1 DEF DraftInv, IsRecalled
<1>6. LaterInv'
  <2>1. \A s \in SessionIds : s > here => s \in SessionIds \ {here}
    BY <1>1 DEF SessionIds
  <2> QED BY <2>1, <1>2 DEF LaterInv
<1>7. WordsInv'
  BY <1>2 DEF WordsInv, RecordedWords, Drafted, Elsewhere
<1> QED BY <1>3, <1>4, <1>5, <1>6, <1>7

-----------------------------------------------------------------------------
(* The least of two numbers is one of them and no more than either.           *)
LEMMA LeastOfTwo ==
  ASSUME NEW a \in Nat, NEW b \in Nat
  PROVE  Min({a, b}) \in {a, b} /\ Min({a, b}) <= a /\ Min({a, b}) <= b
<1>1. \E x \in {a, b} : \A y \in {a, b} : x =< y
  <2>1. CASE a <= b
    BY <2>1
  <2>2. CASE ~ (a <= b)
    BY <2>2
  <2> QED BY <2>1, <2>2
<1> QED BY <1>1 DEF Min

(* No walk is a walk with nothing behind it.                                  *)
LEMMA NoWalkTypes == NoWalk \in WalkTypes /\ NoWalk.stash = {} /\ NoWalk.shown = {}
BY DEF NoWalk, WalkTypes, Texts

(* A step of a walk keeps what the composer held: in the composer, behind the *)
(* walk or among the prompts.                                                 *)
LEMMA ApplyKept ==
  ASSUME TypingInv, up, NEW w \in WalkTypes, NEW text \in Texts, NEW more \in Seq(Texts),
         ApplyRecall(w, text, more),
         w # NoWalk => /\ w.index \in DOMAIN w.entries
                       /\ w.shown = w.entries[w.index]
                       /\ \A i \in DOMAIN w.entries : w.entries[i] \subseteq RecordedWords',
         composer \subseteq text \cup w.stash \cup RecordedWords',
         walk.stash \subseteq text \cup w.stash \cup RecordedWords'
  PROVE  TypingInv'
<1> USE DEF TypingInv, ApplyRecall, session, work
<1>1. composer' = text /\ walk' = w
  BY DEF Show
<1>2. DraftInv' /\ kept' \in [id : SessionIds, text : Texts] /\ timer' \in BOOLEAN
  BY ShowsDraft
<1>3. RecordedWords \subseteq RecordedWords' /\ prompts' \in [SessionIds -> Seq(Texts)]
  BY RecordsMore
<1>4. TypingTypes'
  BY <1>1, <1>2, <1>3 DEF TypingTypes, WalkTypes
<1>5. WalkInv'
  BY <1>1 DEF WalkInv, Walking
<1>6. LaterInv'
  BY LaterKept
<1>7. WordsInv'
  BY <1>1, <1>3 DEF WordsInv, Drafted, Elsewhere
<1> QED BY <1>2, <1>4, <1>5, <1>6, <1>7

(* What two sequences joined are made of.                                     *)
LEMMA Joined ==
  ASSUME NEW S, NEW p \in Seq(S), NEW q \in Seq(S)
  PROVE  /\ p \o q \in Seq(S)
         /\ \A i \in DOMAIN q : i + Len(p) \in DOMAIN (p \o q)
         /\ \A i \in DOMAIN (p \o q) :
              \/ i \in DOMAIN p /\ (p \o q)[i] = p[i]
              \/ i - Len(p) \in DOMAIN q /\ (p \o q)[i] = q[i - Len(p)]
OBVIOUS

(* What leaving an edited entry makes of the entries of a walk.               *)
LEMMA LeftOf ==
  ASSUME TypingInv, Walking, prompts' = [prompts EXCEPT ![here] = @ \o Abandoned(composer)]
  PROVE  /\ Abandoned(composer) \in Seq(Texts)
         /\ Left(composer).entries \in Seq(Texts)
         /\ \A i \in DOMAIN Left(composer).entries : Left(composer).entries[i] \subseteq RecordedWords'
         /\ Left(composer).index \in DOMAIN Left(composer).entries
         /\ Left(composer).index = walk.index + (IF Changed(composer) THEN 1 ELSE 0)
         /\ composer \subseteq RecordedWords'
<1> USE DEF TypingInv
<1> DEFINE more == Abandoned(composer)
           before == walk.entries
<1>1. composer \in Texts /\ before \in Seq(Texts) /\ walk.index \in Nat /\ walk.index \in DOMAIN before
  BY DEF TypingTypes, WalkInv
<1>2. /\ more \in Seq(Texts)
      /\ Len(more) = IF Changed(composer) THEN 1 ELSE 0
      /\ \A i \in DOMAIN more : more[i] = composer
  <2>1. CASE Changed(composer)
    <3>1. more = <<composer>>
      BY <2>1 DEF Abandoned
    <3> QED BY <2>1, <3>1, <1>1
  <2>2. CASE ~ Changed(composer)
    <3>1. more = <<>>
      BY <2>2 DEF Abandoned
    <3> QED BY <2>2, <3>1
  <2> QED BY <2>1, <2>2
<1>3. /\ RecordedWords \subseteq RecordedWords'
      /\ \A i \in DOMAIN more : more[i] \subseteq RecordedWords'
  BY <1>2, RecordsMore
<1>4. Left(composer).entries = more \o before /\ Left(composer).index = walk.index + Len(more)
  BY DEF Left
<1>5. \A i \in DOMAIN before : before[i] \subseteq RecordedWords'
  BY <1>3 DEF WalkInv
<1>6. \A i \in DOMAIN (more \o before) :
        \/ i \in DOMAIN more /\ (more \o before)[i] = more[i]
        \/ i - Len(more) \in DOMAIN before /\ (more \o before)[i] = before[i - Len(more)]
  BY <1>1, <1>2, Joined
<1>7. more \o before \in Seq(Texts) /\ walk.index + Len(more) \in DOMAIN (more \o before)
  BY <1>1, <1>2, Joined
<1>8. composer \subseteq RecordedWords'
  <2>1. CASE Changed(composer)
    <3>1. 1 \in DOMAIN more
      BY <2>1, <1>2
    <3> QED BY <3>1, <1>2, <1>3
  <2>2. CASE ~ Changed(composer)
    <3>1. walk.shown \subseteq RecordedWords'
      BY <1>1, <1>5 DEF WalkInv
    <3> QED BY <2>2, <3>1 DEF Changed
  <2> QED BY <2>1, <2>2
<1>9. \A i \in DOMAIN (more \o before) : (more \o before)[i] \subseteq RecordedWords'
  BY <1>3, <1>5, <1>6
<1> HIDE DEF more, before
<1> QED BY <1>2, <1>4, <1>7, <1>8, <1>9 DEF more

(* A walk at one of its entries.                                              *)
LEMMA AtOne ==
  ASSUME NEW es \in Seq(Texts), NEW i \in DOMAIN es, NEW st \in Texts
  PROVE  /\ At(es, i, st) \in WalkTypes /\ At(es, i, st).shown \in Texts
         /\ At(es, i, st).index \in DOMAIN At(es, i, st).entries
         /\ At(es, i, st).shown = At(es, i, st).entries[At(es, i, st).index]
         /\ At(es, i, st).entries = es /\ At(es, i, st).stash = st
BY DEF At, WalkTypes

(* Up: to an older prompt, with what was edited recorded; the draft goes      *)
(* behind the walk.                                                           *)
LEMMA RecallUpKept == ASSUME TypingInv, RecallUp PROVE TypingInv'
<1> USE DEF TypingInv
<1>1. CASE Walking
  <2> DEFINE left == Left(composer)
             i == Min({left.index + 1, Len(left.entries)})
             w == At(left.entries, i, walk.stash)
  <2>1. up /\ ApplyRecall(w, w.shown, Abandoned(composer))
    BY <1>1 DEF RecallUp
  <2>2. /\ Abandoned(composer) \in Seq(Texts)
        /\ left.entries \in Seq(Texts)
        /\ \A k \in DOMAIN left.entries : left.entries[k] \subseteq RecordedWords'
        /\ left.index \in DOMAIN left.entries
        /\ composer \subseteq RecordedWords'
    BY <1>1, <2>1, LeftOf DEF ApplyRecall
  <2> HIDE DEF left
  <2>3. i \in DOMAIN left.entries
    <3>1. left.index + 1 \in Nat /\ Len(left.entries) \in Nat /\ Len(left.entries) >= 1
      BY <2>2
    <3>2. i \in {left.index + 1, Len(left.entries)} /\ i <= Len(left.entries)
      BY <3>1, LeastOfTwo
    <3> HIDE DEF i
    <3> QED BY <2>2, <3>1, <3>2
  <2>4. walk.stash \in Texts
    BY DEF TypingTypes
  <2> HIDE DEF i
  <2>5. /\ w \in WalkTypes /\ w.shown \in Texts /\ w.index \in DOMAIN w.entries
        /\ w.shown = w.entries[w.index] /\ w.entries = left.entries /\ w.stash = walk.stash
    BY <2>2, <2>3, <2>4, AtOne
  <2> HIDE DEF w
  <2> QED BY <2>1, <2>2, <2>5, ApplyKept
<1>2. CASE ~ Walking
  <2> DEFINE past == Reverse(prompts[here])
             w == At(past, 1, composer)
  <2>1. up /\ prompts[here] # <<>> /\ ApplyRecall(w, w.shown, <<>>)
    BY <1>2 DEF RecallUp
  <2>2. prompts[here] \in Seq(Texts) /\ composer \in Texts /\ here \in SessionIds
    BY DEF TypingTypes
  <2>3. /\ past \in Seq(Texts) /\ 1 \in DOMAIN past
        /\ \A k \in DOMAIN past : \E j \in DOMAIN prompts[here] : past[k] = prompts[here][j]
    BY <2>1, <2>2 DEF Reverse
  <2>4. RecordedWords \subseteq RecordedWords' /\ <<>> \in Seq(Texts)
    <3>1. <<>> \in Seq(Texts)
      OBVIOUS
    <3>2. prompts' = [prompts EXCEPT ![here] = @ \o <<>>]
      BY <2>1 DEF ApplyRecall
    <3> QED BY <3>1, <3>2, RecordsMore
  <2>5. \A j \in DOMAIN prompts[here] : prompts[here][j] \subseteq RecordedWords
    BY <2>2 DEF RecordedWords, Range
  <2>6. \A k \in DOMAIN past : past[k] \subseteq RecordedWords'
    BY <2>3, <2>4, <2>5
  <2>7. walk.stash = {}
    BY <1>2, NoWalkTypes DEF Walking
  <2> HIDE DEF past
  <2>8. /\ w \in WalkTypes /\ w.shown \in Texts /\ w.index \in DOMAIN w.entries
        /\ w.shown = w.entries[w.index] /\ w.entries = past /\ w.stash = composer
    BY <2>2, <2>3, AtOne
  <2> HIDE DEF w
  <2> QED BY <2>1, <2>4, <2>6, <2>7, <2>8, ApplyKept
<1> QED BY <1>1, <1>2

(* A walk that ends gives the draft behind it back.                           *)
LEMMA WalkEnds ==
  ASSUME TypingInv, up, Walking, ApplyRecall(NoWalk, walk.stash, Abandoned(composer))
  PROVE  TypingInv'
<1>1. Abandoned(composer) \in Seq(Texts) /\ composer \subseteq RecordedWords'
  BY LeftOf DEF ApplyRecall
<1>2. walk.stash \in Texts
  BY DEF TypingInv, TypingTypes
<1> QED BY <1>1, <1>2, NoWalkTypes, ApplyKept

(* Escape: the draft behind the walk is back in the composer.                 *)
LEMMA RecallEscapeKept == ASSUME TypingInv, RecallEscape PROVE TypingInv'
BY WalkEnds DEF RecallEscape

(* Down: to a newer prompt, or past the newest to the draft.                  *)
LEMMA RecallDownKept == ASSUME TypingInv, RecallDown PROVE TypingInv'
<1> USE DEF TypingInv
<1> DEFINE left == Left(composer)
           w == At(left.entries, left.index - 1, walk.stash)
<1>1. up /\ Walking
  BY DEF RecallDown
<1>2. CASE left.index = 1 \/ (Changed(composer) /\ left.index = 2)
  <2>1. ApplyRecall(NoWalk, walk.stash, Abandoned(composer))
    BY <1>2 DEF RecallDown
  <2> QED BY <1>1, <2>1, WalkEnds
<1>3. CASE ~ (left.index = 1 \/ (Changed(composer) /\ left.index = 2))
  <2>1. ApplyRecall(w, w.shown, Abandoned(composer))
    BY <1>3 DEF RecallDown
  <2>2. /\ Abandoned(composer) \in Seq(Texts)
        /\ left.entries \in Seq(Texts)
        /\ \A k \in DOMAIN left.entries : left.entries[k] \subseteq RecordedWords'
        /\ left.index \in DOMAIN left.entries
        /\ composer \subseteq RecordedWords'
    BY <1>1, <2>1, LeftOf DEF ApplyRecall
  <2> HIDE DEF left
  <2>3. left.index - 1 \in DOMAIN left.entries
    BY <1>3, <2>2
  <2>4. walk.stash \in Texts
    BY DEF TypingTypes
  <2>5. /\ w \in WalkTypes /\ w.shown \in Texts /\ w.index \in DOMAIN w.entries
        /\ w.shown = w.entries[w.index] /\ w.entries = left.entries /\ w.stash = walk.stash
    BY <2>2, <2>3, <2>4, AtOne
  <2> HIDE DEF w
  <2> QED BY <1>1, <2>1, <2>2, <2>5, ApplyKept
<1> QED BY <1>2, <1>3

-----------------------------------------------------------------------------
(* The composer emptied, with what it held recorded or let go: the draft is   *)
(* gone from disk, and no write still waiting puts it back.                   *)
LEMMA SettledKept ==
  ASSUME TypingInv, up, NEW more \in Seq(Texts), prompts' = [prompts EXCEPT ![here] = @ \o more],
         composer' = {}, walk' = NoWalk, kept' = [id |-> here, text |-> {}], written' = kept', timer' = TRUE,
         drafts' = [drafts EXCEPT ![here] = {}],
         opening' \in BOOLEAN, opening' => here < MaxSessions, queued' \in Seq(Texts), excused' \in Texts,
         UNCHANGED <<typed, here, up>>,
         excused \subseteq excused',
         composer \cup walk.stash \subseteq RecordedWords' \cup excused'
  PROVE  TypingInv'
<1> USE DEF TypingInv
<1>1. here \in SessionIds /\ {} \in Texts
  BY DEF TypingTypes, Texts
<1>2. /\ drafts'[here] = {} /\ drafts' \in [SessionIds -> Texts]
      /\ \A s \in SessionIds \ {here} : drafts'[s] = drafts[s]
  BY <1>1 DEF TypingTypes
<1>3. RecordedWords \subseteq RecordedWords' /\ prompts' \in [SessionIds -> Seq(Texts)]
  BY RecordsMore
<1>4. TypingTypes'
  BY <1>1, <1>2, <1>3, NoWalkTypes DEF TypingTypes, WalkTypes
<1>5. WalkInv'
  BY DEF WalkInv, Walking
<1>6. DraftInv'
  BY <1>2, NoWalkTypes DEF DraftInv
<1>7. LaterInv'
  <2>1. \A s \in SessionIds : s > here => s \in SessionIds \ {here}
    BY <1>1 DEF SessionIds
  <2> QED BY <1>2, <2>1 DEF LaterInv
<1>8. WordsInv'
  <2>1. Drafted' = Drafted
    BY <1>2 DEF Drafted, Elsewhere
  <2> QED BY <1>3, <2>1 DEF WordsInv
<1> QED BY <1>4, <1>5, <1>6, <1>7, <1>8

(* A line sent: the text is recorded, and the draft behind the walk goes with *)
(* the send.                                                                  *)
LEMMA SentKept ==
  ASSUME TypingInv, SentLine, UNCHANGED here,
         opening' \in BOOLEAN, opening' => here < MaxSessions, queued' \in Seq(Texts)
  PROVE  TypingInv'
<1>1. composer \in Texts /\ walk.stash \in Texts /\ excused \in Texts /\ here \in SessionIds
  BY DEF TypingInv, TypingTypes
<1>2. /\ <<composer>> \in Seq(Texts)
      /\ \A w \in composer : \E i \in DOMAIN <<composer>> : w \in <<composer>>[i]
  <2>1. 1 \in DOMAIN <<composer>> /\ <<composer>>[1] = composer
    OBVIOUS
  <2> QED BY <1>1, <2>1
<1>3. prompts' = [prompts EXCEPT ![here] = @ \o <<composer>>]
  <2>1. prompts[here] \in Seq(Texts)
    BY <1>1 DEF TypingInv, TypingTypes
  <2>2. Append(prompts[here], composer) = prompts[here] \o <<composer>>
    BY <1>1, <2>1
  <2> QED BY <2>2 DEF SentLine
<1>4. composer \subseteq RecordedWords'
  BY <1>2, <1>3, RecordsText DEF TypingInv
<1>5. excused' = excused \cup walk.stash /\ excused' \in Texts
  BY <1>1 DEF SentLine, Texts
<1>6. /\ up /\ composer' = {} /\ walk' = NoWalk /\ kept' = [id |-> here, text |-> {}] /\ written' = kept'
      /\ timer' = TRUE /\ drafts' = [drafts EXCEPT ![here] = {}] /\ UNCHANGED <<typed, here, up>>
  BY DEF SentLine
<1> QED BY <1>2, <1>3, <1>4, <1>5, <1>6, SettledKept

(* A message, a compaction or another session asked for sends the line.       *)
LEMMA SubmitKept == ASSUME TypingInv, Submit \/ SendCompact \/ OpenAnother PROVE TypingInv'
<1> USE DEF TypingInv
<1>1. queued \in Seq(Texts) /\ composer \in Texts /\ opening \in BOOLEAN /\ Append(queued, composer) \in Seq(Texts)
  BY DEF TypingTypes
<1>2. SentLine /\ UNCHANGED here
  BY DEF Submit, SendCompact, OpenAnother, session
<1>3. queued' \in Seq(Texts)
  BY <1>1 DEF Submit, SendCompact, OpenAnother, work
<1>4. opening' \in BOOLEAN /\ (opening' => here < MaxSessions)
  <2>1. CASE OpenAnother
    BY <2>1 DEF OpenAnother
  <2>2. CASE Submit \/ SendCompact
    <3>1. opening' = opening
      BY <2>2 DEF Submit, SendCompact, session
    <3>2. opening => here < MaxSessions
      BY DEF LaterInv
    <3> QED BY <1>1, <3>1, <3>2
  <2> QED BY <2>1, <2>2
<1> QED BY <1>2, <1>3, <1>4, SentKept

(* What is set aside is recorded, unless it was or is put back as it is.      *)
LEMMA AsideKept ==
  ASSUME TypingInv, NEW t \in Texts, prompts' = [prompts EXCEPT ![here] = @ \o SetAside(t)]
  PROVE  /\ SetAside(t) \in Seq(Texts)
         /\ composer \subseteq t \cup RecordedWords'
         /\ walk.stash \subseteq RecordedWords'
<1> USE DEF TypingInv
<1> DEFINE p == Entry(walk.stash)
           put == composer # t /\ ~ IsRecalled(walk, composer)
           q == IF put THEN Entry(composer) ELSE <<>>
<1>1. walk.stash \in Texts /\ composer \in Texts
  BY DEF TypingTypes
<1>2. p \in Seq(Texts) /\ \A w \in walk.stash : \E i \in DOMAIN p : w \in p[i]
  BY <1>1, EntryOf
<1>3. q \in Seq(Texts) /\ (put => \A w \in composer : \E i \in DOMAIN q : w \in q[i])
  <2>1. <<>> \in Seq(Texts)
    OBVIOUS
  <2> QED BY <1>1, <2>1, EntryOf
<1>4. SetAside(t) = p \o q
  BY DEF SetAside
<1> HIDE DEF p, q
<1>5. /\ p \o q \in Seq(Texts)
      /\ \A i \in DOMAIN p : i \in DOMAIN (p \o q) /\ (p \o q)[i] = p[i]
      /\ \A i \in DOMAIN q : i + Len(p) \in DOMAIN (p \o q) /\ (p \o q)[i + Len(p)] = q[i]
  BY <1>2, <1>3
<1>6. walk.stash \subseteq RecordedWords'
  <2>1. \A w \in walk.stash : \E i \in DOMAIN (p \o q) : w \in (p \o q)[i]
    BY <1>2, <1>5
  <2> QED BY <1>4, <1>5, <2>1, RecordsText
<1>7. CASE put
  <2>1. \A w \in composer : \E i \in DOMAIN (p \o q) : w \in (p \o q)[i]
    BY <1>3, <1>5, <1>7
  <2>2. composer \subseteq RecordedWords'
    BY <1>4, <1>5, <2>1, RecordsText
  <2> QED BY <1>4, <1>5, <1>6, <2>2
<1>8. CASE ~ put
  <2>1. CASE IsRecalled(walk, composer)
    <3>1. composer \subseteq RecordedWords
      BY <2>1 DEF IsRecalled, WalkInv, Walking
    <3>2. RecordedWords \subseteq RecordedWords'
      BY <1>4, <1>5, RecordsMore
    <3> QED BY <1>4, <1>5, <1>6, <3>1, <3>2
  <2> QED BY <1>4, <1>5, <1>6, <1>8, <2>1
<1> QED BY <1>7, <1>8

(* The exit key: what it clears is set aside first.                           *)
LEMMA ClearKept == ASSUME TypingInv, ClearComposer PROVE TypingInv'
<1> USE DEF TypingInv
<1>1. {} \in Texts
  BY DEF Texts
<1>2. SetAside({}) \in Seq(Texts) /\ composer \subseteq {} \cup RecordedWords' /\ walk.stash \subseteq RecordedWords'
  BY <1>1, AsideKept DEF ClearComposer
<1>3. opening' \in BOOLEAN /\ (opening' => here < MaxSessions) /\ queued' \in Seq(Texts) /\ excused' \in Texts
  BY DEF ClearComposer, session, work, LaterInv, TypingTypes
<1>4. /\ up /\ prompts' = [prompts EXCEPT ![here] = @ \o SetAside({})]
      /\ composer' = {} /\ walk' = NoWalk /\ kept' = [id |-> here, text |-> {}] /\ written' = kept'
      /\ timer' = TRUE /\ drafts' = [drafts EXCEPT ![here] = {}] /\ UNCHANGED <<typed, here, up, excused>>
  BY DEF ClearComposer, session
<1> QED BY <1>2, <1>3, <1>4, SettledKept

(* An earlier prompt chosen: what it replaces is set aside first.             *)
LEMMA ChooseKept == ASSUME TypingInv, ChooseEarlier PROVE TypingInv'
<1> USE DEF TypingInv, ChooseEarlier, session, work
<1>1. PICK s \in SessionIds : \E t \in Range(prompts[s]) :
        prompts' = [prompts EXCEPT ![here] = @ \o SetAside(t)] /\ Show(t, NoWalk)
  OBVIOUS
<1>2. PICK t \in Range(prompts[s]) : prompts' = [prompts EXCEPT ![here] = @ \o SetAside(t)] /\ Show(t, NoWalk)
  BY <1>1
<1>3. t \in Texts
  BY DEF Range, TypingTypes
<1>4. SetAside(t) \in Seq(Texts) /\ composer \subseteq t \cup RecordedWords' /\ walk.stash \subseteq RecordedWords'
  BY <1>2, <1>3, AsideKept
<1>5. RecordedWords \subseteq RecordedWords' /\ prompts' \in [SessionIds -> Seq(Texts)]
  BY <1>2, <1>4, RecordsMore
<1>6. composer' = t /\ walk' = NoWalk
  BY <1>2 DEF Show
<1>7. DraftInv' /\ kept' \in [id : SessionIds, text : Texts] /\ timer' \in BOOLEAN
  BY <1>2, <1>3, NoWalkTypes, ShowsDraft
<1>8. TypingTypes'
  BY <1>3, <1>5, <1>6, <1>7, NoWalkTypes DEF TypingTypes, WalkTypes
<1>9. WalkInv' /\ LaterInv'
  BY <1>6, LaterKept DEF WalkInv, Walking
<1>10. WordsInv'
  BY <1>4, <1>5, <1>6 DEF WordsInv, Drafted, Elsewhere
<1> QED BY <1>7, <1>8, <1>9, <1>10

-----------------------------------------------------------------------------
(* A queue without its first is a queue.                                      *)
LEMMA ShorterQueue == ASSUME NEW S, NEW q \in Seq(S), q # <<>> PROVE Tail(q) \in Seq(S)
OBVIOUS

(* The end of a turn or of a compaction moves the queue alone.                *)
LEMMA EndsKept == ASSUME TypingInv, TurnIsOver \/ CompactEnds PROVE TypingInv'
<1> USE DEF TypingInv
<1>1. UNCHANGED <<keyboard, session, prompts, onDisk, up, excused>>
  BY DEF TurnIsOver, CompactEnds
<1>2. queued' \in Seq(Texts)
  <2>1. queued' = queued \/ (queued # <<>> /\ queued' = Tail(queued))
    BY DEF TurnIsOver, CompactEnds, SendNext
  <2>2. queued \in Seq(Texts)
    BY DEF TypingTypes
  <2> QED BY <2>1, <2>2, ShorterQueue
<1>3. UNCHANGED <<typed, composer, walk, here, opening, prompts, kept, written, timer, drafts, up, excused>>
  BY <1>1 DEF keyboard, session, onDisk
<1>4. UNCHANGED <<RecordedWords, Drafted>>
  BY <1>3 DEF RecordedWords, Drafted, Elsewhere
<1>5. TypingTypes'
  BY <1>2, <1>3 DEF TypingTypes
<1>6. WalkInv' /\ DraftInv'
  BY <1>3, <1>4 DEF WalkInv, Walking, DraftInv, IsRecalled
<1>7. LaterInv' /\ WordsInv'
  BY <1>3, <1>4 DEF LaterInv, WordsInv
<1> QED BY <1>5, <1>6, <1>7

(* A text comes back from the queue, with what the composer held.             *)
LEMMA ComesBackKept ==
  ASSUME TypingInv, up, NEW t \in Texts, composer \subseteq t, Show(t, walk), queued' \in Seq(Texts),
         UNCHANGED <<typed, session, prompts, written, drafts, up, excused>>
  PROVE  TypingInv'
<1> USE DEF TypingInv, session
<1>1. composer' = t /\ walk' = walk /\ UNCHANGED RecordedWords
  BY DEF Show, RecordedWords
<1>2. walk \in WalkTypes
  BY DEF TypingTypes, WalkTypes
<1>3. DraftInv' /\ kept' \in [id : SessionIds, text : Texts] /\ timer' \in BOOLEAN
  BY <1>2, ShowsDraft
<1>4. TypingTypes'
  BY <1>1, <1>3 DEF TypingTypes
<1>5. WalkInv' /\ LaterInv'
  BY <1>1, WalkKept, LaterKept
<1>6. WordsInv'
  BY <1>1 DEF WordsInv, Drafted, Elsewhere
<1> QED BY <1>3, <1>4, <1>5, <1>6

(* The last queued message, taken back, holds what the empty composer held.   *)
LEMMA TakeKept == ASSUME TypingInv, TakeQueued PROVE TypingInv'
<1>1. queued \in Seq(Texts) /\ queued # <<>>
  BY DEF TypingInv, TypingTypes, TakeQueued
<1>2. Last(queued) \in Texts /\ Front(queued) \in Seq(Texts)
  BY <1>1 DEF Last, Front
<1>3. composer \subseteq Last(queued)
  BY DEF TakeQueued
<1> QED BY <1>2, <1>3, ComesBackKept DEF TakeQueued

(* A queue that comes back is added to what the composer holds.               *)
LEMMA StopKept == ASSUME TypingInv, StopTurn PROVE TypingInv'
<1>1. queued \in Seq(Texts) /\ composer \in Texts
  BY DEF TypingInv, TypingTypes
<1>2. (UNION Range(queued)) \cup composer \in Texts
  <2>1. \A t \in Range(queued) : t \in Texts
    BY <1>1 DEF Range
  <2> QED BY <1>1, <2>1 DEF Texts
<1>3. queued' \in Seq(Texts)
  BY DEF StopTurn
<1>4. composer \subseteq (UNION Range(queued)) \cup composer
  OBVIOUS
<1> QED BY <1>2, <1>3, <1>4, ComesBackKept DEF StopTurn

-----------------------------------------------------------------------------
(* Of some sessions there is a latest.                                        *)
LEMMA LatestIs ==
  ASSUME NEW S \in SUBSET SessionIds, S # {}
  PROVE  Max(S) \in S
<1> DEFINE R == {n \in Nat : MaxSessions - n \in S}
<1>1. \A s \in S : s \in Nat /\ MaxSessions - s \in R
  BY ComposerAssumption DEF SessionIds
<1>2. R \in SUBSET Nat /\ R # {}
  BY <1>1
<1>3. PICK n \in R : \A m \in R : ~ (m < n)
  <2> HIDE DEF R
  <2> QED BY <1>2, LeastIndex
<1>4. MaxSessions - n \in S /\ n \in Nat
  BY <1>3
<1>5. \A s \in S : MaxSessions - n >= s
  <2> TAKE s \in S
  <2>1. MaxSessions - s \in R /\ s \in Nat /\ MaxSessions \in Nat
    BY <1>1, ComposerAssumption
  <2>2. ~ (MaxSessions - s < n)
    BY <1>3, <2>1
  <2>3. MaxSessions - s \in Nat
    BY <2>1
  <2> QED BY <1>4, <2>1, <2>2, <2>3
<1> QED BY <1>4, <1>5 DEF Max

(* Adopting moves a draft from its file into the composer, whole.             *)
LEMMA AdoptsWhole ==
  ASSUME NEW files \in [SessionIds -> Texts], NEW own \in SessionIds
  PROVE  /\ Adopted(files, own) \in Texts
         /\ AdoptFile(files, own) \in [SessionIds -> Texts]
         /\ AdoptFile(files, own)[own] = files[own]
         /\ \A s \in SessionIds : AdoptFile(files, own)[s] \in {files[s], {}}
         /\ \A s \in SessionIds \ {own} : files[s] \subseteq AdoptFile(files, own)[s] \cup Adopted(files, own)
<1> DEFINE S == Orphans(files, own)
<1>1. S \in SUBSET SessionIds /\ own \notin S
  BY DEF Orphans
<1>2. CASE S = {}
  BY <1>2 DEF Adopted, AdoptFile, Texts
<1>3. CASE S # {}
  <2>1. Max(S) \in SessionIds /\ Max(S) # own
    BY <1>1, <1>3, LatestIs
  <2>2. Adopted(files, own) = files[Max(S)] /\ AdoptFile(files, own) = [files EXCEPT ![Max(S)] = {}]
    BY <1>3 DEF Adopted, AdoptFile
  <2> HIDE DEF S
  <2> QED BY <2>1, <2>2 DEF Texts
<1> QED BY <1>2, <1>3

(* A session opens: the text moves under its name, or a draft is taken up.    *)
LEMMA OpensKept == ASSUME TypingInv, SessionOpens PROVE TypingInv'
<1> USE DEF TypingInv, SessionOpens
<1> DEFINE files == [drafts EXCEPT ![kept.id] = {}]
           next == here + 1
<1>1. /\ kept.id = here /\ here \in SessionIds /\ next \in SessionIds /\ next # here
      /\ drafts \in [SessionIds -> Texts] /\ here \in Nat
      /\ composer \in Texts
  <2>1. here \in SessionIds /\ here < MaxSessions
    BY DEF TypingTypes, LaterInv
  <2> QED BY <2>1, ComposerAssumption DEF SessionIds, DraftInv, TypingTypes
<1>2. /\ files \in [SessionIds -> Texts] /\ files[here] = {}
      /\ \A s \in SessionIds \ {here} : files[s] = drafts[s]
      /\ files[next] = {}
  <2>1. drafts[next] = {}
    BY <1>1 DEF LaterInv
  <2> QED BY <1>1, <2>1 DEF Texts
<1>3. /\ composer' \in Texts /\ drafts' \in [SessionIds -> Texts]
      /\ \A s \in SessionIds : drafts'[s] \in {files[s], {}}
      /\ \A s \in SessionIds \ {next} : files[s] \subseteq drafts'[s] \cup composer'
      /\ composer \subseteq composer'
  <2>1. CASE composer = {}
    <3>1. composer' = Adopted(files, next) /\ drafts' = AdoptFile(files, next)
      BY <2>1
    <3> HIDE DEF files, next
    <3> QED BY <1>1, <1>2, <2>1, <3>1, AdoptsWhole
  <2>2. CASE composer # {}
    <3>1. composer' = composer /\ drafts' = files
      BY <2>2
    <3> HIDE DEF files, next
    <3> QED BY <1>1, <1>2, <3>1
  <2> QED BY <2>1, <2>2
<1> HIDE DEF files
<1>4. /\ kept' = [id |-> next, text |-> composer'] /\ timer' = TRUE
      /\ written' = [id |-> next, text |-> {}] /\ walk' = NoWalk /\ here' = next /\ up' /\ up
      /\ excused' = excused \cup walk.stash /\ UNCHANGED <<typed, prompts>> /\ opening' = FALSE /\ queued' = <<>>
  <2>1. ~ IsRecalled(NoWalk, composer')
    BY DEF IsRecalled
  <2> QED BY <2>1 DEF KeepDraft
<1>5. TypingTypes'
  <2>1. walk' \in WalkTypes /\ queued' \in Seq(Texts)
    BY <1>4, NoWalkTypes
  <2>2. kept' \in [id : SessionIds, text : Texts] /\ written' \in [id : SessionIds, text : Texts]
    BY <1>1, <1>3, <1>4 DEF Texts
  <2>3. excused' \in Texts
    BY <1>4 DEF TypingTypes, Texts
  <2> QED BY <1>1, <1>3, <1>4, <2>1, <2>2, <2>3 DEF TypingTypes, WalkTypes
<1>6. WalkInv'
  BY <1>4 DEF WalkInv, Walking
<1>7. DraftInv'
  <2>1. drafts'[next] = {}
    BY <1>1, <1>2, <1>3
  <2>2. ~ IsRecalled(walk', composer')
    BY <1>4 DEF IsRecalled
  <2> QED BY <1>4, <2>1, <2>2 DEF DraftInv
<1>8. LaterInv'
  <2>1. \A s \in SessionIds : s > next => s # here /\ s > here
    BY <1>1 DEF SessionIds
  <2>2. \A s \in SessionIds : s > next => drafts'[s] = {}
    BY <1>2, <1>3, <2>1 DEF LaterInv
  <2> QED BY <1>4, <2>2 DEF LaterInv
<1>9. WordsInv'
  <2>1. Drafted \subseteq Drafted' \cup composer'
    <3>1. \A s \in SessionIds \ {here} : drafts[s] \subseteq composer' \cup UNION {drafts'[z] : z \in SessionIds \ {next}}
      BY <1>1, <1>2, <1>3
    <3> QED BY <1>4, <3>1 DEF Drafted, Elsewhere
  <2>2. UNCHANGED RecordedWords
    BY <1>4 DEF RecordedWords
  <2> QED BY <1>3, <1>4, <2>1, <2>2 DEF WordsInv
<1> QED BY <1>5, <1>6, <1>7, <1>8, <1>9

(* The next interface takes the latest draft up; the rest stay on disk.       *)
LEMMA StartsKept == ASSUME TypingInv, Starts PROVE TypingInv'
<1> USE DEF TypingInv, Starts
<1> DEFINE next == here + 1
<1>1. /\ here \in SessionIds /\ next \in SessionIds /\ here \in Nat /\ drafts \in [SessionIds -> Texts]
      /\ drafts[next] = {} /\ composer = {} /\ walk = NoWalk /\ ~ opening
  <2>1. here \in SessionIds /\ here < MaxSessions
    BY DEF TypingTypes, LaterInv
  <2> QED BY <2>1, ComposerAssumption DEF SessionIds, LaterInv, TypingTypes
<1>2. composer' = Adopted(drafts, next) /\ drafts' = AdoptFile(drafts, next)
  OBVIOUS
<1>3. /\ kept' = [id |-> next, text |-> composer'] /\ timer' = TRUE
      /\ written' = [id |-> next, text |-> {}] /\ walk' = NoWalk /\ here' = next /\ up' /\ ~ up
      /\ UNCHANGED <<typed, prompts, excused>> /\ opening' = opening /\ queued' = queued
  <2>1. ~ IsRecalled(NoWalk, composer')
    BY DEF IsRecalled
  <2> QED BY <1>1, <2>1 DEF KeepDraft, work
<1> HIDE DEF next
<1>4. /\ composer' \in Texts /\ drafts' \in [SessionIds -> Texts]
      /\ \A s \in SessionIds : drafts'[s] \in {drafts[s], {}}
      /\ \A s \in SessionIds \ {next} : drafts[s] \subseteq drafts'[s] \cup composer'
  BY <1>1, <1>2, AdoptsWhole
<1>5. TypingTypes'
  <2>1. kept' \in [id : SessionIds, text : Texts] /\ written' \in [id : SessionIds, text : Texts]
    BY <1>1, <1>3, <1>4 DEF Texts
  <2> QED BY <1>1, <1>3, <1>4, <2>1 DEF TypingTypes
<1>6. WalkInv'
  BY <1>3 DEF WalkInv, Walking
<1>7. DraftInv'
  <2>1. drafts'[next] = {}
    BY <1>1, <1>4
  <2>2. ~ IsRecalled(walk', composer')
    BY <1>3 DEF IsRecalled
  <2> QED BY <1>3, <2>1, <2>2 DEF DraftInv
<1>8. LaterInv'
  <2>1. \A s \in SessionIds : s > next => s > here
    BY <1>1 DEF SessionIds, next
  <2>2. \A s \in SessionIds : s > next => drafts'[s] = {}
    BY <1>4, <2>1 DEF LaterInv
  <2> QED BY <1>1, <1>3, <2>2 DEF LaterInv
<1>9. WordsInv'
  <2>1. Drafted \subseteq Drafted' \cup composer'
    <3>1. \A s \in SessionIds : drafts[s] \subseteq composer' \cup UNION {drafts'[z] : z \in SessionIds \ {next}}
      BY <1>1, <1>4
    <3> QED BY <1>3, <3>1 DEF Drafted, Elsewhere
  <2>2. UNCHANGED RecordedWords
    BY <1>3 DEF RecordedWords
  <2> QED BY <1>1, <1>3, <2>1, <2>2, NoWalkTypes DEF WordsInv
<1> QED BY <1>5, <1>6, <1>7, <1>8, <1>9

(* The end of a process: what the file does not hold was recorded or is       *)
(* excused.                                                                   *)
LEMMA ExitKept ==
  ASSUME TypingInv, NEW files \in [SessionIds -> Texts], NEW late \in Texts, ProcessEnds(files, late),
         \A s \in SessionIds \ {here} : files[s] = drafts[s],
         kept.text \subseteq files[here] \cup late
  PROVE  TypingInv'
<1> USE DEF TypingInv, ProcessEnds
<1>1. /\ up /\ ~ up' /\ opening' = FALSE /\ composer' = {} /\ walk' = NoWalk /\ queued' = <<>> /\ timer' = FALSE
      /\ drafts' = files /\ UNCHANGED <<typed, here, prompts, kept, written>>
      /\ excused' = excused \cup late \cup (IF IsRecalled(walk, composer) THEN {} ELSE walk.stash)
      /\ here < MaxSessions /\ here \in SessionIds
  BY DEF TypingTypes
<1>2. TypingTypes'
  <2>1. excused' \in Texts /\ walk' \in WalkTypes /\ composer' \in Texts
    BY <1>1, NoWalkTypes DEF TypingTypes, Texts
  <2>2. queued' \in Seq(Texts)
    BY <1>1
  <2>3. /\ typed \in Nat /\ prompts \in [SessionIds -> Seq(Texts)]
        /\ kept \in [id : SessionIds, text : Texts] /\ written \in [id : SessionIds, text : Texts]
    BY DEF TypingTypes
  <2> QED BY <1>1, <2>1, <2>2, <2>3 DEF TypingTypes, WalkTypes
<1>3. WalkInv' /\ DraftInv'
  BY <1>1 DEF WalkInv, Walking, DraftInv
<1>4. LaterInv'
  <2>1. \A s \in SessionIds : s > here => s \in SessionIds \ {here}
    BY <1>1 DEF SessionIds
  <2> QED BY <1>1, <2>1 DEF LaterInv
<1>5. WordsInv'
  <2>1. UNCHANGED RecordedWords
    BY <1>1 DEF RecordedWords
  <2>2. Drafted' = Drafted \cup files[here]
    <3>1. Drafted = UNION {files[s] : s \in SessionIds \ {here}}
      BY <1>1 DEF Drafted, Elsewhere
    <3>2. Drafted' = UNION {files[s] : s \in SessionIds}
      BY <1>1 DEF Drafted, Elsewhere
    <3> QED BY <1>1, <3>1, <3>2
  <2>3. composer \cup walk.stash \subseteq RecordedWords \cup files[here] \cup excused'
    <3>1. CASE IsRecalled(walk, composer)
      <4>1. composer \subseteq RecordedWords
        BY <3>1 DEF IsRecalled, WalkInv, Walking
      <4>2. kept.text = walk.stash
        BY <1>1, <3>1 DEF DraftInv
      <4> QED BY <1>1, <4>1, <4>2
    <3>2. CASE ~ IsRecalled(walk, composer)
      <4>1. kept.text = composer
        BY <1>1, <3>2 DEF DraftInv
      <4> QED BY <1>1, <3>2, <4>1
    <3> QED BY <3>1, <3>2
  <2> QED BY <1>1, <2>1, <2>2, <2>3 DEF WordsInv
<1> QED BY <1>2, <1>3, <1>4, <1>5

(* An orderly end writes the draft; a crash loses what the timer had not      *)
(* written.                                                                   *)
LEMMA LeavesKept == ASSUME TypingInv, Exit \/ Crashes PROVE TypingInv'
<1> USE DEF TypingInv
<1>1. up /\ kept.id = here /\ here \in SessionIds /\ kept.text \in Texts /\ drafts \in [SessionIds -> Texts] /\ {} \in Texts
  BY DEF Exit, Crashes, ProcessEnds, DraftInv, TypingTypes, Texts
<1>2. CASE Exit
  <2> DEFINE files == [drafts EXCEPT ![kept.id] = kept.text]
  <2>1. ProcessEnds(files, {})
    BY <1>2 DEF Exit
  <2>2. files \in [SessionIds -> Texts] /\ files[here] = kept.text /\ \A s \in SessionIds \ {here} : files[s] = drafts[s]
    BY <1>1
  <2> HIDE DEF files
  <2> QED BY <1>1, <2>1, <2>2, ExitKept
<1>3. CASE Crashes
  <2> DEFINE late == IF timer THEN kept.text ELSE {}
  <2>1. ProcessEnds(drafts, late)
    BY <1>3 DEF Crashes
  <2>2. late \in Texts /\ kept.text \subseteq drafts[here] \cup late
    BY <1>1 DEF DraftInv
  <2> HIDE DEF late
  <2> QED BY <1>1, <2>1, <2>2, ExitKept
<1> QED BY <1>2, <1>3

-----------------------------------------------------------------------------
(* Every step keeps the invariant.                                            *)
LEMMA TypingKept == ASSUME TypingInv, [TypingNext]_typingVars PROVE TypingInv'
<1>1. CASE UNCHANGED typingVars
  <2>1. UNCHANGED <<typed, composer, walk, here, opening, prompts, queued, kept, written, timer, drafts, up, excused>>
    BY <1>1 DEF typingVars, keyboard, session, work, onDisk
  <2>2. UNCHANGED <<RecordedWords, Drafted>>
    BY <2>1 DEF RecordedWords, Drafted, Elsewhere
  <2>3. (TypingTypes /\ WalkInv /\ LaterInv /\ WordsInv)'
    BY <2>1, <2>2 DEF TypingInv, TypingTypes, WalkInv, Walking, LaterInv, WordsInv
  <2>4. DraftInv'
    BY <2>1 DEF TypingInv, DraftInv, IsRecalled
  <2> QED BY <2>3, <2>4 DEF TypingInv
<1>2. CASE TypingNext
  BY <1>2, TypeKept, EraseKept, WriteKept, RecallUpKept, RecallDownKept, RecallEscapeKept, SubmitKept,
     OpensKept, EndsKept, TakeKept, StopKept, ClearKept, ChooseKept, LeavesKept, StartsKept DEF TypingNext
<1> QED BY <1>1, <1>2

(* What was typed and not deleted is lost in four ways only, whatever order   *)
(* keys, turns, compactions, the draft's timer, sessions, ends of the process *)
(* and starts come in: the draft behind a walk when a prompt is sent, when    *)
(* another session opens and when the process ends on an edited prompt, and   *)
(* what a crash catches unwritten (recall.ts, App.tsx setAside and keepDraft, *)
(* core/transcript/draft.ts).                                                 *)
THEOREM NothingLost == TypingSpec => []NothingTypedIsLost
<1>1. TypingInit => TypingInv
  BY TypingStarts
<1>2. TypingInv /\ [TypingNext]_typingVars => TypingInv'
  BY TypingKept
<1>3. TypingInv => NothingTypedIsLost
  BY WordsKept
<1> QED BY <1>1, <1>2, <1>3, PTL DEF TypingSpec
=============================================================================
