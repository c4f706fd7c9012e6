------------------------------- MODULE Provider -------------------------------
(***************************************************************************)
(* The requests one client makes of one endpoint (src/core/providers): a   *)
(* turn's stream and the completions asked for beside it.  A request is    *)
(* retried while its failure may pass (http.ts); a refusal that names a    *)
(* feature of the request teaches the client to leave it out               *)
(* (openai-compat.ts, anthropic.ts); a stream is put together from its     *)
(* events; and each request is one span (observe/instrument.ts).           *)
(***************************************************************************)
EXTENDS Naturals, Sequences, FiniteSets

CONSTANTS Requests,     \* made of the client, each once, all of one model
          Streaming,    \* those that stream; the others wait for the whole reply
          Dialects,     \* what the endpoint may be asked in: "chat", "messages", "native"
          Features,     \* what the client learns to leave out when refused
          MaxAttempts,  \* RetryPolicy.maxAttempts
          NoReason,     \* NO_REASON_ATTEMPTS
          Index,        \* places of tool calls in a reply
          MaxEvents     \* bound of the model: events of one reply

ASSUME StreamingAssumption == Streaming \subseteq Requests
ASSUME DialectAssumption == Dialects \subseteq {"chat", "messages", "native"}
ASSUME AttemptsAssumption == MaxAttempts \in Nat \ {0} /\ NoReason \in Nat \ {0}
ASSUME IndexAssumption == Index \subseteq Nat
ASSUME FeaturesAssumption ==
  Features \subseteq {"usage", "effort", "protocol", "cache"}

VARIABLES
  dialect,  \* the endpoint's
  refuses,  \* features the endpoint does not take
  dropped,  \* features the client knows it does not take
  aborted,  \* requests whose signal was aborted
  at,       \* [Requests -> ...]: the await a request is at, or how it ended
  body,     \* [Requests -> SUBSET Features]: what its body carries
  attempt,  \* [Requests -> Nat]: the attempt fetchWithRetry is at; 0 when it is not running
  second,   \* requests sent again without a refused feature
  answer,   \* [Requests -> ...]: what the last attempt came back as
  reads,    \* [Requests -> Forms]: the form its reply is read in
  events,   \* [Requests -> Seq(...)]: what the endpoint streamed
  blocks,   \* [Requests -> [... -> SUBSET Nat]]: the calls put together so far, by place: the
            \* events each is put together from
  calls,    \* [Requests -> SUBSET SUBSET Nat]: the calls of its done chunks, the same way
  ends,     \* [Requests -> Nat]: its done chunks
  span      \* [Requests -> {"none", "open", "ok", "failed"}]

netVars == <<body, attempt, second, answer>>
streamVars == <<reads, events, blocks, calls, ends>>
vars == <<dialect, refuses, dropped, aborted, at, netVars, streamVars, span>>

Ended   == {"done", "failed", "cancelled"}
Answers == {"none", "ok", "busy", "mute", "fatal", "network"} \cup Features

\* What a reply comes as, and is read as.
Forms == {"chat", "messages", "native", "responses"}

\* An event of a reply that says something of a call: which call the endpoint means, whether it
\* says the call's place, and whether it carries its name.  A "start" opens a block of Messages.
Event == [type : {"end", "error"}]
         \cup [type : {"start", "piece"}, of : Index, placed : BOOLEAN, named : BOOLEAN]

TypeOK ==
  /\ dialect \in Dialects
  /\ refuses \subseteq Features /\ dropped \subseteq Features
  /\ aborted \subseteq Requests /\ second \subseteq Requests
  /\ at \in [Requests -> {"idle", "sent", "refused", "sleeping", "reading"} \cup Ended]
  /\ body \in [Requests -> SUBSET Features]
  /\ attempt \in [Requests -> 0..MaxAttempts]
  /\ answer \in [Requests -> Answers]
  /\ reads \in [Requests -> Forms]
  /\ \A r \in Requests : events[r] \in Seq(Event)
  /\ span \in [Requests -> {"none", "open", "ok", "failed"}]

Init ==
  /\ dialect \in Dialects
  /\ refuses \in SUBSET (CASE dialect = "chat" -> Features \cap {"usage", "effort", "protocol"}
                          [] dialect = "messages" -> Features \cap {"cache"}
                          [] OTHER -> {})
  /\ dropped = {}
  /\ aborted = {}
  /\ at = [r \in Requests |-> "idle"]
  /\ body = [r \in Requests |-> {}]
  /\ attempt = [r \in Requests |-> 0]
  /\ second = {}
  /\ answer = [r \in Requests |-> "none"]
  /\ reads = [r \in Requests |-> dialect]
  /\ events = [r \in Requests |-> <<>>]
  /\ blocks = [r \in Requests |-> <<>>]
  /\ calls = [r \in Requests |-> {}]
  /\ ends = [r \in Requests |-> 0]
  /\ span = [r \in Requests |-> "none"]

-----------------------------------------------------------------------------
(* Requests and their retries.                                             *)

\* Chat Completions: the protocol itself, usage asked for with a stream, and the effort asked for.
ChatBody(r, known) ==
  Features \cap ((IF r \in Streaming THEN {"protocol", "usage", "effort"} ELSE {"protocol", "effort"}) \ known)

\* The Responses API: the effort asked for, whatever was learned of it.
ResponsesBody == Features \cap {"effort"}

\* Messages: marks for the cache.
MessagesBody(known) == (Features \cap {"cache"}) \ known

\* What is in a body that the endpoint may refuse, by what it is known to refuse.  Ollama's has
\* none of it.
Body(r, known) ==
  CASE dialect = "chat" -> IF "protocol" \in known THEN ResponsesBody ELSE ChatBody(r, known)
    [] dialect = "messages" -> MessagesBody(known)
    [] OTHER -> {}

Ends(r, how) ==
  /\ at' = [at EXCEPT ![r] = how]
  /\ span' = [span EXCEPT ![r] = IF how = "done" THEN "ok" ELSE "failed"]

\* Mutant: the signal is not given to fetch.
SendDeaf(r) == at' = [at EXCEPT ![r] = "sent"] /\ span' = [span EXCEPT ![r] = "open"]

\* fetch(): with a signal aborted before, nothing is sent.
Send(r) ==
  IF r \in aborted THEN Ends(r, "cancelled")
  ELSE at' = [at EXCEPT ![r] = "sent"] /\ span' = [span EXCEPT ![r] = "open"]

Begin(r) ==
  /\ at[r] = "idle"
  /\ body' = [body EXCEPT ![r] = Body(r, dropped)]
  /\ attempt' = [attempt EXCEPT ![r] = 1]
  /\ Send(r)
  /\ UNCHANGED <<dialect, refuses, dropped, aborted, second, answer, streamVars>>

\* What the endpoint says of a request: a feature it does not take, once it looks at the request,
\* or anything a network and a busy server may say first.
MayAnswer(r) ==
  {"busy", "fatal", "mute"} \cup (IF body[r] \cap refuses = {} THEN {"ok"} ELSE body[r] \cap refuses)

\* The form a request was sent in, which its reply comes in.
SentAs(r) == IF dialect = "chat" /\ "protocol" \in Features \ body[r] THEN "responses" ELSE dialect

\* The form a reply is read in: a stream's by what the client knows when the response comes, a
\* whole reply's by what the reply looks like.
ReadAs(r) ==
  IF r \notin Streaming THEN SentAs(r)
  ELSE IF dialect = "chat" /\ "protocol" \in dropped THEN "responses" ELSE dialect

\* A response came: its body is read next, that of a refusal by fetchWithRetry.
Response(r) ==
  /\ at[r] = "sent"
  /\ \E a \in MayAnswer(r) :
       /\ answer' = [answer EXCEPT ![r] = a]
       /\ IF a # "ok" THEN at' = [at EXCEPT ![r] = "refused"] /\ UNCHANGED <<attempt, reads>>
          ELSE /\ at' = [at EXCEPT ![r] = "reading"]
               /\ attempt' = [attempt EXCEPT ![r] = 0]
               /\ reads' = [reads EXCEPT ![r] = ReadAs(r)]
  /\ UNCHANGED <<dialect, refuses, dropped, aborted, body, second, events, blocks, calls, ends, span>>

\* The request never reached the endpoint.
NetworkFails(r) ==
  /\ at[r] = "sent"
  /\ answer' = [answer EXCEPT ![r] = "network"]
  /\ IF attempt[r] < MaxAttempts THEN at' = [at EXCEPT ![r] = "sleeping"] /\ UNCHANGED span
     ELSE Ends(r, "failed")
  /\ UNCHANGED <<dialect, refuses, dropped, aborted, body, attempt, second, streamVars>>

\* Whether a refusal is asked again: a status that may pass, or a 400 that gives no reason, that
\* one fewer times.
Again(said, n) ==
  \/ said = "busy" /\ n < MaxAttempts
  \/ said = "mute" /\ n < MaxAttempts /\ n < NoReason

\* What the body read says: reading fails once the signal is aborted, which leaves it empty.
Said(r) == {answer[r]} \cup (IF r \in aborted /\ answer[r] \in Features THEN {"mute"} ELSE {})

\* A refused feature not known yet is left out from now on, and the request sent again, once; a
\* refusal of one that another request learned meanwhile is thrown.
Learns(r, said) == said \in Features \ dropped /\ r \notin second

\* The refusal read: wait and retry, learn, or fail.
Refused(r) ==
  /\ at[r] = "refused"
  /\ \E said \in Said(r) :
       \/ /\ Again(said, attempt[r])
          /\ IF r \in aborted THEN Ends(r, "cancelled")
             ELSE at' = [at EXCEPT ![r] = "sleeping"] /\ UNCHANGED span
          /\ UNCHANGED <<dropped, body, attempt, second>>
       \/ /\ Learns(r, said)
          /\ dropped' = dropped \cup {said}
          /\ body' = [body EXCEPT ![r] = Body(r, dropped')]
          /\ attempt' = [attempt EXCEPT ![r] = 1]
          /\ second' = second \cup {r}
          /\ Send(r)
       \/ /\ ~Again(said, attempt[r]) /\ ~Learns(r, said)
          /\ Ends(r, "failed")
          /\ UNCHANGED <<dropped, body, attempt, second>>
  /\ UNCHANGED <<dialect, refuses, aborted, answer, streamVars>>

\* Mutant: the attempts are not counted.
WakesUncounted(r) ==
  /\ at[r] = "sleeping" /\ r \notin aborted
  /\ Send(r)
  /\ UNCHANGED <<dialect, refuses, dropped, aborted, body, attempt, second, answer, streamVars>>

\* The delay is over: the same body is sent again.
Wakes(r) ==
  /\ at[r] = "sleeping" /\ r \notin aborted
  /\ attempt' = [attempt EXCEPT ![r] = @ + 1]
  /\ Send(r)
  /\ UNCHANGED <<dialect, refuses, dropped, aborted, body, second, answer, streamVars>>

\* The signal: what waits for the network or for a delay is over at once; a body being read, and a
\* stream, are over when they are next looked at.
Abort(r) ==
  /\ at[r] \notin Ended /\ r \notin aborted
  /\ aborted' = aborted \cup {r}
  /\ IF at[r] \in {"sent", "sleeping"} THEN Ends(r, "cancelled") ELSE UNCHANGED <<at, span>>
  /\ UNCHANGED <<dialect, refuses, dropped, netVars, streamVars>>

-----------------------------------------------------------------------------
(* A reply.                                                                *)

\* The place an event says: without one it is the first.
Place(e) == IF e.placed THEN e.of ELSE 0

\* Mutant: a piece replaces what came of its call before.
PutReplacing(held, p, k) == [q \in DOMAIN held \cup {p} |-> IF q = p THEN {k} ELSE held[q]]

\* Adds the k-th event to the call at place p, which it opens if need be.
Put(held, p, k) ==
  [q \in DOMAIN held \cup {p} |->
    IF q = p THEN (IF p \in DOMAIN held THEN held[p] ELSE {}) \cup {k} ELSE held[q]]

\* Chat Completions: any piece opens its place, or is added to what is there.
ChatTakes(held, e, k) == Put(held, Place(e), k)

\* Messages: a start opens its place anew, and pieces of a place not opened are dropped.
MessagesTakes(held, e, k) ==
  IF e.type = "start" THEN [q \in DOMAIN held \cup {Place(e)} |-> IF q = Place(e) THEN {k} ELSE held[q]]
  ELSE IF Place(e) \in DOMAIN held THEN Put(held, Place(e), k) ELSE held

\* Ollama, and the Responses API with its last event: calls come whole and are kept one by one.
WholeTakes(held, e, k) == Put(held, k, k)

Takes(r, e) ==
  LET k == Len(events[r]) + 1
  IN CASE reads[r] = "chat" -> ChatTakes(blocks[r], e, k)
       [] reads[r] = "messages" -> MessagesTakes(blocks[r], e, k)
       [] OTHER -> WholeTakes(blocks[r], e, k)

\* A call without a name is left out.
HasName(s, from) == \E k \in from : s[k].named

\* What was put together: the calls that have a name.
Finished(r) == {from \in {blocks[r][p] : p \in DOMAIN blocks[r]} : HasName(events[r], from)}

SaysOfCall(s, i) == {k \in 1..Len(s) : s[k].type \in {"start", "piece"} /\ s[k].of = i}

\* What an endpoint may send next, in the form it was asked in.  Chat Completions: any piece may
\* say its place or its name, or leave them out.  Messages: a block is started once, which alone
\* names it, and its pieces follow.  The others: each call once.
MaySend(r) ==
  LET s == events[r]
  IN {e \in Event :
       /\ \A k \in 1..Len(s) : s[k].type \notin {"end", "error"}
       /\ e.type \in {"start", "piece"} /\ e.of = 0 => e.placed  \* said or not, it is place 0
       /\ SentAs(r) # "messages" => e.type # "start"
       /\ SentAs(r) = "messages" =>
            /\ e.type = "start" => SaysOfCall(s, e.of) = {}
            /\ e.type = "piece" => SaysOfCall(s, e.of) # {} /\ ~e.named
       /\ SentAs(r) \in {"native", "responses"} /\ e.type = "piece" => SaysOfCall(s, e.of) = {} /\ e.placed}

\* One event of the stream; the end gives the done chunk, an error is thrown.
StreamEvent(r) ==
  /\ at[r] = "reading" /\ r \in Streaming \ aborted /\ Len(events[r]) < MaxEvents
  /\ \E e \in MaySend(r) :
       /\ events' = [events EXCEPT ![r] = Append(@, e)]
       /\ blocks' = IF e.type \in {"end", "error"} THEN blocks ELSE [blocks EXCEPT ![r] = Takes(r, e)]
       /\ IF e.type = "end" THEN /\ calls' = [calls EXCEPT ![r] = Finished(r)]
                                 /\ ends' = [ends EXCEPT ![r] = @ + 1]
          ELSE UNCHANGED <<calls, ends>>
       /\ IF e.type = "error" THEN Ends(r, "failed") ELSE UNCHANGED <<at, span>>
  /\ UNCHANGED <<dialect, refuses, dropped, aborted, netVars, reads>>

\* The connection closes: a stream that was not ended is given as far as it came, in the Responses
\* form without calls; a whole reply is there.
ReplyCloses(r) ==
  /\ at[r] = "reading" /\ r \notin aborted
  /\ IF r \in Streaming /\ ends[r] = 0
     THEN /\ calls' = [calls EXCEPT ![r] = IF reads[r] = "responses" THEN {} ELSE Finished(r)]
          /\ ends' = [ends EXCEPT ![r] = 1]
     ELSE UNCHANGED <<calls, ends>>
  /\ Ends(r, "done")
  /\ UNCHANGED <<dialect, refuses, dropped, aborted, netVars, reads, events, blocks>>

\* The connection breaks, a whole reply cannot be parsed, or the signal was aborted: the reader
\* throws.
ReplyBreaks(r) ==
  /\ at[r] = "reading"
  /\ Ends(r, IF r \in aborted THEN "cancelled" ELSE "failed")
  /\ UNCHANGED <<dialect, refuses, dropped, aborted, netVars, streamVars>>

-----------------------------------------------------------------------------
Step(r) ==
  \/ Begin(r) \/ Response(r) \/ NetworkFails(r) \/ Refused(r) \/ Wakes(r)
  \/ StreamEvent(r) \/ ReplyCloses(r) \/ ReplyBreaks(r)

\* Every request has ended.
Quiet == (\A r \in Requests : at[r] \in Ended) /\ UNCHANGED vars

Next == (\E r \in Requests : Step(r) \/ Abort(r)) \/ Quiet

Spec == Init /\ [][Next]_vars

\* A request begun goes on: the network answers or fails, delays pass, a reply's connection ends.
Fairness == \A r \in Requests : WF_vars(at[r] # "idle" /\ Step(r))

FairSpec == Spec /\ Fairness

-----------------------------------------------------------------------------
(* Properties.                                                             *)

\* Retries, refusals without a reason and lessons learned together never keep a request going for
\* ever: each ends, and its span with it, once and with its outcome.
RequestsEnd ==
  \A r \in Requests : at[r] # "idle" ~> at[r] \in Ended /\ span[r] = IF at[r] = "done" THEN "ok" ELSE "failed"

\* After the abort nothing is sent, whether the request was waiting, sleeping between two attempts,
\* or about to be sent again without what was refused.
SilentAfterAbort == [][\A r \in aborted : at[r] # "sent" => at'[r] # "sent"]_vars

\* What the endpoint sent: each call that has a name, as all that was said of it.
CallsOf(s) == {from \in {SaysOfCall(s, i) : i \in Index} : HasName(s, from)}

\* The events tell the calls apart: those of one call say one place, those of two do not.
ToldApart(s) ==
  \A k, l \in {n \in 1..Len(s) : s[n].type \in {"start", "piece"}} :
    Place(s[k]) = Place(s[l]) <=> s[k].of = s[l].of

\* A reply is given once, and is read in the form it was asked for in; the calls given are those
\* the endpoint sent, each with all its pieces and none of another's, however they came mixed and
\* whichever piece brought the name, as long as the pieces tell the calls apart.  A Responses
\* stream cut short gives none.
GivenAsSent ==
  \A r \in Requests :
    /\ at[r] = "reading" => reads[r] = SentAs(r)
    /\ ends[r] <= 1
    /\ r \in Streaming /\ at[r] = "done" => ends[r] = 1
    /\ ends[r] = 1 /\ (reads[r] \in {"chat", "messages"} => ToldApart(events[r])) =>
         calls[r] = CallsOf(events[r]) \/ (reads[r] = "responses" /\ calls[r] = {})
=============================================================================
