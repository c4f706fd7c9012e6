-------------------------------- MODULE Wire --------------------------------
(* What goes over the wire (core/providers): the conversation is put into the *)
(* words of the API that is asked, and a reply is put back into words of the  *)
(* conversation.  There are four: the Messages API (anthropic.ts), Chat       *)
(* Completions and the Responses API (openai-compat.ts), and Ollama's own     *)
(* (ollama.ts).  The model may be switched between two requests, and what     *)
(* stands before the conversation may change, which ends the replay of the    *)
(* reasoning from before.                                                     *)
(*                                                                            *)
(* A piece of a reply is named by the message it came in and its place there; *)
(* a message has its place in the conversation for a time.  The arguments of  *)
(* a call are an object or the text of one.                                   *)
EXTENDS Naturals, Sequences, SequencesExt, FiniteSets

CONSTANTS
  Apis,      \* the APIs a model of which may be chosen
  MaxBlocks, \* a bound on the blocks of a reply
  MaxLength  \* a bound on the conversation

VARIABLES
  api,    \* the API of the chosen model
  conv,   \* the conversation
  since,  \* from when on reasoning may be given back
  step    \* the step of the turn

wiVars == <<api, conv, since, step>>

(* What a reply is made of: text, calls, and reasoning, of which each API has *)
(* its own kinds.  Ollama gives a call no id.                                 *)
Reasoning(a) ==
  CASE a = "messages"  -> {"signed", "unsigned", "redacted"}
    [] a = "responses" -> {"encrypted", "summary"}
    [] OTHER           -> {"plain"}
Kinds(a) == {"text", "call"} \cup Reasoning(a)
FamilyOf(a) ==
  CASE a = "messages" -> "anthropic"
    [] a \in {"chat", "responses"} -> "openai"
    [] OTHER -> "ollama"

Replies(a) == UNION {[1..n -> Kinds(a)] : n \in 0..MaxBlocks}

Init ==
  /\ api \in Apis /\ conv = <<>> /\ since = 0 /\ step = 0

-----------------------------------------------------------------------------
(* A reply as the conversation keeps it.                                      *)
Now == Len(conv) + 1
Piece(n) == <<Now, n>>
PlacesOf(reply, kinds) == SelectSeq([n \in DOMAIN reply |-> n], LAMBDA n : reply[n] \in kinds)

(* normalizeCalls: a call without an id is named for the step and its place   *)
(* among the step's calls.                                                    *)
IdOf(places, i) == IF api = "native" THEN <<"call", step, i>> ELSE Piece(places[i])

(* reasoningFrom: the reasoning an API may be given back.  Of the Responses   *)
(* API only what is encrypted; the others' is text to read.                   *)
KeptReasoning(a) ==
  CASE a = "messages"  -> {"signed", "unsigned", "redacted"}
    [] a = "responses" -> {"encrypted"}
    [] OTHER           -> {}

(* assistantMessage: the text is one, the arguments of calls are their text.  *)
Message(reply) ==
  LET texts == PlacesOf(reply, {"text"})
      thoughts == PlacesOf(reply, KeptReasoning(api))
      places == PlacesOf(reply, {"call"})
  IN [role |-> "assistant", family |-> FamilyOf(api),
      text |-> [i \in DOMAIN texts |-> Piece(texts[i])],
      thoughts |-> [i \in DOMAIN thoughts |-> [kind |-> reply[thoughts[i]], of |-> Piece(thoughts[i])]],
      calls |-> [i \in DOMAIN places |->
                   [id |-> IdOf(places, i), of |-> Piece(places[i]), args |-> "text"]]]
Said(role, answers) ==
  [role |-> role, family |-> "none", text |-> <<Piece(0)>>, thoughts |-> <<>>, calls |-> <<>>, answers |-> answers]

-----------------------------------------------------------------------------
(* The conversation as a request.                                             *)
Item(type, of) == [type |-> type, of |-> of]
CallItem(call, args) == [type |-> "call", of |-> call.of, id |-> call.id, args |-> args]
ResultItem(m, at) == [type |-> "result", of |-> <<at, 0>>, id |-> m.answers]
Texts(m) == [i \in DOMAIN m.text |-> Item("text", m.text[i])]

(* replayableReasoning: of this family, signed or redacted, not from before   *)
(* the prefix changed.                                                        *)
GivesBack(m, at, family) == m.family = family /\ at >= since
Replayed(m, at, a) ==
  IF ~GivesBack(m, at, FamilyOf(a)) THEN <<>>
  ELSE LET kept == SelectSeq(m.thoughts, LAMBDA t : t.kind \in {"signed", "redacted", "encrypted"})
       IN [i \in DOMAIN kept |-> Item(kept[i].kind, kept[i].of)]

(* The blocks of an assistant's message, in the Messages API: arguments as    *)
(* they are held, and an empty text for a message with nothing in it.         *)
Blocks(m, at) ==
  LET blocks == Replayed(m, at, "messages") \o Texts(m)
                  \o [i \in DOMAIN m.calls |-> CallItem(m.calls[i], m.calls[i].args)]
  IN IF blocks = <<>> THEN <<Item("empty", <<at, 0>>)>> ELSE blocks

(* buildBody's push: neighbours of one role are one message.                  *)
Push(turns, role, blocks) ==
  IF turns # <<>> /\ Last(turns).role = role
  THEN [turns EXCEPT ![Len(turns)].content = @ \o blocks]
  ELSE Append(turns, [role |-> role, content |-> blocks])

(* markCacheEnd: on the last block of the last message that can carry one.    *)
Carries(block) == block.type \notin {"signed", "redacted", "empty"}
Marked(turns) ==
  IF turns = <<>> THEN {}
  ELSE LET able == {i \in DOMAIN Last(turns).content : Carries(Last(turns).content[i])}
       IN {i \in able : \A j \in able : j <= i}

Messages ==
  LET turn[n \in 0..Len(conv)] ==
        IF n = 0 THEN <<>>
        ELSE LET m == conv[n] IN
             CASE m.role = "assistant" -> Push(turn[n - 1], "assistant", Blocks(m, n))
               [] m.role = "tool" -> Push(turn[n - 1], "user", <<ResultItem(m, n)>>)
               [] OTHER -> Push(turn[n - 1], "user", Texts(m))
  IN turn[Len(conv)]

(* toResponsesItems: reasoning ahead of the text and the calls it led to.     *)
ResponsesItems(m, at) ==
  IF m.role = "tool" THEN <<ResultItem(m, at)>>
  ELSE Replayed(m, at, "responses") \o Texts(m)
         \o [i \in DOMAIN m.calls |-> CallItem(m.calls[i], "text")]

(* toProviderMessage keeps the text of the arguments; toOllamaMessage makes   *)
(* an object of it.  Neither gives reasoning back.                            *)
PlainItems(m, at, args) ==
  IF m.role = "tool" THEN <<ResultItem(m, at)>>
  ELSE Texts(m) \o [i \in DOMAIN m.calls |-> CallItem(m.calls[i], args)]

Items(a) ==
  CASE a = "messages"  -> FlattenSeq([t \in DOMAIN Messages |-> Messages[t].content])
    [] a = "responses" -> FlattenSeq([n \in DOMAIN conv |-> ResponsesItems(conv[n], n)])
    [] a = "chat"      -> FlattenSeq([n \in DOMAIN conv |-> PlainItems(conv[n], n, "text")])
    [] OTHER           -> FlattenSeq([n \in DOMAIN conv |-> PlainItems(conv[n], n, "object")])

-----------------------------------------------------------------------------
(* The turn.                                                                  *)
Waiting ==
  IF conv = <<>> THEN FALSE
  ELSE Last(conv).role # "assistant" \/ Last(conv).calls # <<>>
LastReply == SelectLastInSeq(conv, LAMBDA m : m.role = "assistant")
Unanswered ==
  IF LastReply = 0 THEN {}
  ELSE {i \in DOMAIN conv[LastReply].calls : LastReply + i \notin DOMAIN conv}

(* A message of the person's begins a turn; one of a hook's, the harness's or *)
(* the person watching follows a step.                                        *)
Asks ==
  /\ Len(conv) < MaxLength /\ ~Waiting
  /\ conv' = Append(conv, Said("user", <<>>))
  /\ step' = 0
  /\ UNCHANGED <<api, since>>
Nudges ==
  /\ Len(conv) < MaxLength /\ conv # <<>> /\ Unanswered = {}
  /\ Last(conv).role \in {"tool", "assistant"}
  /\ conv' = Append(conv, Said("user", <<>>))
  /\ UNCHANGED <<api, since, step>>

(* A step: what goes out is Items(api), and this is the reply to it.          *)
Requests == Waiting /\ Unanswered = {}
Steps ==
  /\ Len(conv) < MaxLength /\ Requests
  /\ \E reply \in Replies(api) : conv' = Append(conv, Message(reply))
  /\ step' = step + 1
  /\ UNCHANGED <<api, since>>

(* The results of the calls are kept in the order of the calls.               *)
Results ==
  /\ Unanswered # {}
  /\ LET i == CHOOSE j \in Unanswered : \A k \in Unanswered : j <= k
     IN conv' = Append(conv, Said("tool", conv[LastReply].calls[i].id))
  /\ UNCHANGED <<api, since, step>>

(* The model is switched, or what stands before the conversation changes.     *)
Switches ==
  /\ ~Waiting
  /\ \E a \in Apis \ {api} : api' = a
  /\ UNCHANGED <<conv, since, step>>
PrefixSetNow ==
  /\ Unanswered = {} /\ since < Now
  /\ since' = Now
  /\ UNCHANGED <<api, conv, step>>

Next == Asks \/ Nudges \/ Steps \/ Results \/ Switches \/ PrefixSetNow
Spec == Init /\ [][Next]_wiVars

-----------------------------------------------------------------------------
(* What the conversation would be sent as now.                                *)
Reasons == {"signed", "redacted", "encrypted"}

(* Nothing that was said is lost or told twice: every text and every call of  *)
(* the conversation is in a request once, in the conversation's order.        *)
Whole(items) ==
  LET parts == SelectSeq(items, LAMBDA b : b.type \in {"text", "call", "result"})
      said == FlattenSeq([n \in DOMAIN conv |->
                IF conv[n].role = "tool" THEN <<<<n, 0>>>>
                ELSE conv[n].text \o [i \in DOMAIN conv[n].calls |-> conv[n].calls[i].of]])
  IN [i \in DOMAIN parts |-> parts[i].of] = said

(* Reasoning goes back only to the family it came from, and only from after   *)
(* the last change of what stands before it; it goes back whole, ahead of the *)
(* text and the calls of its reply.                                           *)
ReasoningStays(a, items) ==
  /\ \A i \in DOMAIN items : items[i].type \in Reasons =>
       /\ conv[items[i].of[1]].family = FamilyOf(a) /\ items[i].of[1] >= since
       /\ \A j \in 1..i : items[j].of[1] = items[i].of[1] => items[j].type \in Reasons
  /\ a \in {"messages", "responses"} =>
       \A n \in DOMAIN conv : conv[n].family = FamilyOf(a) /\ n >= since =>
         \A t \in Range(conv[n].thoughts) :
           t.kind \in (Reasons \cap Reasoning(a)) => \E i \in DOMAIN items : items[i] = Item(t.kind, t.of)

(* In the Messages API the roles take turns, the results of calls come first  *)
(* in the message after them, and one block is marked for the cache, never    *)
(* one of reasoning or an empty one.                                          *)
Turns(turns) ==
  /\ \A t \in DOMAIN turns \ {1} : turns[t].role # turns[t - 1].role
  /\ Unanswered = {} => \A t \in DOMAIN turns :
       LET calls == SelectSeq(turns[t].content, LAMBDA b : b.type = "call")
       IN calls # <<>> =>
            /\ t + 1 \in DOMAIN turns
            /\ \A i \in DOMAIN calls :
                 /\ turns[t + 1].content[i].type = "result"
                 /\ turns[t + 1].content[i].id = calls[i].id
  /\ \A i \in Marked(turns) : Last(turns).content[i].type \notin Reasons \cup {"empty"}
  /\ Cardinality(Marked(turns)) <= 1

(* A call goes back to an API in the form that API gives it: an object in the *)
(* Messages API and Ollama's, text in the other two.  The Messages API is not *)
(* held to it: assistantMessage keeps the text of the arguments and Blocks    *)
(* sends that text (agent.ts:679, anthropic.ts:181), where the client's own   *)
(* test has an object (anthropic.test.ts:56-61).                              *)
ArgumentsOf(a) == IF a \in {"messages", "native"} THEN "object" ELSE "text"
SentAsHeld == {"messages"}
ArgumentsFit(a, items) ==
  \A i \in DOMAIN items : items[i].type = "call" => items[i].args = ArgumentsOf(a)

RequestsAreWhole ==
  /\ \A a \in Apis :
       /\ Whole(Items(a)) /\ ReasoningStays(a, Items(a))
       /\ a \in SentAsHeld \/ ArgumentsFit(a, Items(a))
  /\ "messages" \in Apis => Turns(Messages)
=============================================================================
