------------------------------ MODULE AcpServer ------------------------------
(* A session an editor drives over the Agent Client Protocol: the lane its    *)
(* prompts and wakes wait in, a prompt's turn or command, and the requests    *)
(* for permission (acp/server.ts, acp/session.ts), with the host that runs    *)
(* commands where there is no screen (commands/host.ts).  The editor's        *)
(* messages, the wakes, the lists a command reads, the turn and its asks      *)
(* interleave.                                                                *)
(*                                                                            *)
(* What updates say, files and terminals the editor lends and a session's     *)
(* settings are left out.  The asks are of one call made by several children: *)
(* they share a key, so the answer to one settles those that wait.            *)
EXTENDS Naturals, Sequences, FiniteSets

CONSTANTS
  Texts,      \* prompts that are messages to the model
  Listing,     \* prompts that run a command which offers a list
  Choosers,   \* prompts that run /choose
  Sends,      \* prompts that run a command which sends a turn
  Exits,      \* prompts that run /exit
  Wakes,      \* wakes that go off, each once
  Lists,      \* the lists offered, each once
  Asks        \* asks of one call, each once

Nothing == "nothing"
Prompts == Texts \cup Listing \cup Choosers \cup Sends \cup Exits
Commands == Prompts \ Texts

(* Prompts, wakes and asks are different things, and none is no thing.        *)
KindsApart == Nothing \notin Prompts \cup Wakes \cup Asks /\ Prompts \cap Wakes = {}

VARIABLES
  came,       \* prompts and wakes that arrived
  lane,       \* inLane: what waits, oldest first
  current,    \* the work at the head of the lane, once begun
  turns,      \* the turns that run on the runtime
  sends,      \* CommandHost.turn: a turn the command sent runs
  work,       \* CommandHost.work: lists being read, and answers being applied
  pending,    \* the list that waits for /choose
  lists,      \* how each list stands
  registered, \* the session is one of the server's
  ask,        \* how each ask stands in the runtime
  before,     \* the asks the editor was asked about and has not answered
  behind,     \* askOnce: the asks that wait for another's answer, and for which
  asking,     \* per prompt or wake, the ask whose answer others of its call wait for
  askedBy     \* the prompt or wake whose turn each ask came from

host == <<sends, work, pending, lists>>
editor == <<ask, before, behind, asking, askedBy>>
vars == <<came, lane, current, turns, host, registered, editor>>

Init ==
  /\ came = {} /\ lane = <<>> /\ current = Nothing /\ turns = {}
  /\ sends = FALSE /\ work = {} /\ pending = Nothing /\ lists = [l \in Lists |-> "none"]
  /\ registered = TRUE
  /\ ask = [a \in Asks |-> "none"] /\ before = {} /\ behind = [a \in Asks |-> Nothing]
  /\ asking = [x \in Prompts \cup Wakes |-> Nothing] /\ askedBy = [a \in Asks |-> Nothing]

(* prompt, and a wake as it goes off: both go to the lane.                    *)
Arrives ==
  /\ \E x \in (Prompts \cup Wakes) \ came :
       /\ registered /\ came' = came \cup {x}
       /\ lane' = Append(lane, x)
  /\ UNCHANGED <<current, turns, host, registered, editor>>

(* What a lane runs is over before its next begins.                           *)
BusyForPrompts == current # Nothing /\ (lane = <<>> \/ Head(lane) \notin Wakes)
Busy == current # Nothing

(* promptTurn, as its turn comes: a message runs a turn; a wake does too,     *)
(* unless the session was left meanwhile.                                     *)
Begin ==
  /\ ~ Busy /\ lane # <<>>
  /\ lane' = Tail(lane)
  /\ LET x == Head(lane) IN
     /\ current' = IF x \in Wakes /\ ~ registered THEN Nothing ELSE x
     /\ turns' = IF x \in Texts \/ (x \in Wakes /\ registered) THEN turns \cup {x} ELSE turns
     /\ IF x \notin Commands THEN UNCHANGED host
        ELSE \* host.run: any command but /choose closes the list that waits
             LET closes == pending # Nothing /\ x \notin Choosers
                 open == IF closes THEN [lists EXCEPT ![pending] = "dismissed"] ELSE lists
             IN \/ /\ x \in Listing
                   /\ \E l \in Lists : /\ open[l] = "none"
                                       /\ lists' = [open EXCEPT ![l] = "read"] /\ work' = work \cup {l}
                   /\ pending' = Nothing /\ UNCHANGED sends
                \/ /\ x \in Choosers
                   /\ work' = IF pending = Nothing THEN work ELSE work \cup {pending}
                   /\ lists' = IF pending = Nothing THEN lists ELSE [lists EXCEPT ![pending] = "answered"]
                   /\ pending' = Nothing /\ UNCHANGED sends
                \/ /\ x \in Sends \cup Exits
                   /\ sends' = (x \in Sends)
                   /\ lists' = open /\ pending' = Nothing /\ UNCHANGED work
  /\ UNCHANGED <<came, registered, editor>>

(* A turn a command sent: this prompt's turn, on the same runtime.            *)
SentTurn ==
  /\ sends /\ current \in Commands /\ current \notin turns
  /\ turns' = turns \cup {current}
  /\ UNCHANGED <<came, lane, current, host, registered, editor>>

(* offer: the list is read, shown as the reply of the prompt, and waits; an   *)
(* empty one is closed.  One it takes the place of is not told.               *)
ListRead ==
  /\ \E l \in work :
       /\ lists[l] = "read"
       /\ work' = work \ {l}
       /\ \/ pending' = l /\ lists' = [lists EXCEPT ![l] = "shown"]
          \/ lists' = [lists EXCEPT ![l] = "dismissed"] /\ UNCHANGED pending
  /\ UNCHANGED <<came, lane, current, turns, sends, registered, editor>>

(* answer: not one of its choices, and it waits again; none closes it; a      *)
(* choice is applied, and may offer a list or send a turn of its own.         *)
Chosen ==
  /\ \E l \in work :
       /\ lists[l] = "answered"
       /\ \/ /\ pending' = l /\ lists' = [lists EXCEPT ![l] = "shown"]
             /\ work' = work \ {l} /\ UNCHANGED sends
          \/ /\ lists' = [lists EXCEPT ![l] = "dismissed"]
             /\ work' = work \ {l} /\ UNCHANGED <<pending, sends>>
          \/ /\ lists' = [lists EXCEPT ![l] = "chosen"]
             /\ work' = work \ {l} /\ sends' = TRUE /\ UNCHANGED pending
          \/ \E m \in Lists :
               /\ lists[m] = "none"
               /\ lists' = [lists EXCEPT ![l] = "chosen", ![m] = "read"]
               /\ work' = (work \ {l}) \cup {m} /\ UNCHANGED <<pending, sends>>
  /\ UNCHANGED <<came, lane, current, turns, registered, editor>>

(* settled: a command is over once everything it started has finished, what   *)
(* that started in turn included.                                             *)
Settled == work = {} /\ ~ sends

(* The prompt is answered; /exit takes the session off the server first.      *)
Ends ==
  /\ current # Nothing
  /\ IF current \in Commands THEN Settled ELSE current \notin turns
  /\ current' = Nothing
  /\ registered' = (registered /\ current \notin Exits)
  /\ UNCHANGED <<came, lane, turns, host, editor>>

(* The turn ends, of itself or by the editor's cancel: what it still asks is  *)
(* cancelled with it, and nothing says so to the editor.                      *)
TurnEnds ==
  /\ \E t \in turns :
       /\ turns' = turns \ {t}
       /\ sends' = (sends /\ t \notin Commands)
  /\ ask' = [a \in Asks |-> IF ask[a] = "waits" THEN "cancelled" ELSE ask[a]]
  /\ UNCHANGED <<came, lane, current, work, pending, lists, registered, before, behind, asking, askedBy>>

(* askOnce: the call's first ask goes to the editor; a later one waits for    *)
(* that answer.                                                               *)
AskArrives ==
  /\ \E a \in Asks, t \in turns :
       /\ ask[a] = "none"
       /\ ask' = [ask EXCEPT ![a] = "waits"]
       /\ askedBy' = [askedBy EXCEPT ![a] = t]
       /\ IF asking[t] # Nothing
          THEN behind' = [behind EXCEPT ![a] = asking[t]] /\ UNCHANGED <<before, asking>>
          ELSE /\ before' = before \cup {a} /\ asking' = [asking EXCEPT ![t] = a]
               /\ UNCHANGED behind
  /\ UNCHANGED <<came, lane, current, turns, host, registered>>

(* The editor answers, or is gone: the answer is given to the ask, and with   *)
(* it to every ask of the call that waits.                                    *)
EditorAnswers ==
  /\ \E a \in before :
       /\ before' = before \ {a}
       /\ ask' = [b \in Asks |-> IF ask[b] = "waits" THEN "answered" ELSE ask[b]]
       /\ asking' = [x \in DOMAIN asking |-> IF asking[x] = a THEN Nothing ELSE asking[x]]
  /\ UNCHANGED <<came, lane, current, turns, host, registered, behind, askedBy>>

(* The ask that waited looks: answered too, or asked on its own.              *)
SettledMeanwhile(a) == ask[a] = "answered"
LooksAgain ==
  /\ \E a \in Asks :
       /\ behind[a] # Nothing /\ behind[a] \notin before
       /\ behind' = [behind EXCEPT ![a] = Nothing]
       /\ IF SettledMeanwhile(a) THEN UNCHANGED <<before, asking>>
          ELSE before' = before \cup {a} /\ asking' = [asking EXCEPT ![askedBy[a]] = a]
  /\ UNCHANGED <<came, lane, current, turns, host, registered, ask, askedBy>>

Next ==
  \/ Arrives \/ Begin \/ SentTurn \/ ListRead \/ Chosen \/ Ends \/ TurnEnds
  \/ AskArrives \/ EditorAnswers \/ LooksAgain

Spec == Init /\ [][Next]_vars

(* A session runs one thing at a time, whichever way it was asked for: a      *)
(* prompt, a turn a command sent, what a choice did, or a wake; and a prompt  *)
(* is answered only once everything its command started has ended             *)
(* (server.ts inLane, host.ts settled).                                       *)
OneAtATime ==
  /\ \A t \in turns : t = current
  /\ current = Nothing => work = {} /\ ~ sends

(* A call asked by several children is put to the editor once at a time, and  *)
(* an ask that was answered meanwhile, with another, is not put to it at all  *)
(* (server.ts askOnce).                                                       *)
AsksOnce ==
  \A a \in before' \ before :
    /\ ask'[a] # "answered"
    /\ ask'[a] = "waits" => \A b \in before' \ {a} : ask'[b] # "waits"
=============================================================================
