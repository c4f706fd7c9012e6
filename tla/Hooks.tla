------------------------------- MODULE Hooks --------------------------------
(* User hooks: the trust a project's hooks need before they run, the bus that *)
(* runs an event's handlers in order, and the verdict made of what they       *)
(* return (core/hooks/commands.ts, core/hooks/index.ts, core/runtime/hooks.ts,*)
(* cli/extensions.ts).  Sessions are processes of their own; trust is a file  *)
(* they share, read and written without a lock.                               *)
(*                                                                            *)
(* What a project configures is a version, which every change of an event, a  *)
(* matcher, a command or a time limit makes a new one of: its digest.  Each   *)
(* version is one hook, which may be turned on and off without changing what  *)
(* is digested; the user's configuration has some of its own.                 *)
EXTENDS Integers, Sequences, FiniteSets, SequencesExt

CONSTANTS
  Sessions,     \* sessions of the project
  MaxVersions,  \* a bound on the versions of the project's hooks
  UserHooks     \* how many hooks the user's own configuration has

VARIABLES
  version,   \* what the project configures now
  trusted,   \* what the trust file holds for the project, 0 for nothing
  writing,   \* what processes that write the file have read in it
  session,   \* each session: the version it loaded, whether it is trusted, its handlers
  event,     \* the event a session runs: the next handler, and what came back
  agreed,    \* the versions the person agreed to
  ran,       \* the versions of the project's that ran
  on         \* whether the project's hook is turned on

hkVars == <<version, trusted, writing, session, event, agreed, ran, on>>

Outcomes == {"nothing", "failed", "context", "input", "allow", "ask", "deny", "block"}
Closed == [at |-> "closed", loaded |-> 0, on |-> FALSE, trust |-> FALSE, handlers |-> <<>>]
NoVerdict == [block |-> 0, decision |-> "none", by |-> 0, context |-> {}, input |-> 0]
NoEvent == [at |-> "none", next |-> 1, results |-> <<>>, verdict |-> NoVerdict]
NotWriting == [at |-> "none", digest |-> 0, read |-> 0]
Writers == Sessions \cup {"cli", "elsewhere"}
(* A session's id is no other process's, and its own hooks are counted.        *)
OnlySessions == {"cli", "elsewhere"} \cap Sessions = {} /\ UserHooks \in Nat

Init ==
  /\ version = 1 /\ on \in BOOLEAN /\ trusted = 0
  /\ writing = [w \in Writers |-> NotWriting]
  /\ session = [s \in Sessions |-> Closed]
  /\ event = [s \in Sessions |-> NoEvent]
  /\ agreed = {} /\ ran = {}

Changes ==
  /\ version < MaxVersions /\ version' = version + 1 /\ on' \in BOOLEAN
  /\ UNCHANGED <<trusted, writing, session, event, agreed, ran>>
Switches ==
  /\ on' = ~on
  /\ UNCHANGED <<version, trusted, writing, session, event, agreed, ran>>

(* SessionHooks: the user's hooks subscribe at once, the project's when the   *)
(* file holds this very digest, and it is on.  0 stands for a hook of the     *)
(* user's.                                                                    *)
Users == [i \in 1..UserHooks |-> 0]
IsTrusted(digest) == trusted = digest
Subscribed(isOn, digest) == IF isOn THEN <<digest>> ELSE <<>>
Opens(s) ==
  /\ session[s].at = "closed"
  /\ session' = [session EXCEPT ![s] =
       [at |-> "open", loaded |-> version, on |-> on, trust |-> IsTrusted(version),
        handlers |-> Users \o Subscribed(on /\ IsTrusted(version), version)]]
  /\ UNCHANGED <<version, trusted, writing, event, agreed, ran>>
Closes(s) ==
  /\ session[s].at = "open" /\ event[s].at = "none" /\ writing[s].at = "none"
  /\ session' = [session EXCEPT ![s] = Closed]
  /\ UNCHANGED <<version, trusted, writing, event, agreed, ran>>

(* HookTrust.trust: the file is read, and written with this project's digest; *)
(* a process of another project writes back what it read of this one.         *)
ReadsTrust(w, digest) ==
  /\ writing[w].at = "none"
  /\ writing' = [writing EXCEPT ![w] = [at |-> "writes", digest |-> digest, read |-> trusted]]
WritesTrust(w) ==
  /\ writing[w].at = "writes"
  /\ trusted' = IF w = "elsewhere" THEN writing[w].read ELSE writing[w].digest
  /\ writing' = [writing EXCEPT ![w] = NotWriting]

(* The person is shown what this session loaded, on or off, and agrees to it. *)
Agrees(s) ==
  /\ session[s].at = "open" /\ ~session[s].trust
  /\ ReadsTrust(s, session[s].loaded)
  /\ agreed' = agreed \cup {session[s].loaded}
  /\ UNCHANGED <<version, trusted, session, event, ran>>
TrustsHere(s) ==
  /\ WritesTrust(s)
  /\ session' = [session EXCEPT ![s].trust = TRUE, ![s].handlers = @ \o Subscribed(session[s].on, session[s].loaded)]
  /\ UNCHANGED <<version, event, agreed, ran>>
(* jamcli hooks trust: the hooks as they are now.                             *)
CliAgrees ==
  /\ ReadsTrust("cli", version)
  /\ agreed' = agreed \cup {version}
  /\ UNCHANGED <<version, trusted, session, event, ran>>
ElsewhereAgrees ==
  /\ ReadsTrust("elsewhere", 0)
  /\ UNCHANGED <<version, trusted, session, event, agreed, ran>>
WrittenOutside(w) ==
  /\ WritesTrust(w)
  /\ UNCHANGED <<version, session, event, agreed, ran>>

(* mergeVerdicts: what a result adds to the verdict of those before it.  Of   *)
(* the texts it is kept whose they are.                                       *)
Order == [deny |-> 1, ask |-> 2, allow |-> 3, none |-> 4]
Stronger(says, than) == Order[says] < Order[than]
Merges(merged, r) ==
  CASE r.says = "block" -> IF merged.block = 0 THEN [merged EXCEPT !.block = r.by] ELSE merged
    [] r.says = "context" -> [merged EXCEPT !.context = @ \cup {r.by}]
    [] r.says = "input" -> [merged EXCEPT !.input = r.by]
    [] OTHER -> IF Stronger(r.says, merged.decision)
                THEN [merged EXCEPT !.decision = r.says, !.by = r.by] ELSE merged

(* collect: the handlers one after another, a new one joining the list a      *)
(* running event goes through.  A handler that fails, cannot be parsed or     *)
(* does not finish in time is reported and returns nothing.  The verdict is   *)
(* made in the order of the results, so it is kept as they come.              *)
Emits(s) ==
  /\ session[s].at = "open" /\ event[s].at = "none"
  /\ event' = [event EXCEPT ![s] = [NoEvent EXCEPT !.at = "runs"]]
  /\ UNCHANGED <<version, trusted, writing, session, agreed, ran>>
RunsHook(s, outcome) ==
  LET e == event[s] IN
  /\ e.at = "runs" /\ e.next <= Len(session[s].handlers)
  /\ LET r == [by |-> e.next, says |-> outcome]
         heard == outcome \notin {"nothing", "failed"}
     IN event' = [event EXCEPT ![s] =
          [at |-> "runs", next |-> e.next + 1,
           results |-> IF heard THEN Append(e.results, r) ELSE e.results,
           verdict |-> IF heard THEN Merges(e.verdict, r) ELSE e.verdict]]
  /\ ran' = ran \cup ({session[s].handlers[e.next]} \ {0})
  /\ UNCHANGED <<version, trusted, writing, session, agreed>>
Collected(s) ==
  /\ event[s].at = "runs" /\ event[s].next > Len(session[s].handlers)
  /\ event' = [event EXCEPT ![s].at = "decided"]
  /\ UNCHANGED <<version, trusted, writing, session, agreed, ran>>

(* The verdict is used, and the next event may come.                          *)
Done(s) ==
  /\ event[s].at = "decided"
  /\ event' = [event EXCEPT ![s] = NoEvent]
  /\ UNCHANGED <<version, trusted, writing, session, agreed, ran>>

Next ==
  \/ Changes \/ Switches
  \/ /\ UNCHANGED on
     /\ \/ CliAgrees \/ ElsewhereAgrees
        \/ \E s \in Sessions : Opens(s) \/ Closes(s) \/ Agrees(s) \/ TrustsHere(s) \/ Emits(s) \/ Collected(s) \/ Done(s)
        \/ \E w \in {"cli", "elsewhere"} : WrittenOutside(w)
        \/ \E s \in Sessions, outcome \in Outcomes : RunsHook(s, outcome)

Spec == Init /\ [][Next]_hkVars

(* Of a project's hooks only those whose event, matcher, command and limit    *)
(* the person agreed to ever run, whatever became of the files meanwhile; one *)
(* that was off as they agreed runs once it is turned on, as nothing asks     *)
(* again for that (runtime/hooks.ts SessionHooks, commands.ts hooksDigest); an *)
(* event's verdict is what its handlers said together: one deny denies, an    *)
(* allow stands only where nothing asked or denied, the reason is the first   *)
(* of the strongest, and nothing else said is dropped (hooks/index.ts).       *)
Says(results, what) == {i \in DOMAIN results : results[i].says = what}
OfFirst(by, results, S) ==
  IF S = {} THEN by = 0 ELSE \E i \in S : by = results[i].by /\ \A j \in S : i <= j
StrongestOf(results) ==
  IF Says(results, "deny") # {} THEN "deny" ELSE IF Says(results, "ask") # {} THEN "ask"
  ELSE IF Says(results, "allow") # {} THEN "allow" ELSE "none"
RanAsAgreed == ran \subseteq agreed
VerdictHolds(results, verdict) ==
  /\ verdict.decision = StrongestOf(results)
  /\ OfFirst(verdict.by, results, Says(results, verdict.decision))
  /\ OfFirst(verdict.block, results, Says(results, "block"))
  /\ verdict.context = {results[i].by : i \in Says(results, "context")}
  /\ verdict.input # 0 <=> Says(results, "input") # {}
HooksHold ==
  /\ RanAsAgreed
  /\ \A s \in Sessions : event[s].at = "decided" => VerdictHolds(event[s].results, event[s].verdict)
=============================================================================
