------------------------------ MODULE Approvals ------------------------------
(***************************************************************************)
(* What is decided of a tool call (src/core/permissions): from the rules,  *)
(* the mode, and what a command or a skill narrowed.  A rule's glob is the *)
(* set of what it matches: the tools it names, the subjects it is about.   *)
(* And the prompts of a session and its children, and the rules they share *)
(* (WaitingAsks and waitForDecision of tools/dispatch.ts, childLauncher of *)
(* runtime/children.ts, PermissionEngine, RuleEditor).  Each run asks of   *)
(* one call at a time; a child's is asked on the session's surface.  An    *)
(* answer, what it grants and what that settles happen before anything     *)
(* else does: one action.                                                  *)
(***************************************************************************)
EXTENDS Naturals, FiniteSets

CONSTANTS Tools,      \* by their canonical names; a rule may name one by any of its names
          Class,      \* [Tools -> class]
          About,      \* tools whose rules are about something inside the call
          AlwaysAsks, \* tools that ask whatever rules and mode say, such as a commit
          Subjects,   \* what calls are about: paths, commands, domains
          Outside,    \* paths outside the project
          Machinery,  \* paths in .git and .jamcli
          Sandboxed,  \* whether commands run in a sandbox
          Confirmed,  \* --dangerously-bypass-permissions
          BypassCommits  \* git.allow_commit_in_bypass

Classes   == {"read", "write", "execute", "network", "delegate", "state", "unknown"}
Scopes    == {"builtin", "user", "project", "local", "session", "flag"}
Decisions == {"allow", "ask", "deny"}
Modes     == {"plan", "default", "accept-edits", "auto", "bypass"}

ASSUME ToolsAssumption == Class \in [Tools -> Classes] /\ {About, AlwaysAsks} \subseteq SUBSET Tools
ASSUME SubjectsAssumption == Outside \subseteq Subjects /\ Machinery \subseteq Subjects
ASSUME FlagsAssumption == {Sandboxed, Confirmed, BypassCommits} \subseteq BOOLEAN

\* A bare rule has no pattern.
Rules == [decision : Decisions, scope : Scopes, tools : SUBSET Tools, bare : BOOLEAN, about : SUBSET Subjects]

\* hidden: a command whose parts do not show what it runs.  elsewhere: it redirects outside the project.
Calls == [tool : Tools, subjects : SUBSET Subjects, hidden : BOOLEAN, elsewhere : BOOLEAN]

NoSubject == "nothing"

-----------------------------------------------------------------------------
(* Rules.                                                                  *)

\* patternMatches(): what a call is about, or nothing, which only a rule without a pattern covers.
Covers(rule, tool, subject) ==
  tool \in rule.tools /\ (rule.bare \/ subject \in Subjects \cap rule.about)

\* subjectsOf(): a call is judged by each part of its command, each path and where it really is.
Targets(call) == IF call.subjects = {} THEN {NoSubject} ELSE call.subjects

Personal == {"flag", "session"}

Has(rules, decision) == \E rule \in rules : rule.decision = decision

\* strongest(): any deny, then a person's ask or allow, then configuration's.
Strongest(rules) ==
  LET mine == {rule \in rules : rule.scope \in Personal}
      heard == IF mine # {} THEN mine ELSE rules
  IN IF Has(rules, "deny") THEN "deny"
     ELSE IF Has(heard, "ask") THEN "ask"
     ELSE IF Has(heard, "allow") THEN "allow" ELSE "none"

ByRule(rules, call, subject) == Strongest({rule \in rules : Covers(rule, call.tool, subject)})

-----------------------------------------------------------------------------
(* Modes.                                                                  *)

\* MODE_DEFAULTS: what a mode does with a class when no rule decides.
ModeDefault(mode, class) ==
  CASE class \in {"read", "state"} -> "allow"
    [] class = "write" -> CASE mode = "plan" -> "deny" [] mode = "default" -> "ask"
                            [] mode = "bypass" -> "allow" [] OTHER -> "inside"
    [] class \in {"execute", "unknown"} -> CASE mode = "plan" -> "deny" [] mode = "auto" -> "sandboxed"
                                             [] mode = "bypass" -> "allow" [] OTHER -> "ask"
    [] class = "network" -> IF mode = "bypass" THEN "allow" ELSE "ask"
    [] class = "delegate" -> CASE mode = "plan" -> "deny" [] mode \in {"auto", "bypass"} -> "allow"
                               [] OTHER -> "ask"

\* modeRefusal(): a mode whose ground is missing is not entered.
Refused(mode, confirmed) == (mode = "auto" /\ ~Sandboxed) \/ (mode = "bypass" /\ ~confirmed)

\* The mode's word on a call that no rule decided.
ByMode(mode, call) ==
  LET word == ModeDefault(mode, Class[call.tool])
  IN CASE word \in {"allow", "deny", "ask"} -> word
       [] word = "inside" -> IF call.subjects \cap (Machinery \cup Outside) = {} THEN "allow" ELSE "ask"
       [] word = "sandboxed" -> IF Sandboxed THEN "allow" ELSE "ask"

-----------------------------------------------------------------------------
(* The decision.                                                           *)

\* Whether what was narrowed lets a call through: every subject of it is named.
Lets(narrowing, call) == \A s \in Targets(call) : \E rule \in narrowing : Covers(rule, call.tool, s)

DeniedByRule(rules, call) == \E s \in Targets(call) : ByRule(rules, call, s) = "deny"

\* Mutant: bypass is looked at before the rules that deny.
DecideBypassFirst(rules, mode, narrowings, call) ==
  IF mode = "bypass" THEN "allow"
  ELSE IF (\E narrowing \in narrowings : ~Lets(narrowing, call)) \/ DeniedByRule(rules, call) THEN "deny"
  ELSE IF \A s \in Targets(call) : ByRule(rules, call, s) = "allow" THEN "allow" ELSE ByMode(mode, call)

\* PermissionEngine.decide().
Decide(rules, mode, narrowings, call) ==
  IF \E narrowing \in narrowings : ~Lets(narrowing, call) THEN "deny"
  ELSE IF DeniedByRule(rules, call) THEN "deny"
  ELSE IF mode = "plan" /\ ModeDefault(mode, Class[call.tool]) = "deny" THEN "deny"
  ELSE IF call.tool \in AlwaysAsks THEN IF mode = "bypass" /\ BypassCommits THEN "allow" ELSE "ask"
  ELSE IF mode = "bypass" THEN "allow"
  ELSE IF call.hidden \/ call.elsewhere THEN "ask"
  ELSE IF \E s \in Targets(call) : ByRule(rules, call, s) = "ask" THEN "ask"
  ELSE IF \A s \in Targets(call) : ByRule(rules, call, s) = "allow" THEN "allow"
  ELSE ByMode(mode, call)

\* PermissionEngine.offers(): whether a tool is shown to the model at all.
Offers(rules, mode, narrowings, tool) ==
  /\ \A narrowing \in narrowings : \E rule \in narrowing : tool \in rule.tools
  /\ ~\E rule \in rules : rule.decision = "deny" /\ rule.bare /\ tool \in rule.tools
  /\ ModeDefault(mode, Class[tool]) # "deny"

\* Mutant: what is narrowed again is only what was named last.
NarrowedLast(earlier, rules) == rules

\* narrow() while something narrowed already: what the earlier list covers of the new one.
NarrowedAgain(earlier, rules) ==
  {rule \in rules : \E before \in earlier :
     rule.tools \subseteq before.tools /\ (before.bare \/ (~rule.bare /\ before.about = rule.about))}

\* suggestPatterns(), grantedRules(): a grant at a prompt is a rule for each subject of the call.
\* Nothing is offered for a call that hides code or always asks.
Suggested(call, scope) ==
  IF call.hidden \/ call.tool \in AlwaysAsks THEN {}
  ELSE IF call.subjects = {}
    THEN {[decision |-> "allow", scope |-> scope, tools |-> {call.tool}, bare |-> TRUE, about |-> {}]}
    ELSE {[decision |-> "allow", scope |-> scope, tools |-> {call.tool}, bare |-> FALSE, about |-> {s}] : s \in call.subjects}

\* exampleCall(): the call a rule stands for.
ExampleOf(rule) ==
  {[tool |-> tool, subjects |-> rule.about, hidden |-> FALSE, elsewhere |-> FALSE] : tool \in rule.tools}

\* grantable(), of rules about one subject at most: of what a fan-out says it needs, what asks today and would run once granted.
Grantable(rules, mode, narrowings, needs) ==
  {rule \in needs :
     /\ Cardinality(rule.tools) = 1
     /\ rule.bare => rule.tools \cap About = {}
     /\ \A call \in ExampleOf(rule) : /\ Decide(rules, mode, narrowings, call) = "ask"
                                      /\ Decide(rules \cup {rule}, mode, {}, call) = "allow"}

\* loadPermissions(), sessionPermissions(): the mode of the last layer that names one, or the flag's;
\* default where its ground is missing.
StartingMode(asked) ==
  IF Confirmed THEN "bypass" ELSE IF Refused(asked, FALSE) THEN "default" ELSE asked

-----------------------------------------------------------------------------
(* Who asks.                                                               *)

CONSTANTS Children,
          Trees,      \* [Runs -> ...]: where a run works
          Made,       \* bound of the model: the calls made
          Ruled,      \* bound of the model: the rules a person or a file may give
          Lists,      \* bound of the model: what commands and skills narrow to
          Needed,     \* bound of the model: what the children of a fan-out say they need
          MaxRules    \* bound of the model: rules after which no more are given

Session == "session"
Runs    == {Session} \cup Children

ASSUME ChildrenAssumption == Session \notin Children
ASSUME BoundsAssumption == Made \subseteq Calls /\ Ruled \subseteq Rules /\ Lists \cup Needed \subseteq SUBSET Rules

VARIABLES
  rules,     \* every engine's
  mode,      \* every engine's
  narrowed,  \* [Runs -> SUBSET SUBSET Rules]: the list a run narrowed to, if it did
  waiting,   \* [Runs -> SUBSET Calls]: the call a run asks about, if it does
  ran       \* the calls the last step let run, of which run, and whether somebody was asked

vars == <<rules, mode, narrowed, waiting, ran>>

TypeOK ==
  /\ rules \subseteq Rules /\ mode \in Modes
  /\ DOMAIN narrowed = Runs /\ \A r \in Runs : Cardinality(narrowed[r]) <= 1 /\ \A list \in narrowed[r] : list \subseteq Rules
  /\ DOMAIN waiting = Runs /\ \A r \in Runs : Cardinality(waiting[r]) <= 1 /\ waiting[r] \subseteq Calls
  /\ ran \subseteq [run : Runs, call : Calls, asked : BOOLEAN]

\* Mutant: a child decides with its own narrowing alone.
NarrowingsOwn(r) == narrowed[r]

\* derive(), narrowings(): a child is held by what it narrowed and by what its session did.
Narrowings(r) == narrowed[r] \cup narrowed[Session]

Verdict(r, call) == Decide(rules, mode, Narrowings(r), call)

Init ==
  /\ rules \in {some \in SUBSET Ruled : Cardinality(some) <= MaxRules}
  /\ mode \in {StartingMode(asked) : asked \in Modes}
  /\ narrowed = [r \in Runs |-> {}]
  /\ waiting = [r \in Runs |-> {}]
  /\ ran = {}

-----------------------------------------------------------------------------
(* Calls and prompts.                                                      *)

\* A run makes a call: it runs, is refused, or is asked about.
Make(r, call) ==
  /\ waiting[r] = {}
  /\ ran' = IF Verdict(r, call) = "allow" THEN {[run |-> r, call |-> call, asked |-> FALSE]} ELSE {}
  /\ waiting' = IF Verdict(r, call) = "ask" THEN [waiting EXCEPT ![r] = {call}] ELSE waiting
  /\ UNCHANGED <<rules, mode, narrowed>>

\* Mutant: only the session's own asks hear of a grant.
SettledHere(given, asks) == {r \in asks \cap {Session} : \E call \in waiting[r] : Decide(given, mode, Narrowings(r), call) = "allow"}

\* onGrant: of the asks that wait, those the rules now given let run, each as its own run decides.
Settled(given, asks) == {r \in asks : \E call \in waiting[r] : Decide(given, mode, Narrowings(r), call) = "allow"}

\* callKey(): the same call in the same working tree, never one that always asks.
Same(r, q) == waiting[r] = waiting[q] /\ Trees[r] = Trees[q] /\ \A call \in waiting[r] : call.tool \notin AlwaysAsks

Asking == {r \in Runs : waiting[r] # {}}

\* WaitingAsks.answer(): what one answer answers.
Answered(r) == {r} \cup {q \in Asking : Same(r, q)}

\* What is answered, and what the rules given settle of the rest.
Ends(answered, given, allowed) ==
  LET settled == IF given = rules THEN {} ELSE Settled(given, Asking \ answered)
  IN /\ rules' = given
     /\ waiting' = [r \in Runs |-> IF r \in answered \cup settled THEN {} ELSE waiting[r]]
     /\ ran' = {done \in [run : answered \cup settled, call : UNION {waiting[r] : r \in Asking}, asked : BOOLEAN] :
                  /\ done.call \in waiting[done.run]
                  /\ IF done.asked THEN allowed /\ done.run \in answered ELSE done.run \in settled}

\* The person allows a prompt, this once, for the session, or for the project: then the grant is
\* saved, or, when the file cannot be written, holds for the session.
AllowOnce(r) == r \in Asking /\ Ends(Answered(r), rules, TRUE) /\ UNCHANGED <<mode, narrowed>>

AllowAndGrant(r) ==
  /\ r \in Asking /\ Cardinality(rules) < MaxRules
  /\ \E scope \in {"session", "local"} :
       Ends(Answered(r), rules \cup UNION {Suggested(call, scope) : call \in waiting[r]}, TRUE)
  /\ UNCHANGED <<mode, narrowed>>

Deny(r) == r \in Asking /\ Ends(Answered(r), rules, FALSE) /\ UNCHANGED <<mode, narrowed>>

\* preflight(): before a fan-out, what its children say they need is granted.
GrantNeeds(needs) ==
  LET given == Grantable(rules, mode, Narrowings(Session), needs)
  IN /\ waiting[Session] = {} /\ given # {} /\ Cardinality(rules) < MaxRules
     /\ \E scope \in {"session", "local"} : Ends({}, rules \cup {[rule EXCEPT !.scope = scope] : rule \in given}, FALSE)
     /\ UNCHANGED <<mode, narrowed>>

\* The turn is cancelled: every ask on its surface ends unanswered.
Cancel ==
  /\ Asking # {}
  /\ waiting' = [r \in Runs |-> {}]
  /\ ran' = {}
  /\ UNCHANGED <<rules, mode, narrowed>>

-----------------------------------------------------------------------------
(* Rules, modes and narrowings.                                            *)

Editable == {"session", "local", "project", "user"}

\* RuleEditor.add(), engine.add(): a rule is heard by every ask that waits.
AddRule(rule) ==
  /\ rule \notin rules /\ rule.scope \in Editable /\ Cardinality(rules) < MaxRules
  /\ Ends({}, rules \cup {rule}, FALSE)
  /\ UNCHANGED <<mode, narrowed>>

\* RuleEditor.remove(): of the scopes a person edits; nothing is decided again.
RemoveRule(rule) ==
  /\ rule \in rules /\ rule.scope \in Editable
  /\ rules' = rules \ {rule}
  /\ ran' = {}
  /\ UNCHANGED <<mode, narrowed, waiting>>

\* setMode(): confirmed is what the person says of bypass when asked.
SetMode(next, confirmed) ==
  /\ ~Refused(next, confirmed)
  /\ mode' = next
  /\ ran' = {}
  /\ UNCHANGED <<rules, narrowed, waiting>>

\* narrow(): a command or a skill with allowed-tools is active.
Narrow(r, list) ==
  /\ waiting[r] = {}
  /\ narrowed' = [narrowed EXCEPT ![r] = IF @ = {} THEN {list} ELSE {NarrowedAgain(earlier, list) : earlier \in @}]
  /\ ran' = {}
  /\ UNCHANGED <<rules, mode, waiting>>

\* The turn is over, and what it narrowed.
Widen(r) ==
  /\ waiting[r] = {} /\ narrowed[r] # {}
  /\ narrowed' = [narrowed EXCEPT ![r] = {}]
  /\ ran' = {}
  /\ UNCHANGED <<rules, mode, waiting>>

Next ==
  \/ \E r \in Runs, call \in Made : Make(r, call)
  \/ \E r \in Runs : AllowOnce(r) \/ AllowAndGrant(r) \/ Deny(r) \/ Widen(r)
  \/ \E needs \in Needed : GrantNeeds(needs)
  \/ Cancel
  \/ \E rule \in Ruled : AddRule(rule) \/ RemoveRule(rule)
  \/ \E next \in Modes, confirmed \in BOOLEAN : SetMode(next, confirmed)
  \/ \E r \in Runs, list \in Lists : Narrow(r, list)

Spec == Init /\ [][Next]_vars

-----------------------------------------------------------------------------
(* Properties.                                                             *)

\* A deny wins: nothing runs unasked that a rule of any scope denies, that the run or its session
\* narrowed away, or that plan mode keeps from changing anything, not even when a grant made for
\* another run's call settles it.
NothingPastADeny ==
  [][\A done \in ran' : ~done.asked =>
       /\ ~\E rule \in rules', s \in Targets(done.call) : rule.decision = "deny" /\ Covers(rule, done.call.tool, s)
       /\ \A list \in narrowed[done.run] \cup narrowed[Session] : Lets(list, done.call)
       /\ mode = "plan" => Class[done.call.tool] \in {"read", "state", "network"}]_vars

\* "nothing a child does widens what the parent allows": what a child may do unasked, its session
\* may; and a tool that is not offered is one whose every call is refused.
EnginesAgree ==
  \A r \in Runs : \A call \in Made :
    /\ Verdict(r, call) = "allow" => Verdict(Session, call) = "allow"
    /\ ~Offers(rules, mode, Narrowings(r), call.tool) => Verdict(r, call) = "deny"

\* Rules that were added leave no ask waiting that its own run would now let run, and an answer
\* none that asks the same.
NoAskLeftBehind ==
  [][/\ rules' \ rules # {} =>
          \A r \in Asking : \A call \in waiting'[r] : Decide(rules', mode, Narrowings(r), call) # "allow"
     /\ \A done \in ran' : done.asked =>
          \A q \in Asking : Same(done.run, q) => waiting'[q] = {}]_vars

\* Narrowing never allows, and narrowing again keeps only what both allow.
NarrowingOnlyNarrows ==
  [][\A r \in Runs : narrowed'[r] # narrowed[r] /\ narrowed'[r] # {} =>
       \A call \in Made : Verdict(r, call)' = "allow" => Verdict(r, call) = "allow"]_vars
-----------------------------------------------------------------------------
(* A few calls and rules to check it on; each scope and decision meets     *)
(* each other one on one subject.                                          *)

ToolClass == [tool \in Tools |-> CASE tool = "edit" -> "write" [] tool = "commit" -> "execute" [] OTHER -> "execute"]

WhereRunsWork == [r \in Runs |-> IF r = "apart" THEN "worktree" ELSE "project"]

Call(tool, subjects) == [tool |-> tool, subjects |-> subjects, hidden |-> FALSE, elsewhere |-> FALSE]

FewCalls ==
  {Call("edit", {"a"}), Call("edit", {"a", "b"}), Call("commit", {}),
   [Call("run", {"c"}) EXCEPT !.elsewhere = TRUE], [Call("run", {"c"}) EXCEPT !.hidden = TRUE]}

Rule(decision, scope, tools, about) ==
  [decision |-> decision, scope |-> scope, tools |-> tools, bare |-> about = {}, about |-> about]

FewRules ==
  {Rule("deny", "project", {"edit"}, {"b"}), Rule("deny", "flag", {"run", "commit"}, {}),
   Rule("ask", "project", {"edit"}, {"a"}), Rule("ask", "session", {"edit"}, {"a"}),
   Rule("allow", "user", {"edit"}, {"b"}), Rule("allow", "flag", {"edit", "run"}, {}),
   Rule("allow", "session", {"edit"}, {"a"})}

FewNeeds == {{Rule("allow", "session", {"edit"}, {"a"}), Rule("allow", "session", {"run"}, {"c"})}}

FewLists == {{Rule("allow", "session", {"edit"}, {})}, {Rule("allow", "session", {"edit"}, {"a"})},
             {Rule("allow", "session", {"edit", "run"}, {"a", "c"}), Rule("allow", "session", {"commit"}, {})}}
=============================================================================
