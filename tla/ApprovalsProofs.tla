--------------------------- MODULE ApprovalsProofs ---------------------------
(***************************************************************************)
(* What the decision of a call promises whatever the rules, and what the   *)
(* prompts of a session and its children promise of it.  Then come the     *)
(* theorems that state the properties of MCParts, with what the other      *)
(* modules prove of its parts.                                             *)
(***************************************************************************)
EXTENDS Approvals, MCParts, TLAPS

\* A call has a subject, if only that it has none.
LEMMA TargetsExist == ASSUME NEW call PROVE \E s \in Targets(call) : TRUE
BY DEF Targets

\* What rules say of a subject is one of four words.
LEMMA Words == ASSUME NEW some PROVE Strongest(some) \in {"deny", "ask", "allow", "none"}
BY DEF Strongest

\* A subject is denied exactly when some rule that covers it denies.
LEMMA StrongestDeny ==
  ASSUME NEW some PROVE Strongest(some) = "deny" <=> \E rule \in some : rule.decision = "deny"
BY DEF Strongest, Has

\* "Deny wins": a call is refused when a rule of any scope denies any subject of it, in every mode.
THEOREM DenyWins ==
  ASSUME NEW given, NEW how, NEW lists, NEW call, NEW rule \in given, NEW s \in Targets(call),
         rule.decision = "deny", Covers(rule, call.tool, s)
  PROVE  Decide(given, how, lists, call) = "deny"
<1>1. ByRule(given, call, s) = "deny"
  BY StrongestDeny DEF ByRule
<1>2. DeniedByRule(given, call)
  BY <1>1 DEF DeniedByRule
<1>3. QED
  BY <1>2 DEF Decide

\* What is allowed: nothing narrowed it away, no rule denies it, and plan mode does not refuse it.
LEMMA AllowedMeans ==
  ASSUME NEW given, NEW how, NEW lists, NEW call, Decide(given, how, lists, call) = "allow"
  PROVE  /\ \A list \in lists : Lets(list, call)
         /\ ~DeniedByRule(given, call)
         /\ ~(how = "plan" /\ ModeDefault(how, Class[call.tool]) = "deny")
BY DEF Decide

\* "nothing a child does widens what the parent allows": fewer narrowings never take an allow away.
THEOREM NarrowingNeverAllows ==
  ASSUME NEW given, NEW how, NEW lists, NEW more, NEW call,
         Decide(given, how, lists \cup more, call) = "allow"
  PROVE  Decide(given, how, lists, call) = "allow"
BY DEF Decide

\* "Narrowing again keeps only what both allow".
THEOREM AgainIsBoth ==
  ASSUME NEW earlier, NEW later, NEW call, Lets(NarrowedAgain(earlier, later), call)
  PROVE  Lets(earlier, call) /\ Lets(later, call)
<1>1. SUFFICES ASSUME NEW s \in Targets(call)
               PROVE  /\ \E rule \in earlier : Covers(rule, call.tool, s)
                      /\ \E rule \in later : Covers(rule, call.tool, s)
  BY DEF Lets
<1>2. PICK rule \in NarrowedAgain(earlier, later) : Covers(rule, call.tool, s)
  BY DEF Lets
<1>3. PICK before \in earlier : rule.tools \subseteq before.tools /\ (before.bare \/ (~rule.bare /\ before.about = rule.about))
  BY <1>2 DEF NarrowedAgain
<1>4. rule \in later
  BY <1>2 DEF NarrowedAgain
<1>5. Covers(before, call.tool, s)
  BY <1>2, <1>3 DEF Covers
<1>6. QED
  BY <1>2, <1>4, <1>5

\* A tool the model is not shown is one whose every call is refused.
THEOREM NotOfferedIsDenied ==
  ASSUME NEW given, NEW how \in Modes, NEW lists, NEW call \in Calls, ~Offers(given, how, lists, call.tool)
  PROVE  Decide(given, how, lists, call) = "deny"
<1>1. PICK s \in Targets(call) : TRUE
  BY TargetsExist
<1>2. CASE \E list \in lists : ~\E rule \in list : call.tool \in rule.tools
  <2>1. PICK list \in lists : ~\E rule \in list : call.tool \in rule.tools
    BY <1>2
  <2>2. ~Lets(list, call)
    BY <1>1, <2>1 DEF Lets, Covers
  <2>3. QED
    BY <2>2 DEF Decide
<1>3. CASE \E rule \in given : rule.decision = "deny" /\ rule.bare /\ call.tool \in rule.tools
  <2>1. PICK rule \in given : rule.decision = "deny" /\ rule.bare /\ call.tool \in rule.tools
    BY <1>3
  <2>2. Covers(rule, call.tool, s)
    BY <2>1 DEF Covers
  <2>3. QED
    BY <1>1, <2>1, <2>2, DenyWins
<1>4. CASE ModeDefault(how, Class[call.tool]) = "deny"
  <2>1. call.tool \in Tools
    BY DEF Calls
  <2>2. Class[call.tool] \in Classes
    BY <2>1, ToolsAssumption
  <2>3. how = "plan"
    BY <1>4, <2>2 DEF ModeDefault, Classes, Modes
  <2>4. QED
    BY <1>4, <2>3 DEF Decide
<1>5. QED
  BY <1>2, <1>3, <1>4 DEF Offers

\* A grant takes nothing away: what was allowed stays allowed when rules that allow are added.
THEOREM GrantsTakeNothing ==
  ASSUME NEW given, NEW how, NEW lists, NEW call, NEW grants, \A rule \in grants : rule.decision = "allow",
         Decide(given, how, lists, call) = "allow"
  PROVE  Decide(given \cup grants, how, lists, call) = "allow"
<1> DEFINE Before(s) == {rule \in given : Covers(rule, call.tool, s)}
           After(s) == {rule \in given \cup grants : Covers(rule, call.tool, s)}
<1>1. \A s : Before(s) \subseteq After(s) /\ \A rule \in After(s) \ Before(s) : rule.decision = "allow"
  OBVIOUS
<1>2. \A s : Strongest(After(s)) = "deny" => Strongest(Before(s)) = "deny"
  BY <1>1, StrongestDeny
<1>3. \A s : Strongest(After(s)) = "ask" => Strongest(Before(s)) = "ask"
  <2> SUFFICES ASSUME NEW s, Strongest(After(s)) = "ask" PROVE Strongest(Before(s)) = "ask"
    OBVIOUS
  <2> DEFINE mineA == {rule \in After(s) : rule.scope \in Personal}
             mineB == {rule \in Before(s) : rule.scope \in Personal}
             heardA == IF mineA # {} THEN mineA ELSE After(s)
             heardB == IF mineB # {} THEN mineB ELSE Before(s)
  <2>1. ~Has(After(s), "deny") /\ Has(heardA, "ask")
    BY DEF Strongest
  <2>2. ~Has(Before(s), "deny")
    BY <2>1, <1>1 DEF Has
  <2>3. Has(heardB, "ask")
    <3>1. PICK rule \in heardA : rule.decision = "ask"
      BY <2>1 DEF Has
    <3>2. rule \in Before(s)
      BY <3>1, <1>1
    <3>3. CASE mineA # {}
      BY <3>1, <3>2, <3>3 DEF Has
    <3>4. CASE mineA = {}
      <4>1. mineB = {}
        BY <3>4, <1>1
      <4>2. QED
        BY <4>1, <3>1, <3>2 DEF Has
    <3>5. QED
      BY <3>3, <3>4
  <2>4. QED
    BY <2>2, <2>3 DEF Strongest
<1>4. \A s : Strongest(Before(s)) = "allow" => Strongest(After(s)) = "allow"
  <2> SUFFICES ASSUME NEW s, Strongest(Before(s)) = "allow" PROVE Strongest(After(s)) = "allow"
    OBVIOUS
  <2>1. PICK rule \in Before(s) : rule.decision = "allow"
    BY DEF Strongest, Has
  <2>2. Strongest(After(s)) # "none"
    <3>1. rule \in After(s) /\ rule.decision = "allow"
      BY <2>1, <1>1
    <3> DEFINE mine == {r \in After(s) : r.scope \in Personal}
    <3>2. CASE mine = {}
      BY <3>1, <3>2 DEF Strongest, Has
    <3>3. CASE mine # {}
      <4>1. PICK own \in mine : TRUE
        BY <3>3
      <4>2. CASE own \in Before(s)
        <5>1. {r \in Before(s) : r.scope \in Personal} # {}
          BY <4>1, <4>2
        <5>2. PICK r \in Before(s) : r.scope \in Personal /\ r.decision = "allow"
          BY <5>1 DEF Strongest, Has
        <5>3. r \in mine
          BY <5>2, <1>1
        <5>4. QED
          BY <3>3, <5>2, <5>3 DEF Strongest, Has
      <4>3. CASE own \notin Before(s)
        <5>1. own.decision = "allow"
          BY <4>1, <4>3, <1>1
        <5>2. QED
          BY <3>3, <4>1, <5>1 DEF Strongest, Has
      <4>4. QED
        BY <4>2, <4>3
    <3>4. QED
      BY <3>2, <3>3
  <2>3. QED
    BY <2>2, <1>2, <1>3, Words
<1>5. /\ \A s : ByRule(given, call, s) = Strongest(Before(s))
      /\ \A s : ByRule(given \cup grants, call, s) = Strongest(After(s))
  BY DEF ByRule
<1> HIDE DEF Before, After
<1>6. /\ \A list \in lists : Lets(list, call)
      /\ ~DeniedByRule(given, call)
  BY AllowedMeans
<1>7. ~DeniedByRule(given \cup grants, call)
  BY <1>6, <1>2, <1>5 DEF DeniedByRule
<1>8. \A s \in Targets(call) : ByRule(given \cup grants, call, s) = "ask" => ByRule(given, call, s) = "ask"
  BY <1>3, <1>5
<1>9. (\A s \in Targets(call) : ByRule(given, call, s) = "allow") => \A s \in Targets(call) : ByRule(given \cup grants, call, s) = "allow"
  BY <1>4, <1>5
<1>10. QED
  BY <1>6, <1>7, <1>8, <1>9 DEF Decide

-----------------------------------------------------------------------------
(* The session and its children.                                           *)

\* The calls and modes of the module are in their ranges.
LEMMA ModeInv == Spec => [](mode \in Modes)
<1>1. Init => mode \in Modes
  BY DEF Init, StartingMode, Modes
<1>2. mode \in Modes /\ [Next]_vars => (mode \in Modes)'
  BY DEF Next, vars, Make, AllowOnce, AllowAndGrant, Deny, GrantNeeds, Cancel, AddRule, RemoveRule, SetMode, Narrow, Widen
<1>3. QED
  BY <1>1, <1>2, PTL DEF Spec

\* A child may do nothing unasked that its session may not, and what is not offered is refused.
THEOREM ChildrenWithinTheirSession == Spec => []EnginesAgree
<1>1. mode \in Modes => EnginesAgree
  <2> SUFFICES ASSUME mode \in Modes, NEW r \in Runs, NEW call \in Made
               PROVE  /\ Verdict(r, call) = "allow" => Verdict(Session, call) = "allow"
                      /\ ~Offers(rules, mode, Narrowings(r), call.tool) => Verdict(r, call) = "deny"
    BY DEF EnginesAgree
  <2>1. Narrowings(r) = Narrowings(Session) \cup narrowed[r]
    BY DEF Narrowings
  <2>2. call \in Calls
    BY BoundsAssumption
  <2>3. Verdict(r, call) = "allow" => Verdict(Session, call) = "allow"
    BY <2>1, NarrowingNeverAllows DEF Verdict
  <2>4. ~Offers(rules, mode, Narrowings(r), call.tool) => Verdict(r, call) = "deny"
    BY <2>2, NotOfferedIsDenied DEF Verdict
  <2>5. QED
    BY <2>3, <2>4
<1>2. QED
  BY <1>1, ModeInv, PTL

\* A run asks about one call at a time.
OneAsk == waiting \in [Runs -> SUBSET Calls] /\ \A r \in Runs : \A call, other \in waiting[r] : call = other

LEMMA OneAskInv == Spec => []OneAsk
<1>1. Init => OneAsk
  BY DEF Init, OneAsk
<1>2. OneAsk /\ [Next]_vars => OneAsk'
  <2> SUFFICES ASSUME OneAsk, [Next]_vars PROVE OneAsk'
    OBVIOUS
  <2>1. ASSUME NEW r \in Runs, NEW call \in Made, Make(r, call) PROVE OneAsk'
    <3>1. call \in Calls
      BY BoundsAssumption
    <3>2. QED
      BY <2>1, <3>1 DEF Make, OneAsk
  <2>2. ASSUME NEW answered, NEW given, NEW allowed, Ends(answered, given, allowed) PROVE OneAsk'
    BY <2>2 DEF Ends, OneAsk
  <2>3. CASE waiting' = waiting
    BY <2>3 DEF OneAsk
  <2>4. CASE Cancel
    BY <2>4 DEF Cancel, OneAsk
  <2>5. QED
    BY <2>1, <2>2, <2>3, <2>4 DEF Next, vars, AllowOnce, AllowAndGrant, Deny, GrantNeeds, AddRule, RemoveRule, SetMode, Narrow, Widen
<1>3. QED
  BY <1>1, <1>2, PTL DEF Spec

\* What a step lets run unasked is what holds after the step allows, as its own run decides.
LEMMA RanWasAllowed ==
  ASSUME OneAsk, Next, NEW done \in ran', ~done.asked
  PROVE  /\ mode' = mode /\ narrowed' = narrowed
         /\ Decide(rules', mode, Narrowings(done.run), done.call) = "allow"
<1> DEFINE Allowed == /\ mode' = mode /\ narrowed' = narrowed
                      /\ Decide(rules', mode, Narrowings(done.run), done.call) = "allow"
<1>1. ASSUME NEW r \in Runs, NEW call \in Made, Make(r, call) PROVE Allowed
  BY <1>1 DEF Make, Verdict
<1>2. ASSUME NEW answered, NEW given, NEW allowed, Ends(answered, given, allowed), mode' = mode, narrowed' = narrowed
      PROVE  Allowed
  <2> DEFINE settled == IF given = rules THEN {} ELSE Settled(given, Asking \ answered)
  <2>1. done.run \in settled /\ done.call \in waiting[done.run] /\ rules' = given
    BY <1>2 DEF Ends
  <2>2. PICK call \in waiting[done.run] : Decide(given, mode, Narrowings(done.run), call) = "allow"
    BY <2>1 DEF Settled
  <2>3. done.run \in Runs
    BY <2>1 DEF Settled, Asking
  <2>4. call = done.call
    BY <2>1, <2>2, <2>3 DEF OneAsk
  <2>5. QED
    BY <1>2, <2>1, <2>2, <2>4
<1>3. ran' # {}
  OBVIOUS
<1>4. QED
  BY <1>1, <1>2, <1>3 DEF Next, AllowOnce, AllowAndGrant, Deny, GrantNeeds, AddRule, RemoveRule, SetMode, Narrow, Widen, Cancel

\* What runs is a call.
LEMMA RanIsCall == ASSUME OneAsk, Next, NEW done \in ran' PROVE done.call \in Calls
<1>1. ASSUME NEW r \in Runs, NEW call \in Made, Make(r, call) PROVE done.call \in Calls
  BY <1>1, BoundsAssumption DEF Make
<1>2. ASSUME NEW answered, NEW given, NEW allowed, Ends(answered, given, allowed) PROVE done.call \in Calls
  BY <1>2 DEF Ends, OneAsk, Asking
<1>3. QED
  BY <1>1, <1>2 DEF Next, AllowOnce, AllowAndGrant, Deny, GrantNeeds, AddRule, RemoveRule, SetMode, Narrow, Widen, Cancel

\* Nothing runs unasked past a rule that denies, a narrowing of its run or session, or plan mode,
\* whoever's grant settled it.
THEOREM DenyHolds == Spec => NothingPastADeny
<1> DEFINE Past(done) ==
      /\ ~\E rule \in rules', s \in Targets(done.call) : rule.decision = "deny" /\ Covers(rule, done.call.tool, s)
      /\ \A list \in narrowed[done.run] \cup narrowed[Session] : Lets(list, done.call)
      /\ mode = "plan" => Class[done.call.tool] \in {"read", "state", "network"}
<1>1. ASSUME OneAsk, Next, NEW done \in ran', ~done.asked PROVE Past(done)
  <2>1. /\ mode' = mode /\ narrowed' = narrowed
        /\ Decide(rules', mode, Narrowings(done.run), done.call) = "allow"
    BY <1>1, RanWasAllowed
  <2>2. \A list \in narrowed[done.run] \cup narrowed[Session] : Lets(list, done.call)
    BY <2>1, AllowedMeans DEF Narrowings
  <2>3. ~\E rule \in rules', s \in Targets(done.call) : rule.decision = "deny" /\ Covers(rule, done.call.tool, s)
    BY <2>1, DenyWins
  <2>4. ASSUME mode = "plan" PROVE Class[done.call.tool] \in {"read", "state", "network"}
    <3>1. ModeDefault(mode, Class[done.call.tool]) # "deny"
      BY <2>1, <2>4, AllowedMeans
    <3>2. Class[done.call.tool] \in Classes
      BY <1>1, RanIsCall, ToolsAssumption DEF Calls
    <3>3. QED
      BY <2>4, <3>1, <3>2 DEF ModeDefault, Classes
  <2>5. QED
    BY <2>2, <2>3, <2>4
<1>2. OneAsk /\ [Next]_vars => [\A done \in ran' : ~done.asked => Past(done)]_vars
  BY <1>1
<1>3. QED
  BY <1>2, OneAskInv, PTL DEF Spec, NothingPastADeny

\* What each run narrowed is a function of the runs.
NarrowedInv == narrowed = [r \in Runs |-> narrowed[r]]

LEMMA NarrowedIsFunction == Spec => []NarrowedInv
<1>1. Init => NarrowedInv
  BY DEF Init, NarrowedInv
<1>2. NarrowedInv /\ [Next]_vars => NarrowedInv'
  BY DEF NarrowedInv, Next, vars, Make, AllowOnce, AllowAndGrant, Deny, GrantNeeds, Cancel, AddRule, RemoveRule, SetMode, Narrow, Widen
<1>3. QED
  BY <1>1, <1>2, PTL DEF Spec

\* A call that narrower lists let through is decided as before them.
LEMMA SameBehindLists ==
  ASSUME NEW given, NEW how, NEW lists, NEW others, NEW call,
         Decide(given, how, lists, call) = "allow", \A list \in others : Lets(list, call)
  PROVE  Decide(given, how, others, call) = "allow"
BY DEF Decide

\* A command or a skill that narrows what may run lets nothing run that did not before.
THEOREM NarrowingHolds == Spec => NarrowingOnlyNarrows
<1> DEFINE Act == \A r \in Runs : narrowed'[r] # narrowed[r] /\ narrowed'[r] # {} =>
                    \A call \in Made : Verdict(r, call)' = "allow" => Verdict(r, call) = "allow"
<1>1. ASSUME NarrowedInv, Next, NEW r \in Runs, narrowed'[r] # narrowed[r], narrowed'[r] # {},
             NEW call \in Made, Verdict(r, call)' = "allow"
      PROVE  Verdict(r, call) = "allow"
  <2>1. PICK q \in Runs, list \in Lists \cup {{}} : Narrow(q, list) \/ Widen(q)
    BY Zenon, <1>1 DEF Next, Make, AllowOnce, AllowAndGrant, Deny, GrantNeeds, Cancel, AddRule, RemoveRule, SetMode
  <2>2. q = r
    BY <1>1, <2>1 DEF Narrow, Widen, NarrowedInv
  <2>3. Narrow(r, list)
    BY <1>1, <2>1, <2>2 DEF Widen, NarrowedInv
  <2>4. narrowed'[r] = IF narrowed[r] = {} THEN {list} ELSE {NarrowedAgain(earlier, list) : earlier \in narrowed[r]}
    BY <1>1, <2>3 DEF Narrow, NarrowedInv
  <2>5. rules' = rules /\ mode' = mode /\ (r # Session => narrowed'[Session] = narrowed[Session])
    BY <1>1, <2>3 DEF Narrow, NarrowedInv
  <2>6. Decide(rules, mode, narrowed'[r] \cup narrowed'[Session], call) = "allow"
    BY <1>1, <2>5 DEF Verdict, Narrowings
  <2>7. \A some \in narrowed'[r] \cup narrowed'[Session] : Lets(some, call)
    BY <2>6, AllowedMeans
  <2>8. \A earlier \in narrowed[r] : Lets(earlier, call)
    <3>1. SUFFICES ASSUME NEW earlier \in narrowed[r] PROVE Lets(earlier, call)
      OBVIOUS
    <3>2. Lets(NarrowedAgain(earlier, list), call)
      BY <2>4, <2>7
    <3>3. QED
      BY <3>2, AgainIsBoth
  <2>9. \A some \in Narrowings(r) : Lets(some, call)
    BY <2>5, <2>7, <2>8 DEF Narrowings
  <2>10. QED
    BY <2>6, <2>9, SameBehindLists DEF Verdict
<1>2. NarrowedInv /\ [Next]_vars => [Act]_vars
  BY <1>1
<1>3. QED
  BY <1>2, NarrowedIsFunction, PTL DEF Spec, NarrowingOnlyNarrows
\* Runs that ask the same ask the same as those that ask the same.
LEMMA SameIsTransitive ==
  ASSUME NEW r, NEW p, NEW q, Same(r, p), Same(p, q) PROVE Same(r, q)
BY DEF Same

\* What ends leaves waiting: no ask it answered, and none that rules it added would let run.
LEMMA EndsLeaves ==
  ASSUME OneAsk, NEW answered, NEW given, NEW allowed, Ends(answered, given, allowed)
  PROVE  /\ \A r \in Runs : r \in answered => waiting'[r] = {}
         /\ given # rules =>
              \A r \in Asking : \A call \in waiting'[r] : Decide(given, mode, Narrowings(r), call) # "allow"
         /\ rules' = given
         /\ \A done \in ran' : done.asked => allowed /\ done.run \in answered
<1> DEFINE settled == IF given = rules THEN {} ELSE Settled(given, Asking \ answered)
<1>1. /\ rules' = given
      /\ waiting' = [r \in Runs |-> IF r \in answered \cup settled THEN {} ELSE waiting[r]]
      /\ \A done \in ran' : done.asked => allowed /\ done.run \in answered
  BY DEF Ends
<1>2. ASSUME given # rules, NEW r \in Asking, NEW call \in waiting'[r]
      PROVE  Decide(given, mode, Narrowings(r), call) # "allow"
  <2>1. r \in Runs /\ r \notin answered /\ r \notin settled /\ call \in waiting[r]
    BY <1>1, <1>2 DEF Asking
  <2>2. QED
    BY <1>2, <2>1 DEF Settled
<1>3. QED
  BY <1>1, <1>2

\* A grant is heard by every ask it would let run, and an answer answers every ask of the same call:
\* none is left to be asked about again.
THEOREM AsksAreHeard == Spec => NoAskLeftBehind
<1> DEFINE Act == /\ rules' \ rules # {} =>
                       \A r \in Asking : \A call \in waiting'[r] : Decide(rules', mode, Narrowings(r), call) # "allow"
                  /\ \A done \in ran' : done.asked => \A q \in Asking : Same(done.run, q) => waiting'[q] = {}
<1>1. ASSUME OneAsk, NEW r \in Asking, NEW given, NEW allowed, Ends(Answered(r), given, allowed) PROVE Act
  <2>1. ASSUME NEW done \in ran', done.asked, NEW q \in Asking, Same(done.run, q) PROVE q \in Answered(r)
    <3>1. done.run \in Answered(r)
      BY <1>1, <2>1, EndsLeaves
    <3>2. CASE done.run = r
      BY <2>1, <3>2 DEF Answered
    <3>3. CASE Same(r, done.run)
      BY <2>1, <3>3, SameIsTransitive DEF Answered
    <3>4. QED
      BY <3>1, <3>2, <3>3 DEF Answered
  <2>2. QED
    BY <1>1, <2>1, EndsLeaves DEF Asking
<1>2. ASSUME OneAsk, NEW given, Ends({}, given, FALSE) PROVE Act
  <2>1. rules' = given /\ \A done \in ran' : ~done.asked
    BY <1>2, EndsLeaves
  <2>2. given # rules =>
          \A r \in Asking : \A call \in waiting'[r] : Decide(given, mode, Narrowings(r), call) # "allow"
    BY <1>2, EndsLeaves
  <2>3. QED
    BY <2>1, <2>2
<1>3. ASSUME rules' = rules, \A done \in ran' : ~done.asked PROVE Act
  BY <1>3
<1>4. OneAsk /\ Next => Act
  <2> SUFFICES ASSUME OneAsk, Next PROVE Act
    OBVIOUS
  <2>1. ASSUME NEW r \in Runs, NEW call \in Made, Make(r, call) PROVE Act
    BY <1>3, <2>1 DEF Make
  <2>2. ASSUME NEW r \in Runs, AllowOnce(r) \/ AllowAndGrant(r) \/ Deny(r) PROVE Act
    BY <1>1, <2>2 DEF AllowOnce, AllowAndGrant, Deny
  <2>3. ASSUME NEW needs, GrantNeeds(needs) PROVE Act
    BY <1>2, <2>3 DEF GrantNeeds
  <2>4. ASSUME NEW rule, AddRule(rule) PROVE Act
    BY <1>2, <2>4 DEF AddRule
  <2>5. ASSUME NEW rule, RemoveRule(rule) PROVE Act
    BY <2>5 DEF RemoveRule
  <2>6. CASE Cancel
    BY <1>3, <2>6 DEF Cancel
  <2>7. ASSUME NEW next, NEW confirmed, SetMode(next, confirmed) PROVE Act
    BY <1>3, <2>7 DEF SetMode
  <2>8. ASSUME NEW r, NEW list, Narrow(r, list) \/ Widen(r) PROVE Act
    BY <1>3, <2>8 DEF Narrow, Widen
  <2> HIDE DEF Act
  <2>9. QED
    BY <2>1, <2>2, <2>3, <2>4, <2>5, <2>6, <2>7, <2>8 DEF Next
<1>5. OneAsk /\ [Next]_vars => [Act]_vars
  BY <1>4
<1>6. QED
  BY <1>5, OneAskInv, PTL DEF Spec, NoAskLeftBehind

-----------------------------------------------------------------------------
(* The properties of MCParts.  The theorems about its parts are proved        *)
(* elsewhere for all values of the parts' constants; here they are applied to *)
(* each part as MCParts instantiates it, and PartsSpec is shown to move the   *)
(* part it is of as that part's own specification does.  A module of proofs   *)
(* has the constants and the variables of several components: those of a part *)
(* get the values they have in MCParts, the others any that satisfy what is   *)
(* assumed of them.  That a part of MCParts and the component of the theorem  *)
(* are one is plain once both are expanded: the two are the same text.        *)

(* Nothing changes which part a behaviour is of, and a step of it is a step   *)
(* of that part or leaves the part as it was.                                 *)
LEMMA PartStays == [PartsNext]_partVars =>
  /\ (InDelegated <=> InDelegated')
  /\ (InWorkView <=> InWorkView')
  /\ (InObservers <=> InObservers')
  /\ (InTerminals <=> InTerminals')
  /\ (InEditor <=> InEditor')
  /\ (InCommands <=> InCommands')
  /\ (InHeadless <=> InHeadless')
  /\ (InPrompts <=> InPrompts')
  /\ (InRuntime <=> InRuntime')
  /\ (InHooks <=> InHooks')
  /\ (InConfig <=> InConfig')
  /\ (InPlugins <=> InPlugins')
  /\ (InSchedules <=> InSchedules')
BY DEF PartsNext, partVars, Rests, Alone11, Alone12, Alone13, Alone14, Alone15, Alone17, Alone18, Alone4, Alone5, Alone6, Alone7, Alone8, Alone9,
       InDelegated, InWorkView, InObservers, InTerminals, InEditor, InCommands, InHeadless,
       InPrompts, InRuntime, InHooks, InConfig, InPlugins, InSchedules

LEMMA PartNextDelegated == [PartsNext]_partVars /\ InDelegated => Hosting!Next \/ UNCHANGED pool
BY DEF PartsNext, Rests, partVars,
       InComposer, InPrompts, InEditor, InCommands, InHeadless, InObservers, InWorkView,
       InTerminals, InDelegated, InRuntime, InServers, InDelegates, InCatalog, InWire, InWeb,
       InSchedules, InSessions, InLifetime, InFiles, InReview, InWorktrees, InTodos, InShell,
       InHooks, InConfig, InPlugins
LEMMA PartNextWorkView == [PartsNext]_partVars /\ InWorkView => Viewing!Next \/ UNCHANGED pool
BY DEF PartsNext, Rests, partVars,
       InComposer, InPrompts, InEditor, InCommands, InHeadless, InObservers, InWorkView,
       InTerminals, InDelegated, InRuntime, InServers, InDelegates, InCatalog, InWire, InWeb,
       InSchedules, InSessions, InLifetime, InFiles, InReview, InWorktrees, InTodos, InShell,
       InHooks, InConfig, InPlugins
LEMMA PartNextObservers == [PartsNext]_partVars /\ InObservers => Observing!Next \/ UNCHANGED pool
BY DEF PartsNext, Rests, partVars,
       InComposer, InPrompts, InEditor, InCommands, InHeadless, InObservers, InWorkView,
       InTerminals, InDelegated, InRuntime, InServers, InDelegates, InCatalog, InWire, InWeb,
       InSchedules, InSessions, InLifetime, InFiles, InReview, InWorktrees, InTodos, InShell,
       InHooks, InConfig, InPlugins
LEMMA PartNextTerminals == [PartsNext]_partVars /\ InTerminals => Driving!Next \/ UNCHANGED pool
BY DEF PartsNext, Rests, partVars,
       InComposer, InPrompts, InEditor, InCommands, InHeadless, InObservers, InWorkView,
       InTerminals, InDelegated, InRuntime, InServers, InDelegates, InCatalog, InWire, InWeb,
       InSchedules, InSessions, InLifetime, InFiles, InReview, InWorktrees, InTodos, InShell,
       InHooks, InConfig, InPlugins
LEMMA PartNextEditor == [PartsNext]_partVars /\ InEditor => Editor!Next \/ UNCHANGED pool
BY DEF PartsNext, Rests, partVars,
       InComposer, InPrompts, InEditor, InCommands, InHeadless, InObservers, InWorkView,
       InTerminals, InDelegated, InRuntime, InServers, InDelegates, InCatalog, InWire, InWeb,
       InSchedules, InSessions, InLifetime, InFiles, InReview, InWorktrees, InTodos, InShell,
       InHooks, InConfig, InPlugins
LEMMA PartNextCommands == [PartsNext]_partVars /\ InCommands => Commanding!Next \/ UNCHANGED pool
BY DEF PartsNext, Rests, partVars,
       InComposer, InPrompts, InEditor, InCommands, InHeadless, InObservers, InWorkView,
       InTerminals, InDelegated, InRuntime, InServers, InDelegates, InCatalog, InWire, InWeb,
       InSchedules, InSessions, InLifetime, InFiles, InReview, InWorktrees, InTodos, InShell,
       InHooks, InConfig, InPlugins
LEMMA PartNextHeadless == [PartsNext]_partVars /\ InHeadless => Unattended!Next \/ UNCHANGED pool
BY DEF PartsNext, Rests, partVars,
       InComposer, InPrompts, InEditor, InCommands, InHeadless, InObservers, InWorkView,
       InTerminals, InDelegated, InRuntime, InServers, InDelegates, InCatalog, InWire, InWeb,
       InSchedules, InSessions, InLifetime, InFiles, InReview, InWorktrees, InTodos, InShell,
       InHooks, InConfig, InPlugins
LEMMA PartNextPrompts == [PartsNext]_partVars /\ InPrompts => Prompting!Next \/ UNCHANGED pool
BY DEF PartsNext, Rests, partVars,
       InComposer, InPrompts, InEditor, InCommands, InHeadless, InObservers, InWorkView,
       InTerminals, InDelegated, InRuntime, InServers, InDelegates, InCatalog, InWire, InWeb,
       InSchedules, InSessions, InLifetime, InFiles, InReview, InWorktrees, InTodos, InShell,
       InHooks, InConfig, InPlugins
LEMMA PartNextRuntime == [PartsNext]_partVars /\ InRuntime => Turning!Next \/ UNCHANGED pool
BY DEF PartsNext, Rests, partVars,
       InComposer, InPrompts, InEditor, InCommands, InHeadless, InObservers, InWorkView,
       InTerminals, InDelegated, InRuntime, InServers, InDelegates, InCatalog, InWire, InWeb,
       InSchedules, InSessions, InLifetime, InFiles, InReview, InWorktrees, InTodos, InShell,
       InHooks, InConfig, InPlugins
LEMMA PartNextHooks == [PartsNext]_partVars /\ InHooks => Hooking!Next \/ UNCHANGED pool
BY DEF PartsNext, Rests, partVars,
       InComposer, InPrompts, InEditor, InCommands, InHeadless, InObservers, InWorkView,
       InTerminals, InDelegated, InRuntime, InServers, InDelegates, InCatalog, InWire, InWeb,
       InSchedules, InSessions, InLifetime, InFiles, InReview, InWorktrees, InTodos, InShell,
       InHooks, InConfig, InPlugins
LEMMA PartNextConfig == [PartsNext]_partVars /\ InConfig => Settings!Next \/ UNCHANGED pool
BY DEF PartsNext, Rests, partVars,
       InComposer, InPrompts, InEditor, InCommands, InHeadless, InObservers, InWorkView,
       InTerminals, InDelegated, InRuntime, InServers, InDelegates, InCatalog, InWire, InWeb,
       InSchedules, InSessions, InLifetime, InFiles, InReview, InWorktrees, InTodos, InShell,
       InHooks, InConfig, InPlugins
LEMMA PartNextPlugins == [PartsNext]_partVars /\ InPlugins => Installing!Next \/ UNCHANGED pool
BY DEF PartsNext, Rests, partVars,
       InComposer, InPrompts, InEditor, InCommands, InHeadless, InObservers, InWorkView,
       InTerminals, InDelegated, InRuntime, InServers, InDelegates, InCatalog, InWire, InWeb,
       InSchedules, InSessions, InLifetime, InFiles, InReview, InWorktrees, InTodos, InShell,
       InHooks, InConfig, InPlugins
LEMMA PartNextSchedules == [PartsNext]_partVars /\ InSchedules => Scheduling!Next \/ UNCHANGED pool
BY DEF PartsNext, Rests, partVars,
       InComposer, InPrompts, InEditor, InCommands, InHeadless, InObservers, InWorkView,
       InTerminals, InDelegated, InRuntime, InServers, InDelegates, InCatalog, InWire, InWeb,
       InSchedules, InSessions, InLifetime, InFiles, InReview, InWorktrees, InTodos, InShell,
       InHooks, InConfig, InPlugins

(* The theorems about a delegated session, the view of a child, the observers *)
(* and a run without anybody there, at the parts' values.                     *)
Wk == INSTANCE WorkProofs WITH Wakes <- {w1, w2}, Timers <- {w1}, MaxPending <- 2, Asks <- {a1,
  b1}, Background <- {b1}, Lists <- {l1}, Personal <- {a1, l1}, Calls <- {m1}, open <- v1,
  now <- v2, worked <- v3, asks <- v4, list <- v5, answered <- v6, shown <- v7, calls <- v8,
  queue <- v9, pending <- v10, due <- v11, log <- v12, runs <- v13, Watched <- {c1, c2},
  KeepDone <- 2, MaxEvents <- 3, item <- v1, made <- v2, events <- v3, timer <- v4, read <- v5,
  view <- v6, Tools <- {m1, m2}, Beside <- {b1}, Clients <- {w1}, MaxTurns <- 2, theirTurn <- v1,
  turns <- v2, cancelled <- v3, call <- v4, state <- v5, asking <- v6, hooksTold <- v7,
  onEditor <- v8, spans <- v9, asked <- v10, logged <- v11, attached <- v12, overtaken <- v13, Work <- {},
  MaxChildren <- 1, Keep <- 0, kind <- v1, run <- v1, stopping <- v1, status <- v1, entry <- v1,
  outcome <- v1, endedAt <- v1, told <- v1, news <- v1, given <- v1, turn <- v1, signal <- v1,
  waiting <- v1, closed <- v1, RunWakes <- {w1, w2, w3}, MaxLists <- 2, runAsked <- v1,
  stage <- v2, runGiven <- v3, offered <- v4, runStatus <- v5, runPending <- v6, wentOff <- v7,
  fired <- v8, woken <- v9, heard <- v10, hung <- v11, code <- v12

LEMMA DelegatedCount == \A S : Hosting!Cardinality(S) = Wk!Host!Cardinality(S)
BY DEF Hosting!Cardinality, Wk!Host!Cardinality

LEMMA DelegatedAlone == PartsSpec => [](InDelegated => Hosting!WakesRunOnce /\ Hosting!TableAsLogged /\ Hosting!NothingUnderAList)
<1>1. PartsInit /\ InDelegated => Wk!Host!Init
  BY DelegatedCount DEF PartsInit, Hosting!Init, Hosting!Nothing, Hosting!Questions, Hosting!Idle, Wk!Host!Init,
         Wk!Host!Nothing, Wk!Host!Questions, Wk!Host!Idle
<1>2. Hosting!Next => Wk!Host!Next
  BY Zenon, DelegatedCount DEF Hosting!Next, Hosting!CommandOffers, Hosting!Nothing, Hosting!table, Hosting!AskArrives,
         Hosting!AskSettled, Hosting!ChildStopped, Hosting!TurnEnds, Hosting!WakeNext,
         Hosting!questions, Hosting!SetWake, Hosting!CancelWake, Hosting!ClockOrBoard,
         Hosting!Check, Hosting!Fired, Hosting!SetToSeqs, Hosting!Send, Hosting!Idle, Hosting!Start,
         Hosting!MaySend, Hosting!SendChoice, Hosting!State, Hosting!Answer, Hosting!Waiting,
         Hosting!Theirs, Hosting!Decide, Hosting!Attend, Hosting!Apply, Hosting!PersonAnswers,
         Hosting!Retry, Hosting!Stop, Hosting!Stopped, Hosting!Questions, Hosting!ToSet,
         Hosting!Closed, Hosting!Crash, Hosting!Resume, Hosting!Ahead, Wk!Host!Next,
         Wk!Host!CommandOffers, Wk!Host!Nothing, Wk!Host!table, Wk!Host!AskArrives,
         Wk!Host!AskSettled, Wk!Host!ChildStopped, Wk!Host!TurnEnds, Wk!Host!WakeNext,
         Wk!Host!questions, Wk!Host!SetWake, Wk!Host!CancelWake, Wk!Host!ClockOrBoard,
         Wk!Host!Check, Wk!Host!Fired, Wk!Host!SetToSeqs, Wk!Host!Send, Wk!Host!Idle, Wk!Host!Start,
         Wk!Host!MaySend, Wk!Host!SendChoice, Wk!Host!State, Wk!Host!Answer, Wk!Host!Waiting,
         Wk!Host!Theirs, Wk!Host!Decide, Wk!Host!Attend, Wk!Host!Apply, Wk!Host!PersonAnswers,
         Wk!Host!Retry, Wk!Host!Stop, Wk!Host!Stopped, Wk!Host!Questions, Wk!Host!ToSet,
         Wk!Host!Closed, Wk!Host!Crash, Wk!Host!Resume, Wk!Host!Ahead
<1>3. [PartsNext]_partVars /\ InDelegated => [Wk!Host!Next]_(Wk!Host!vars)
  BY <1>2, PartNextDelegated DEF pool, Wk!Host!vars
<1>4. Wk!Host!WakesRunOnce /\ Wk!Host!TableAsLogged /\ Wk!Host!NothingUnderAList => Hosting!WakesRunOnce /\ Hosting!TableAsLogged /\ Hosting!NothingUnderAList
  BY DelegatedCount DEF Hosting!WakesRunOnce, Hosting!ToSet, Hosting!TableAsLogged, Hosting!NothingUnderAList,
         Hosting!Nothing, Wk!Host!WakesRunOnce, Wk!Host!ToSet, Wk!Host!TableAsLogged,
         Wk!Host!NothingUnderAList, Wk!Host!Nothing
<1>5. Wk!Host!Spec => [](Wk!Host!WakesRunOnce /\ Wk!Host!TableAsLogged /\ Wk!Host!NothingUnderAList)
  BY Wk!WakesHold
<1> QED BY <1>1, <1>3, <1>4, <1>5, PartStays, PTL DEF PartsSpec, Wk!Host!Spec

LEMMA WorkViewAlone == PartsSpec => [](InWorkView => Viewing!LookedAtAsItIs)
<1>1. PartsInit /\ InWorkView => Wk!View!Init
  BY DEF PartsInit, Viewing!Init, Viewing!None, Viewing!Quiet, Viewing!Closed, Viewing!Nobody,
         Wk!View!Init, Wk!View!None, Wk!View!Quiet, Wk!View!Closed, Wk!View!Nobody
<1>2. Viewing!Next => Wk!View!Next
  BY Zenon DEF Viewing!Next, Viewing!Settled, Viewing!Notify, Viewing!Watching, Viewing!Listed,
         Viewing!WatchWork, Viewing!List, Viewing!Effect, Viewing!CloseAgent, Viewing!Closed,
         Viewing!Nobody, Viewing!Add, Viewing!None, Viewing!Quiet, Viewing!End, Viewing!Prune, Viewing!Drain,
         Viewing!Update, Viewing!Say, Viewing!Keeps, Viewing!Kept, Viewing!OpenAgent, Viewing!Board,
         Viewing!OpensAnother, Viewing!Collect, Viewing!Kinds, Viewing!Record, Viewing!Known,
         Viewing!Line, Viewing!Thinking, Viewing!NotifySoon, Wk!View!Next, Wk!View!Settled,
         Wk!View!Notify, Wk!View!Watching, Wk!View!Listed, Wk!View!WatchWork, Wk!View!List,
         Wk!View!Effect, Wk!View!CloseAgent, Wk!View!Closed, Wk!View!Nobody, Wk!View!Add,
         Wk!View!None, Wk!View!Quiet, Wk!View!End, Wk!View!Prune, Wk!View!Drain, Wk!View!Update, Wk!View!Say,
         Wk!View!Keeps, Wk!View!Kept, Wk!View!OpenAgent, Wk!View!Board, Wk!View!OpensAnother,
         Wk!View!Collect, Wk!View!Kinds, Wk!View!Record, Wk!View!Known, Wk!View!Line,
         Wk!View!Thinking, Wk!View!NotifySoon
<1>3. [PartsNext]_partVars /\ InWorkView => [Wk!View!Next]_(Wk!View!viewVars)
  BY <1>2, PartNextWorkView DEF pool, Wk!View!viewVars
<1>4. Wk!View!LookedAtAsItIs => Viewing!LookedAtAsItIs
  BY DEF Viewing!LookedAtAsItIs, Viewing!Watching, Viewing!List, Viewing!Listed, Viewing!Known,
         Wk!View!LookedAtAsItIs, Wk!View!Watching, Wk!View!List, Wk!View!Listed, Wk!View!Known
<1>5. Wk!View!Spec => []Wk!View!LookedAtAsItIs
  BY PartsAssumption, Wk!LooksHold DEF Viewing!Nobody, Wk!View!Nobody
<1> QED BY <1>1, <1>3, <1>4, <1>5, PartStays, PTL DEF PartsSpec, Wk!View!Spec

LEMMA ObserversAlone == PartsSpec => [](InObservers => Observing!ObserversHold)
<1>1. PartsInit /\ InObservers => Wk!Obs!Init
  BY DEF PartsInit, Observing!Init, Observing!Asks, Wk!Obs!Init, Wk!Obs!Asks
<1>2. Observing!Next => Wk!Obs!Next
  BY DEF Observing!Next, Observing!StartTurn, Observing!SetState, Observing!Watchers,
         Observing!spans, Observing!Cancel, Observing!hub, Observing!TurnEnds,
         Observing!CallsAreOver, Observing!EndTurn, Observing!Asks, Observing!TurnThrows,
         Observing!Attach, Observing!ToolCall, Observing!Moves, Observing!Shows,
         Observing!ElicitationRequest, Observing!ApprovalRequest, Observing!HearsRequest,
         Observing!LogsRequest, Observing!ApprovalDecision, Observing!HearsDecision,
         Observing!LogsDecision, Observing!ToolResult, Observing!HearsResult, Observing!Heeds,
         Observing!LoadSession, Observing!Replayed, Observing!session, Observing!Dropped,
         Wk!Obs!Next, Wk!Obs!StartTurn, Wk!Obs!SetState, Wk!Obs!Watchers, Wk!Obs!spans,
         Wk!Obs!Cancel, Wk!Obs!hub, Wk!Obs!TurnEnds, Wk!Obs!CallsAreOver, Wk!Obs!EndTurn,
         Wk!Obs!Asks, Wk!Obs!TurnThrows, Wk!Obs!Attach, Wk!Obs!ToolCall, Wk!Obs!Moves, Wk!Obs!Shows,
         Wk!Obs!ElicitationRequest, Wk!Obs!ApprovalRequest, Wk!Obs!HearsRequest, Wk!Obs!LogsRequest,
         Wk!Obs!ApprovalDecision, Wk!Obs!HearsDecision, Wk!Obs!LogsDecision, Wk!Obs!ToolResult,
         Wk!Obs!HearsResult, Wk!Obs!Heeds, Wk!Obs!LoadSession, Wk!Obs!Replayed, Wk!Obs!session,
         Wk!Obs!Dropped, Observing!Waiting, Wk!Obs!Waiting
<1>3. [PartsNext]_partVars /\ InObservers => [Wk!Obs!Next]_(Wk!Obs!obVars)
  BY <1>2, PartNextObservers DEF pool, Wk!Obs!obVars, Wk!Obs!session, Wk!Obs!hub, Wk!Obs!spans
<1>4. Wk!Obs!ObserversHold => Observing!ObserversHold
  BY DEF Observing!ObserversHold, Observing!StateIsTrue, Observing!Watchers, Observing!Waiting,
         Observing!Asks, Observing!SpansEnd, Wk!Obs!ObserversHold, Wk!Obs!StateIsTrue,
         Wk!Obs!Watchers, Wk!Obs!Waiting, Wk!Obs!Asks, Wk!Obs!SpansEnd
<1>5. Wk!Obs!Spec => []Wk!Obs!ObserversHold
  BY PartsAssumption, Wk!WatchersHold
<1> QED BY <1>1, <1>3, <1>4, <1>5, PartStays, PTL DEF PartsSpec, Wk!Obs!Spec

LEMMA HeadlessAlone == PartsSpec => [](InHeadless => Unattended!NoWakeLeftBehind)
<1>1. PartsInit /\ InHeadless => Wk!Hl!Init
  BY DEF PartsInit, Unattended!Init, Unattended!CommandLines, Wk!Hl!Init, Wk!Hl!CommandLines
<1>2. Unattended!Next => Wk!Hl!Next
  BY DEF Unattended!Next, Unattended!EndsAtOnce, Unattended!Prompted, Unattended!wakes,
         Unattended!WorktreeRefused, Unattended!SessionNotFound, Unattended!RunBegins,
         Unattended!OpensRuntime, Unattended!TurnSetsWakes, Unattended!Contains, Unattended!GoesOff,
         Unattended!Listening, Unattended!ListOffered, Unattended!FirstEnds, Unattended!TurnThrows,
         Unattended!WakesLoop, Unattended!NothingLeft, Unattended!WakeEnds, Unattended!WaitEnds,
         Unattended!NothingPending, Unattended!Closes, Unattended!Interrupt, Wk!Hl!Next,
         Wk!Hl!EndsAtOnce, Wk!Hl!Prompted, Wk!Hl!wakes, Wk!Hl!WorktreeRefused,
         Wk!Hl!SessionNotFound, Wk!Hl!RunBegins, Wk!Hl!OpensRuntime, Wk!Hl!TurnSetsWakes,
         Wk!Hl!Contains, Wk!Hl!GoesOff, Wk!Hl!Listening, Wk!Hl!ListOffered, Wk!Hl!FirstEnds,
         Wk!Hl!TurnThrows, Wk!Hl!WakesLoop, Wk!Hl!NothingLeft, Wk!Hl!WakeEnds, Wk!Hl!WaitEnds,
         Wk!Hl!NothingPending, Wk!Hl!Closes, Wk!Hl!Interrupt
<1>3. [PartsNext]_partVars /\ InHeadless => [Wk!Hl!Next]_(Wk!Hl!hlVars)
  BY <1>2, PartNextHeadless DEF pool, Wk!Hl!hlVars
<1>4. Wk!Hl!NoWakeLeftBehind => Unattended!NoWakeLeftBehind
  BY DEF Unattended!NoWakeLeftBehind, Unattended!IsPrefix, Wk!Hl!NoWakeLeftBehind, Wk!Hl!IsPrefix
<1>5. Wk!Hl!Spec => []Wk!Hl!NoWakeLeftBehind
  BY Wk!WakesAreRun
<1> QED BY <1>1, <1>3, <1>4, <1>5, PartStays, PTL DEF PartsSpec, Wk!Hl!Spec

(* A wake of a delegated session runs as a turn once whatever crashes, the    *)
(* table is what the log says, and nothing runs while a list waits            *)
(* (mcp/session.ts, wake/table.ts).                                           *)
THEOREM WakesOfHostsRunOnce == PartsSpec => []WakesRunOnce
BY DelegatedAlone, PTL DEF WakesRunOnce

(* Those about terminals, hooks, plugins, schedules and settings.             *)
Vf == INSTANCE VerificationProofs WITH Terminals <- {t1}, Typings <- {c1, c2},
  Prompts <- {p1, p2}, PersonOnly <- {p1}, MaxUpdates <- 2, MaxPrompts <- 2, proc <- v1,
  prompt <- v2, asked <- v3, updates <- v4, state <- v5, terminals <- v6, call <- v7, left <- v8,
  Sessions <- {m1}, MaxVersions <- 2, UserHooks <- 1, version <- v1, trusted <- v2, writing <- v3,
  session <- v4, event <- v5, hooksAgreed <- v6, hooksRan <- v7, hookOn <- v8, Procs <- {p1, p2},
  Releases <- SomeReleases, MaxRuns <- 3, lock <- v1, consent <- v2, dirs <- v3, run <- v4,
  agreed <- v5, loaded <- v6, runs <- v7, assumed <- v8, Trees <- {"tree"}, Begun <- "tree", Gates <- <<>>,
  TierOf <- [gate \in {} |-> "T1"], Passes <- [gate \in {} |-> {}], Slow <- {}, Edits <- {},
  MaxStopDenials <- 0, MaxSteps <- 0, MaxTurns <- 0, MaxWork <- 0, MaxCalls <- 0,
  MaxElsewhere <- 0, copy <- v1, tree <- v1, changed <- v1, failed <- v1, taken <- v1,
  phase <- v1, calls <- v1, next <- v1, gate <- v1, rows <- v1, denials <- v1, stopped <- v1,
  aborted <- v1, turns <- v1, steps <- v1, worked <- v1, elsewhere <- v1, since <- v1,
  ended <- v1, Pieces <- {}, Whole <- {}, MaxEdits <- 0, work <- v1, index <- v1, head <- v1,
  edits <- v1, list <- v1, undone <- v1, held <- v1, raced <- v1, plan <- v1, Projects <- {"a",
  "b"}, Base <- SameBase, Workflows <- {"w"}, Times <- {1}, Others <- {n1}, platform <- v1,
  table <- v2, lines <- v3, agents <- v4, files <- v5, hook <- v6, due <- v7, touched <- v8,
  crossed <- v9, Writers <- {w1}, Allowed <- {r1}, MaxValue <- 2, Changing <- {"project",
  "local"}, file <- v1, legacy <- v2, doing <- v3, env <- v4, inForce <- v5, wroteOver <- v6,
  clobbered <- v7, mcpOk <- v8

LEMMA TerminalsAlone == PartsSpec => [](InTerminals => Driving!KeysAreNotAnswers)
<1>1. PartsInit /\ InTerminals => Vf!Term!Init
  BY DEF PartsInit, Driving!Init, Driving!Nothing, Driving!Doing, Driving!NoCall, Vf!Term!Init,
         Vf!Term!Nothing, Vf!Term!Doing, Vf!Term!NoCall
<1>2. Driving!Next => Vf!Term!Next
  BY Zenon DEF Driving!Next, Driving!HostLeaves, Driving!Killed, Driving!Nothing, Driving!Start,
         Driving!Stop, Driving!TakesDown, Driving!Tells, Driving!Live, Driving!Doing,
         Driving!TurnEnds, Driving!Leaves, Driving!HearsExit, Driving!Exited, Driving!Hears,
         Driving!Observed, Driving!PutsUp, Driving!Asks, Driving!Makes, Driving!Fresh, Driving!Runs,
         Driving!TypesApart, Driving!PersonWaits, Driving!Typed, Driving!Input, Driving!Refused,
         Driving!Becomes, Driving!ForThePerson, Driving!Types, Driving!AnswerOf, Driving!Sent,
         Driving!Retry, Driving!Wakes, Driving!Settles, Driving!Answers, Driving!AnswersLater,
         Vf!Term!Next, Vf!Term!HostLeaves, Vf!Term!Killed, Vf!Term!Nothing, Vf!Term!Start,
         Vf!Term!Stop, Vf!Term!TakesDown, Vf!Term!Tells, Vf!Term!Live, Vf!Term!Doing,
         Vf!Term!TurnEnds, Vf!Term!Leaves, Vf!Term!HearsExit, Vf!Term!Exited, Vf!Term!Hears,
         Vf!Term!Observed, Vf!Term!PutsUp, Vf!Term!Asks, Vf!Term!Makes, Vf!Term!Fresh, Vf!Term!Runs,
         Vf!Term!TypesApart, Vf!Term!PersonWaits, Vf!Term!Typed, Vf!Term!Input, Vf!Term!Refused,
         Vf!Term!Becomes, Vf!Term!ForThePerson, Vf!Term!Types, Vf!Term!AnswerOf, Vf!Term!Sent,
         Vf!Term!Retry, Vf!Term!Wakes, Vf!Term!Settles, Vf!Term!Answers, Vf!Term!AnswersLater
<1>3. [PartsNext]_partVars /\ InTerminals => [Vf!Term!Next]_(Vf!Term!tmVars)
  BY <1>2, PartNextTerminals DEF pool, Vf!Term!tmVars
<1>4. Vf!Term!KeysAreNotAnswers => Driving!KeysAreNotAnswers
  BY DEF Driving!KeysAreNotAnswers, Driving!Own, Driving!Retry, Driving!Nothing,
         Vf!Term!KeysAreNotAnswers, Vf!Term!Own, Vf!Term!Retry, Vf!Term!Nothing
<1>5. Vf!Term!Spec => []Vf!Term!KeysAreNotAnswers
  BY Vf!KeysHold DEF Vf!NoTree, Vf!Names
<1> QED BY <1>1, <1>3, <1>4, <1>5, PartStays, PTL DEF PartsSpec, Vf!Term!Spec

LEMMA HooksAlone == PartsSpec => [](InHooks => Hooking!HooksHold)
<1>1. PartsInit /\ InHooks => Vf!Hook!Init
  BY DEF PartsInit, Hooking!Init, Hooking!Writers, Hooking!NotWriting, Hooking!Closed,
         Hooking!NoEvent, Hooking!NoVerdict, Vf!Hook!Init, Vf!Hook!Writers, Vf!Hook!NotWriting,
         Vf!Hook!Closed, Vf!Hook!NoEvent, Vf!Hook!NoVerdict
<1>2. Hooking!Next => Vf!Hook!Next
  BY Zenon DEF Hooking!Next, Hooking!Changes, Hooking!Switches, Hooking!Subscribed, Hooking!CliAgrees, Hooking!ReadsTrust,
         Hooking!ElsewhereAgrees, Hooking!Opens, Hooking!IsTrusted, Hooking!Users, Hooking!Closes,
         Hooking!Closed, Hooking!Agrees, Hooking!TrustsHere, Hooking!WritesTrust,
         Hooking!NotWriting, Hooking!Emits, Hooking!NoEvent, Hooking!NoVerdict, Hooking!Collected,
         Hooking!Done, Hooking!WrittenOutside, Hooking!Outcomes, Hooking!RunsHook, Hooking!Merges,
         Hooking!Stronger, Hooking!Order, Vf!Hook!Next, Vf!Hook!Changes, Vf!Hook!Switches, Vf!Hook!Subscribed, Vf!Hook!CliAgrees,
         Vf!Hook!ReadsTrust, Vf!Hook!ElsewhereAgrees, Vf!Hook!Opens, Vf!Hook!IsTrusted,
         Vf!Hook!Users, Vf!Hook!Closes, Vf!Hook!Closed, Vf!Hook!Agrees, Vf!Hook!TrustsHere,
         Vf!Hook!WritesTrust, Vf!Hook!NotWriting, Vf!Hook!Emits, Vf!Hook!NoEvent, Vf!Hook!NoVerdict,
         Vf!Hook!Collected, Vf!Hook!Done, Vf!Hook!WrittenOutside, Vf!Hook!Outcomes,
         Vf!Hook!RunsHook, Vf!Hook!Merges, Vf!Hook!Stronger, Vf!Hook!Order
<1>3. [PartsNext]_partVars /\ InHooks => [Vf!Hook!Next]_(Vf!Hook!hkVars)
  BY <1>2, PartNextHooks DEF pool, Vf!Hook!hkVars
<1>4. Vf!Hook!HooksHold => Hooking!HooksHold
  BY DEF Hooking!HooksHold, Hooking!RanAsAgreed, Hooking!VerdictHolds, Hooking!StrongestOf,
         Hooking!Says, Hooking!OfFirst, Vf!Hook!HooksHold, Vf!Hook!RanAsAgreed,
         Vf!Hook!VerdictHolds, Vf!Hook!StrongestOf, Vf!Hook!Says, Vf!Hook!OfFirst
<1>5. Vf!Hook!OnlySessions
  BY PartsAssumption DEF Hooking!OnlySessions, Vf!Hook!OnlySessions
<1>6. Vf!Hook!Spec => []Vf!Hook!HooksHold
  BY <1>5, Vf!HooksRunAsAgreed DEF Vf!NoTree, Vf!Names
<1> QED BY <1>1, <1>3, <1>4, <1>6, PartStays, PTL DEF PartsSpec, Vf!Hook!Spec

LEMMA PluginsAlone == PartsSpec => [](InPlugins => Installing!LoadsAgreed)
<1>1. PartsInit /\ InPlugins => Vf!Plug!Init
  BY DEF PartsInit, Installing!Init, Installing!Scopes, Installing!Nothing, Installing!Versions,
         Installing!Idle, Vf!Plug!Init, Vf!Plug!Scopes, Vf!Plug!Nothing, Vf!Plug!Versions,
         Vf!Plug!Idle
<1>2. Installing!Next => Vf!Plug!Next
  BY Zenon DEF Installing!Next, Installing!Scopes, Installing!Fetches, Installing!Begins, Installing!At,
         Installing!Step, Installing!Assumed, Installing!OfOthers, Installing!ReadsConsents,
         Installing!Committed, Installing!Widened, Installing!Nothing, Installing!ReadLock,
         Installing!Newer, Installing!SetEnabled, Installing!Found, Installing!Matches,
         Installing!Idle, Installing!Entry, Installing!Agrees, Installing!Goes, Installing!Declines,
         Installing!Clears, Installing!Partly, Installing!Copies, Installing!Alone,
         Installing!Hashes, Installing!Records, Installing!RecordConsent, Installing!RemovesOld,
         Installing!Removes, Installing!WritesLock, Installing!RemovesEntry,
         Installing!ForgetsConsent, Installing!Deletes, Installing!SessionStarts,
         Installing!VerifyReads, Installing!Spoiled, Installing!Onward, Installing!After,
         Installing!TurnsOff, Installing!Loads, Installing!Enabled, Installing!Killed,
         Installing!Upgraded, Vf!Plug!Next, Vf!Plug!Scopes, Vf!Plug!Fetches, Vf!Plug!Begins,
         Vf!Plug!At, Vf!Plug!Step, Vf!Plug!Assumed, Vf!Plug!OfOthers, Vf!Plug!ReadsConsents,
         Vf!Plug!Committed, Vf!Plug!Widened, Vf!Plug!Nothing, Vf!Plug!ReadLock,
         Vf!Plug!Newer, Vf!Plug!SetEnabled, Vf!Plug!Found, Vf!Plug!Matches, Vf!Plug!Idle,
         Vf!Plug!Entry, Vf!Plug!Agrees, Vf!Plug!Goes, Vf!Plug!Declines, Vf!Plug!Clears,
         Vf!Plug!Partly, Vf!Plug!Copies, Vf!Plug!Alone, Vf!Plug!Hashes, Vf!Plug!Records,
         Vf!Plug!RecordConsent, Vf!Plug!RemovesOld, Vf!Plug!Removes, Vf!Plug!WritesLock,
         Vf!Plug!RemovesEntry, Vf!Plug!ForgetsConsent, Vf!Plug!Deletes, Vf!Plug!SessionStarts,
         Vf!Plug!VerifyReads, Vf!Plug!Spoiled, Vf!Plug!Onward, Vf!Plug!After, Vf!Plug!TurnsOff,
         Vf!Plug!Loads, Vf!Plug!Enabled, Vf!Plug!Killed, Vf!Plug!Upgraded
<1>3. [PartsNext]_partVars /\ InPlugins => [Vf!Plug!Next]_(Vf!Plug!plVars)
  BY <1>2, PartNextPlugins DEF pool, Vf!Plug!plVars
<1>4. Vf!Plug!LoadsAgreed => Installing!LoadsAgreed
  BY DEF Installing!LoadsAgreed, Installing!Nothing, Vf!Plug!LoadsAgreed, Vf!Plug!Nothing
<1>5. Vf!Plug!Spec => []Vf!Plug!LoadsAgreed
  BY Vf!LoadsHold DEF Vf!NoTree, Vf!Names
<1> QED BY <1>1, <1>3, <1>4, <1>5, PartStays, PTL DEF PartsSpec, Vf!Plug!Spec

LEMMA SchedulesAlone == PartsSpec => [](InSchedules => Scheduling!SchedulesAsSet)
<1>1. PartsInit /\ InSchedules => Vf!Sch!Init
  BY DEF PartsInit, Scheduling!Init, Scheduling!Idle, Vf!Sch!Init, Vf!Sch!Idle
<1>2. Scheduling!Next => Vf!Sch!Next
  BY DEF Scheduling!Next, Scheduling!Entries, Scheduling!Schedule, Scheduling!Reads,
         Scheduling!Idle, Scheduling!others, Scheduling!Writes, Scheduling!EditCrontab,
         Scheduling!Is, Scheduling!Asked, Scheduling!Crosses, Scheduling!Changed, Scheduling!Drops,
         Scheduling!UserEdits, Scheduling!Registers, Scheduling!LeavesRunning, Scheduling!SameFile, Scheduling!LabelOf,
         Scheduling!Label, Scheduling!Unregisters, Scheduling!InstallGitHook,
         Scheduling!RemoveGitHook, Vf!Sch!Next, Vf!Sch!Entries, Vf!Sch!Schedule, Vf!Sch!Reads,
         Vf!Sch!Idle, Vf!Sch!others, Vf!Sch!Writes, Vf!Sch!EditCrontab, Vf!Sch!Is, Vf!Sch!Asked,
         Vf!Sch!Crosses, Vf!Sch!Changed, Vf!Sch!Drops, Vf!Sch!UserEdits, Vf!Sch!Registers,
         Vf!Sch!LeavesRunning, Vf!Sch!SameFile, Vf!Sch!LabelOf, Vf!Sch!Label, Vf!Sch!Unregisters, Vf!Sch!InstallGitHook,
         Vf!Sch!RemoveGitHook
<1>3. [PartsNext]_partVars /\ InSchedules => [Vf!Sch!Next]_(Vf!Sch!scVars)
  BY <1>2, PartNextSchedules DEF pool, Vf!Sch!scVars
<1>4. Vf!Sch!SchedulesAsSet => Scheduling!SchedulesAsSet
  BY DEF Scheduling!SchedulesAsSet, Scheduling!OnlyWhatWasSetRuns, Vf!Sch!SchedulesAsSet,
         Vf!Sch!OnlyWhatWasSetRuns, Scheduling!SchedulesStay, Scheduling!Listed, Scheduling!Alone, Vf!Sch!SchedulesStay,
         Vf!Sch!Listed, Vf!Sch!Alone
<1>5. Vf!Sch!LinesApart
  BY PartsAssumption DEF Scheduling!LinesApart, Scheduling!Entries, Vf!Sch!LinesApart, Vf!Sch!Entries
<1>6. Vf!Sch!Spec => []Vf!Sch!SchedulesAsSet
  BY <1>5, Vf!SchedulesHold DEF Vf!NoTree, Vf!Names
<1> QED BY <1>1, <1>3, <1>4, <1>6, PartStays, PTL DEF PartsSpec, Vf!Sch!Spec

LEMMA ConfigAlone == PartsSpec => [](InConfig => Settings!ConfigHolds)
<1>1. PartsInit /\ InConfig => Vf!Conf!Init
  BY DEF PartsInit, Settings!Init, Settings!Files, Settings!Scopes, Settings!Empty, Settings!Idle,
         Vf!Conf!Init, Vf!Conf!Files, Vf!Conf!Scopes, Vf!Conf!Empty, Vf!Conf!Idle
<1>2. Settings!Next => Vf!Conf!Next
  BY Zenon DEF Settings!Next, Settings!Sets, Settings!Reads, Settings!Readable, Settings!files,
         Settings!Unsets, Settings!Grants, Settings!TakesBack, Settings!Writes, Settings!Put,
         Settings!Held, Settings!Files, Settings!Scopes, Settings!Idle, Settings!Empty,
         Settings!Migrates, Settings!MigratesConfig, Settings!ClearsLegacy, Settings!Cleared,
         Settings!Dies, Settings!Breaks, Settings!Mends, Settings!OfMcp, Settings!ReadsMcp,
         Settings!WritesMcp, Settings!BreaksMcp, Settings!MendsMcp, Vf!Conf!OfMcp, Vf!Conf!ReadsMcp,
         Vf!Conf!WritesMcp, Vf!Conf!BreaksMcp, Vf!Conf!MendsMcp, Vf!Conf!Next, Vf!Conf!Sets, Vf!Conf!Reads,
         Vf!Conf!Readable, Vf!Conf!files, Vf!Conf!Unsets, Vf!Conf!Grants, Vf!Conf!TakesBack,
         Vf!Conf!Writes, Vf!Conf!Put, Vf!Conf!Held, Vf!Conf!Files, Vf!Conf!Scopes, Vf!Conf!Idle,
         Vf!Conf!Empty, Vf!Conf!Migrates, Vf!Conf!MigratesConfig, Vf!Conf!ClearsLegacy,
         Vf!Conf!Cleared, Vf!Conf!Dies, Vf!Conf!Breaks, Vf!Conf!Mends
<1>3. [PartsNext]_partVars /\ InConfig => [Vf!Conf!Next]_(Vf!Conf!cfVars)
  BY <1>2, PartNextConfig DEF pool, Vf!Conf!cfVars
<1>4. Vf!Conf!ConfigHolds => Settings!ConfigHolds
  BY Zenon DEF Settings!OfMcp, Settings!OnlyMcpClobbered, Vf!Conf!OfMcp, Vf!Conf!OnlyMcpClobbered,
         Settings!ConfigHolds, Settings!RulesStayInForce, Settings!Held, Settings!Files,
         Settings!Scopes, Settings!LoadedByLayer, Settings!Setting, Settings!Layer, Settings!Empty,
         Settings!LoadConfig, Settings!Load, Settings!MergeLayer, Settings!NameOf,
         Vf!Conf!ConfigHolds, Vf!Conf!RulesStayInForce, Vf!Conf!Held, Vf!Conf!Files, Vf!Conf!Scopes,
         Vf!Conf!LoadedByLayer, Vf!Conf!Setting, Vf!Conf!Layer, Vf!Conf!Empty, Vf!Conf!LoadConfig,
         Vf!Conf!Load, Vf!Conf!MergeLayer, Vf!Conf!NameOf
<1>5. {"user", "project", "local"} \subseteq Vf!Conf!Files
  BY PartsAssumption DEF Settings!Files, Settings!Scopes, Vf!Conf!Files, Vf!Conf!Scopes
<1>6. Vf!Conf!Spec => []Vf!Conf!ConfigHolds
  BY <1>5, Vf!ConfigAlwaysHolds DEF Vf!NoTree, Vf!Names
<1> QED BY <1>1, <1>3, <1>4, <1>6, PartStays, PTL DEF PartsSpec, Vf!Conf!Spec

(* Who watches sees what is so: the state the observers are told, the view of *)
(* a child, and the prompt that typed keys answer (observer.ts, App.tsx       *)
(* AgentViewer, terminal.ts).                                                 *)
THEOREM WatchersSeeWhatIs == PartsSpec => []WatchedAsItIs
BY ObserversAlone, WorkViewAlone, TerminalsAlone, PTL DEF WatchedAsItIs

(* What is in force is what was agreed to or set: hooks of agreed texts,      *)
(* plugins within what was agreed or taken for agreed, the setting of the     *)
(* highest layer, schedules that were set; and a rule and a schedule put in   *)
(* force stay, but for the edits, files and failures their modules name       *)
(* (core/hooks, core/plugins, core/config, core/workflows).                   *)
THEOREM AgreedAlways == PartsSpec => []OnlyWhatWasAgreed
BY HooksAlone, ConfigAlone, PluginsAlone, SchedulesAlone, PTL DEF OnlyWhatWasAgreed

(* Those about the runtime.                                                   *)
Pr == INSTANCE ProviderProofs WITH Models <- {m1, n1}, Unconfigured <- {n1}, Small <- {m1},
  Modes <- {"default", "plan"}, MaxSwitches <- 1, MaxSteps <- 1, phase <- v1, choice <- v2,
  info <- v3, asked <- v4, awaited <- v5, restore <- v6, chosen <- v7, mode <- v8, before <- v9,
  narrowed <- v10, offer <- v11, loaded <- v12, tools <- v13, agent <- v14, turn <- v15,
  written <- v16, since <- v17, disturbed <- v18,
  Requests <- {}, Streaming <- {}, Dialects <- {}, Features <- {}, MaxAttempts <- 1,
  NoReason <- 1, Index <- {}, MaxEvents <- 0, dialect <- v1, refuses <- v1, dropped <- v1,
  aborted <- v1, at <- v1, body <- v1, attempt <- v1, second <- v1, answer <- v1, reads <- v1, events <- v1,
  blocks <- v1, calls <- v1, ends <- v1, span <- v1, Sessions <- {}, MaxSpent <- 0, stage <- v1,
  opened <- v1, spent <- v1, log <- v1, writing <- v1, raced <- v1, file <- v1, note <- v1

LEMMA RuntimeAlone == PartsSpec => [](InRuntime => Turning!SettlesBack /\ Turning!SizedForItsModel /\ Turning!ReasoningHoldsBetweenTurns)
<1>1. PartsInit /\ InRuntime => Pr!Run!Init
  BY DEF PartsInit, Turning!Init, Turning!None, Turning!Lookup, Turning!Assembled, Turning!Offered,
         Turning!Held, Turning!Built, Pr!Run!Init, Pr!Run!None, Pr!Run!Lookup, Pr!Run!Assembled,
         Pr!Run!Offered, Pr!Run!Held, Pr!Run!Built
<1>2. Turning!Next => Pr!Run!Next
  BY Zenon DEF Turning!Next, Turning!SetModel, Turning!Configured, Turning!SwitchTo, Turning!Lookup,
         Turning!None, Turning!Reassemble, Turning!Assembled, Turning!Offered, Turning!Held,
         Turning!Built, Turning!Answered, Turning!Taken, Turning!BuildAgent, Turning!SwitchMode,
         Turning!ExitPlanMode, Turning!Run, Turning!NoSwitch, Turning!Ready, Turning!Finally,
         Turning!LetGo, Turning!Begin, Turning!End, Turning!Step, Turning!Load,
         Turning!SkillNarrows, Turning!Elide, Turning!Compact, Turning!Compacted, Pr!Run!Next,
         Pr!Run!SetModel, Pr!Run!Configured, Pr!Run!SwitchTo, Pr!Run!Lookup, Pr!Run!None,
         Pr!Run!Reassemble, Pr!Run!Assembled, Pr!Run!Offered, Pr!Run!Held, Pr!Run!Built,
         Pr!Run!Answered, Pr!Run!Taken, Pr!Run!BuildAgent, Pr!Run!SwitchMode, Pr!Run!ExitPlanMode,
         Pr!Run!Run, Pr!Run!NoSwitch, Pr!Run!Ready, Pr!Run!Finally, Pr!Run!LetGo, Pr!Run!Begin,
         Pr!Run!End, Pr!Run!Step, Pr!Run!Load, Pr!Run!SkillNarrows, Pr!Run!Elide, Pr!Run!Compact,
         Pr!Run!Compacted
<1>3. [PartsNext]_partVars /\ InRuntime => [Pr!Run!Next]_(Pr!Run!vars)
  BY <1>2, PartNextRuntime DEF pool, Pr!Run!vars
<1>4. Pr!Run!SettlesBack /\ Pr!Run!SizedForItsModel /\ Pr!Run!ReasoningHoldsBetweenTurns => Turning!SettlesBack /\ Turning!SizedForItsModel /\ Turning!ReasoningHoldsBetweenTurns
  BY DEF Turning!SettlesBack, Turning!Assembled, Turning!Offered, Turning!Held, Turning!Built,
         Turning!SizedForItsModel, Turning!None, Turning!ReasoningHoldsBetweenTurns,
         Turning!ReasoningHolds, Pr!Run!SettlesBack, Pr!Run!Assembled, Pr!Run!Offered, Pr!Run!Held,
         Pr!Run!Built, Pr!Run!SizedForItsModel, Pr!Run!None, Pr!Run!ReasoningHoldsBetweenTurns,
         Pr!Run!ReasoningHolds
<1>5. Pr!Run!Spec => [](Pr!Run!SettlesBack /\ Pr!Run!SizedForItsModel /\ Pr!Run!ReasoningHoldsBetweenTurns)
  BY Pr!SettlesAlways
<1> QED BY <1>1, <1>3, <1>4, <1>5, PartStays, PTL DEF PartsSpec, Pr!Run!Spec

(* A turn with a model or tools of its own leaves the session's as they were, *)
(* the window is the model's, and reasoning is replayed to who wrote it       *)
(* (core/runtime/index.ts run, switchModel, reassemble).                      *)
THEOREM SettlesBackAlways == PartsSpec => []SettlesBack
BY RuntimeAlone, PTL DEF SettlesBack

(* Those about an editor, the terminal's commands and the prompts on screen.  *)
Wf == INSTANCE WorkflowProofs WITH Texts <- {t1}, Listing <- {n1}, Choosers <- {m1},
  Sends <- {m2}, Exits <- {r1}, Wakes <- {w1}, Lists <- {l1}, Asks <- {a1, a2}, came <- v1,
  lane <- v2, current <- v3, turns <- v4, sends <- v5, work <- v6, pending <- v7, lists <- v8,
  registered <- v9, ask <- v10, before <- v11, behind <- v12, asking <- v13, askedBy <- v14,
  Messages <- {m1, m2}, MaxSessions <- 2, shown <- v1, alive <- v2, started <- v3, doing <- v4,
  held <- v5, queue <- v6, fate <- v7, overlay <- v8, opening <- v9, restoring <- v10,
  did <- v11, Calls <- {m1, m2, n1}, Nested <- {n1}, Requests <- {r1, r2}, place <- v1,
  turning <- v2, stopped <- v3, leaving <- v4, decisions <- v5, rows <- v6, prompts <- v7,
  order <- v14, seen <- v8, escapes <- v9, refused <- v10, denied <- v11, requested <- v12,
  listed <- v13,
  N <- 1, Limit <- 1, Flows <- {}, MaxAnswers <- 0, Features <- 0, flow <- v1, log <- v1,
  answers <- v1, over <- v1, word <- v1, at <- v1, next <- v1, memory <- v1, running <- v1,
  woken <- v1, aborted <- v1, killed <- v1, Stamps <- {}, MaxSaid <- 0, stage <- v1, how <- v1,
  agent <- v1, said <- v1, heard <- v1, outcome <- v1, cut <- v1, asked <- v1, id <- v1,
  kept <- v1, output <- v1, given <- v1

LEMMA EditorApart == Wf!Acp!KindsApart
BY PartsAssumption DEF Editor!KindsApart, Editor!Nothing, Editor!Prompts, Wf!Acp!KindsApart, Wf!Acp!Nothing, Wf!Acp!Prompts

LEMMA EditorIs == PartsSpec => \/ []InEditor /\ Wf!Acp!Spec
                          \/ []~InEditor
<1>1. PartsInit /\ InEditor => Wf!Acp!Init
  BY DEF PartsInit, Editor!Init, Editor!Nothing, Editor!Prompts, Wf!Acp!Init, Wf!Acp!Nothing,
         Wf!Acp!Prompts
<1>2. Editor!Next => Wf!Acp!Next
  BY Zenon DEF Editor!Next, Editor!Arrives, Editor!Prompts, Editor!host, Editor!editor, Editor!Begin,
         Editor!Busy, Editor!Nothing, Editor!Commands, Editor!SentTurn, Editor!ListRead,
         Editor!Chosen, Editor!Ends, Editor!Settled, Editor!TurnEnds, Editor!AskArrives,
         Editor!EditorAnswers, Editor!LooksAgain, Editor!SettledMeanwhile, Wf!Acp!Next,
         Wf!Acp!Arrives, Wf!Acp!Prompts, Wf!Acp!host, Wf!Acp!editor, Wf!Acp!Begin, Wf!Acp!Busy,
         Wf!Acp!Nothing, Wf!Acp!Commands, Wf!Acp!SentTurn, Wf!Acp!ListRead, Wf!Acp!Chosen,
         Wf!Acp!Ends, Wf!Acp!Settled, Wf!Acp!TurnEnds, Wf!Acp!AskArrives, Wf!Acp!EditorAnswers,
         Wf!Acp!LooksAgain, Wf!Acp!SettledMeanwhile
<1>3. [PartsNext]_partVars /\ InEditor => [Wf!Acp!Next]_(Wf!Acp!vars)
  BY <1>2, PartNextEditor DEF pool, Wf!Acp!vars, Wf!Acp!host, Wf!Acp!editor
<1> QED BY <1>1, <1>3, PartStays, PTL DEF PartsSpec, Wf!Acp!Spec

LEMMA EditorAlone == PartsSpec => [](InEditor => Editor!OneAtATime)
<1>1. Wf!Acp!OneAtATime => Editor!OneAtATime
  BY DEF Editor!OneAtATime, Editor!Nothing, Wf!Acp!OneAtATime, Wf!Acp!Nothing
<1>2. Wf!Acp!Spec => []Wf!Acp!OneAtATime
  BY EditorApart, Wf!LaneHolds
<1> QED BY <1>1, <1>2, EditorIs, PTL

LEMMA CommandsCount == \A S : Commanding!Cardinality(S) = Wf!Com!Cardinality(S)
BY DEF Commanding!Cardinality, Wf!Com!Cardinality

LEMMA CommandsAlone == PartsSpec => [](InCommands => Commanding!ChangesBetweenTurns)
<1>1. PartsInit /\ InCommands => Wf!Com!Init
  BY CommandsCount DEF PartsInit, Commanding!Init, Commanding!Sessions, Wf!Com!Init, Wf!Com!Sessions
<1>2. Commanding!Next => Wf!Com!Next
  BY Zenon, CommandsCount DEF Commanding!Next, Commanding!Send, Commanding!Submits, Commanding!Running, Commanding!Busy,
         Commanding!TurnEnds, Commanding!Sessions, Commanding!SendsNext, Commanding!StopTurn,
         Commanding!TakeBack, Commanding!Compact, Commanding!Changed, Commanding!CompactionEnds,
         Commanding!Typed, Commanding!Does, Commanding!Model, Commanding!WaitForTurn,
         Commanding!Sets, Commanding!Effort, Commanding!Setup, Commanding!SessionRules,
         Commanding!Rename, Commanding!Color, Commanding!Flag, Commanding!Wake, Commanding!Note,
         Commanding!Clear, Commanding!Opens, Commanding!Resume, Commanding!Fork, Commanding!Profile,
         Commanding!Config, Commanding!Mcp, Commanding!Agents, Commanding!Restore,
         Commanding!PutsBack, Commanding!Act, Commanding!Commit, Commanding!Pr, Commanding!Context,
         Commanding!Listed, Commanding!Chosen, Commanding!Opened, Commanding!PutBack, Wf!Com!Next,
         Wf!Com!Send, Wf!Com!Submits, Wf!Com!Running, Wf!Com!Busy, Wf!Com!TurnEnds, Wf!Com!Sessions,
         Wf!Com!SendsNext, Wf!Com!StopTurn, Wf!Com!TakeBack, Wf!Com!Compact, Wf!Com!Changed,
         Wf!Com!CompactionEnds, Wf!Com!Typed, Wf!Com!Does, Wf!Com!Model, Wf!Com!WaitForTurn,
         Wf!Com!Sets, Wf!Com!Effort, Wf!Com!Setup, Wf!Com!SessionRules, Wf!Com!Rename, Wf!Com!Color,
         Wf!Com!Flag, Wf!Com!Wake, Wf!Com!Note, Wf!Com!Clear, Wf!Com!Opens, Wf!Com!Resume,
         Wf!Com!Fork, Wf!Com!Profile, Wf!Com!Config, Wf!Com!Mcp, Wf!Com!Agents, Wf!Com!Restore,
         Wf!Com!PutsBack, Wf!Com!Act, Wf!Com!Commit, Wf!Com!Pr, Wf!Com!Context, Wf!Com!Listed,
         Wf!Com!Chosen, Wf!Com!Opened, Wf!Com!PutBack
<1>3. [PartsNext]_partVars /\ InCommands => [Wf!Com!Next]_(Wf!Com!comVars)
  BY <1>2, PartNextCommands DEF pool, Wf!Com!comVars
<1>4. Wf!Com!ChangesBetweenTurns => Commanding!ChangesBetweenTurns
  BY CommandsCount DEF Commanding!ChangesBetweenTurns, Wf!Com!ChangesBetweenTurns
<1>5. Wf!Com!Spec => []Wf!Com!ChangesBetweenTurns
  BY Wf!ChangesAreBetweenTurns
<1> QED BY <1>1, <1>3, <1>4, <1>5, PartStays, PTL DEF PartsSpec, Wf!Com!Spec

LEMMA PromptsAlone == PartsSpec => [](InPrompts => Prompting!PromptsAgree /\ Prompting!NoIsOfItsPrompt)
<1>1. PartsInit /\ InPrompts => Wf!Ui!Init
  BY DEF PartsInit, Prompting!Init, Prompting!Nobody, Wf!Ui!Init, Wf!Ui!Nobody
<1>2. Prompting!Next => Wf!Ui!Next
  BY Zenon DEF Prompting!Next, Prompting!TurnStarts, Prompting!view, Prompting!input, Prompting!TurnEnds,
         Prompting!StopTurn, Prompting!Answer, Prompting!CallMade, Prompting!Live, Prompting!Asked, Prompting!Result,
         Prompting!CutOff, Prompting!Settled, Prompting!Decided, Prompting!Press, Prompting!Oldest, Prompting!Min,
         Prompting!Escape, Prompting!EscapeAnswers, Prompting!About, Prompting!Render, Prompting!Elicit,
         Prompting!Respond, Prompting!Nobody, Prompting!SwitchSession, Prompting!Closed, Wf!Ui!Next,
         Wf!Ui!TurnStarts, Wf!Ui!view, Wf!Ui!input, Wf!Ui!TurnEnds, Wf!Ui!StopTurn, Wf!Ui!Answer,
         Wf!Ui!CallMade, Wf!Ui!Live, Wf!Ui!Asked, Wf!Ui!Result, Wf!Ui!CutOff, Wf!Ui!Settled,
         Wf!Ui!Decided, Wf!Ui!Press, Wf!Ui!Oldest, Wf!Ui!Min, Wf!Ui!Escape, Wf!Ui!EscapeAnswers,
         Wf!Ui!About, Wf!Ui!Render, Wf!Ui!Elicit, Wf!Ui!Respond, Wf!Ui!Nobody, Wf!Ui!SwitchSession,
         Wf!Ui!Closed
<1>3. [PartsNext]_partVars /\ InPrompts => [Wf!Ui!Next]_(Wf!Ui!vars)
  BY <1>2, PartNextPrompts DEF pool, Wf!Ui!vars, Wf!Ui!view, Wf!Ui!input
<1>4. Wf!Ui!PromptsAgree /\ Wf!Ui!NoIsOfItsPrompt => Prompting!PromptsAgree /\ Prompting!NoIsOfItsPrompt
  BY DEF Prompting!PromptsAgree, Prompting!NoIsOfItsPrompt, Wf!Ui!PromptsAgree, Wf!Ui!NoIsOfItsPrompt
<1>5. Wf!Ui!Spec => [](Wf!Ui!PromptsAgree /\ Wf!Ui!NoIsOfItsPrompt)
  BY Wf!ScreenAgrees
<1> QED BY <1>1, <1>3, <1>4, <1>5, PartStays, PTL DEF PartsSpec, Wf!Ui!Spec

(* One turn at a time: of an editor's prompts and wakes, of the terminal's    *)
(* messages and commands, and of a run without anybody there, which leaves no *)
(* wake behind (acp/server.ts, controller.ts, cli/run.ts).                    *)
THEOREM TurnsOneAtATime == PartsSpec => []OneAtATime
BY EditorAlone, CommandsAlone, HeadlessAlone, PTL DEF OneAtATime

(* The prompt on screen is the one a key answers and the call it names, and   *)
(* an editor is asked each question once (tui/state/view.ts, acp/server.ts).  *)
THEOREM PromptsAlwaysAnswered == PartsSpec => PromptsAreAnswered
<1>1. [PartsNext]_partVars /\ [Wf!Acp!AsksOnce]_(Wf!Acp!vars) => [InEditor => Editor!AsksOnce]_partVars
  <2>1. [PartsNext]_partVars /\ InEditor /\ UNCHANGED Wf!Acp!vars => UNCHANGED partVars
    BY DEF PartsNext, Rests, Alone14, partVars, pool, Wf!Acp!vars, Wf!Acp!host, Wf!Acp!editor,
           InComposer, InPrompts, InEditor, InCommands, InHeadless, InObservers, InWorkView,
           InTerminals, InDelegated, InRuntime, InServers, InDelegates, InCatalog, InWire, InWeb,
           InSchedules, InSessions, InLifetime, InFiles, InReview, InWorktrees, InTodos, InShell,
           InHooks, InConfig, InPlugins
  <2>2. Wf!Acp!AsksOnce => Editor!AsksOnce
    BY DEF Editor!AsksOnce, Wf!Acp!AsksOnce
  <2> QED BY <2>1, <2>2
<1>2. Wf!Acp!Spec => [][Wf!Acp!AsksOnce]_(Wf!Acp!vars)
  BY EditorApart, Wf!AsksHold
<1> QED BY <1>1, <1>2, EditorIs, PromptsAlone, PTL DEF PartsSpec, PromptsAreAnswered
=============================================================================
