------------------------------- MODULE Catalog ------------------------------
(* What is known of a model (core/catalog), and the requests sized and worded *)
(* by it.  A fact comes from the first source that knows it: configuration,   *)
(* what the provider said within a day, the models.dev directory as last      *)
(* read, and the bundled table.  The provider and the directory are asked     *)
(* within a time limit when a session opens on a model or switches to it; the *)
(* answers are kept in files all sessions share.                              *)
(*                                                                            *)
(* One model of one provider, which may or may not be Ollama.  A source says  *)
(* the truth of what it knows, or nothing; what the model takes is what the   *)
(* API's documentation says, as the code's comments quote it, and does not    *)
(* change: of an old answer only its age is told.                             *)
EXTENDS Integers, Sequences, SequencesExt, FiniteSets

CONSTANTS
  Sessions,
  Models,      \* what models take: style, always, effort, thinks and maxOutput
  Configured,  \* the output tokens configuration may ask for, 0 for none
  Day, Hour,   \* how long an answer of a provider, and the directory, are good for
  MaxTime,     \* a bound on the clock
  MaxTurns     \* a bound on how often a session turns to the model, all told

VARIABLES
  family, truth,  \* the provider's family, and what the model takes
  says,           \* the sources that know the model, when they can be read
  configured,     \* the output tokens configuration asks for
  now,
  cached,         \* when the provider's answer was kept, if it was
  given,          \* when that answer was given, which the file does not say
  dirFile,        \* when the directory's copy was read, if there is one
  loaded,         \* the same of the copy a session has read
  dirFailed,      \* whether the session's refresh failed
  asking, refreshing,  \* what the session waits for
  shown,          \* what Ollama showed of the model, asked once by a session
  known,          \* where each fact the session counts on comes from
  age,            \* how old what the session counts on was as it turned to the model
  opened, turns   \* the sessions that turned to it, and how often they did

caVars == <<family, truth, says, configured, now, cached, given, dirFile, loaded, dirFailed,
            asking, refreshing, shown, known, age, opened, turns>>
model == <<family, truth, says, configured>>
files == <<cached, given, dirFile>>
counted == <<known, age, opened, turns>>

Sources == <<"config", "provider", "directory", "bundled">>
Names == {"style", "always", "effort", "thinks", "maxOutput"}
(* What each tells: anthropicFacts and openAICompatFacts nothing of always,   *)
(* the directory nothing of style, ollamaFacts only whether the model thinks. *)
Tells(source) ==
  CASE source = "provider"  -> IF family = "ollama" THEN {"thinks"} ELSE Names \ {"always"}
    [] source = "directory" -> Names \ {"style"}
    [] OTHER -> Names
Never == -1
(* Sizes and budgets are counts of tokens, and times are counts.              *)
AreNumbers ==
  /\ Configured \subseteq Nat /\ \A m \in Models : m.maxOutput \in Nat
  /\ Day \in Nat \ {0} /\ Hour \in Nat \ {0}

-----------------------------------------------------------------------------
(* Reading what there is.                                                     *)
Good(at, ttl) == at # Never /\ now - at < ttl

(* ModelDirectory.read: a copy once read is kept.  Ollama has none.           *)
Read(s) == IF loaded[s] # Never THEN loaded[s] ELSE dirFile
DirectoryKnows(s) == family # "ollama" /\ "directory" \in says /\ Read(s) # Never

(* combine: each fact from the first source that knows it.                    *)
Combine(s, reported) ==
  LET knows == ({"config", "bundled"} \cap says)
                 \cup (IF reported THEN {"provider"} ELSE {})
                 \cup (IF DirectoryKnows(s) THEN {"directory"} ELSE {})
  IN [n \in Names |->
        LET at == SelectInSeq(Sources, LAMBDA src : src \in knows /\ n \in Tells(src))
        IN IF at = 0 THEN "none" ELSE Sources[at]]

(* ModelDirectory.stale.                                                      *)
Stale(s) == ~dirFailed[s] /\ ~Good(Read(s), Hour)

Init ==
  /\ family \in {"anthropic", "ollama"} /\ truth \in Models
  /\ says \in SUBSET {"config", "provider", "directory", "bundled"}
  /\ configured \in Configured
  /\ now = 0 /\ cached = Never /\ given = Never /\ dirFile = Never
  /\ loaded = [s \in Sessions |-> Never] /\ dirFailed = [s \in Sessions |-> FALSE]
  /\ asking = [s \in Sessions |-> "idle"] /\ refreshing = [s \in Sessions |-> "idle"]
  /\ shown = [s \in Sessions |-> "unasked"]
  /\ known = [s \in Sessions |-> [n \in Names |-> "none"]]
  /\ age = [s \in Sessions |-> [provider |-> 0, directory |-> 0]]
  /\ opened = {} /\ turns = 0

(* METADATA_TIMEOUT_MS: a wait is of seconds, and the clock is of hours.      *)
Idle(s) == asking[s] = "idle" /\ refreshing[s] = "idle"
Tick == now < MaxTime /\ (\A s \in Sessions : Idle(s)) /\ now' = now + 1
        /\ UNCHANGED <<model, files, loaded, dirFailed, asking, refreshing, shown, counted>>

(* ModelCatalog.lookup, then resolve: what is known without asking, and the   *)
(* questions asked, the provider one only when its answer is not kept.  A new *)
(* provider has been shown nothing.                                           *)
AgeOf(at) == IF at = Never THEN 0 ELSE now - at
Resolves(s) ==
  /\ Idle(s) /\ turns < MaxTurns
  /\ opened' = opened \cup {s} /\ turns' = turns + 1
  /\ shown' = [shown EXCEPT ![s] = "unasked"]
  /\ asking' = [asking EXCEPT ![s] = IF Good(cached, Day) THEN "kept" ELSE "waiting"]
  /\ refreshing' = [refreshing EXCEPT ![s] = IF Stale(s) THEN "waiting" ELSE "idle"]
  /\ loaded' = [loaded EXCEPT ![s] = Read(s)]
  /\ known' = [known EXCEPT ![s] = Combine(s, Good(cached, Day))]
  /\ age' = [age EXCEPT ![s] = [provider |-> AgeOf(IF Good(cached, Day) THEN given ELSE Never),
                                directory |-> AgeOf(Read(s))]]
  /\ UNCHANGED <<model, now, files, dirFailed>>

(* The provider says what it knows of the model, or fails, or is silent until *)
(* the limit.                                                                 *)
ProviderSays(s) ==
  /\ asking[s] = "waiting" /\ "provider" \in says
  /\ asking' = [asking EXCEPT ![s] = "said"]
  /\ UNCHANGED <<model, now, files, loaded, dirFailed, refreshing, shown, counted>>
ProviderSilent(s) ==
  /\ asking[s] = "waiting"
  /\ asking' = [asking EXCEPT ![s] = "silent"]
  /\ UNCHANGED <<model, now, files, loaded, dirFailed, refreshing, shown, counted>>

(* download: the copy read replaces the one there was; a failure keeps it and *)
(* is not tried again.  That a copy read cannot be written is left out.       *)
Downloads(s) ==
  /\ refreshing[s] = "waiting"
  /\ loaded' = [loaded EXCEPT ![s] = now] /\ dirFile' = now
  /\ refreshing' = [refreshing EXCEPT ![s] = "done"]
  /\ UNCHANGED <<model, now, cached, given, dirFailed, asking, shown, counted>>
DownloadFails(s) ==
  /\ refreshing[s] = "waiting"
  /\ UNCHANGED loaded
  /\ dirFailed' = [dirFailed EXCEPT ![s] = TRUE]
  /\ refreshing' = [refreshing EXCEPT ![s] = "done"]
  /\ UNCHANGED <<model, now, files, asking, shown, counted>>

(* resolve, once neither is waited for: only an answer given now is kept, if  *)
(* the file can be written.                                                   *)
Answer(s) == asking[s] \in {"said", "kept"}
Keeps(s) == asking[s] # "kept" /\ Answer(s)
Resolved(s) ==
  /\ asking[s] \in {"kept", "said", "silent"} /\ refreshing[s] # "waiting"
  /\ known' = [known EXCEPT ![s] = Combine(s, Answer(s))]
  /\ age' = [age EXCEPT ![s] = [provider |-> IF asking[s] = "kept" THEN @.provider ELSE 0,
                                directory |-> AgeOf(Read(s))]]
  /\ \/ UNCHANGED files
     \/ /\ Keeps(s)
        /\ cached' = now /\ given' = now - age'[s].provider /\ UNCHANGED dirFile
  /\ asking' = [asking EXCEPT ![s] = "idle"]
  /\ refreshing' = [refreshing EXCEPT ![s] = "idle"]
  /\ UNCHANGED <<model, now, loaded, dirFailed, shown, opened, turns>>

(* OllamaProvider.facts: what /api/show said, asked once; a show that failed  *)
(* is remembered as nothing known.                                            *)
Shows(s) ==
  /\ family = "ollama" /\ shown[s] = "unasked" /\ s \in opened
  /\ \E said \in {"shown", "failed"} : shown' = [shown EXCEPT ![s] = said]
  /\ UNCHANGED <<model, now, files, loaded, dirFailed, asking, refreshing, counted>>

Next ==
  \/ Tick
  \/ \E s \in Sessions :
       Resolves(s) \/ ProviderSays(s) \/ ProviderSilent(s) \/ Downloads(s)
         \/ DownloadFails(s) \/ Resolved(s) \/ Shows(s)
Spec == Init /\ [][Next]_caVars

-----------------------------------------------------------------------------
(* The request a session makes.                                               *)
ThinkingChoices == {"off", "auto", "on", "level"}
Knows(s, n) == known[s][n] # "none"
Is(s, n) == Knows(s, n) /\ truth[n]
Style(s) == IF Knows(s, "style") THEN truth.style ELSE "unknown"

(* thinkingFor (capabilities.ts) of a choice.                                 *)
ReasoningOf(choice) == IF choice \in {"off", "on"} THEN choice ELSE "auto"

(* requestedOutputTokens, and the client's own default.                       *)
DefaultOutput == 32000
Least(a, b) == IF a < b THEN a ELSE b
MaxTokens(s) ==
  LET wanted == IF configured = 0 THEN DefaultOutput ELSE configured IN
  IF Knows(s, "maxOutput") THEN Least(truth.maxOutput, wanted)
  ELSE IF configured # 0 THEN configured ELSE 8192

(* thinkingFor (anthropic.ts).                                                *)
MinThinkingBudget == 1024
Thinking(s, reasoning) ==
  CASE Style(s) = "adaptive" ->
         (IF reasoning # "off" THEN "adaptive" ELSE IF Is(s, "always") THEN "none" ELSE "disabled")
    [] Style(s) = "budget" /\ reasoning = "on" /\ MaxTokens(s) \div 2 >= MinThinkingBudget -> "enabled"
    [] OTHER -> "none"

(* acceptsTemperature.                                                        *)
UnlessAdaptive(s, reasoning) == Style(s) # "adaptive" /\ reasoning # "on"
AcceptsTemperature(s, reasoning) == Style(s) = "budget" /\ reasoning # "on"

(* buildBody's effort, only where a source says the model takes it.           *)
SendsEffort(s, choice) == choice = "level" /\ Is(s, "effort")

(* OllamaProvider.think: left out only for a model shown not to think.        *)
SendsThink(s) == ~(shown[s] = "shown" /\ ~truth.thinks)

(* Whatever the person picks, a request is one the model accepts, whichever   *)
(* sources could be read: no temperature where it is refused, no thinking in  *)
(* a form the model does not take, none turned off that cannot be, no effort  *)
(* it refuses, no more output than its limit.  Left out: a model that always  *)
(* thinks which only its provider knows, whose Models API does not say so.    *)
AcceptedByMessages(s, choice) ==
  LET reasoning == ReasoningOf(choice)
      thinking == Thinking(s, reasoning)
  IN /\ AcceptsTemperature(s, reasoning) => truth.style = "budget" /\ thinking # "enabled"
     /\ thinking \in {"adaptive", "disabled"} => truth.style = "adaptive"
     /\ thinking = "disabled" => ~truth.always \/ ~Knows(s, "always")
     /\ thinking = "enabled" => truth.style = "budget" /\ MaxTokens(s) \div 2 < MaxTokens(s)
     /\ SendsEffort(s, choice) => truth.effort
     /\ Knows(s, "maxOutput") => MaxTokens(s) <= truth.maxOutput

(* Ollama refuses think for a model that does not think; a session whose show *)
(* failed sends it all the same.                                              *)
AcceptedByOllama(s) == shown[s] = "shown" => (SendsThink(s) => truth.thinks)

(* What is kept for other sessions is an answer of the provider's, never its  *)
(* silence.                                                                   *)
KeepsAnswers ==
  /\ cached # Never => "provider" \in says
  /\ \A s \in Sessions : \A n \in Names : known[s][n] # "none" => known[s][n] \in says

(* However often an answer was kept, read and counted on by one session after *)
(* another, a session that turns to the model counts on nothing the provider  *)
(* gave a day ago or more, and, once it no longer waits, on a directory of an *)
(* hour ago or more only when its own refresh failed.                         *)
CountsOn(s, source) == \E n \in Names : known[s][n] = source
FactsAreRecent ==
  \A s \in Sessions :
    /\ CountsOn(s, "provider") => age[s].provider < Day
    /\ CountsOn(s, "directory") /\ Idle(s) => age[s].directory < Hour \/ dirFailed[s]

RequestsAccepted ==
  /\ \A s \in opened :
       IF family = "ollama" THEN AcceptedByOllama(s) ELSE \A c \in ThinkingChoices : AcceptedByMessages(s, c)
  /\ KeepsAnswers
  /\ FactsAreRecent
=============================================================================
