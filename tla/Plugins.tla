------------------------------ MODULE Plugins -------------------------------
(* One plugin's installing, updating, turning on and off, removing, and what  *)
(* a session's start loads of it (core/plugins/store.ts, lock.ts, load.ts,    *)
(* core/runtime/sources.ts).  Each command and each session is a process of   *)
(* its own, and none takes a lock: what one read may have changed before it   *)
(* writes, and any of them may be killed between two of its steps.            *)
(*                                                                            *)
(* A release is what a source may hold when it is fetched: a version, which   *)
(* names the directory it is copied to, what it may reach, and files, which   *)
(* the release itself stands for: two of one version have different files.    *)
(* Both scopes' copies of a version share a directory.  The project's lockfile *)
(* may be committed to its repository, and be changed there by anybody.       *)
EXTENDS Integers, FiniteSets

CONSTANTS
  Procs,     \* processes: commands and sessions
  Releases,  \* what may be fetched, each [version, perms]
  MaxRuns    \* a bound on the commands, the sessions and the repository's changes

VARIABLES
  lock,     \* each scope's lockfile: the plugin's entry, none, or a newer JamCLI's file
  consent,  \* the consents on file, of both scopes: each of a scope and a release
  dirs,     \* what each version's directory holds
  run,      \* what each process does, with what it has read
  agreed,   \* what the person agreed to, ever
  loaded,   \* what the last session loaded
  runs,
  assumed   \* what an entry of the repository's was taken to be agreed to

plVars == <<lock, consent, dirs, run, agreed, loaded, runs, assumed>>

Scopes == {"user", "project"}
Versions == {r.version : r \in Releases}
Nothing == [is |-> "nothing"]
Newer == [is |-> "newer"]
Partly == [is |-> "partly"]
Entry(r, on, why, by) == [is |-> "entry", release |-> r, enabled |-> on, why |-> why, by |-> by]
Idle == [at |-> "idle", scope |-> "user", release |-> Nothing, before |-> Nothing, kept |-> {}, calm |-> TRUE]

Init ==
  /\ lock = [s \in Scopes |-> Nothing]
  /\ consent = {}
  /\ dirs = [v \in Versions |-> Nothing]
  /\ run = [p \in Procs |-> Idle]
  /\ agreed = {} /\ assumed = {} /\ loaded = Nothing /\ runs = 0

(* readLock: a file of a newer JamCLI reads as an empty one.                  *)
ReadLock(s) == IF lock[s] = Newer THEN Nothing ELSE lock[s]

(* A step of one process; it may change what another has looked at.           *)
Step(p, next) ==
  run' = [q \in Procs |-> IF q = p THEN next ELSE [run[q] EXCEPT !.calm = FALSE]]
At(p, at) == run[p].at = at
Goes(p, at) == Step(p, [run[p] EXCEPT !.at = at])
Begins(p) == At(p, "idle") /\ runs < MaxRuns /\ runs' = runs + 1

(* installPlugin: the lockfile is read before the person is asked, and only   *)
(* an install, or an update that may reach more, asks: whatever has an entry  *)
(* in the lockfile is taken to be agreed to, who ever wrote it.               *)
WhenNew(before, r) == before = Nothing
Widened(before, r) == before = Nothing \/ ~ r.perms \subseteq before.release.perms
Assumed(s, before, r) ==
  IF Widened(before, r) \/ before.by = "jamcli" THEN {} ELSE {[scope |-> s, perms |-> before.release.perms]}
Fetches(p, s, r) ==
  /\ Begins(p)
  /\ Step(p, [Idle EXCEPT !.at = IF Widened(ReadLock(s), r) THEN "asking" ELSE "storing",
                          !.scope = s, !.release = r, !.before = ReadLock(s)])
  /\ assumed' = assumed \cup Assumed(s, ReadLock(s), r)
  /\ UNCHANGED <<lock, consent, dirs, agreed, loaded>>
Agrees(p) ==
  /\ At(p, "asking") /\ Goes(p, "storing")
  /\ agreed' = agreed \cup {[scope |-> run[p].scope, perms |-> run[p].release.perms]}
  /\ UNCHANGED <<lock, consent, dirs, loaded, runs>>
Declines(p) ==
  /\ At(p, "asking") /\ Step(p, Idle)
  /\ UNCHANGED <<lock, consent, dirs, agreed, loaded, runs>>

(* The directory is emptied and the files are copied into it; another process *)
(* may copy into it too.                                                      *)
Clears(p) ==
  /\ At(p, "storing") /\ Goes(p, "copying")
  /\ dirs' = [dirs EXCEPT ![run[p].release.version] = Partly]
  /\ UNCHANGED <<lock, consent, agreed, loaded, runs>>
Alone(p) ==
  /\ dirs[run[p].release.version] = Partly
  /\ \A q \in Procs \ {p} : At(q, "copying") => run[q].release.version # run[p].release.version
Copies(p) ==
  /\ At(p, "copying") /\ Goes(p, "copied")
  /\ \E files \in IF Alone(p) THEN {run[p].release} ELSE {run[p].release, Partly} :
       dirs' = [dirs EXCEPT ![run[p].release.version] = files]
  /\ UNCHANGED <<lock, consent, agreed, loaded, runs>>
Hashes(p) ==
  /\ At(p, "copied")
  /\ IF dirs[run[p].release.version] = run[p].release THEN Goes(p, "recording") ELSE Step(p, Idle)
  /\ UNCHANGED <<lock, consent, dirs, agreed, loaded, runs>>
Records(p) ==
  /\ At(p, "recording")
  /\ IF lock[run[p].scope] = Newer
     THEN Step(p, Idle) /\ UNCHANGED lock
     ELSE /\ Goes(p, "consenting")
          /\ lock' = [lock EXCEPT ![run[p].scope] = Entry(run[p].release, TRUE, "none", "jamcli")]
  /\ UNCHANGED <<consent, dirs, agreed, loaded, runs>>

(* The consents are one file, read and then written over in place.            *)
ReadsConsents(p) ==
  /\ \/ At(p, "consenting") /\ Step(p, [run[p] EXCEPT !.at = "granting", !.kept = consent])
     \/ At(p, "forgetting") /\ Step(p, [run[p] EXCEPT !.at = "dropping", !.kept = consent])
  /\ UNCHANGED <<lock, consent, dirs, agreed, loaded, runs>>
OfOthers(d) == {c \in d.kept : c.scope # d.scope}
RecordConsent(p) ==
  /\ At(p, "granting") /\ Step(p, [run[p] EXCEPT !.at = "cleaning", !.kept = {}])
  /\ consent' = OfOthers(run[p]) \cup {[scope |-> run[p].scope, release |-> run[p].release]}
  /\ UNCHANGED <<lock, dirs, agreed, loaded, runs>>
RemovesOld(p) ==
  /\ At(p, "cleaning") /\ Step(p, Idle)
  /\ IF run[p].before # Nothing /\ run[p].before.release.version # run[p].release.version
     THEN dirs' = [dirs EXCEPT ![run[p].before.release.version] = Nothing]
     ELSE UNCHANGED dirs
  /\ UNCHANGED <<lock, consent, agreed, loaded, runs>>

(* setPluginEnabled: the project's entry first.  One turned off since its     *)
(* files changed comes back only when they match again.                       *)
Found == IF ReadLock("project") # Nothing THEN "project" ELSE "user"
Matches(e) == dirs[e.release.version] = e.release
SetEnabled(p, on) ==
  /\ Begins(p)
  /\ ReadLock(Found) # Nothing
  /\ LET e == ReadLock(Found) IN
     /\ on /\ e.why = "integrity" => Matches(e)
     /\ Step(p, [Idle EXCEPT !.at = "writing", !.scope = Found, !.before = Entry(e.release, on, "none", e.by)])
  /\ UNCHANGED <<lock, consent, dirs, agreed, loaded>>
Removes(p) ==
  /\ Begins(p) /\ ReadLock(Found) # Nothing
  /\ Step(p, [Idle EXCEPT !.at = "removing", !.scope = Found, !.release = ReadLock(Found).release])
  /\ UNCHANGED <<lock, consent, dirs, agreed, loaded>>

WritesLock(p) ==
  /\ At(p, "writing")
  /\ lock' = IF lock[run[p].scope] = Newer THEN lock ELSE [lock EXCEPT ![run[p].scope] = run[p].before]
  /\ Step(p, Idle)
  /\ UNCHANGED <<consent, dirs, agreed, loaded, runs>>
RemovesEntry(p) ==
  /\ At(p, "removing")
  /\ IF lock[run[p].scope] = Newer
     THEN Step(p, Idle) /\ UNCHANGED lock
     ELSE Goes(p, "forgetting") /\ lock' = [lock EXCEPT ![run[p].scope] = Nothing]
  /\ UNCHANGED <<consent, dirs, agreed, loaded, runs>>
ForgetsConsent(p) ==
  /\ At(p, "dropping") /\ Step(p, [run[p] EXCEPT !.at = "deleting", !.kept = {}])
  /\ consent' = OfOthers(run[p])
  /\ UNCHANGED <<lock, dirs, agreed, loaded, runs>>
Deletes(p) ==
  /\ At(p, "deleting") /\ Step(p, Idle)
  /\ dirs' = [dirs EXCEPT ![run[p].release.version] = Nothing]
  /\ UNCHANGED <<lock, consent, agreed, loaded, runs>>

(* A session's start: verifyPlugins looks at the user's lockfile and then the *)
(* project's, turns off a plugin whose files are not those of its entry, and  *)
(* what is left is loaded.                                                    *)
SessionStarts(p) ==
  /\ Begins(p) /\ Step(p, [Idle EXCEPT !.at = "verifying"])
  /\ UNCHANGED <<lock, consent, dirs, agreed, loaded>>
After(s) == IF s = "user" THEN [at |-> "verifying", scope |-> "project"] ELSE [at |-> "loading", scope |-> "project"]
Onward(p) == Step(p, [run[p] EXCEPT !.at = After(run[p].scope).at, !.scope = After(run[p].scope).scope])
Spoiled(e) == e # Nothing /\ ~ Matches(e) /\ e.enabled
VerifyReads(p) ==
  /\ At(p, "verifying")
  /\ LET e == ReadLock(run[p].scope) IN
     IF Spoiled(e)
     THEN Step(p, [run[p] EXCEPT !.at = "turning off", !.before = Entry(e.release, FALSE, "integrity", e.by)])
     ELSE Onward(p)
  /\ UNCHANGED <<lock, consent, dirs, agreed, loaded, runs>>
TurnsOff(p) ==
  /\ At(p, "turning off")
  /\ IF lock[run[p].scope] = Newer
     THEN Step(p, Idle) /\ UNCHANGED lock
     ELSE Onward(p) /\ lock' = [lock EXCEPT ![run[p].scope] = run[p].before]
  /\ UNCHANGED <<consent, dirs, agreed, loaded, runs>>

(* enabledPlugins: a project's entry shadows the user's, on or off.           *)
Enabled(s) ==
  /\ s = Found /\ ReadLock(s) # Nothing /\ ReadLock(s).enabled
  /\ dirs[ReadLock(s).release.version] # Nothing
  /\ [scope |-> s, release |-> ReadLock(s).release] \in consent
Loads(p) ==
  /\ At(p, "loading") /\ Step(p, Idle)
  /\ loaded' = IF Enabled(Found)
       THEN [is |-> "plugin", scope |-> Found, release |-> ReadLock(Found).release,
             files |-> dirs[ReadLock(Found).release.version], calm |-> run[p].calm]
       ELSE Nothing
  /\ UNCHANGED <<lock, consent, dirs, agreed, runs>>

(* Killed while it writes the consents, it leaves a file that reads as none.  *)
Killed(p) ==
  /\ ~ At(p, "idle") /\ run' = [run EXCEPT ![p] = Idle]
  /\ consent' \in IF At(p, "granting") \/ At(p, "dropping") THEN {consent, {}} ELSE {consent}
  /\ UNCHANGED <<lock, dirs, agreed, loaded, runs>>
(* A newer JamCLI writes the lockfile in a shape of its own.                  *)
Upgraded(s) ==
  /\ lock[s] # Newer /\ lock' = [lock EXCEPT ![s] = Newer]
  /\ run' = [q \in Procs |-> [run[q] EXCEPT !.calm = FALSE]]
  /\ UNCHANGED <<consent, dirs, agreed, loaded, runs>>
(* What the repository holds is checked out: an entry nobody here agreed to,  *)
(* or none.                                                                   *)
Committed ==
  /\ runs < MaxRuns /\ runs' = runs + 1
  /\ \E e \in {Entry(r, TRUE, "none", "repo") : r \in Releases} \cup {Nothing} : lock' = [lock EXCEPT !["project"] = e]
  /\ run' = [q \in Procs |-> [run[q] EXCEPT !.calm = FALSE]]
  /\ UNCHANGED <<consent, dirs, agreed, loaded>>

(* Only an install of what has an entry already takes one for a consent.      *)
Next ==
  \/ \E p \in Procs, s \in Scopes, r \in Releases : Fetches(p, s, r)
  \/ /\ UNCHANGED assumed
     /\ \/ \E p \in Procs, on \in BOOLEAN : SetEnabled(p, on)
        \/ \E p \in Procs : Agrees(p) \/ Declines(p) \/ Clears(p) \/ Copies(p) \/ Hashes(p)
             \/ Records(p) \/ ReadsConsents(p) \/ RecordConsent(p) \/ RemovesOld(p)
             \/ Removes(p) \/ WritesLock(p) \/ RemovesEntry(p) \/ ForgetsConsent(p) \/ Deletes(p)
             \/ SessionStarts(p) \/ VerifyReads(p) \/ TurnsOff(p) \/ Loads(p) \/ Killed(p)
        \/ \E s \in Scopes : Upgraded(s)
        \/ Committed

Spec == Init /\ [][Next]_plVars

(* What a session loads of a plugin may reach no more than the person agreed  *)
(* to for that scope, or than an entry of the repository's which an install   *)
(* or an update then took for their consent; an entry in a lockfile alone     *)
(* loads nothing.  It is so however installs, updates, removals, crashes and  *)
(* the repository's changes fall; and unless something was written while the  *)
(* session started, the files loaded are the whole of those the entry was     *)
(* made for, though an install may have been killed half-way through.         *)
LoadsAgreed ==
  loaded # Nothing =>
    /\ \E a \in agreed \cup assumed : a.scope = loaded.scope /\ loaded.release.perms \subseteq a.perms
    /\ loaded.calm => loaded.files = loaded.release
=============================================================================
