------------------------------ MODULE Sessions ------------------------------
(* The logs of a project's sessions, as the processes that share them write   *)
(* and read them, and the index of sessions they all record in                *)
(* (core/transcript/log.ts, recorder.ts, sessions.ts, and the renaming of     *)
(* core/runtime/extras.ts).  A session may be open in several processes.      *)
(*                                                                            *)
(* Each file operation is a step, for other processes run between them.  A    *)
(* log's line may be written in two parts; the second may never come.         *)
EXTENDS Integers, Sequences, FiniteSets, FiniteSetsExt, SequencesExt

CONSTANTS
  Procs,    \* processes
  Ids,      \* sessions
  Names,    \* session names
  Earlier,  \* lines the index holds of a session of before
  MaxPieces,\* a bound on what is written to one log
  MaxLines  \* a bound on the lines appended to the index

VARIABLES
  open,     \* the session each process has open
  log,    \* each session's file, as the pieces written to it
  rec,    \* what each process has read of its session, and what it records
  index,  \* the index's lines, after the earlier ones
  stale,  \* how many earlier lines the index holds
  told,   \* the summary each session was last recorded with
  raced   \* sessions recorded while another process was rewriting the index

seVars == <<open, log, rec, index, stale, told, raced>>

On(p) == open[p]
None == [lines |-> 0, name |-> "none"]
Absent == [s \in Ids |-> None]

(* A line is whole, or its first or last part; a part that another line       *)
(* follows spoils both.  What was read before is not looked at again.         *)
Begun(f, from, i) == i > from /\ f[i].part = "first"
Parses(f, from, i) ==
  CASE f[i].part = "all" -> ~ Begun(f, from, i - 1)
    [] f[i].part = "rest" -> Begun(f, from, i - 1) /\ f[i - 1].event = f[i].event /\ ~ Begun(f, from, i - 2)
    [] OTHER -> FALSE
Events(f, from, to) ==
  LET fine == SetToSortSeq({i \in (from + 1)..to : Parses(f, from, i)}, <)
  IN  [k \in DOMAIN fine |-> f[fine[k]].event]
NamedIn(events) ==
  LET names == SelectSeq(events, LAMBDA e : e \in Names) IN IF names = <<>> THEN "none" ELSE Last(names)

(* The sessions are alike: one is the first process's.                        *)
Init ==
  /\ open \in {f \in [Procs -> Ids] : f[CHOOSE p \in Procs : TRUE] = CHOOSE s \in Ids : TRUE}
  /\ log = [s \in Ids |-> <<>>]
  /\ rec = [p \in Procs |-> [read |-> 0, seen |-> <<>>, begun |-> FALSE, at |-> "idle", found |-> Absent, lines |-> 0, fact |-> None]]
  /\ index = <<>> /\ stale = Earlier
  /\ told = Absent /\ raced = {}

Busy(p) == rec[p].at # "idle"
Room(p) == Len(log[On(p)]) < MaxPieces
Piece(e, part) == [event |-> e, part |-> part]
Says(p, e, part) == log' = [log EXCEPT ![On(p)] = Append(@, Piece(e, part))]
HalfWritten(p) == rec[p].at = "writes"

(* SessionLog.append, at once or in two parts, between which the process may  *)
(* end: the half line is left.                                                *)
Appends(p) ==
  /\ ~ Busy(p) /\ Room(p)
  /\ \/ Says(p, "message", "all") /\ UNCHANGED rec
     \/ Says(p, "message", "first") /\ rec' = [rec EXCEPT ![p].at = "writes"]
  /\ UNCHANGED <<open, index, stale, told, raced>>
AppendsRest(p) ==
  /\ HalfWritten(p) /\ Room(p)
  /\ Says(p, "message", "rest")
  /\ rec' = [rec EXCEPT ![p].at = "idle"]
  /\ UNCHANGED <<open, index, stale, told, raced>>
Crashes(p) ==
  /\ Busy(p)
  /\ rec' = [rec EXCEPT ![p] = [read |-> 0, seen |-> <<>>, begun |-> FALSE, at |-> "idle", found |-> Absent, lines |-> 0, fact |-> None]]
  /\ UNCHANGED <<open, log, index, stale, told, raced>>

(* SessionLog.events: what was appended since the last reading, up to the     *)
(* last line that is finished.                                                *)
EndsOf(f, from) == {i \in (from + 1)..Len(f) : f[i].part # "first"}
LastNewline(f, from) == Max({from} \cup EndsOf(f, from))
ReadNow(p) ==
  LET f == log[On(p)]  from == rec[p].read  to == LastNewline(f, from)
  IN  [read |-> to, seen |-> rec[p].seen \o Events(f, from, to)]
Reads(p) ==
  /\ ~ Busy(p)
  /\ rec' = [rec EXCEPT ![p] = [@ EXCEPT !.read = ReadNow(p).read, !.seen = ReadNow(p).seen]]
  /\ UNCHANGED <<open, log, index, stale, told, raced>>

(* readIndexFile: each session's last line.                                   *)
LastOf(lines, s) ==
  LET mine == SelectSeq(lines, LAMBDA line : line.id = s)
  IN  IF mine = <<>> THEN None ELSE Last(mine).says
Listed(lines) == [s \in Ids |-> LastOf(lines, s)]
EntriesIn(found) == 1 + Cardinality({s \in Ids : found[s] # None})

(* rename: refused while the index lists another session by that name.        *)
Renames(p, n) ==
  /\ ~ Busy(p) /\ Room(p) /\ Len(index) < MaxLines
  /\ \A s \in Ids \ {On(p)} : LastOf(index, s).name # n
  /\ Says(p, n, "all")
  /\ rec' = [rec EXCEPT ![p].at = "records"]
  /\ UNCHANGED <<open, index, stale, told, raced>>

(* A turn's end records the session.                                          *)
TurnEnds(p) ==
  /\ ~ Busy(p) /\ Len(index) < MaxLines
  /\ rec' = [rec EXCEPT ![p].at = "records"]
  /\ UNCHANGED <<open, log, index, stale, told, raced>>

(* recordSessionSummary: the log and the index are read; a session with       *)
(* nothing said and no name is not listed.                                    *)
ReadsIndex(p) ==
  LET now == ReadNow(p) IN
  /\ rec[p].at = "records"
  /\ rec' = [rec EXCEPT ![p] = [@ EXCEPT !.read = now.read, !.seen = now.seen, !.found = Listed(index), !.lines = stale + Len(index),
                                         !.fact = [lines |-> Len(now.seen), name |-> NamedIn(now.seen)],
                                         !.at = IF now.seen = <<>> THEN "idle" ELSE "appends"]]
  /\ UNCHANGED <<open, log, index, stale, told, raced>>

(* Its line is appended; if stale lines outnumber the sessions, the last      *)
(* lines there were, and its own, replace the file.                           *)
Rewrites(r) == r.lines + 1 > 2 * (EntriesIn(r.found) + 1) + 100
BeingRewritten(p) == \E o \in Procs \ {p} : rec[o].at = "rewrites" \/ (rec[o].at = "appends" /\ Rewrites(rec[o]))
AppendsLine(p) ==
  /\ rec[p].at = "appends"
  /\ index' = Append(index, [id |-> On(p), says |-> rec[p].fact])
  /\ told' = [told EXCEPT ![On(p)] = rec[p].fact]
  /\ raced' = IF BeingRewritten(p) THEN raced \cup {On(p)} ELSE IF Rewrites(rec[p]) THEN raced ELSE raced \ {On(p)}
  /\ rec' = [rec EXCEPT ![p].at = IF Rewrites(rec[p]) THEN "rewrites" ELSE "idle"]
  /\ UNCHANGED <<open, log, stale>>
Lines(entries) == LET ids == SetToSeq({s \in Ids : entries[s] # None})
                  IN  [i \in DOMAIN ids |-> [id |-> ids[i], says |-> entries[ids[i]]]]
WithItsOwn(p) == [rec[p].found EXCEPT ![On(p)] = rec[p].fact]
RewritesIndex(p) ==
  /\ rec[p].at = "rewrites"
  /\ index' = Lines(WithItsOwn(p)) /\ stale' = 1
  /\ rec' = [rec EXCEPT ![p].at = "idle"]
  /\ UNCHANGED <<open, log, told, raced>>

Next == \E p \in Procs :
  \/ Appends(p) \/ AppendsRest(p) \/ Crashes(p) \/ Reads(p) \/ TurnEnds(p)
  \/ ReadsIndex(p) \/ AppendsLine(p) \/ RewritesIndex(p)
  \/ \E n \in Names : Renames(p, n)

Spec == Init /\ [][Next]_seVars

(* However lines are cut short and whichever process appends between two      *)
(* readings, what a process has read is every line that was finished by then, *)
(* each once and in order (log.ts SessionLog.events); and a session recorded  *)
(* while no other process was rewriting the index is listed as it was last    *)
(* recorded (sessions.ts recordSessionSummary).                               *)
ReadAndListedAsWritten ==
  /\ \A p \in Procs : rec[p].seen = Events(log[On(p)], 0, rec[p].read)
  /\ \A s \in Ids \ raced : LastOf(index, s) = told[s]

=============================================================================
