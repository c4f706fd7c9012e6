------------------------------ MODULE Composer ------------------------------
(* What a person types in the terminal interface, until it is sent or given   *)
(* up: the composer and the walk through earlier prompts (tui/app/App.tsx,    *)
(* recall.ts), the queue of messages behind a turn (controller.ts) and the    *)
(* draft kept on disk (core/transcript/draft.ts).  Keys, the ends of turns    *)
(* and compactions, the draft's timer, a session opening and the end of the   *)
(* process interleave.                                                        *)
(*                                                                            *)
(* A text is the set of the words typed in it, each typed once.  Lists over   *)
(* the composer, completion, chips and the board of children are left out, as *)
(* is a second interface on the same project.                                 *)
EXTENDS Naturals, Sequences, SequencesExt, FiniteSetsExt

CONSTANTS
  MaxWords,     \* words typed
  MaxPrompts,   \* prompts recorded before the last key
  MaxSessions   \* sessions opened, one after another

ASSUME ComposerAssumption == MaxWords \in Nat /\ MaxSessions \in Nat \ {0}

SessionIds == 1 .. MaxSessions
NoWalk == [entries |-> <<>>, index |-> 0, shown |-> {}, stash |-> {}]

VARIABLES
  typed,      \* how many words were typed
  composer,   \* the composer's text
  walk,       \* recallRef: the walk through earlier prompts
  here,       \* the session the interface shows
  opening,    \* a session is being opened in its place
  prompts,    \* runtime.prompts(): what each session recorded, sent or cleared
  queued,    \* the session's controller: messages queued behind
  busy,       \* a turn
  held,       \* or a compaction
  kept,       \* draftKept and draftWritten: what is to be on disk
  written,
  timer,      \* draftTimer
  drafts,     \* the draft files, by session
  up,         \* the process runs
  excused     \* words deleted, and those lost in the ways that NothingTypedIsLost names

keyboard == <<typed, composer, walk>>
session == <<here, opening>>
work == <<queued, busy, held>>
onDisk == <<kept, written, timer, drafts>>
typingVars == <<keyboard, session, prompts, work, onDisk, up, excused>>

TypingInit ==
  /\ typed = 0 /\ composer = {} /\ walk = NoWalk
  /\ here = 1 /\ opening = FALSE
  /\ prompts = [s \in SessionIds |-> <<>>]
  /\ queued = <<>> /\ busy = FALSE /\ held = FALSE
  /\ kept = [id |-> 1, text |-> {}] /\ written = kept /\ timer = FALSE
  /\ drafts = [s \in SessionIds |-> {}]
  /\ up = TRUE /\ excused = {}

Room == FoldFunction(LAMBDA p, n : Len(p) + n, 0, prompts) < MaxPrompts
Walking == walk # NoWalk
IsRecalled(w, text) == w # NoWalk /\ text = w.shown

(* keepDraft: what is to be on disk once the composer holds `text` under the  *)
(* walk `w`; the prompt a walk shows is kept already, the draft behind it not.*)
KeepDraft(s, w, text) ==
  /\ kept' = [id |-> s, text |-> IF IsRecalled(w, text) THEN w.stash ELSE text]
  /\ timer' = TRUE

(* The composer's text and walk become these, and onDraft hears it.           *)
Show(text, w) ==
  /\ composer' = text /\ walk' = w
  /\ KeepDraft(here, w, text)

Type ==
  /\ up /\ typed < MaxWords
  /\ typed' = typed + 1
  /\ Show(composer \cup {typed + 1}, walk)
  /\ UNCHANGED <<session, prompts, work, written, drafts, up, excused>>

Erase ==
  /\ up
  /\ \E word \in composer :
       /\ excused' = excused \cup {word}
       /\ Show(composer \ {word}, walk)
  /\ UNCHANGED <<typed, session, prompts, work, written, drafts, up>>

(* saveDraft: the file holds the text whole, or there is none.                *)
WriteDraft ==
  /\ up /\ timer
  /\ timer' = FALSE
  /\ IF kept = written THEN UNCHANGED <<written, drafts>>
     ELSE /\ drafts' = [drafts EXCEPT ![kept.id] = kept.text]
          /\ written' = kept
  /\ UNCHANGED <<keyboard, session, prompts, work, kept, up, excused>>

(* leave: an edit of what a walk shows is set aside as the newest entry.      *)
Changed(text) == text # walk.shown /\ text # {}
Abandoned(text) == IF Changed(text) THEN <<text>> ELSE <<>>
Left(text) ==
  [entries |-> Abandoned(text) \o walk.entries, index |-> walk.index + Len(Abandoned(text))]

At(entries, index, stash) ==
  [entries |-> entries, index |-> index, shown |-> entries[index], stash |-> stash]

(* applyRecall: the step of a walk; what it abandons is kept as cleared.      *)
ApplyRecall(w, text, abandoned) ==
  /\ prompts' = [prompts EXCEPT ![here] = @ \o abandoned]
  /\ Show(text, w)
  /\ UNCHANGED <<typed, session, work, written, drafts, up, excused>>

RecallUp ==
  /\ up /\ (Room \/ ~ Changed(composer))
  /\ IF Walking
     THEN LET left == Left(composer)
              w == At(left.entries, Min({left.index + 1, Len(left.entries)}), walk.stash)
          IN ApplyRecall(w, w.shown, Abandoned(composer))
     ELSE /\ prompts[here] # <<>>
          /\ LET w == At(Reverse(prompts[here]), 1, composer)
             IN ApplyRecall(w, w.shown, <<>>)

RecallDown ==
  /\ up /\ Walking /\ (Room \/ ~ Changed(composer))
  /\ LET left == Left(composer)
     IN IF left.index = 1 \/ (Changed(composer) /\ left.index = 2)
        THEN ApplyRecall(NoWalk, walk.stash, Abandoned(composer))
        ELSE LET w == At(left.entries, left.index - 1, walk.stash)
             IN ApplyRecall(w, w.shown, Abandoned(composer))

RecallEscape ==
  /\ up /\ Walking /\ ~ busy /\ (Room \/ ~ Changed(composer))
  /\ ApplyRecall(NoWalk, walk.stash, Abandoned(composer))

(* sentLine, with the composer emptied: recorded as sent; the walk ends, and  *)
(* the draft behind it goes.                                                  *)
SentLine ==
  /\ up /\ composer # {} /\ Room
  /\ prompts' = [prompts EXCEPT ![here] = Append(@, composer)]
  /\ excused' = excused \cup walk.stash
  /\ composer' = {} /\ walk' = NoWalk
  /\ kept' = [id |-> here, text |-> {}] /\ written' = kept' /\ timer' = TRUE
  /\ drafts' = [drafts EXCEPT ![here] = {}]
  /\ UNCHANGED <<typed, up>>

(* A message: run now, or queued behind a turn or a compaction.               *)
Submit ==
  /\ SentLine
  /\ busy' = (busy \/ ~ held)
  /\ queued' = IF busy \/ held THEN Append(queued, composer) ELSE queued
  /\ UNCHANGED <<session, held>>

(* /compact, and a command that opens another session: both refuse while a    *)
(* turn runs; a session opens some time later.                                *)
SendCompact ==
  /\ SentLine /\ ~ busy /\ ~ held
  /\ held' = TRUE
  /\ UNCHANGED <<session, queued, busy>>

OpenAnother ==
  /\ SentLine /\ ~ busy /\ ~ opening /\ here < MaxSessions
  /\ opening' = TRUE
  /\ UNCHANGED <<here, work>>

(* sendNext, once a turn or a compaction ended.                               *)
SendNext(busyNow, heldNow) ==
  LET goes == ~ busyNow /\ ~ heldNow /\ queued # <<>>
  IN /\ busy' = (busyNow \/ goes)
     /\ held' = heldNow
     /\ queued' = IF goes THEN Tail(queued) ELSE queued

TurnIsOver ==
  /\ up /\ busy /\ SendNext(FALSE, held)
  /\ UNCHANGED <<keyboard, session, prompts, onDisk, up, excused>>

CompactEnds ==
  /\ up /\ held /\ SendNext(busy, FALSE)
  /\ UNCHANGED <<keyboard, session, prompts, onDisk, up, excused>>

(* Down on an empty composer takes the last queued message back, unsent.      *)
TakeQueued ==
  /\ up /\ composer = {} /\ queued # <<>>
  /\ queued' = Front(queued)
  /\ Show(Last(queued), walk)
  /\ UNCHANGED <<typed, session, prompts, busy, held, written, drafts, up, excused>>

(* stopTurn: the queue comes back to the composer, ahead of what it holds.    *)
StopTurn ==
  /\ up /\ busy /\ queued # <<>>
  /\ queued' = <<>>
  /\ Show((UNION Range(queued)) \cup composer, walk)
  /\ UNCHANGED <<typed, session, prompts, busy, held, written, drafts, up, excused>>

(* An empty text is not recorded.                                             *)
Entry(text) == IF text = {} THEN <<>> ELSE <<text>>

SetAsideTyped(replacement) ==
  IF composer # replacement /\ ~ IsRecalled(walk, composer) THEN Entry(composer) ELSE <<>>

(* setAside: what the composer holds, and what a walk set aside, are kept as  *)
(* cleared before something else takes their place.                           *)
SetAside(replacement) ==
  Entry(walk.stash) \o
  (IF composer # replacement /\ ~ IsRecalled(walk, composer) THEN Entry(composer) ELSE <<>>)

(* clearComposer, by the exit key between turns.                              *)
ClearComposer ==
  /\ up /\ ~ busy /\ (composer # {} \/ walk.stash # {}) /\ Room
  /\ prompts' = [prompts EXCEPT ![here] = @ \o SetAside({})]
  /\ composer' = {} /\ walk' = NoWalk
  /\ kept' = [id |-> here, text |-> {}] /\ written' = kept' /\ timer' = TRUE
  /\ drafts' = [drafts EXCEPT ![here] = {}]
  /\ UNCHANGED <<typed, session, work, up, excused>>

(* openHistory, and a message chosen in it.                                   *)
ChooseEarlier ==
  /\ up /\ Room
  /\ \E s \in SessionIds : \E earlier \in Range(prompts[s]) :
       /\ prompts' = [prompts EXCEPT ![here] = @ \o SetAside(earlier)]
       /\ Show(earlier, NoWalk)
  /\ UNCHANGED <<typed, session, work, written, drafts, up, excused>>

(* adoptOrphanDraft: session `own` takes the newest of the drafts that others *)
(* left, if there is any.                                                     *)
Orphans(files, own) == { s \in SessionIds \ {own} : files[s] # {} }
Adopted(files, own) == IF Orphans(files, own) = {} THEN {} ELSE files[Max(Orphans(files, own))]
AdoptFile(files, own) ==
  IF Orphans(files, own) = {} THEN files ELSE [files EXCEPT ![Max(Orphans(files, own))] = {}]

(* switchSession, once the session is open: what is typed stays in the        *)
(* composer, under the new session's name.  A turn, a queue or a compaction   *)
(* of the old session's stays with its controller, and is left out from here. *)
(* The walk goes, and the draft behind it, which nothing kept (App.tsx:708).  *)
SessionOpens ==
  /\ up /\ opening
  /\ opening' = FALSE /\ here' = here + 1
  /\ walk' = NoWalk /\ excused' = excused \cup walk.stash
  /\ LET files == [drafts EXCEPT ![kept.id] = {}]
     IN IF composer = {}
        THEN composer' = Adopted(files, here + 1) /\ drafts' = AdoptFile(files, here + 1)
        ELSE composer' = composer /\ drafts' = files
  /\ KeepDraft(here + 1, NoWalk, composer')
  /\ written' = [id |-> here + 1, text |-> {}]
  /\ queued' = <<>> /\ busy' = FALSE /\ held' = FALSE
  /\ UNCHANGED <<typed, prompts, up>>

(* The process ends.  An orderly end writes the draft first; a crash loses    *)
(* what the timer had not written.  Of an old prompt that was edited the edit *)
(* is written and the draft behind the walk is not (App.tsx:739).             *)
ProcessEnds(files, late) ==
  /\ up /\ here < MaxSessions
  /\ up' = FALSE /\ opening' = FALSE
  /\ drafts' = files /\ timer' = FALSE
  /\ excused' = excused \cup late \cup (IF IsRecalled(walk, composer) THEN {} ELSE walk.stash)
  /\ composer' = {} /\ walk' = NoWalk
  /\ queued' = <<>> /\ busy' = FALSE /\ held' = FALSE
  /\ UNCHANGED <<typed, here, prompts, kept, written>>

Exit == ProcessEnds([drafts EXCEPT ![kept.id] = kept.text], {})
Crashes == ProcessEnds(drafts, IF timer THEN kept.text ELSE {})

(* The next interface opens a session and takes up the draft left behind.     *)
Starts ==
  /\ ~ up
  /\ up' = TRUE /\ here' = here + 1
  /\ composer' = Adopted(drafts, here + 1) /\ drafts' = AdoptFile(drafts, here + 1)
  /\ KeepDraft(here + 1, NoWalk, composer')
  /\ written' = [id |-> here + 1, text |-> {}]
  /\ UNCHANGED <<typed, walk, opening, prompts, work, excused>>

TypingNext ==
  \/ Type \/ Erase \/ WriteDraft
  \/ RecallUp \/ RecallDown \/ RecallEscape
  \/ Submit \/ SendCompact \/ OpenAnother \/ SessionOpens
  \/ TurnIsOver \/ CompactEnds \/ TakeQueued \/ StopTurn
  \/ ClearComposer \/ ChooseEarlier
  \/ Exit \/ Crashes \/ Starts

TypingSpec == TypingInit /\ [][TypingNext]_typingVars

(* Words that can still be found: in the composer, behind a walk, among the   *)
(* prompts of a session, or in a draft on disk.                               *)
Found ==
  composer \cup walk.stash \cup (UNION { UNION Range(prompts[s]) : s \in SessionIds })
  \cup (UNION Range(drafts))

(* What was typed and not deleted is in the composer, behind the walk, among  *)
(* a session's prompts or in a draft on disk, in whatever order keys, turns,  *)
(* compactions, sessions and the end of the process come (App.tsx setAside,   *)
(* draft.ts); but for four losses, all that there are: the draft behind a     *)
(* walk when a prompt is sent in its place, which is meant; the same when     *)
(* another session opens, and when the process ends on a prompt recalled and  *)
(* edited, which recall.ts:5-8 says cannot be (`nothing but a send'); and at  *)
(* a crash the last quarter of a second.  `excused' has those words.          *)
NothingTypedIsLost == 1 .. typed \subseteq Found \cup excused
=============================================================================
