------------------------------ MODULE WorkView ------------------------------
(* The work table as it is looked at (core/work.ts), and the interface that   *)
(* looks (tui/app/App.tsx, controller.ts).  The table keeps each child's      *)
(* events, up to a cap, and hands each to whoever looks in on that child; it  *)
(* tells its watchers at once of a child added, ended or forgotten, and of    *)
(* activity once it has settled for a moment.  The interface keeps the list   *)
(* it last read, and may show one child's run: folded from the events kept    *)
(* so far, and from each further one.                                         *)
(*                                                                            *)
(* An event is its number among its child's kept ones; of its content only    *)
(* what the list shows of it matters.  What ends a child is module Work's.    *)
EXTENDS Naturals, Sequences

CONSTANTS
  Children,   \* children, each added once
  Keep,       \* KEEP_EVENTS
  MaxEvents   \* a bound on a child's events

VARIABLES
  item,       \* each entry as its watchers see it
  made,       \* how many events each child made that are kept
  events,     \* those the table still holds, oldest first
  timer,      \* the watchers are to be told of activity
  read,       \* the list as the interface last read it; nothing before it watches
  view        \* the child looked in on, and what is shown of it

viewVars == <<item, made, events, timer, read, view>>

Nobody == "nobody"
Quiet == 0      \* what an entry's line says: nothing yet,
Thinking == 1   \* that it thinks, or what its n-th event did (n + 1)
None == [state |-> "none", line |-> Quiet, told |-> FALSE]
(* A view: first is how many events had been let go when it was opened, and   *)
(* gone how many were between then and its watch.                             *)
Closed == [stage |-> "closed", child |-> Nobody, tapped |-> Nobody, seen |-> 0, shown |-> <<>>, moved |-> FALSE,
           first |-> 0, gone |-> 0]

TypeOK ==
  /\ item \in [Children -> [state : {"none", "running", "ended", "forgotten"},
                            line : 0..(MaxEvents + 1), told : BOOLEAN]]
  /\ made \in [Children -> 0..MaxEvents] /\ timer \in BOOLEAN

Init ==
  /\ item = [c \in Children |-> None]
  /\ made = [c \in Children |-> 0] /\ events = [c \in Children |-> <<>>]
  /\ timer = FALSE /\ read = <<>> /\ view = Closed

-----------------------------------------------------------------------------
(* The list the table gives: an entry without what only its tool needs.       *)
Listed(items) ==
  [c \in {d \in Children : items[d].state \in {"running", "ended"}} |->
     [state |-> items[c].state, line |-> items[c].line]]
List == Listed(item)
Known(c) == item[c].state \in {"running", "ended"}
Watching == read # <<>>
(* notify: the timer is cleared and every watcher reads the list.             *)
Notify ==
  /\ timer' = FALSE
  /\ read' = IF Watching THEN <<Listed(item')>> ELSE read
NotifySoon == timer' = TRUE /\ UNCHANGED read
(* The timer fires.                                                           *)
Settled ==
  /\ timer /\ UNCHANGED <<item, made, events, view>> /\ Notify
(* watchWork: the list is read, and at every notice after.                    *)
WatchWork ==
  /\ ~Watching /\ read' = <<List>>
  /\ UNCHANGED <<item, made, events, timer, view>>

Add(c) ==
  /\ item[c] = None
  /\ item' = [item EXCEPT ![c].state = "running"] /\ Notify
  /\ UNCHANGED <<made, events, view>>
(* prune: of those that ended and were told, some are forgotten, with their   *)
(* events.                                                                    *)
Prune(items, forgotten) ==
  /\ \A d \in forgotten : items[d].state = "ended" /\ items[d].told
  /\ item' = [d \in Children |-> IF d \in forgotten THEN [items[d] EXCEPT !.state = "forgotten"] ELSE items[d]]
  /\ events' = [d \in Children |-> IF d \in forgotten THEN <<>> ELSE events[d]]
(* end; a second end changes nothing.                                         *)
End(c, forgotten) ==
  /\ item[c].state = "running"
  /\ Prune([item EXCEPT ![c].state = "ended"], forgotten) /\ Notify
  /\ UNCHANGED <<made, view>>
(* drainEnded, told of a child's end by itself.                               *)
Drain(c) ==
  /\ item[c].state = "ended" /\ ~item[c].told
  /\ item' = [item EXCEPT ![c].told = TRUE]
  /\ UNCHANGED <<made, events, timer, read, view>>
Collect(c, forgotten) ==
  /\ item[c].state = "ended" /\ ~item[c].told
  /\ Prune([item EXCEPT ![c].told = TRUE], forgotten) /\ Notify
  /\ UNCHANGED <<made, view>>

(* record: one of a child's events.  A child's last ones may come after the   *)
(* table has it as ended.  News (text, a call, what a request used, a retry)  *)
(* changes its line; a step's start, or reasoning before its reply has text,  *)
(* says that it thinks; the rest, and reasoning after text, changes nothing.  *)
Kinds == {"news", "thinking", "quiet"}
Kept(held, n) == IF Len(held) < Keep THEN Append(held, n) ELSE Append(Tail(held), n)
Line(c, kind) == CASE kind = "news" -> made[c] + 2 [] kind = "thinking" -> Thinking [] OTHER -> item[c].line
Keeps(c) ==
  LET n == made[c] + 1 IN
  /\ n <= MaxEvents /\ made' = [made EXCEPT ![c] = n]
  /\ events' = [events EXCEPT ![c] = Kept(@, n)]
  /\ view' = IF view.tapped = c THEN [view EXCEPT !.shown = Append(@, <<c, n>>)]
             ELSE IF view.stage = "mounted" /\ view.child = c /\ ~view.moved /\ Len(events[c]) = Keep
               THEN [view EXCEPT !.gone = @ + 1]
             ELSE view
\* Mutant: the first of a burst waits for the next.
RecordsUnnoticed(c, kind) ==
  /\ Known(c) /\ Keeps(c)
  /\ item' = [item EXCEPT ![c].line = Line(c, kind)]
  /\ UNCHANGED <<timer, read>>
Record(c, kind) ==
  /\ Known(c) /\ Keeps(c)
  /\ item' = [item EXCEPT ![c].line = Line(c, kind)]
  /\ IF Line(c, kind) # item[c].line THEN NotifySoon ELSE UNCHANGED <<timer, read>>
(* update: the agent and the model a child resolved to.                       *)
Update(c) ==
  /\ item[c].state = "running" /\ UNCHANGED item /\ Notify
  /\ UNCHANGED <<made, events, view>>
(* say: whoever looks in on a running child sees what it was told.            *)
Say(c) ==
  /\ view.child = c /\ item[c].state = "running" /\ Keeps(c)
  /\ UNCHANGED <<item, timer, read>>

-----------------------------------------------------------------------------
(* The interface.  A child its list has may be looked in on.                  *)
Board == IF Watching THEN DOMAIN read[1] ELSE {}
(* AgentViewer's first fold: what the child did so far.                       *)
OpenAgent(c) ==
  /\ c \in Board /\ view.stage = "closed"
  /\ view' = [Closed EXCEPT !.stage = "mounted", !.child = c, !.seen = Len(events[c]),
                            !.first = made[c] - Len(events[c]),
                            !.shown = [k \in 1..Len(events[c]) |-> <<c, events[c][k]>>]]
  /\ UNCHANGED <<item, made, events, timer, read>>
(* Another child opened from the one shown: by its line on the board, or from *)
(* a prompt that names it.  The viewer stays, and so does what it holds.      *)
(* (Once in a view, here.)                                                    *)
OpensAnother(c) ==
  /\ c \in Board /\ view.stage # "closed" /\ c # view.child /\ ~view.moved
  /\ view' = [view EXCEPT !.stage = "mounted", !.child = c, !.moved = TRUE]
  /\ UNCHANGED <<item, made, events, timer, read>>
(* Its effect: the events since that fold, and each one from now on.          *)
Effect ==
  /\ view.stage = "mounted"
  /\ LET since == SubSeq(events[view.child], view.seen + 1, Len(events[view.child])) IN
     view' = [view EXCEPT !.stage = "watching", !.tapped = view.child,
                          !.shown = @ \o [k \in 1..Len(since) |-> <<view.child, since[k]>>]]
  /\ UNCHANGED <<item, made, events, timer, read>>
(* Escape, or the child left the list.                                        *)
CloseAgent ==
  /\ view.stage # "closed" /\ view' = Closed
  /\ UNCHANGED <<item, made, events, timer, read>>

Next ==
  \/ Settled \/ WatchWork \/ Effect \/ CloseAgent
  \/ \E c \in Children :
       \/ Add(c) \/ Drain(c) \/ Update(c) \/ Say(c)
       \/ OpenAgent(c) \/ OpensAnother(c)
       \/ \E forgotten \in SUBSET Children : End(c, forgotten) \/ Collect(c, forgotten)
       \/ \E kind \in Kinds : Record(c, kind)
Spec == Init /\ [][Next]_viewVars

-----------------------------------------------------------------------------
(* With nothing left to tell, the list the interface holds is the table's:    *)
(* no change that a watcher should see is made in silence, however the timer  *)
(* and the notices meet.  And the view of one child the table lists shows, in *)
(* order and once, each event held when it was opened and each one made       *)
(* since, whatever came between its first fold and its watch, but for one:    *)
(* as many as were let go between the two are skipped (App.tsx:307 counts     *)
(* from the front of a list that has moved on, though its comment says none   *)
(* is missed).  A view that moved to another child shows what it holds of     *)
(* both (App.tsx:300, its fold is never begun again), and nothing is said of  *)
(* it.                                                                        *)
LookedAtAsItIs ==
  /\ Watching /\ ~timer => read[1] = List
  /\ LET c == view.child IN
     view.stage = "watching" /\ ~view.moved /\ Known(c) =>
       view.shown = [k \in 1..(made[c] - view.first - view.gone) |->
                       <<c, view.first + k + (IF k <= view.seen THEN 0 ELSE view.gone)>>]

=============================================================================
