-------------------------- MODULE ConversationProofs --------------------------
(***************************************************************************)
(* Proofs about Conversation, for any number of turns, steps and calls.    *)
(* What a log tells is a recursive function of its lines: two functions    *)
(* that tell the same lines could first differ at some line, and do not,   *)
(* because natural numbers have a least one (LeastNat).  From that a log   *)
(* with one line more tells one thing more (OneLineMore), and everything   *)
(* else is by steps.  The invariant has three parts: what the log tells is *)
(* what the session holds (PastPart), what is held is whole (WholeInv),    *)
(* and it ends with what was asked (KeptInv).  Last come the pages that a  *)
(* turn fetches and the list of todos that it writes.                      *)
(***************************************************************************)
EXTENDS Conversation, WellFoundedInduction, SequenceTheorems, TLAPS

-----------------------------------------------------------------------------
(* The invariant.                                                          *)

Roles == {"user", "assistant", "tool", "summary"}
Said == [role : Roles, ask : Nat, calls : Nat, stub : BOOLEAN, at : Nat]
Line ==
  [type : {"message"}, message : Said] \cup [type : {"elision"}, stubbed : SUBSET Nat]
  \cup [type : {"compaction"}, replaced : Nat, summary : Said]
  \cup [type : {"checkpoint"}, turn : Nat, of : Nat, before : Seq(Said), known : BOOLEAN]

TypeInv ==
  /\ phase \in Phases /\ signal \in {"live", "aborted"}
  /\ trigger \in {"none", "auto", "overflow", "manual"} /\ (phase = "compacting" <=> trigger # "none")
  /\ (phase \in {"down", "idle"} \/ trigger = "manual") => signal = "live"
  /\ messages \in Seq(Said) /\ working \in Seq(Said) /\ fitted \in Seq(Said)
  /\ answered \in Nat /\ turns \in Nat /\ apart \in {"no", "stubs", "messages"}
  /\ log \in Seq(Line) /\ turnStart \in 0..Len(log)

\* The same but for what shrank.
SameBut(a, b) ==
  /\ Len(a) = Len(b)
  /\ \A i \in 1..Len(a) : a[i].role = b[i].role /\ a[i].ask = b[i].ask /\ a[i].calls = b[i].calls /\ a[i].at = b[i].at

\* How a conversation stands to what its log tells.
Agrees(current, told, how) ==
  /\ how = "no" => current = told
  /\ how = "stubs" => SameBut(current, told)

\* What a turn, or a compaction, has come to is what its log says.
SameInv ==
  /\ phase # "down" => Agrees(Current, Projection(log), apart)
  /\ phase \in {"prompt", "direct", "directed"} => working = messages
  /\ phase = "compacting" /\ trigger # "manual" => SameBut(fitted, working)

\* A checkpoint's turn is before it, and what it remembers is what the lines before that turn tell.
PastInv(c) ==
  LET t == log[c].turn
  IN /\ t < c
     /\ t # 0 => log[t].type = "message"
     /\ t # 0 /\ log[c].known /\ log[t].message.ask = log[c].of => Projection(SubSeq(log, 1, t - 1)) = log[c].before

LinesInv ==
  /\ \A i \in 1..Len(log) : log[i].type = "message" => log[i].message.ask <= turns
  /\ \A c \in 1..Len(log) : log[c].type = "checkpoint" => PastInv(c)

\* The phases that have no message of their turn yet.
Before == {"down", "idle", "prompt", "direct", "directed"}

\* A turn's message is in the log, after all that the session knew when it began; the message of a
\* turn that is only beginning is another one's.
TurnInv ==
  /\ phase \notin {"down", "idle"} => turns >= 1
  /\ turnStart # 0 => log[turnStart].type = "message"
  /\ phase \notin Before /\ trigger # "manual" => turnStart # 0
  /\ phase \in {"prompt", "direct", "directed"} /\ turnStart # 0 => log[turnStart].message.ask # turns
  /\ phase \notin Before /\ trigger # "manual" /\ log[turnStart].message.ask = turns /\ apart = "no" =>
       Projection(SubSeq(log, 1, turnStart - 1)) = messages

\* A turn whose reply has calls that wait for their results: whole up to the reply.
Owing(ms, n) ==
  /\ n < Len(ms)
  /\ LET r == Len(ms) - n
     IN /\ Whole(SubSeq(ms, 1, r - 1))
        /\ ms[r].role = "assistant" /\ n < ms[r].calls
        /\ \A k \in 1..n : ms[r + k].role = "tool" /\ ms[r + k].calls = k

WholeInv ==
  Whole(messages) =>
    /\ phase \in {"prompt", "head", "fitting", "model", "stopping", "wrapup", "direct", "directed"} => Whole(working)
    /\ phase = "batch" => answered = 0
    /\ phase \in {"batch", "results"} => Owing(working, answered)
    /\ phase = "compacting" => Whole(fitted) /\ (trigger # "manual" => Whole(working))

\* The last thing said by the person, or carried by a summary, is this.
LastSaid(ms, asked) ==
  \E i \in DOMAIN ms :
    /\ ms[i].role \in {"user", "summary"} /\ ms[i].ask = asked
    /\ \A j \in DOMAIN ms : j > i => ms[j].role \notin {"user", "summary"}

\* It is what was asked in this turn.
Lastly(ms) == LastSaid(ms, turns)

KeptInv ==
  phase \notin Before /\ trigger # "manual" /\ ~Nudged =>
    /\ Lastly(working)
    /\ phase = "compacting" => Lastly(fitted)

PastPart == TypeInv /\ SameInv /\ LinesInv /\ TurnInv

Inv == PastPart /\ WholeInv /\ KeptInv

\* Some natural numbers have a least one among them.
LEMMA LeastNat == ASSUME NEW S, S \subseteq Nat, S # {} PROVE \E m \in S : \A k \in S : m <= k
<1> DEFINE R == OpToRel(<, Nat)
<1>1. IsWellFoundedOn(R, Nat)
  BY NatLessThanWellFounded
<1>2. \A x, y \in Nat : <<x, y>> \in R <=> x < y
  BY DEF OpToRel
<1> HIDE DEF R
<1>3. PICK m \in S : \A k \in S : ~ (<<k, m>> \in R)
  BY <1>1, WFMin
<1>4. m \in Nat /\ S \subseteq Nat
  BY <1>3
<1>5. ASSUME NEW k \in S PROVE m <= k
  <2>1. k \in Nat
    BY <1>4
  <2>2. <<k, m>> \notin R
    BY <1>3
  <2>3. ~ (k < m)
    BY <1>2, <1>4, <2>1, <2>2
  <2>4. QED
    BY <1>4, <2>1, <2>3
<1>6. QED
  BY <1>3, <1>5

\* The conversations after each of the first n lines.
Told(lines, n, g) == g = [m \in 0..n |-> IF m = 0 THEN <<>> ELSE Replayed(g[m - 1], lines[m])]

\* What they are after each line.
LEMMA ToldAt ==
  ASSUME NEW lines, NEW n \in Nat, NEW g, Told(lines, n, g)
  PROVE  /\ g[0] = <<>>
         /\ \A m \in 1..n : g[m] = Replayed(g[m - 1], lines[m])
         /\ DOMAIN g = 0..n
<1>1. g = [m \in 0..n |-> IF m = 0 THEN <<>> ELSE Replayed(g[m - 1], lines[m])]
  BY DEF Told
<1>2. DOMAIN g = 0..n /\ \A m \in 0..n : g[m] = IF m = 0 THEN <<>> ELSE Replayed(g[m - 1], lines[m])
  BY <1>1
<1>3. QED
  BY <1>2

\* One line more.
LEMMA ToldOnward ==
  ASSUME NEW lines, NEW longer, NEW n \in Nat, NEW g, Told(lines, n, g), \A m \in 1..n : longer[m] = lines[m]
  PROVE  Told(longer, n + 1, [m \in 0..(n + 1) |-> IF m <= n THEN g[m] ELSE Replayed(g[n], longer[n + 1])])
<1> DEFINE h == [m \in 0..(n + 1) |-> IF m <= n THEN g[m] ELSE Replayed(g[n], longer[n + 1])]
<1>1. g[0] = <<>> /\ \A m \in 1..n : g[m] = Replayed(g[m - 1], lines[m])
  BY ToldAt
<1>2. \A m \in 0..(n + 1) : h[m] = IF m <= n THEN g[m] ELSE Replayed(g[n], longer[n + 1])
  OBVIOUS
<1>3. h = [m \in 0..(n + 1) |-> h[m]]
  OBVIOUS
<1> HIDE DEF h
<1>4. \A m \in 0..(n + 1) : h[m] = IF m = 0 THEN <<>> ELSE Replayed(h[m - 1], longer[m])
  <2>1. h[0] = <<>>
    BY <1>1, <1>2
  <2>2. ASSUME NEW m \in 1..n PROVE h[m] = Replayed(h[m - 1], longer[m])
    <3>1. h[m] = g[m] /\ h[m - 1] = g[m - 1]
      BY <1>2
    <3>2. QED
      BY <1>1, <3>1
  <2>3. h[n + 1] = Replayed(h[n], longer[n + 1])
    <3>1. h[n + 1] = Replayed(g[n], longer[n + 1]) /\ h[n] = g[n]
      BY <1>2
    <3>2. QED
      BY <3>1
  <2>4. \A m \in 0..(n + 1) : m = 0 \/ m \in 1..n \/ m = n + 1
    OBVIOUS
  <2>5. n + 1 # 0 /\ (n + 1) - 1 = n
    OBVIOUS
  <2>6. QED
    BY <2>1, <2>2, <2>3, <2>4, <2>5
<1>5. h = [m \in 0..(n + 1) |-> IF m = 0 THEN <<>> ELSE Replayed(h[m - 1], longer[m])]
  BY <1>3, <1>4
<1>6. QED
  BY <1>5 DEF Told, h

\* They are told in one way.
LEMMA ToldOnce ==
  ASSUME NEW lines, NEW n \in Nat, NEW g, NEW h, Told(lines, n, g), Told(lines, n, h) PROVE g = h
<1> DEFINE S == {m \in 0..n : g[m] # h[m]}
<1>1. SUFFICES ASSUME S # {} PROVE FALSE
  <2>1. \A m \in 0..n : g[m] = h[m]
    BY <1>1
  <2>2. /\ g = [m \in 0..n |-> IF m = 0 THEN <<>> ELSE Replayed(g[m - 1], lines[m])]
        /\ h = [m \in 0..n |-> IF m = 0 THEN <<>> ELSE Replayed(h[m - 1], lines[m])]
    BY DEF Told
  <2>3. QED
    BY <2>1, <2>2
<1>2. PICK m \in S : \A k \in S : m <= k
  <2>1. S \subseteq Nat
    OBVIOUS
  <2> HIDE DEF S
  <2>2. QED
    BY <1>1, <2>1, LeastNat
<1>3. m \in 1..n /\ m - 1 \in 0..n /\ g[m - 1] = h[m - 1]
  <2>1. m \in 0..n /\ g[m] # h[m]
    OBVIOUS
  <2>2. g[0] = h[0]
    BY ToldAt
  <2>3. m - 1 \notin S
    BY <1>2, <2>1
  <2>4. QED
    BY <2>1, <2>2, <2>3
<1>4. g[m] = Replayed(g[m - 1], lines[m]) /\ h[m] = Replayed(h[m - 1], lines[m])
  BY <1>3, ToldAt
<1>5. QED
  BY <1>3, <1>4

\* And there is such a way, however many lines there are.
LEMMA SomeTold == ASSUME NEW lines, NEW n \in Nat PROVE \E g : Told(lines, n, g)
<1> DEFINE S == {m \in Nat : ~ \E g : Told(lines, m, g)}
<1>1. SUFFICES ASSUME S # {} PROVE FALSE
  OBVIOUS
<1>2. PICK m \in S : \A k \in S : m <= k
  <2>1. S \subseteq Nat
    OBVIOUS
  <2> HIDE DEF S
  <2>2. QED
    BY <1>1, <2>1, LeastNat
<1>3. m \in Nat /\ ~ \E g : Told(lines, m, g)
  OBVIOUS
<1>4. m # 0
  <2>1. Told(lines, 0, [i \in 0..0 |-> <<>>])
    <3> DEFINE g == [i \in 0..0 |-> <<>>]
    <3>1. \A i \in 0..0 : i = 0
      OBVIOUS
    <3>2. g = [i \in 0..0 |-> IF i = 0 THEN <<>> ELSE Replayed(g[i - 1], lines[i])]
      BY <3>1
    <3>3. QED
      BY <3>2 DEF Told
  <2>2. QED
    BY <1>3, <2>1
<1>5. m - 1 \in Nat /\ m - 1 \notin S
  BY <1>2, <1>3, <1>4
<1>6. PICK g : Told(lines, m - 1, g)
  BY <1>5
<1>7. \E h : Told(lines, (m - 1) + 1, h)
  BY <1>5, <1>6, ToldOnward
<1>8. QED
  BY <1>3, <1>7

\* The projection is what is told by the last line.
LEMMA ProjectionIs ==
  ASSUME NEW lines, NEW g, Len(lines) \in Nat, Told(lines, Len(lines), g) PROVE Projection(lines) = g[Len(lines)]
<1> DEFINE told == CHOOSE h : h = [m \in 0..Len(lines) |-> IF m = 0 THEN <<>> ELSE Replayed(h[m - 1], lines[m])]
<1>1. Told(lines, Len(lines), told)
  BY DEF Told
<1>2. told = g
  BY <1>1, ToldOnce
<1>3. Projection(lines) = told[Len(lines)]
  BY DEF Projection
<1>4. QED
  BY <1>2, <1>3

\* A line more is one more thing to replay.
LEMMA OneLineMore ==
  ASSUME NEW T, NEW lines \in Seq(T), NEW line \in T
  PROVE  Projection(Append(lines, line)) = Replayed(Projection(lines), line)
<1> DEFINE n == Len(lines)  longer == Append(lines, line)
<1>1. n \in Nat /\ Len(longer) = n + 1 /\ longer[n + 1] = line /\ \A m \in 1..n : longer[m] = lines[m]
  OBVIOUS
<1>2. PICK g : Told(lines, n, g)
  BY <1>1, SomeTold
<1> DEFINE h == [m \in 0..(n + 1) |-> IF m <= n THEN g[m] ELSE Replayed(g[n], longer[n + 1])]
<1>3. Told(longer, n + 1, h)
  BY <1>1, <1>2, ToldOnward
<1>4. h[n + 1] = Replayed(g[n], longer[n + 1])
  BY <1>1
<1>5. Projection(lines) = g[n]
  BY <1>1, <1>2, ProjectionIs
<1> HIDE DEF h, n, longer
<1>6. Projection(longer) = h[n + 1]
  BY <1>1, <1>3, ProjectionIs
<1>7. QED
  BY <1>1, <1>4, <1>5, <1>6 DEF longer

\* A log without lines tells nothing.
LEMMA NoLines == Projection(<<>>) = <<>>
<1>1. Len(<<>>) = 0 /\ 0 \in Nat
  OBVIOUS
<1>2. PICK g : Told(<<>>, 0, g)
  BY <1>1, SomeTold
<1>3. g[0] = <<>>
  BY <1>1, <1>2, ToldAt
<1>4. QED
  BY <1>1, <1>2, <1>3, ProjectionIs

-----------------------------------------------------------------------------
(* Sequences.                                                              *)

\* What a record of several steps over a sequence is, element by element.
LEMMA Elements ==
  ASSUME NEW T, NEW s, NEW n \in Nat, DOMAIN s = 1..n, s = [i \in 1..n |-> s[i]], \A i \in 1..n : s[i] \in T
  PROVE  s \in Seq(T) /\ Len(s) = n
<1>1. s \in [1..n -> T]
  OBVIOUS
<1>2. s \in Seq(T)
  BY <1>1
<1>3. QED
  BY <1>2

\* Two sequences that begin alike have the same beginning.
LEMMA SamePrefix ==
  ASSUME NEW T, NEW s \in Seq(T), NEW u \in Seq(T), NEW n \in Nat, n <= Len(s), n <= Len(u), \A i \in 1..n : s[i] = u[i]
  PROVE  /\ SubSeq(s, 1, n) = SubSeq(u, 1, n) /\ SubSeq(s, 1, n) \in Seq(T) /\ Len(SubSeq(s, 1, n)) = n
         /\ \A i \in 1..n : SubSeq(s, 1, n)[i] = s[i]
<1>1. \A i \in 1..n : s[i] \in T /\ u[i] \in T
  BY ElementOfSeq
<1>2. /\ SubSeq(s, 1, n) \in Seq(T) /\ Len(SubSeq(s, 1, n)) = n
      /\ \A i \in 1..n : SubSeq(s, 1, n)[i] = s[i]
  <2>1. 1 \in Int /\ n \in Int
    OBVIOUS
  <2>2. /\ SubSeq(s, 1, n) \in Seq(T) /\ Len(SubSeq(s, 1, n)) = (IF 1 <= n THEN n - 1 + 1 ELSE 0)
        /\ \A i \in 1..(n - 1 + 1) : SubSeq(s, 1, n)[i] = s[1 + i - 1]
    BY <1>1, <2>1, SubSeqProperties
  <2>3. \A i \in 1..n : i \in 1..(n - 1 + 1) /\ 1 + i - 1 = i
    OBVIOUS
  <2>4. QED
    BY <2>2, <2>3
<1>3. /\ SubSeq(u, 1, n) \in Seq(T) /\ Len(SubSeq(u, 1, n)) = n
      /\ \A i \in 1..n : SubSeq(u, 1, n)[i] = u[i]
  <2>1. 1 \in Int /\ n \in Int
    OBVIOUS
  <2>2. /\ SubSeq(u, 1, n) \in Seq(T) /\ Len(SubSeq(u, 1, n)) = (IF 1 <= n THEN n - 1 + 1 ELSE 0)
        /\ \A i \in 1..(n - 1 + 1) : SubSeq(u, 1, n)[i] = u[1 + i - 1]
    BY <1>1, <2>1, SubSeqProperties
  <2>3. \A i \in 1..n : i \in 1..(n - 1 + 1) /\ 1 + i - 1 = i
    OBVIOUS
  <2>4. QED
    BY <2>2, <2>3
<1>4. QED
  BY <1>2, <1>3, SeqEqual

\* A sequence begins with those of its elements.
LEMMA Prefix ==
  ASSUME NEW T, NEW s \in Seq(T), NEW n \in Nat, n <= Len(s)
  PROVE  /\ SubSeq(s, 1, n) \in Seq(T) /\ Len(SubSeq(s, 1, n)) = n
         /\ \A i \in 1..n : SubSeq(s, 1, n)[i] = s[i]
BY SamePrefix

\* The beginning of a beginning is a beginning of the whole.
LEMMA PrefixOfPrefix ==
  ASSUME NEW T, NEW s \in Seq(T), NEW n \in Nat, n <= Len(s), NEW m \in Nat, m <= n
  PROVE  SubSeq(SubSeq(s, 1, n), 1, m) = SubSeq(s, 1, m)
<1>1. /\ SubSeq(s, 1, n) \in Seq(T) /\ Len(SubSeq(s, 1, n)) = n
      /\ \A i \in 1..n : SubSeq(s, 1, n)[i] = s[i]
  BY Prefix
<1>2. m <= Len(s)
  BY LenProperties
<1> QED
  BY <1>1, <1>2, SamePrefix

-----------------------------------------------------------------------------
(* Messages, lines, and what a log tells.                                  *)

\* What a line of each type says.
LEMMA LineShape ==
  ASSUME NEW l \in Line
  PROVE  /\ l.type \in {"message", "elision", "compaction", "checkpoint"}
         /\ l.type = "message" => l.message \in Said
         /\ l.type = "elision" => l.stubbed \subseteq Nat
         /\ l.type = "compaction" => l.replaced \in Nat /\ l.summary \in Said
         /\ l.type = "checkpoint" => l.turn \in Nat /\ l.of \in Nat /\ l.before \in Seq(Said) /\ l.known \in BOOLEAN
BY DEF Line

\* A result that shrinks keeps its place, its call and its role.
LEMMA StubbedIs ==
  ASSUME NEW ms \in Seq(Said), NEW S
  PROVE  /\ Stubbed(ms, S) \in Seq(Said) /\ Len(Stubbed(ms, S)) = Len(ms)
         /\ \A i \in 1..Len(ms) : /\ Stubbed(ms, S)[i].role = ms[i].role /\ Stubbed(ms, S)[i].ask = ms[i].ask
                                  /\ Stubbed(ms, S)[i].calls = ms[i].calls /\ Stubbed(ms, S)[i].at = ms[i].at
<1> DEFINE n == Len(ms)  u == Stubbed(ms, S)
<1>1. n \in Nat /\ DOMAIN ms = 1..n /\ \A i \in 1..n : ms[i] \in Said
  BY LenProperties, ElementOfSeq
<1>2. u = [i \in 1..n |-> IF i \in S /\ ms[i].role = "tool" THEN [ms[i] EXCEPT !.stub = TRUE] ELSE ms[i]]
  BY <1>1 DEF Stubbed
<1> HIDE DEF u, n
<1>3. ASSUME NEW m \in Said
      PROVE  /\ [m EXCEPT !.stub = TRUE] \in Said /\ [m EXCEPT !.stub = TRUE].role = m.role /\ [m EXCEPT !.stub = TRUE].ask = m.ask
             /\ [m EXCEPT !.stub = TRUE].calls = m.calls /\ [m EXCEPT !.stub = TRUE].at = m.at
  BY DEF Said
<1>4. ASSUME NEW i \in 1..n
      PROVE  u[i] \in Said /\ u[i].role = ms[i].role /\ u[i].ask = ms[i].ask /\ u[i].calls = ms[i].calls /\ u[i].at = ms[i].at
  <2>1. u[i] = ms[i] \/ u[i] = [ms[i] EXCEPT !.stub = TRUE]
    BY <1>2
  <2>2. QED
    BY <1>1, <1>3, <2>1
<1>5. DOMAIN u = 1..n /\ u = [i \in 1..n |-> u[i]]
  BY <1>2
<1>6. u \in Seq(Said) /\ Len(u) = n
  BY <1>1, <1>4, <1>5, Elements
<1>7. QED
  BY <1>4, <1>6 DEF u, n

\* A summary is in place of the first k.
LEMMA ReplacedIs ==
  ASSUME NEW ms \in Seq(Said), NEW k \in Nat, NEW s \in Said
  PROVE  /\ Replaced(ms, k, s) \in Seq(Said)
         /\ Len(Replaced(ms, k, s)) = 1 + (IF k < Len(ms) THEN Len(ms) - k ELSE 0)
         /\ Replaced(ms, k, s)[1] = s
         /\ \A i \in 2..Len(Replaced(ms, k, s)) : Replaced(ms, k, s)[i] = ms[k + i - 1]
<1> DEFINE n == Len(ms)  kept == SubSeq(ms, k + 1, n)  one == <<s>>  u == Replaced(ms, k, s)
<1>1. n \in Nat /\ \A i \in 1..n : ms[i] \in Said
  BY LenProperties, ElementOfSeq
<1>2. /\ kept \in Seq(Said) /\ Len(kept) = (IF k + 1 <= n THEN n - (k + 1) + 1 ELSE 0)
      /\ \A i \in 1..(n - (k + 1) + 1) : kept[i] = ms[k + 1 + i - 1]
  <2>1. k + 1 \in Int /\ n \in Int /\ \A i \in (k + 1)..n : ms[i] \in Said
    BY <1>1
  <2> HIDE DEF n
  <2>2. QED
    BY <2>1, SubSeqProperties
<1>3. one \in Seq(Said) /\ Len(one) = 1 /\ one[1] = s
  OBVIOUS
<1>4. u = one \o kept
  BY DEF Replaced
<1> HIDE DEF kept, one, u, n
<1>5. /\ u \in Seq(Said) /\ Len(u) = 1 + Len(kept)
      /\ \A i \in 1..(1 + Len(kept)) : u[i] = IF i <= 1 THEN one[i] ELSE kept[i - 1]
  <2>1. Len(one) + Len(kept) = 1 + Len(kept)
    BY <1>3
  <2>2. /\ one \o kept \in Seq(Said) /\ Len(one \o kept) = Len(one) + Len(kept)
        /\ \A i \in 1..(Len(one) + Len(kept)) : (one \o kept)[i] = IF i <= Len(one) THEN one[i] ELSE kept[i - Len(one)]
    BY <1>2, <1>3, ConcatProperties
  <2>3. QED
    BY <1>3, <1>4, <2>1, <2>2
<1>6. Len(u) = 1 + (IF k < n THEN n - k ELSE 0)
  BY <1>1, <1>2, <1>5
<1>7. u[1] = s
  <2>1. 1 \in 1..(1 + Len(kept))
    BY <1>1, <1>2
  <2>2. QED
    BY <1>3, <1>5, <2>1
<1>8. ASSUME NEW i \in 2..Len(u) PROVE u[i] = ms[k + i - 1]
  <2>1. i \in 1..(1 + Len(kept)) /\ ~(i <= 1) /\ i - 1 \in 1..(n - (k + 1) + 1) /\ k + 1 + (i - 1) - 1 = k + i - 1
    BY <1>1, <1>2, <1>5
  <2>2. u[i] = kept[i - 1]
    BY <1>5, <2>1
  <2>3. QED
    BY <1>2, <2>1, <2>2
<1>9. QED
  BY <1>5, <1>6, <1>7, <1>8 DEF u, n

\* A line replayed on a conversation gives a conversation.
LEMMA ReplayedIs ==
  ASSUME NEW ms \in Seq(Said), NEW l \in Line
  PROVE  Replayed(ms, l) \in Seq(Said)
<1>1. CASE l.type = "message"
  <2>1. Replayed(ms, l) = Append(ms, l.message) /\ l.message \in Said
    BY <1>1, LineShape DEF Replayed
  <2>2. QED
    BY <2>1
<1>2. CASE l.type = "elision"
  BY <1>2, StubbedIs DEF Replayed
<1>3. CASE l.type = "compaction"
  BY <1>3, LineShape, ReplacedIs DEF Replayed
<1>4. CASE l.type = "checkpoint"
  BY <1>4 DEF Replayed
<1>5. QED
  BY <1>1, <1>2, <1>3, <1>4, LineShape

\* Whatever is in a log, it tells a conversation.
LEMMA ProjectionIsSaid == ASSUME NEW lines \in Seq(Line) PROVE Projection(lines) \in Seq(Said)
<1> DEFINE S == {n \in 0..Len(lines) : Projection(SubSeq(lines, 1, n)) \notin Seq(Said)}
<1>1. Len(lines) \in Nat /\ SubSeq(lines, 1, Len(lines)) = lines
  BY LenProperties, SubSeqFull
<1>2. SUFFICES ASSUME S # {} PROVE FALSE
  <2>1. CASE S = {}
    <3>1. Len(lines) \in 0..Len(lines) /\ Len(lines) \notin S
      BY <1>1, <2>1
    <3>2. Projection(SubSeq(lines, 1, Len(lines))) \in Seq(Said)
      BY <3>1
    <3>3. QED
      BY <1>1, <3>2
  <2>2. QED
    BY <2>1
<1>3. PICK n \in S : \A k \in S : n <= k
  <2>1. S \subseteq Nat
    BY <1>1
  <2> HIDE DEF S
  <2>2. QED
    BY <1>2, <2>1, LeastNat
<1>4. n \in Nat /\ n <= Len(lines) /\ Projection(SubSeq(lines, 1, n)) \notin Seq(Said)
  BY <1>1
<1>5. n # 0
  <2>1. SubSeq(lines, 1, 0) = <<>>
    BY SubSeqEmpty
  <2>2. <<>> \in Seq(Said)
    OBVIOUS
  <2>3. QED
    BY <1>4, <2>1, <2>2, NoLines
<1>6. n - 1 \in Nat /\ n - 1 <= Len(lines) /\ n - 1 \notin S
  BY <1>1, <1>3, <1>4, <1>5
<1>7. Projection(SubSeq(lines, 1, n - 1)) \in Seq(Said)
  BY <1>1, <1>6
<1>8. SubSeq(lines, 1, n) = Append(SubSeq(lines, 1, n - 1), lines[n]) /\ lines[n] \in Line
  <2>1. /\ SubSeq(lines, 1, n - 1) \in Seq(Line) /\ Len(SubSeq(lines, 1, n - 1)) = n - 1
        /\ \A i \in 1..(n - 1) : SubSeq(lines, 1, n - 1)[i] = lines[i]
    BY <1>6, Prefix
  <2>2. /\ SubSeq(lines, 1, n) \in Seq(Line) /\ Len(SubSeq(lines, 1, n)) = n
        /\ \A i \in 1..n : SubSeq(lines, 1, n)[i] = lines[i]
    BY <1>4, Prefix
  <2>3. lines[n] \in Line
    BY <1>1, <1>4, <1>5, ElementOfSeq
  <2> DEFINE u == Append(SubSeq(lines, 1, n - 1), lines[n])
  <2>4. u \in Seq(Line) /\ Len(u) = n /\ \A i \in 1..n : u[i] = IF i = n THEN lines[n] ELSE SubSeq(lines, 1, n - 1)[i]
    BY <1>4, <1>5, <2>1, <2>3
  <2> HIDE DEF u
  <2>5. \A i \in 1..n : SubSeq(lines, 1, n)[i] = u[i]
    BY <1>4, <2>1, <2>2, <2>4
  <2>6. SubSeq(lines, 1, n) = u
    BY <2>2, <2>4, <2>5, SeqEqual
  <2>7. QED
    BY <2>3, <2>6 DEF u
<1>9. SubSeq(lines, 1, n - 1) \in Seq(Line)
  BY <1>6, Prefix
<1>10. Projection(SubSeq(lines, 1, n)) = Replayed(Projection(SubSeq(lines, 1, n - 1)), lines[n])
  BY <1>8, <1>9, OneLineMore
<1>11. QED
  BY <1>4, <1>7, <1>8, <1>10, ReplayedIs

-----------------------------------------------------------------------------
(* What agrees with a log.                                                 *)

\* Conversations that fade to the same one differ in what shrank only.
LEMMA FadedMeans == ASSUME NEW a \in Seq(Said), NEW b \in Seq(Said) PROVE Faded(a) = Faded(b) <=> SameBut(a, b)
<1>1. /\ Len(a) \in Nat /\ DOMAIN a = 1..Len(a) /\ \A i \in 1..Len(a) : a[i] \in Said
      /\ Len(b) \in Nat /\ DOMAIN b = 1..Len(b) /\ \A i \in 1..Len(b) : b[i] \in Said
  BY LenProperties, ElementOfSeq
<1>2. ASSUME NEW m \in Said, NEW n \in Said
      PROVE  [m EXCEPT !.stub = FALSE] = [n EXCEPT !.stub = FALSE]
               <=> m.role = n.role /\ m.ask = n.ask /\ m.calls = n.calls /\ m.at = n.at
  <2>1. m.role = n.role /\ m.ask = n.ask /\ m.calls = n.calls /\ m.at = n.at => [m EXCEPT !.stub = FALSE] = [n EXCEPT !.stub = FALSE]
    BY DEF Said
  <2>2. /\ [m EXCEPT !.stub = FALSE].role = m.role /\ [m EXCEPT !.stub = FALSE].ask = m.ask
        /\ [m EXCEPT !.stub = FALSE].calls = m.calls /\ [m EXCEPT !.stub = FALSE].at = m.at
        /\ [n EXCEPT !.stub = FALSE].role = n.role /\ [n EXCEPT !.stub = FALSE].ask = n.ask
        /\ [n EXCEPT !.stub = FALSE].calls = n.calls /\ [n EXCEPT !.stub = FALSE].at = n.at
    BY DEF Said
  <2>3. QED
    BY <2>1, <2>2
<1>3. /\ Faded(a) = [i \in 1..Len(a) |-> [a[i] EXCEPT !.stub = FALSE]]
      /\ Faded(b) = [i \in 1..Len(b) |-> [b[i] EXCEPT !.stub = FALSE]]
  BY <1>1 DEF Faded
<1>4. ASSUME Faded(a) = Faded(b) PROVE SameBut(a, b)
  <2>1. DOMAIN Faded(a) = 1..Len(a) /\ DOMAIN Faded(b) = 1..Len(b)
    BY <1>3
  <2>2. Len(a) = Len(b)
    <3>1. \A i : i \in 1..Len(a) <=> i \in 1..Len(b)
      BY <1>4, <2>1
    <3>2. Len(a) >= 1 => Len(a) \in 1..Len(a)
      BY <1>1
    <3>3. Len(b) >= 1 => Len(b) \in 1..Len(b)
      BY <1>1
    <3>4. (Len(a) >= 1 => Len(a) <= Len(b) /\ Len(b) >= 1) /\ (Len(b) >= 1 => Len(b) <= Len(a) /\ Len(a) >= 1)
      BY <1>1, <3>1, <3>2, <3>3
    <3>5. Len(a) \in Nat /\ Len(b) \in Nat
      BY <1>1
    <3>6. QED
      BY <3>4, <3>5
  <2>3. \A i \in 1..Len(a) : [a[i] EXCEPT !.stub = FALSE] = [b[i] EXCEPT !.stub = FALSE]
    BY <1>3, <1>4, <2>2
  <2>4. QED
    BY <1>1, <1>2, <2>2, <2>3 DEF SameBut
<1>5. ASSUME SameBut(a, b) PROVE Faded(a) = Faded(b)
  <2>1. Len(a) = Len(b)
    BY <1>5 DEF SameBut
  <2>2. \A i \in 1..Len(a) : [a[i] EXCEPT !.stub = FALSE] = [b[i] EXCEPT !.stub = FALSE]
    BY <1>1, <1>2, <1>5 DEF SameBut
  <2>3. QED
    BY <1>3, <2>1, <2>2
<1>6. QED
  BY <1>4, <1>5

\* What shrinks is the same but for that.
LEMMA StubbedIsSame == ASSUME NEW ms \in Seq(Said), NEW S PROVE SameBut(Stubbed(ms, S), ms)
BY StubbedIs DEF SameBut

\* To be the same but for what shrank is an equivalence.
LEMMA SameIsSame ==
  ASSUME NEW a, NEW b
  PROVE  /\ SameBut(a, a) /\ (SameBut(a, b) => SameBut(b, a))
         /\ \A c : SameBut(a, b) /\ SameBut(b, c) => SameBut(a, c)
BY DEF SameBut

\* It outlasts any line.
LEMMA ReplayKeepsSame ==
  ASSUME NEW a \in Seq(Said), NEW b \in Seq(Said), NEW l \in Line, SameBut(a, b) PROVE SameBut(Replayed(a, l), Replayed(b, l))
<1>1. Len(a) \in Nat /\ Len(b) \in Nat
  BY LenProperties
<1>2. CASE l.type = "message"
  <2>1. Replayed(a, l) = Append(a, l.message) /\ Replayed(b, l) = Append(b, l.message) /\ l.message \in Said
    BY <1>2, LineShape DEF Replayed
  <2> DEFINE x == Append(a, l.message)  y == Append(b, l.message)
  <2>2. /\ Len(x) = Len(a) + 1 /\ \A i \in 1..(Len(a) + 1) : x[i] = IF i = Len(a) + 1 THEN l.message ELSE a[i]
        /\ Len(y) = Len(b) + 1 /\ \A i \in 1..(Len(b) + 1) : y[i] = IF i = Len(b) + 1 THEN l.message ELSE b[i]
    BY <2>1
  <2> HIDE DEF x, y
  <2>3. SameBut(x, y)
    BY <1>1, <2>2 DEF SameBut
  <2>4. QED
    BY <2>1, <2>3 DEF x, y
<1>3. CASE l.type = "elision"
  <2>1. Replayed(a, l) = Stubbed(a, l.stubbed) /\ Replayed(b, l) = Stubbed(b, l.stubbed)
    BY <1>3 DEF Replayed
  <2>2. SameBut(Stubbed(a, l.stubbed), a) /\ SameBut(b, Stubbed(b, l.stubbed))
    BY StubbedIsSame, SameIsSame
  <2>3. QED
    BY <2>1, <2>2, SameIsSame
<1>4. CASE l.type = "compaction"
  <2>1. /\ l.replaced \in Nat /\ l.summary \in Said
        /\ Replayed(a, l) = Replaced(a, l.replaced, l.summary) /\ Replayed(b, l) = Replaced(b, l.replaced, l.summary)
    BY <1>4, LineShape DEF Replayed
  <2> DEFINE x == Replaced(a, l.replaced, l.summary)  y == Replaced(b, l.replaced, l.summary)
  <2>2. /\ Len(x) = 1 + (IF l.replaced < Len(a) THEN Len(a) - l.replaced ELSE 0)
        /\ Len(y) = 1 + (IF l.replaced < Len(b) THEN Len(b) - l.replaced ELSE 0)
    BY <2>1, ReplacedIs
  <2>3. x[1] = l.summary /\ y[1] = l.summary
    BY <2>1, ReplacedIs
  <2>4. (\A i \in 2..Len(x) : x[i] = a[l.replaced + i - 1]) /\ (\A i \in 2..Len(y) : y[i] = b[l.replaced + i - 1])
    BY <2>1, ReplacedIs
  <2> HIDE DEF x, y
  <2>5. Len(a) = Len(b) /\ Len(x) = Len(y)
    BY <2>2 DEF SameBut
  <2>6. ASSUME NEW i \in 1..Len(x)
        PROVE  x[i].role = y[i].role /\ x[i].ask = y[i].ask /\ x[i].calls = y[i].calls /\ x[i].at = y[i].at
    <3>1. CASE i = 1
      BY <2>3, <3>1
    <3>2. CASE i # 1
      <4>1. i \in 2..Len(x) /\ i \in 2..Len(y) /\ l.replaced + i - 1 \in 1..Len(a)
        BY <1>1, <2>1, <2>2, <2>5, <3>2
      <4>2. x[i] = a[l.replaced + i - 1] /\ y[i] = b[l.replaced + i - 1]
        BY <2>4, <4>1
      <4>3. QED
        BY <4>1, <4>2 DEF SameBut
    <3>3. QED
      BY <3>1, <3>2
  <2>7. SameBut(x, y)
    BY <2>5, <2>6 DEF SameBut
  <2>8. QED
    BY <2>1, <2>7 DEF x, y
<1>5. CASE l.type = "checkpoint"
  BY <1>5 DEF Replayed
<1>6. QED
  BY <1>2, <1>3, <1>4, <1>5, LineShape

\* The same line on both sides leaves them agreed.
LEMMA LineKeepsAgreement ==
  ASSUME NEW current \in Seq(Said), NEW lines \in Seq(Line), NEW how, NEW l \in Line, Agrees(current, Projection(lines), how)
  PROVE  Agrees(Replayed(current, l), Projection(Append(lines, l)), how)
<1>1. Projection(Append(lines, l)) = Replayed(Projection(lines), l)
  BY OneLineMore
<1>2. Projection(lines) \in Seq(Said)
  BY ProjectionIsSaid
<1>3. how = "stubs" => SameBut(Replayed(current, l), Replayed(Projection(lines), l))
  BY <1>2, ReplayKeepsSame DEF Agrees
<1>4. QED
  BY <1>1, <1>3 DEF Agrees

-----------------------------------------------------------------------------
(* Messages recorded.                                                      *)

Marked(ms, n) == [i \in DOMAIN ms |-> [ms[i] EXCEPT !.at = n + i]]
MarkedLines(ms, n) == [i \in DOMAIN ms |-> MessageLine([ms[i] EXCEPT !.at = n + i])]

\* The messages recorded, as the turn holds them and as the log does.
LEMMA MarkedIs ==
  ASSUME NEW ms \in Seq(Said), NEW n \in Nat
  PROVE  /\ Marked(ms, n) \in Seq(Said) /\ Len(Marked(ms, n)) = Len(ms)
         /\ MarkedLines(ms, n) \in Seq(Line) /\ Len(MarkedLines(ms, n)) = Len(ms)
         /\ \A i \in 1..Len(ms) :
              /\ Marked(ms, n)[i].role = ms[i].role /\ Marked(ms, n)[i].ask = ms[i].ask /\ Marked(ms, n)[i].calls = ms[i].calls
              /\ MarkedLines(ms, n)[i] = MessageLine(Marked(ms, n)[i])
<1> DEFINE u == Marked(ms, n)  v == MarkedLines(ms, n)  m == Len(ms)
<1>1. m \in Nat /\ DOMAIN ms = 1..m /\ \A i \in 1..m : ms[i] \in Said
  BY LenProperties, ElementOfSeq
<1>2. /\ u = [i \in 1..m |-> [ms[i] EXCEPT !.at = n + i]]
      /\ v = [i \in 1..m |-> MessageLine([ms[i] EXCEPT !.at = n + i])]
  BY <1>1 DEF Marked, MarkedLines
<1>3. ASSUME NEW x \in Said, NEW k \in Nat
      PROVE  /\ [x EXCEPT !.at = k] \in Said /\ [x EXCEPT !.at = k].role = x.role /\ [x EXCEPT !.at = k].ask = x.ask
             /\ [x EXCEPT !.at = k].calls = x.calls
  BY DEF Said
<1> HIDE DEF u, v, m
<1>4. ASSUME NEW i \in 1..m
      PROVE  /\ u[i] \in Said /\ u[i].role = ms[i].role /\ u[i].ask = ms[i].ask /\ u[i].calls = ms[i].calls
             /\ v[i] = MessageLine(u[i])
  <2>1. u[i] = [ms[i] EXCEPT !.at = n + i] /\ v[i] = MessageLine([ms[i] EXCEPT !.at = n + i]) /\ n + i \in Nat
    BY <1>1, <1>2
  <2>2. QED
    BY <1>1, <1>3, <2>1
<1>5. \A i \in 1..m : v[i] \in Line
  <2>1. ASSUME NEW x \in Said PROVE MessageLine(x) \in Line
    BY DEF MessageLine, Line
  <2>2. QED
    BY <1>4, <2>1
<1>6. DOMAIN u = 1..m /\ u = [i \in 1..m |-> u[i]] /\ DOMAIN v = 1..m /\ v = [i \in 1..m |-> v[i]]
  BY <1>2
<1>7. u \in Seq(Said) /\ Len(u) = m
  BY <1>1, <1>4, <1>6, Elements
<1>8. v \in Seq(Line) /\ Len(v) = m
  BY <1>1, <1>5, <1>6, Elements
<1>9. QED
  BY <1>4, <1>7, <1>8 DEF u, v, m

\* Message by message, a conversation and its log go on together.
LEMMA RecordingAgrees ==
  ASSUME NEW base \in Seq(Said), NEW lines \in Seq(Line), NEW how, Agrees(base, Projection(lines), how),
         NEW ms \in Seq(Said), NEW n \in Nat
  PROVE  Agrees(base \o Marked(ms, n), Projection(lines \o MarkedLines(ms, n)), how)
<1> DEFINE u == Marked(ms, n)  v == MarkedLines(ms, n)  m == Len(ms)
           S == {k \in 0..m : ~ Agrees(base \o SubSeq(u, 1, k), Projection(lines \o SubSeq(v, 1, k)), how)}
<1>1. /\ m \in Nat /\ u \in Seq(Said) /\ Len(u) = m /\ v \in Seq(Line) /\ Len(v) = m
      /\ \A i \in 1..m : v[i] = MessageLine(u[i])
  BY MarkedIs, LenProperties
<1> HIDE DEF u, v, m
<1>2. SUFFICES ASSUME S # {} PROVE FALSE
  <2>1. CASE S = {}
    <3>0. m \in 0..m
      BY <1>1
    <3>1. \A k \in 0..m : k \in S \/ Agrees(base \o SubSeq(u, 1, k), Projection(lines \o SubSeq(v, 1, k)), how)
      OBVIOUS
    <3> HIDE DEF S
    <3>2. Agrees(base \o SubSeq(u, 1, m), Projection(lines \o SubSeq(v, 1, m)), how)
      BY <2>1, <3>0, <3>1
    <3>3. SubSeq(u, 1, m) = u /\ SubSeq(v, 1, m) = v
      BY <1>1, SubSeqFull
    <3>4. QED
      BY <3>2, <3>3 DEF u, v
  <2>2. QED
    BY <2>1
<1>3. PICK k \in S : \A j \in S : k <= j
  <2>1. S \subseteq Nat
    BY <1>1
  <2> HIDE DEF S
  <2>2. QED
    BY <1>2, <2>1, LeastNat
<1>4. k \in Nat /\ k <= m /\ ~ Agrees(base \o SubSeq(u, 1, k), Projection(lines \o SubSeq(v, 1, k)), how)
  BY <1>1
<1>5. k # 0
  <2>0. 1 \in Int /\ 0 \in Int /\ 0 < 1
    OBVIOUS
  <2>1. SubSeq(u, 1, 0) = <<>> /\ SubSeq(v, 1, 0) = <<>>
    BY <2>0, SubSeqEmpty
  <2>2. base \o <<>> = base /\ lines \o <<>> = lines
    BY ConcatEmptySeq
  <2>3. QED
    BY <1>4, <2>1, <2>2
<1>6. k - 1 \in 0..m /\ k - 1 \notin S
  BY <1>1, <1>3, <1>4, <1>5
<1>7. Agrees(base \o SubSeq(u, 1, k - 1), Projection(lines \o SubSeq(v, 1, k - 1)), how)
  BY <1>6
<1> HIDE DEF S
<1>8. k - 1 \in Nat /\ k - 1 <= m /\ 1 \in 1..m /\ k \in 1..m
  BY <1>1, <1>4, <1>5
<1>9. SubSeq(u, 1, k - 1) \in Seq(Said) /\ SubSeq(v, 1, k - 1) \in Seq(Line)
  BY <1>1, <1>8, Prefix
<1>10. u[k] \in Said /\ v[k] \in Line
  BY <1>1, <1>8, ElementOfSeq
<1>11. SubSeq(u, 1, k) = SubSeq(u, 1, k - 1) \o <<u[k]>> /\ SubSeq(v, 1, k) = SubSeq(v, 1, k - 1) \o <<v[k]>>
  <2>1. 1 \in 1..Len(u) /\ k \in 1..Len(u) /\ 1 \in 1..Len(v) /\ k \in 1..Len(v)
    BY <1>1, <1>8
  <2>2. SubSeq(u, 1, k) = SubSeq(u, 1, k - 1) \o <<u[k]>>
    BY <1>1, <2>1, SubSeqRecursiveSecond
  <2>3. SubSeq(v, 1, k) = SubSeq(v, 1, k - 1) \o <<v[k]>>
    BY <1>1, <2>1, SubSeqRecursiveSecond
  <2>4. QED
    BY <2>2, <2>3
<1> DEFINE b == base \o SubSeq(u, 1, k - 1)  l == lines \o SubSeq(v, 1, k - 1)
<1>12. b \in Seq(Said) /\ l \in Seq(Line)
  BY <1>9, ConcatProperties
<1>13. base \o SubSeq(u, 1, k) = Append(b, u[k])
  <2>1. <<u[k]>> \in Seq(Said)
    BY <1>10
  <2>2. base \o (SubSeq(u, 1, k - 1) \o <<u[k]>>) = b \o <<u[k]>>
    <3>1. \A p, q, o \in Seq(Said) : (p \o q) \o o = p \o (q \o o)
      BY ConcatAssociative
    <3>2. QED
      BY <1>9, <2>1, <3>1
  <2>3. Append(b, u[k]) = b \o <<u[k]>>
    BY <1>10, <1>12, AppendIsConcat
  <2>4. QED
    BY <1>11, <2>2, <2>3
<1>14. lines \o SubSeq(v, 1, k) = Append(l, v[k])
  <2>1. <<v[k]>> \in Seq(Line)
    BY <1>10
  <2>2. lines \o (SubSeq(v, 1, k - 1) \o <<v[k]>>) = l \o <<v[k]>>
    <3>1. \A p, q, o \in Seq(Line) : (p \o q) \o o = p \o (q \o o)
      BY ConcatAssociative
    <3>2. QED
      BY <1>9, <2>1, <3>1
  <2>3. Append(l, v[k]) = l \o <<v[k]>>
    BY <1>10, <1>12, AppendIsConcat
  <2>4. QED
    BY <1>11, <2>2, <2>3
<1> HIDE DEF b, l
<1>15. Replayed(b, v[k]) = Append(b, u[k])
  <2>1. v[k] = MessageLine(u[k])
    BY <1>1, <1>8
  <2>2. v[k].type = "message" /\ v[k].message = u[k]
    BY <2>1 DEF MessageLine
  <2>3. QED
    BY <2>2 DEF Replayed
<1>16. Agrees(Replayed(b, v[k]), Projection(Append(l, v[k])), how)
  BY <1>7, <1>10, <1>12, LineKeepsAgreement DEF b, l
<1>17. QED
  BY <1>4, <1>13, <1>14, <1>15, <1>16

\* What the recorder and the turn make of messages.
LEMMA RecorderIs ==
  ASSUME TypeInv, NEW ms \in Seq(Said), Recorder(ms)
  PROVE  /\ With(ms) \in Seq(Said) /\ Len(With(ms)) = Len(working) + Len(ms)
         /\ \A i \in 1..Len(working) : With(ms)[i] = working[i]
         /\ \A i \in 1..Len(ms) : LET w == With(ms)[Len(working) + i]
                                  IN w.role = ms[i].role /\ w.ask = ms[i].ask /\ w.calls = ms[i].calls
         /\ log' \in Seq(Line) /\ Len(log') = Len(log) + Len(ms)
         /\ \A i \in 1..Len(log) : log'[i] = log[i]
         /\ \A i \in 1..Len(ms) : log'[Len(log) + i].type = "message" /\ log'[Len(log) + i].message.ask = ms[i].ask
         /\ turnStart' = (IF Len(ms) > 0 /\ ms[Len(ms)].role = "user" THEN Len(log) + Len(ms) ELSE turnStart)
         /\ turnStart' \in 0..Len(log')
         /\ \A how : Agrees(working, Projection(log), how) => Agrees(With(ms), Projection(log'), how)
<1> DEFINE u == Marked(ms, Len(log))  v == MarkedLines(ms, Len(log))
<1>1. /\ working \in Seq(Said) /\ log \in Seq(Line) /\ Len(log) \in Nat /\ Len(working) \in Nat /\ Len(ms) \in Nat
      /\ turnStart \in 0..Len(log)
  BY LenProperties DEF TypeInv
<1>2. /\ u \in Seq(Said) /\ Len(u) = Len(ms) /\ v \in Seq(Line) /\ Len(v) = Len(ms)
      /\ \A i \in 1..Len(ms) :
           /\ u[i].role = ms[i].role /\ u[i].ask = ms[i].ask /\ u[i].calls = ms[i].calls
           /\ v[i] = MessageLine(u[i])
  BY <1>1, MarkedIs
<1>3. With(ms) = working \o u /\ log' = log \o v
  BY DEF With, Recorder, Marked, MarkedLines
<1>4. turnStart' = IF ms # <<>> /\ Last(ms).role = "user" THEN Len(log) + Len(ms) ELSE turnStart
  BY DEF Recorder
<1>5. \A how : Agrees(working, Projection(log), how) => Agrees(working \o u, Projection(log \o v), how)
  BY <1>1, RecordingAgrees
<1> HIDE DEF u, v
<1>6. /\ working \o u \in Seq(Said) /\ Len(working \o u) = Len(working) + Len(ms)
      /\ \A i \in 1..(Len(working) + Len(ms)) : (working \o u)[i] = IF i <= Len(working) THEN working[i] ELSE u[i - Len(working)]
  <2>1. /\ working \o u \in Seq(Said) /\ Len(working \o u) = Len(working) + Len(u)
        /\ \A i \in 1..(Len(working) + Len(u)) : (working \o u)[i] = IF i <= Len(working) THEN working[i] ELSE u[i - Len(working)]
    <3>1. working \in Seq(Said) /\ u \in Seq(Said)
      BY <1>1, <1>2
    <3>2. QED
      BY <3>1, ConcatProperties
  <2>2. QED
    BY <1>2, <2>1
<1>7. /\ log \o v \in Seq(Line) /\ Len(log \o v) = Len(log) + Len(ms)
      /\ \A i \in 1..(Len(log) + Len(ms)) : (log \o v)[i] = IF i <= Len(log) THEN log[i] ELSE v[i - Len(log)]
  <2>1. /\ log \o v \in Seq(Line) /\ Len(log \o v) = Len(log) + Len(v)
        /\ \A i \in 1..(Len(log) + Len(v)) : (log \o v)[i] = IF i <= Len(log) THEN log[i] ELSE v[i - Len(log)]
    <3>1. log \in Seq(Line) /\ v \in Seq(Line)
      BY <1>1, <1>2
    <3>2. QED
      BY <3>1, ConcatProperties
  <2>2. QED
    BY <1>2, <2>1
<1>8. \A i \in 1..Len(working) : With(ms)[i] = working[i]
  BY <1>1, <1>3, <1>6
<1>9. \A i \in 1..Len(log) : log'[i] = log[i]
  BY <1>1, <1>3, <1>7
<1>10. ASSUME NEW i \in 1..Len(ms) PROVE With(ms)[Len(working) + i] = u[i] /\ log'[Len(log) + i] = MessageLine(u[i])
  <2>1. Len(working) + i \in 1..(Len(working) + Len(ms)) /\ ~(Len(working) + i <= Len(working)) /\ (Len(working) + i) - Len(working) = i
    BY <1>1
  <2>2. Len(log) + i \in 1..(Len(log) + Len(ms)) /\ ~(Len(log) + i <= Len(log)) /\ (Len(log) + i) - Len(log) = i
    BY <1>1
  <2>3. QED
    BY <1>2, <1>3, <1>6, <1>7, <2>1, <2>2
<1>11. turnStart' = IF Len(ms) > 0 /\ ms[Len(ms)].role = "user" THEN Len(log) + Len(ms) ELSE turnStart
  <2>1. ms # <<>> <=> Len(ms) > 0
    BY <1>1, EmptySeq
  <2>2. QED
    BY <1>4, <2>1 DEF Last
<1>12. \A i \in 1..Len(ms) : log'[Len(log) + i].type = "message" /\ log'[Len(log) + i].message.ask = ms[i].ask
  <2>1. ASSUME NEW x PROVE MessageLine(x).type = "message" /\ MessageLine(x).message = x
    BY DEF MessageLine
  <2>2. QED
    BY <1>2, <1>10, <2>1
<1>13. \A i \in 1..Len(ms) : LET w == With(ms)[Len(working) + i]
                            IN w.role = ms[i].role /\ w.ask = ms[i].ask /\ w.calls = ms[i].calls
  BY <1>2, <1>10
<1>14. turnStart' \in 0..Len(log')
  BY <1>1, <1>3, <1>7, <1>11
<1>15. QED
  BY <1>3, <1>5, <1>6, <1>7, <1>8, <1>9, <1>11, <1>12, <1>13, <1>14

-----------------------------------------------------------------------------
(* Messages a turn records.                                                *)

\* What a turn says, and of which turn it is.
LEMMA MessagesAre ==
  ASSUME TypeInv
  PROVE  /\ Prompt \in Said /\ Prompt.role = "user" /\ Prompt.ask = turns /\ Prompt.calls = 0
         /\ Harness \in Said /\ Harness.role = "user" /\ Harness.ask = 0 /\ Harness.calls = 0
         /\ \A c \in Nat : /\ Reply(c) \in Said /\ Reply(c).role = "assistant" /\ Reply(c).ask = 0 /\ Reply(c).calls = c
                           /\ Result(c) \in Said /\ Result(c).role = "tool" /\ Result(c).ask = 0 /\ Result(c).calls = c
<1>1. turns \in Nat
  BY DEF TypeInv
<1>2. ASSUME NEW r \in Roles, NEW a \in Nat, NEW c \in Nat
      PROVE  Message(r, a, c) \in Said /\ Message(r, a, c).role = r /\ Message(r, a, c).ask = a /\ Message(r, a, c).calls = c
  BY DEF Message, Said
<1>3. QED
  BY <1>1, <1>2 DEF Prompt, Harness, Reply, Result, Roles

\* Sequences of one message and of two.
LEMMA FewAre ==
  ASSUME NEW x \in Said
  PROVE  /\ <<>> \in Seq(Said) /\ Len(<<>>) = 0
         /\ <<x>> \in Seq(Said) /\ Len(<<x>>) = 1 /\ <<x>>[1] = x
         /\ \A y \in Said : <<x, y>> \in Seq(Said) /\ Len(<<x, y>>) = 2 /\ <<x, y>>[1] = x /\ <<x, y>>[2] = y
OBVIOUS

-----------------------------------------------------------------------------
(* A log that grows.                                                       *)

Grows ==
  /\ log' \in Seq(Line) /\ Len(log) <= Len(log')
  /\ \A i \in 1..Len(log) : log'[i] = log[i]

\* What was in the log is where it was.
LEMMA GrownPrefix ==
  ASSUME TypeInv, Grows, NEW n \in Nat, n <= Len(log)
  PROVE  SubSeq(log', 1, n) = SubSeq(log, 1, n)
<1>1. log \in Seq(Line) /\ log' \in Seq(Line) /\ Len(log) \in Nat /\ Len(log') \in Nat /\ n <= Len(log')
  BY LenProperties DEF TypeInv, Grows
<1>2. \A i \in 1..n : log[i] = log'[i]
  BY <1>1 DEF Grows
<1>3. QED
  BY <1>1, <1>2, SamePrefix

\* What was true of its lines is true of them, if it is of the new ones.
LEMMA GrowLines ==
  ASSUME TypeInv, LinesInv, Grows, turns' \in Nat, turns <= turns',
         \A i \in (Len(log) + 1)..Len(log') : /\ log'[i].type = "message" => log'[i].message.ask <= turns'
                                              /\ log'[i].type = "checkpoint" => PastInv(i)'
  PROVE  LinesInv'
<1>1. log \in Seq(Line) /\ log' \in Seq(Line) /\ Len(log) \in Nat /\ Len(log') \in Nat /\ turns \in Nat
  BY LenProperties DEF TypeInv, Grows
<1>2. \A i \in 1..Len(log') : i \in 1..Len(log) \/ i \in (Len(log) + 1)..Len(log')
  BY <1>1
<1>3. ASSUME NEW i \in 1..Len(log), log'[i].type = "message" PROVE log'[i].message.ask <= turns'
  <2>1. log'[i] = log[i] /\ log[i] \in Line
    BY <1>1, ElementOfSeq DEF Grows
  <2>2. log[i].message \in Said /\ log[i].message.ask <= turns
    BY <1>3, <2>1, LineShape DEF LinesInv
  <2>3. log[i].message.ask \in Nat
    BY <2>2 DEF Said
  <2>4. QED
    BY <1>1, <2>1, <2>2, <2>3
<1>4. ASSUME NEW c \in 1..Len(log), log'[c].type = "checkpoint" PROVE PastInv(c)'
  <2>1. log'[c] = log[c] /\ log[c] \in Line
    BY <1>1, ElementOfSeq DEF Grows
  <2>2. PastInv(c) /\ log[c].turn \in Nat
    BY <1>4, <2>1, LineShape DEF LinesInv
  <2>3. log[c].turn < c
    BY <2>2 DEF PastInv
  <2>4. log[c].turn # 0 => log'[log[c].turn] = log[log[c].turn]
    BY <1>1, <2>2, <2>3 DEF Grows
  <2>5. log[c].turn # 0 => SubSeq(log', 1, log[c].turn - 1) = SubSeq(log, 1, log[c].turn - 1)
    <3>1. log[c].turn # 0 => log[c].turn - 1 \in Nat /\ log[c].turn - 1 <= Len(log)
      BY <1>1, <2>2, <2>3
    <3>2. QED
      BY <3>1, GrownPrefix
  <2>6. QED
    BY <2>1, <2>2, <2>4, <2>5 DEF PastInv
<1>5. QED
  BY <1>2, <1>3, <1>4 DEF LinesInv

\* The turn's message stays where it is.
LEMMA KeepTurn ==
  ASSUME TypeInv, TurnInv, Grows, turnStart' = turnStart, turns' = turns, messages' = messages, apart' = "no" => apart = "no",
         phase \notin Before, trigger # "manual", trigger' # "manual", phase' \notin Before
  PROVE  TurnInv'
<1>1. turnStart \in 1..Len(log) /\ log'[turnStart] = log[turnStart]
  <2>1. Len(log) \in Nat /\ turnStart \in 0..Len(log) /\ turnStart # 0
    BY LenProperties DEF TypeInv, TurnInv
  <2>2. QED
    BY <2>1 DEF Grows
<1>2. SubSeq(log', 1, turnStart - 1) = SubSeq(log, 1, turnStart - 1)
  <2>1. turnStart - 1 \in Nat /\ turnStart - 1 <= Len(log)
    <3>1. Len(log) \in Nat
      BY LenProperties DEF TypeInv
    <3>2. QED
      BY <1>1, <3>1
  <2>2. QED
    BY <2>1, GrownPrefix
<1>3. turns >= 1
  BY DEF TurnInv, Before
<1>4. QED
  BY <1>1, <1>2, <1>3 DEF TurnInv, Before

\* A session between turns remembers the last one's message, if it did.
LEMMA IdleTurn ==
  ASSUME TypeInv, TurnInv, Grows, phase' \in {"down", "idle"},
         turnStart' \in {0, turnStart} \/ (turnStart' \in 1..Len(log') /\ log'[turnStart'].type = "message")
  PROVE  TurnInv'
<1>1. Len(log) \in Nat /\ turnStart \in 0..Len(log)
  BY LenProperties DEF TypeInv
<1>2. turnStart' # 0 => log'[turnStart'].type = "message"
  BY <1>1 DEF Grows, TurnInv
<1>3. QED
  BY <1>2 DEF TurnInv, Before

-----------------------------------------------------------------------------
(* Cuts.                                                                   *)

\* The least of some natural numbers.
LEMMA LeastOf == ASSUME NEW S, S \subseteq Nat, S # {} PROVE Min(S) \in S /\ \A y \in S : Min(S) <= y
<1>1. \E x \in S : \A y \in S : x <= y
  BY LeastNat
<1>2. QED
  BY <1>1 DEF Min

\* The greatest of some bounded ones.
LEMMA GreatestOf ==
  ASSUME NEW n \in Nat, NEW S, S \subseteq 0..n, S # {} PROVE Max(S) \in S /\ \A y \in S : y <= Max(S)
<1> DEFINE R == {x \in 0..n : n - x \in S}
<1>1. R \subseteq Nat /\ R # {}
  <2>1. PICK x \in S : TRUE
    OBVIOUS
  <2>2. x \in 0..n
    BY <2>1
  <2>3. n - x \in 0..n /\ n - (n - x) = x
    BY <2>2
  <2>4. n - x \in R
    BY <2>1, <2>3
  <2>5. R \subseteq Nat
    OBVIOUS
  <2>6. QED
    BY <2>4, <2>5
<1>2. \A x : x \in R <=> x \in 0..n /\ n - x \in S
  OBVIOUS
<1> HIDE DEF R
<1>3. PICK x \in R : \A y \in R : x <= y
  BY <1>1, LeastNat
<1>4. x \in 0..n /\ n - x \in S
  BY <1>2, <1>3
<1>5. ASSUME NEW y \in S PROVE n - x >= y
  <2>1. y \in 0..n
    OBVIOUS
  <2>2. n - y \in 0..n /\ n - (n - y) = y
    BY <2>1
  <2>3. n - y \in R
    BY <1>2, <2>2
  <2>4. x <= n - y
    BY <1>3, <2>3
  <2>5. QED
    BY <1>4, <2>1, <2>4
<1>6. \E z \in S : \A y \in S : z >= y
  BY <1>4, <1>5
<1>7. Max(S) \in S /\ \A y \in S : Max(S) >= y
  BY <1>6 DEF Max
<1>8. QED
  BY <1>7

\* A cut is inside the conversation, after what an earlier summary said, and not between a reply and its results.
LEMMA BoundaryIs ==
  ASSUME NEW ms \in Seq(Said), NEW k \in Boundaries(ms)
  PROVE  k \in Nat /\ (k # 0 => k < Len(ms) /\ k + 1 \in 1..Len(ms) /\ ms[k + 1].role # "tool")
<1>1. PICK fits \in 0..Len(ms) : k = Boundary(ms, fits)
  BY DEF Boundaries
<1>2. Len(ms) \in Nat /\ Floor(ms) \in {0, 1}
  BY LenProperties DEF Floor
<1> DEFINE low == Floor(ms) + 1
<1>3. low \in Nat /\ low >= 1
  BY <1>2
<1> DEFINE Cut(x) == x \in Nat /\ x < Len(ms) /\ ms[x + 1].role # "tool"
<1>4. ASSUME NEW from \in Nat
      PROVE  /\ \A x \in UserCuts(ms, from) : Cut(x)
             /\ \A x \in Cuts(ms, from) : Cut(x)
             /\ UserCuts(ms, from) \subseteq 0..Len(ms) /\ Cuts(ms, from) \subseteq 0..Len(ms)
  BY <1>2 DEF UserCuts, Cuts
<1>5. \A x \in {Max({0} \cup UserCuts(ms, low)), Max({0} \cup Cuts(ms, low))} : x = 0 \/ Cut(x)
  <2>1. {0} \cup UserCuts(ms, low) \subseteq 0..Len(ms) /\ {0} \cup Cuts(ms, low) \subseteq 0..Len(ms)
    BY <1>2, <1>3, <1>4
  <2>2. Max({0} \cup UserCuts(ms, low)) \in {0} \cup UserCuts(ms, low)
    BY <1>2, <2>1, GreatestOf
  <2>3. Max({0} \cup Cuts(ms, low)) \in {0} \cup Cuts(ms, low)
    BY <1>2, <2>1, GreatestOf
  <2>4. QED
    BY <1>3, <1>4, <2>2, <2>3
<1>6. UserCuts(ms, fits) # {} => Cut(Min(UserCuts(ms, fits)))
  <2>1. fits \in Nat /\ UserCuts(ms, fits) \subseteq Nat
    BY <1>1, <1>2, <1>4
  <2>2. UserCuts(ms, fits) # {} => Min(UserCuts(ms, fits)) \in UserCuts(ms, fits)
    BY <2>1, LeastOf
  <2>3. QED
    BY <1>4, <2>1, <2>2
<1>7. Cuts(ms, fits) # {} => Cut(Min(Cuts(ms, fits)))
  <2>1. fits \in Nat /\ Cuts(ms, fits) \subseteq Nat
    BY <1>1, <1>2, <1>4
  <2>2. Cuts(ms, fits) # {} => Min(Cuts(ms, fits)) \in Cuts(ms, fits)
    BY <2>1, LeastOf
  <2>3. QED
    BY <1>4, <2>1, <2>2
<1>8. k = 0 \/ Cut(k)
  BY <1>1, <1>5, <1>6, <1>7 DEF Boundary
<1>9. QED
  BY <1>2, <1>8

\* Positions that can shrink are positions.
LEMMA ElidableIs == ASSUME NEW ms \in Seq(Said), NEW k \in Boundaries(ms) PROVE Elidable(ms, k) \subseteq Nat
<1>1. k \in Nat
  BY BoundaryIs
<1>2. QED
  BY <1>1 DEF Elidable

\* What shrinks, does so in the log as well.
LEMMA ElisionIs ==
  ASSUME TypeInv, NEW copy, NEW ms \in Seq(Said), ElideInto(copy, ms)
  PROVE  /\ Grows /\ turnStart' = turnStart /\ Len(log') = Len(log) + 1 /\ log'[Len(log) + 1].type = "elision"
         /\ \E S \in SUBSET Nat : copy = Stubbed(ms, S)
         /\ copy \in Seq(Said) /\ SameBut(copy, ms)
         /\ \A how : Agrees(ms, Projection(log), how) => Agrees(copy, Projection(log'), how)
<1>1. PICK S \in {Elidable(ms, k) : k \in Boundaries(ms) \ {0}} \ {{}} :
         copy = Stubbed(ms, S) /\ log' = Append(log, ElisionLine(S)) /\ turnStart' = turnStart
  BY DEF ElideInto
<1>2. S \subseteq Nat
  <2>1. PICK k \in Boundaries(ms) : S = Elidable(ms, k)
    BY <1>1
  <2>2. QED
    BY <2>1, ElidableIs
<1>3. ElisionLine(S) \in Line /\ ElisionLine(S).type = "elision" /\ ElisionLine(S).stubbed = S
  BY <1>2 DEF ElisionLine, Line
<1>4. log \in Seq(Line) /\ Len(log) \in Nat
  BY LenProperties DEF TypeInv
<1>5. /\ log' \in Seq(Line) /\ Len(log') = Len(log) + 1 /\ log'[Len(log) + 1] = ElisionLine(S)
      /\ \A i \in 1..Len(log) : log'[i] = log[i]
  BY <1>1, <1>3, <1>4
<1>6. Grows
  BY <1>4, <1>5 DEF Grows
<1>7. copy \in Seq(Said) /\ SameBut(copy, ms)
  BY <1>1, StubbedIs, StubbedIsSame
<1>8. ASSUME NEW how, Agrees(ms, Projection(log), how) PROVE Agrees(copy, Projection(log'), how)
  <2>1. Agrees(Replayed(ms, ElisionLine(S)), Projection(Append(log, ElisionLine(S))), how)
    BY <1>3, <1>4, <1>8, LineKeepsAgreement
  <2>2. Replayed(ms, ElisionLine(S)) = Stubbed(ms, S)
    BY <1>3 DEF Replayed
  <2>3. QED
    BY <1>1, <2>1, <2>2
<1>9. QED
  BY <1>1, <1>2, <1>3, <1>5, <1>6, <1>7, <1>8

\* A line that is neither a message nor a checkpoint says nothing of turns.
LEMMA PlainLine ==
  ASSUME TypeInv, LinesInv, Grows, turns' \in Nat, turns <= turns', Len(log') = Len(log) + 1,
         log'[Len(log) + 1].type \in {"elision", "compaction"}
  PROVE  LinesInv'
<1>1. Len(log) \in Nat /\ \A i \in (Len(log) + 1)..Len(log') : i = Len(log) + 1
  BY LenProperties DEF TypeInv
<1>2. QED
  BY <1>1, GrowLines

-----------------------------------------------------------------------------
(* What the log tells, step by step.                                       *)

\* A log that does not change has only grown.
LEMMA SameLog == ASSUME TypeInv, log' = log PROVE Grows
<1>1. log \in Seq(Line) /\ Len(log) \in Nat
  BY LenProperties DEF TypeInv
<1>2. QED
  BY <1>1 DEF Grows

\* No line more.
LEMMA SameLines == ASSUME TypeInv, LinesInv, log' = log, turns' \in Nat, turns <= turns' PROVE LinesInv'
<1>1. Grows /\ Len(log) \in Nat /\ \A i \in (Len(log) + 1)..Len(log') : FALSE
  BY SameLog, LenProperties DEF TypeInv
<1>2. QED
  BY <1>1, GrowLines

Mid == {"head", "fitting", "model", "batch", "stopping", "results", "wrapup"}

\* A step that only moves on.
LEMMA StillStep ==
  ASSUME TypeInv, SameInv, LinesInv, TurnInv,
         UNCHANGED <<working, messages, fitted, log, turnStart, turns, trigger, answered, apart>>,
         signal' \in {"live", "aborted"}, (phase \in {"down", "idle"} \/ trigger = "manual") => signal' = "live", phase # "down",
         \/ phase' = phase
         \/ phase = "direct" /\ phase' = "directed"
         \/ phase \in Mid /\ phase' \in Mid
  PROVE  PastPart'
<1>1. TypeInv'
  BY DEF TypeInv, Mid, Phases
<1>2. Current' = Current
  BY DEF Current, InTurn, TypeInv, Mid
<1>3. SameInv'
  BY <1>2 DEF SameInv, TypeInv, Mid
<1>4. LinesInv'
  <2>1. turns' \in Nat /\ turns <= turns'
    BY DEF TypeInv
  <2>2. QED
    BY <2>1, SameLines
<1>5. TurnInv'
  BY DEF TurnInv, Before, TypeInv, Mid
<1>6. QED
  BY <1>1, <1>3, <1>4, <1>5 DEF PastPart

\* A turn begins with what the session holds.
LEMMA StartStep ==
  ASSUME TypeInv, SameInv, LinesInv, TurnInv, phase = "idle", phase' \in {"prompt", "direct"}, working' = messages, turns' = turns + 1,
         UNCHANGED <<signal, turnLocals, messages, logVars, apart>>
  PROVE  PastPart'
<1>1. turns' \in Nat /\ turns <= turns' /\ turns < turns' /\ turns' >= 1
  BY DEF TypeInv
<1>2. TypeInv'
  BY <1>1 DEF TypeInv, turnLocals, logVars, Phases
<1>3. Current = messages /\ Current' = messages
  BY DEF Current, InTurn, TypeInv, turnLocals
<1>4. SameInv'
  BY <1>3 DEF SameInv, logVars
<1>5. LinesInv'
  BY <1>1, SameLines DEF logVars
<1>6. turnStart # 0 => log[turnStart].type = "message" /\ log[turnStart].message.ask # turns'
  <2>1. turnStart # 0 => turnStart \in 1..Len(log) /\ log[turnStart].type = "message"
    BY LenProperties DEF TypeInv, TurnInv
  <2>2. turnStart # 0 => log[turnStart].message.ask <= turns
    BY <2>1 DEF LinesInv
  <2>3. turnStart # 0 => log[turnStart].message.ask \in Nat
    <3>1. turnStart # 0 => log[turnStart] \in Line
      BY <2>1, ElementOfSeq DEF TypeInv
    <3>2. turnStart # 0 => log[turnStart].message \in Said
      BY <2>1, <3>1, LineShape
    <3>3. QED
      BY <3>2 DEF Said
  <2>4. turns \in Nat
    BY DEF TypeInv
  <2>5. QED
    BY <1>1, <2>1, <2>2, <2>3, <2>4
<1>7. TurnInv'
  BY <1>1, <1>6 DEF TurnInv, Before, logVars
<1>8. QED
  BY <1>2, <1>4, <1>5, <1>7 DEF PastPart

\* What is recorded adds messages of this turn, or of none.
LEMMA RecordedLines ==
  ASSUME TypeInv, LinesInv, NEW ms \in Seq(Said), Recorder(ms), \A i \in 1..Len(ms) : ms[i].ask \in {0, turns}, turns' = turns
  PROVE  LinesInv' /\ Grows
<1>1. Len(log) \in Nat /\ Len(ms) \in Nat /\ turns \in Nat
  BY LenProperties DEF TypeInv
<1>2. /\ log' \in Seq(Line) /\ Len(log') = Len(log) + Len(ms)
      /\ \A i \in 1..Len(log) : log'[i] = log[i]
      /\ \A i \in 1..Len(ms) : log'[Len(log) + i].type = "message" /\ log'[Len(log) + i].message.ask = ms[i].ask
  BY RecorderIs
<1>3. Grows
  BY <1>1, <1>2 DEF Grows
<1>4. ASSUME NEW i \in (Len(log) + 1)..Len(log') PROVE log'[i].type = "message" /\ log'[i].message.ask <= turns
  <2>1. i - Len(log) \in 1..Len(ms) /\ i = Len(log) + (i - Len(log))
    BY <1>1, <1>2
  <2>2. log'[i].type = "message" /\ log'[i].message.ask = ms[i - Len(log)].ask
    BY <1>2, <2>1
  <2>3. ms[i - Len(log)].ask \in {0, turns}
    BY <2>1
  <2>4. QED
    BY <1>1, <2>2, <2>3
<1>5. \A i \in (Len(log) + 1)..Len(log') : /\ log'[i].type = "message" => log'[i].message.ask <= turns'
                                           /\ log'[i].type = "checkpoint" => PastInv(i)'
  BY <1>4
<1>6. LinesInv'
  BY <1>1, <1>3, <1>5, GrowLines
<1>7. QED
  BY <1>3, <1>6

\* Messages of a turn, in the turn and in the log.
LEMMA RecordStep ==
  ASSUME TypeInv, SameInv, LinesInv, TurnInv,
         NEW ms \in Seq(Said), Len(ms) > 0, Record(ms), \A i \in 1..Len(ms) : ms[i].ask \in {0, turns},
         UNCHANGED <<signal, messages, turns>>, trigger' = "none", answered' \in Nat, fitted' \in Seq(Said),
         phase' \in {"head", "wrapup", "batch", "stopping", "results"},
         apart' \in {"no", "stubs", "messages"}, apart' = "no" => apart = "no", Agrees(working, Projection(log), apart'),
         \/ phase = "prompt" /\ Len(ms) = 1 /\ ms[1].role = "user"
         \/ phase \notin Before /\ trigger # "manual" /\ (ms[Len(ms)].role = "user" => ms[Len(ms)].ask = 0)
  PROVE  PastPart'
<1>1. /\ With(ms) \in Seq(Said)
      /\ log' \in Seq(Line) /\ Len(log') = Len(log) + Len(ms)
      /\ \A i \in 1..Len(log) : log'[i] = log[i]
      /\ \A i \in 1..Len(ms) : log'[Len(log) + i].type = "message" /\ log'[Len(log) + i].message.ask = ms[i].ask
      /\ turnStart' = (IF Len(ms) > 0 /\ ms[Len(ms)].role = "user" THEN Len(log) + Len(ms) ELSE turnStart)
      /\ turnStart' \in 0..Len(log')
      /\ Agrees(With(ms), Projection(log'), apart')
  BY RecorderIs DEF Record
<1>2. working' = With(ms) /\ Recorder(ms)
  BY DEF Record
<1>3. TypeInv'
  BY <1>1, <1>2 DEF TypeInv, Phases
<1>4. Current' = working'
  BY <1>2 DEF Current, InTurn
<1>5. SameInv'
  BY <1>1, <1>2, <1>4 DEF SameInv
<1>6. LinesInv' /\ Grows
  BY <1>2, RecordedLines
<1>7. Len(log) \in Nat /\ Len(ms) \in Nat /\ Len(ms) \in 1..Len(ms) /\ turns \in Nat
  BY LenProperties DEF TypeInv
<1>8. turns >= 1
  BY DEF TurnInv, Before
<1>9. CASE phase = "prompt" /\ Len(ms) = 1 /\ ms[1].role = "user"
  <2>1. turnStart' = Len(log) + 1 /\ log'[turnStart'].type = "message"
    BY <1>1, <1>7, <1>9
  <2>2. apart' = "no" => Projection(SubSeq(log', 1, turnStart' - 1)) = messages
    <3>1. turnStart' - 1 = Len(log) /\ Len(log) <= Len(log)
      BY <1>7, <2>1
    <3>2. SubSeq(log', 1, Len(log)) = SubSeq(log, 1, Len(log))
      BY <1>6, <1>7, <3>1, GrownPrefix
    <3>3. SubSeq(log, 1, Len(log)) = log
      BY SubSeqFull DEF TypeInv
    <3>4. apart' = "no" => working = Projection(log)
      BY DEF Agrees
    <3>5. working = messages
      BY <1>9 DEF SameInv
    <3>6. QED
      BY <3>1, <3>2, <3>3, <3>4, <3>5
  <2>3. TurnInv'
    BY <1>7, <1>8, <2>1, <2>2 DEF TurnInv, Before
  <2>4. QED
    BY <1>3, <1>5, <1>6, <2>3 DEF PastPart
<1>10. CASE phase \notin Before /\ trigger # "manual" /\ (ms[Len(ms)].role = "user" => ms[Len(ms)].ask = 0)
  <2>1. phase' \notin Before
    BY DEF Before
  <2>2. CASE ms[Len(ms)].role = "user"
    <3>1. turnStart' = Len(log) + Len(ms) /\ log'[turnStart'].type = "message" /\ log'[turnStart'].message.ask = 0
      BY <1>1, <1>7, <1>10, <2>2
    <3>2. turnStart' # 0 /\ log'[turnStart'].message.ask # turns
      BY <1>7, <1>8, <3>1
    <3>3. TurnInv'
      BY <1>8, <2>1, <3>1, <3>2 DEF TurnInv, Before
    <3>4. QED
      BY <1>3, <1>5, <1>6, <3>3 DEF PastPart
  <2>3. CASE ms[Len(ms)].role # "user"
    <3>1. turnStart' = turnStart
      BY <1>1, <2>3
    <3>2. TurnInv'
      BY <1>6, <1>10, <2>1, <3>1, KeepTurn
    <3>3. QED
      BY <1>3, <1>5, <1>6, <3>2 DEF PastPart
  <2>4. QED
    BY <2>2, <2>3
<1>11. QED
  BY <1>9, <1>10

\* The turn ends, and the session takes its messages over.
LEMMA FinishStep ==
  ASSUME TypeInv, SameInv, LinesInv, TurnInv, phase \notin {"down", "idle", "compacting"},
         NEW ms \in Seq(Said), FinishWith(ms), \A i \in 1..Len(ms) : ms[i].ask \in {0, turns}
  PROVE  PastPart'
<1>1. /\ phase' = "idle" /\ signal' = "live" /\ working' = <<>> /\ fitted' = <<>> /\ trigger' = "none" /\ answered' = 0
      /\ messages' = With(ms) /\ Recorder(ms) /\ turns' = turns /\ apart' = apart
  BY DEF FinishWith, TurnOver, NoTurn
<1>2. /\ With(ms) \in Seq(Said)
      /\ log' \in Seq(Line) /\ Len(log') = Len(log) + Len(ms)
      /\ \A i \in 1..Len(ms) : log'[Len(log) + i].type = "message"
      /\ turnStart' = (IF Len(ms) > 0 /\ ms[Len(ms)].role = "user" THEN Len(log) + Len(ms) ELSE turnStart)
      /\ turnStart' \in 0..Len(log')
      /\ \A how : Agrees(working, Projection(log), how) => Agrees(With(ms), Projection(log'), how)
  BY <1>1, RecorderIs
<1>3. <<>> \in Seq(Said)
  OBVIOUS
<1>4. TypeInv'
  BY <1>1, <1>2, <1>3 DEF TypeInv, Phases
<1>5. Current = working /\ Current' = messages'
  BY <1>1 DEF Current, InTurn, TypeInv
<1>6. Agrees(working, Projection(log), apart)
  BY <1>5 DEF SameInv
<1>7. SameInv'
  BY <1>1, <1>2, <1>5, <1>6 DEF SameInv
<1>8. LinesInv' /\ Grows
  BY <1>1, RecordedLines
<1>9. turnStart' \in {0, turnStart} \/ (turnStart' \in 1..Len(log') /\ log'[turnStart'].type = "message")
  <2>1. Len(log) \in Nat /\ Len(ms) \in Nat
    BY LenProperties DEF TypeInv
  <2>2. Len(ms) > 0 => Len(ms) \in 1..Len(ms) /\ Len(log) + Len(ms) \in 1..Len(log')
    BY <1>2, <2>1
  <2>3. QED
    BY <1>2, <2>2
<1>10. TurnInv'
  BY <1>1, <1>8, <1>9, IdleTurn
<1>11. QED
  BY <1>4, <1>7, <1>8, <1>10 DEF PastPart

\* A checkpoint names the turn's message, if the recorder knows it.
LEMMA CheckpointStep ==
  ASSUME TypeInv, SameInv, LinesInv, TurnInv, log' = Append(log, CheckpointLine(turnStart)), turnStart' = turnStart,
         (phase = "batch" /\ phase' = "results") \/ (phase = "direct" /\ phase' = "directed"),
         UNCHANGED <<signal, working, turnLocals, session>>
  PROVE  PastPart'
<1> DEFINE l == CheckpointLine(turnStart)
<1>1. /\ l \in Line /\ l.type = "checkpoint" /\ l.turn = turnStart /\ l.of = turns /\ l.before = messages
      /\ l.known <=> apart = "no"
  <2>1. turnStart \in Nat
    BY LenProperties DEF TypeInv
  <2>2. QED
    BY <2>1 DEF CheckpointLine, Line, TypeInv
<1>2. log \in Seq(Line) /\ Len(log) \in Nat
  BY LenProperties DEF TypeInv
<1>3. log' = Append(log, l)
  OBVIOUS
<1> HIDE DEF l
<1>4. /\ log' \in Seq(Line) /\ Len(log') = Len(log) + 1 /\ log'[Len(log) + 1] = l
      /\ \A i \in 1..Len(log) : log'[i] = log[i]
  BY <1>1, <1>2, <1>3
<1>5. Grows
  BY <1>2, <1>4 DEF Grows
<1>6. Projection(log') = Projection(log)
  <2>1. Projection(log') = Replayed(Projection(log), l)
    BY <1>1, <1>2, <1>3, OneLineMore
  <2>2. QED
    BY <1>1, <2>1 DEF Replayed
<1>7. TypeInv'
  <2>1. turnStart' \in 0..Len(log')
    BY <1>2, <1>4 DEF TypeInv
  <2>2. QED
    BY <1>4, <2>1 DEF TypeInv, turnLocals, session, Phases
<1>8. Current' = Current
  BY DEF Current, InTurn, TypeInv, turnLocals, session
<1>9. SameInv'
  BY <1>6, <1>8 DEF SameInv, session
<1>10. turnStart # 0 => turnStart \in 1..Len(log) /\ log[turnStart].type = "message"
  BY <1>2 DEF TypeInv, TurnInv
<1>11. turnStart # 0 => log'[turnStart] = log[turnStart] /\ SubSeq(log', 1, turnStart - 1) = SubSeq(log, 1, turnStart - 1)
  <2>1. turnStart # 0 => turnStart - 1 \in Nat /\ turnStart - 1 <= Len(log)
    BY <1>2, <1>10
  <2>2. QED
    BY <1>4, <1>5, <1>10, <2>1, GrownPrefix
<1>12. ASSUME NEW n, n = Len(log) + 1 PROVE PastInv(n)'
  <2>1. turnStart # 0 /\ apart = "no" /\ log[turnStart].message.ask = turns => Projection(SubSeq(log, 1, turnStart - 1)) = messages
    BY DEF TurnInv, Before, TypeInv
  <2>2. turnStart < Len(log) + 1
    BY <1>2 DEF TypeInv
  <2>3. /\ log'[n].turn = turnStart /\ log'[n].of = turns /\ log'[n].before = messages
        /\ log'[n].known <=> apart = "no"
    BY <1>1, <1>4, <1>12
  <2>4. QED
    BY <1>10, <1>11, <1>12, <2>1, <2>2, <2>3 DEF PastInv
<1>13. LinesInv'
  <2>1. turns' \in Nat /\ turns <= turns'
    BY DEF TypeInv, session
  <2>2. \A i \in (Len(log) + 1)..Len(log') : i = Len(log) + 1
    BY <1>2, <1>4
  <2>3. \A i \in (Len(log) + 1)..Len(log') : /\ log'[i].type = "message" => log'[i].message.ask <= turns'
                                             /\ log'[i].type = "checkpoint" => PastInv(i)'
    <3>1. ASSUME NEW i \in (Len(log) + 1)..Len(log') PROVE log'[i].type = "checkpoint" /\ PastInv(i)'
      <4>1. i = Len(log) + 1
        BY <2>2
      <4>2. log'[i].type = "checkpoint"
        BY <1>1, <1>4, <4>1
      <4>3. PastInv(i)'
        BY <1>12, <4>1
      <4>4. QED
        BY <4>2, <4>3
    <3>2. QED
      BY <3>1
  <2>4. QED
    BY <1>5, <2>1, <2>3, GrowLines
<1>14. TurnInv'
  BY <1>10, <1>11 DEF TurnInv, Before, session, turnLocals, TypeInv
<1>15. QED
  BY <1>7, <1>9, <1>13, <1>14 DEF PastPart

\* A step that settles calls, with a checkpoint or without.
LEMMA SettledStep ==
  ASSUME TypeInv, SameInv, LinesInv, TurnInv, BatchDone \/ DirectSettled PROVE PastPart'
<1>1. /\ (phase = "batch" /\ phase' = "results") \/ (phase = "direct" /\ phase' = "directed")
      /\ UNCHANGED <<signal, working, turnLocals, session>> /\ Checkpointed
  BY DEF BatchDone, DirectSettled
<1>2. CASE UNCHANGED logVars
  <2>1. /\ UNCHANGED <<working, messages, fitted, log, turnStart, turns, trigger, answered, apart>>
        /\ signal' \in {"live", "aborted"} /\ ((phase \in {"down", "idle"} \/ trigger = "manual") => signal' = "live") /\ phase # "down"
    BY <1>1, <1>2 DEF logVars, turnLocals, session, TypeInv
  <2>2. (phase = "direct" /\ phase' = "directed") \/ (phase \in Mid /\ phase' \in Mid)
    BY <1>1 DEF Mid
  <2>3. QED
    BY <2>1, <2>2, StillStep
<1>3. CASE log' = Append(log, CheckpointLine(turnStart)) /\ UNCHANGED turnStart
  BY <1>1, <1>3, CheckpointStep
<1>4. QED
  BY <1>1, <1>2, <1>3 DEF Checkpointed

\* Results shrink ahead of a step.
LEMMA ElideStep ==
  ASSUME TypeInv, SameInv, LinesInv, TurnInv, ElideAhead
  PROVE  PastPart'
<1>1. /\ phase = "fitting" /\ UNCHANGED <<phase, signal, turnLocals, messages, turns, apart>>
      /\ ElideInto(working', working) \/ UNCHANGED <<working, logVars>>
  BY DEF ElideAhead
<1>2. CASE UNCHANGED <<working, logVars>>
  <2>1. /\ UNCHANGED <<working, messages, fitted, log, turnStart, turns, trigger, answered, apart>>
        /\ signal' \in {"live", "aborted"} /\ ((phase \in {"down", "idle"} \/ trigger = "manual") => signal' = "live") /\ phase # "down" /\ phase' = phase
    BY <1>1, <1>2 DEF logVars, turnLocals, TypeInv
  <2>2. QED
    BY <2>1, StillStep
<1>3. CASE ElideInto(working', working)
  <2>1. working \in Seq(Said) /\ Len(log) \in Nat
    BY LenProperties DEF TypeInv
  <2>2. /\ Grows /\ turnStart' = turnStart /\ Len(log') = Len(log) + 1 /\ log'[Len(log) + 1].type = "elision"
        /\ working' \in Seq(Said)
        /\ \A how : Agrees(working, Projection(log), how) => Agrees(working', Projection(log'), how)
    BY <1>3, <2>1, ElisionIs
  <2>3. TypeInv'
    <3>1. turnStart' \in 0..Len(log') /\ log' \in Seq(Line)
      BY <2>1, <2>2 DEF TypeInv, Grows
    <3>2. QED
      BY <1>1, <2>2, <3>1 DEF TypeInv, turnLocals, Phases
  <2>4. Current = working /\ Current' = working'
    BY <1>1 DEF Current, InTurn, TypeInv, turnLocals
  <2>5. SameInv'
    BY <1>1, <2>2, <2>4 DEF SameInv
  <2>6. LinesInv'
    <3>1. turns' \in Nat /\ turns <= turns' /\ log'[Len(log) + 1].type \in {"elision", "compaction"}
      BY <1>1, <2>2 DEF TypeInv
    <3>2. QED
      BY <2>2, <3>1, PlainLine
  <2>7. TurnInv'
    <3>1. /\ turns' = turns /\ messages' = messages /\ apart' = apart /\ phase \notin Before /\ trigger # "manual"
          /\ trigger' # "manual" /\ phase' \notin Before
      BY <1>1 DEF TypeInv, turnLocals, Before
    <3>2. QED
      BY <2>2, <3>1, KeepTurn
  <2>8. QED
    BY <2>3, <2>5, <2>6, <2>7 DEF PastPart
<1>4. QED
  BY <1>1, <1>2, <1>3

\* What compaction begins with: a copy, in which results may have shrunk.
LEMMA CompactIs ==
  ASSUME TypeInv, NEW ms \in Seq(Said), ElideInto(fitted', ms) \/ (fitted' = ms /\ UNCHANGED logVars)
  PROVE  /\ Grows /\ turnStart' = turnStart /\ fitted' \in Seq(Said) /\ SameBut(fitted', ms)
         /\ \A how : Agrees(ms, Projection(log), how) => Agrees(fitted', Projection(log'), how)
         /\ LinesInv /\ turns' \in Nat /\ turns <= turns' => LinesInv'
<1>1. CASE ElideInto(fitted', ms)
  <2>1. /\ Grows /\ turnStart' = turnStart /\ Len(log') = Len(log) + 1 /\ log'[Len(log) + 1].type = "elision"
        /\ fitted' \in Seq(Said) /\ SameBut(fitted', ms)
        /\ \A how : Agrees(ms, Projection(log), how) => Agrees(fitted', Projection(log'), how)
    BY <1>1, ElisionIs
  <2>2. LinesInv /\ turns' \in Nat /\ turns <= turns' => LinesInv'
    BY <2>1, PlainLine
  <2>3. QED
    BY <2>1, <2>2
<1>2. CASE fitted' = ms /\ UNCHANGED logVars
  <2>1. log' = log /\ turnStart' = turnStart /\ fitted' = ms
    BY <1>2 DEF logVars
  <2>2. Grows
    BY <2>1, SameLog
  <2>3. LinesInv /\ turns' \in Nat /\ turns <= turns' => LinesInv'
    BY <2>1, SameLines
  <2>4. SameBut(fitted', ms)
    BY <2>1, SameIsSame
  <2>5. QED
    BY <2>1, <2>2, <2>3, <2>4
<1>3. QED
  BY <1>1, <1>2

\* A compaction begins.
LEMMA CompactStep ==
  ASSUME TypeInv, SameInv, LinesInv, TurnInv, CompactAhead \/ CompactRefused \/ CompactAsked
  PROVE  PastPart'
<1> DEFINE ms == IF phase = "idle" THEN messages ELSE working
<1>1. /\ phase' = "compacting" /\ trigger' \in {"auto", "overflow", "manual"}
      /\ ElideInto(fitted', ms) \/ (fitted' = ms /\ UNCHANGED logVars)
      /\ UNCHANGED <<signal, working, answered, messages, apart>>
      /\ \/ phase \in {"fitting", "model"} /\ trigger' # "manual" /\ turns' = turns
         \/ phase = "idle" /\ trigger' = "manual" /\ turns' = turns + 1
  BY DEF CompactAhead, CompactRefused, CompactAsked, Compact
<1>2. ms \in Seq(Said) /\ trigger = "none"
  BY <1>1 DEF TypeInv
<1>3. turns' \in Nat /\ turns <= turns' /\ turns' >= 1
  BY <1>1 DEF TypeInv, TurnInv
<1>4. Current = ms
  BY <1>1, <1>2 DEF Current, InTurn
<1> HIDE DEF ms
<1>5. /\ Grows /\ turnStart' = turnStart /\ fitted' \in Seq(Said) /\ SameBut(fitted', ms)
      /\ \A how : Agrees(ms, Projection(log), how) => Agrees(fitted', Projection(log'), how)
      /\ LinesInv'
  BY <1>1, <1>2, <1>3, CompactIs
<1>6. signal = "live" \/ trigger' # "manual"
  BY <1>1 DEF CompactAsked, TypeInv, ms
<1>7. turnStart' \in 0..Len(log') /\ log' \in Seq(Line)
  <2>1. Len(log) \in Nat
    BY LenProperties DEF TypeInv
  <2>2. QED
    BY <1>5, <2>1 DEF TypeInv, Grows
<1>8. TypeInv'
  <2>1. UNCHANGED <<working, messages, answered, apart, signal>>
    BY <1>1
  <2>2. signal \in {"live", "aborted"} /\ (trigger' = "manual" => signal' = "live")
    BY <1>6, <2>1 DEF TypeInv
  <2>3. QED
    BY <1>1, <1>3, <1>5, <1>7, <2>1, <2>2 DEF TypeInv, Phases
<1>9. Current' = fitted'
  BY <1>1 DEF Current
<1>10. SameInv'
  <2>1. Agrees(fitted', Projection(log'), apart')
    BY <1>1, <1>4, <1>5 DEF SameInv, TypeInv
  <2>2. trigger' # "manual" => SameBut(fitted', working')
    BY <1>1, <1>5 DEF ms
  <2>3. QED
    BY <1>1, <1>9, <2>1, <2>2 DEF SameInv
<1>11. TurnInv'
  <2>1. CASE phase \in {"fitting", "model"} /\ trigger' # "manual" /\ turns' = turns
    <3>1. /\ messages' = messages /\ apart' = apart /\ phase \notin Before /\ trigger # "manual" /\ phase' \notin Before
      BY <1>1, <1>2, <2>1 DEF Before
    <3>2. QED
      BY <1>5, <2>1, <3>1, KeepTurn
  <2>2. CASE phase = "idle" /\ trigger' = "manual"
    <3>1. turnStart # 0 => turnStart \in 1..Len(log) /\ log'[turnStart] = log[turnStart]
      BY <1>5, LenProperties DEF TypeInv, Grows
    <3>2. turnStart' # 0 => log'[turnStart'].type = "message"
      BY <1>5, <3>1 DEF TurnInv
    <3>3. QED
      BY <1>1, <1>3, <2>2, <3>2 DEF TurnInv, Before
  <2>3. QED
    BY <1>1, <2>1, <2>2
<1>12. QED
  BY <1>5, <1>8, <1>10, <1>11 DEF PastPart

\* What the summary replaced is replaced in the log as well.
LEMMA CarriedIs == ASSUME NEW ms \in Seq(Said), NEW k \in Nat, k <= Len(ms) PROVE Carried(ms, k) \in Nat
<1> DEFINE said == {i \in 1..k : ms[i].role \in {"user", "summary"}}
<1>1. said # {} => Max(said) \in said
  <2>1. said \subseteq 0..k
    OBVIOUS
  <2> HIDE DEF said
  <2>2. QED
    BY <2>1, GreatestOf
<1>2. \A i \in said : ms[i].ask \in Nat
  <2>1. ASSUME NEW i \in said PROVE ms[i] \in Said
    <3>1. i \in 1..Len(ms)
      BY LenProperties
    <3>2. QED
      BY <3>1, ElementOfSeq
  <2>2. QED
    BY <2>1 DEF Said
<1>3. QED
  BY <1>1, <1>2 DEF Carried

\* What was compacted is taken over, and is what the log tells.
LEMMA TakenStep ==
  ASSUME TypeInv, SameInv, LinesInv, TurnInv, phase = "compacting", signal = "live", LinesInv', Grows, turnStart' = turnStart,
         NEW ms, ms \in Seq(Said), TakeOver(ms), Agrees(ms, Projection(log'), apart)
  PROVE  PastPart'
<1>1. turnStart' \in 0..Len(log') /\ log' \in Seq(Line) /\ <<>> \in Seq(Said)
  <2>1. Len(log) \in Nat
    BY LenProperties DEF TypeInv
  <2>2. QED
    BY <2>1 DEF TypeInv, Grows
<1>2. CASE trigger = "manual" /\ TurnOver /\ messages' = ms /\ UNCHANGED <<turns, apart>>
  <2>1. /\ phase' = "idle" /\ signal' = "live" /\ working' = <<>> /\ fitted' = <<>> /\ trigger' = "none" /\ answered' = 0
        /\ turns' = turns /\ apart' = apart /\ messages' = ms
    BY <1>2 DEF TurnOver, NoTurn
  <2>2. TypeInv'
    BY <1>1, <2>1 DEF TypeInv, Phases
  <2>3. Current' = ms
    BY <2>1 DEF Current, InTurn
  <2>4. SameInv'
    BY <2>1, <2>3 DEF SameInv
  <2>5. TurnInv'
    BY <2>1, IdleTurn
  <2>6. QED
    BY <2>2, <2>4, <2>5 DEF PastPart
<1>3. CASE /\ trigger # "manual" /\ phase' = "model" /\ trigger' = "none" /\ working' = ms /\ fitted' = <<>>
           /\ UNCHANGED <<signal, steps, retried, answered, messages, turns, apart>>
  <2>1. TypeInv'
    BY <1>1, <1>3 DEF TypeInv, Phases
  <2>2. Current' = ms
    BY <1>3 DEF Current, InTurn
  <2>3. SameInv'
    BY <1>3, <2>2 DEF SameInv
  <2>4. TurnInv'
    <3>1. /\ turns' = turns /\ messages' = messages /\ apart' = apart /\ phase \notin Before /\ trigger # "manual"
          /\ trigger' # "manual" /\ phase' \notin Before
      BY <1>3 DEF Before
    <3>2. QED
      BY <3>1, KeepTurn
  <2>5. QED
    BY <2>1, <2>3, <2>4 DEF PastPart
<1>4. QED
  BY <1>2, <1>3 DEF TakeOver

\* A summary, and the cut it is made at.
LEMMA SummaryIs ==
  ASSUME TypeInv, NEW k \in Boundaries(fitted) \ {0},
         NEW summary, summary = [Summary(Carried(fitted, k)) EXCEPT !.at = Len(log) + 1]
  PROVE  /\ summary \in Said /\ summary.role = "summary" /\ summary.calls = 0 /\ summary.ask = Carried(fitted, k)
         /\ k \in Nat /\ k < Len(fitted) /\ k + 1 \in 1..Len(fitted) /\ fitted[k + 1].role # "tool"
<1>1. fitted \in Seq(Said) /\ Len(log) \in Nat /\ Len(fitted) \in Nat
  BY LenProperties DEF TypeInv
<1>2. k \in Nat /\ k < Len(fitted) /\ k + 1 \in 1..Len(fitted) /\ fitted[k + 1].role # "tool"
  BY <1>1, BoundaryIs
<1>3. Carried(fitted, k) \in Nat
  BY <1>1, <1>2, CarriedIs
<1>4. summary \in Said /\ summary.role = "summary" /\ summary.calls = 0 /\ summary.ask = Carried(fitted, k)
  <2>1. Summary(Carried(fitted, k)) \in Said /\ Summary(Carried(fitted, k)).role = "summary"
        /\ Summary(Carried(fitted, k)).calls = 0 /\ Summary(Carried(fitted, k)).ask = Carried(fitted, k)
    BY <1>3 DEF Summary, Message, Said, Roles
  <2>4. ASSUME NEW x \in Said, NEW n \in Nat
        PROVE  /\ [x EXCEPT !.at = n] \in Said /\ [x EXCEPT !.at = n].role = x.role /\ [x EXCEPT !.at = n].ask = x.ask
               /\ [x EXCEPT !.at = n].calls = x.calls
    BY DEF Said
  <2>2. Len(log) + 1 \in Nat
    BY <1>1
  <2>3. QED
    BY <2>1, <2>2, <2>4
<1>5. QED
  BY <1>2, <1>4

\* A compaction ends with a summary, the same in memory and in the log.
LEMMA SummarizedStep == ASSUME TypeInv, SameInv, LinesInv, TurnInv, Summarized PROVE PastPart'
<1>1. phase = "compacting" /\ signal = "live" /\ turnStart' = turnStart
  BY DEF Summarized
<1>2. PICK k \in Boundaries(fitted) \ {0} :
         LET summary == [Summary(Carried(fitted, k)) EXCEPT !.at = Len(log) + 1]
         IN log' = Append(log, CompactionLine(k, summary)) /\ TakeOver(Replaced(fitted, k, summary))
  BY DEF Summarized
<1>3. PICK summary : summary = [Summary(Carried(fitted, k)) EXCEPT !.at = Len(log) + 1]
  OBVIOUS
<1>4. log' = Append(log, CompactionLine(k, summary)) /\ TakeOver(Replaced(fitted, k, summary))
  BY <1>2, <1>3
<1>5. summary \in Said /\ k \in Nat
  BY <1>3, SummaryIs
<1>6. /\ CompactionLine(k, summary) \in Line /\ CompactionLine(k, summary).type = "compaction"
      /\ CompactionLine(k, summary).replaced = k /\ CompactionLine(k, summary).summary = summary
  BY <1>5 DEF CompactionLine, Line
<1>7. log \in Seq(Line) /\ Len(log) \in Nat /\ fitted \in Seq(Said)
  BY LenProperties DEF TypeInv
<1>8. /\ log' \in Seq(Line) /\ Len(log') = Len(log) + 1 /\ log'[Len(log) + 1] = CompactionLine(k, summary)
      /\ \A i \in 1..Len(log) : log'[i] = log[i]
  BY <1>4, <1>6, <1>7
<1>9. Grows
  BY <1>7, <1>8 DEF Grows
<1>10. turns' = turns
  BY <1>4 DEF TakeOver
<1>11. LinesInv'
  <2>1. turns' \in Nat /\ turns <= turns' /\ log'[Len(log) + 1].type \in {"elision", "compaction"}
    BY <1>6, <1>8, <1>10 DEF TypeInv
  <2>2. QED
    BY <1>8, <1>9, <2>1, PlainLine
<1>12. Agrees(Replaced(fitted, k, summary), Projection(log'), apart)
  <2>1. Agrees(fitted, Projection(log), apart)
    BY <1>1 DEF SameInv, Current
  <2>2. Agrees(Replayed(fitted, CompactionLine(k, summary)), Projection(Append(log, CompactionLine(k, summary))), apart)
    BY <1>6, <1>7, <2>1, LineKeepsAgreement
  <2>3. Replayed(fitted, CompactionLine(k, summary)) = Replaced(fitted, k, summary)
    BY <1>6 DEF Replayed
  <2>4. QED
    BY <1>4, <2>2, <2>3
<1>13. Replaced(fitted, k, summary) \in Seq(Said)
  BY <1>5, <1>7, ReplacedIs
<1>14. QED
  BY <1>1, <1>4, <1>9, <1>11, <1>12, <1>13, TakenStep

\* What came to nothing leaves shrunk results in the log only.
LEMMA UnfittedIs ==
  ASSUME TypeInv, SameInv, phase = "compacting", trigger # "manual", Unfitted
  PROVE  /\ apart' \in {"no", "stubs", "messages"} /\ (apart' = "no" => apart = "no")
         /\ Agrees(working, Projection(log), apart')
<1>1. Agrees(fitted, Projection(log), apart) /\ SameBut(fitted, working)
  BY DEF SameInv, Current
<1>2. apart \in {"no", "stubs", "messages"}
  BY DEF TypeInv
<1>3. SameBut(fitted, Projection(log)) => SameBut(working, Projection(log))
  BY <1>1, SameIsSame
<1>4. CASE apart = "no"
  <2>1. fitted = Projection(log) /\ SameBut(working, Projection(log))
    BY <1>1, <1>3, <1>4, SameIsSame DEF Agrees
  <2>2. QED
    BY <1>4, <2>1 DEF Unfitted, Agrees
<1>5. CASE apart # "no"
  BY <1>1, <1>2, <1>3, <1>5 DEF Unfitted, Agrees
<1>6. QED
  BY <1>4, <1>5

\* A compaction comes to nothing, and so does the turn.
LEMMA EndedStep ==
  ASSUME TypeInv, SameInv, LinesInv, TurnInv, phase = "compacting", TurnOver, UNCHANGED <<logVars, turns>>,
         messages' \in Seq(Said), apart' \in {"no", "stubs", "messages"}, Agrees(messages', Projection(log), apart')
  PROVE  PastPart'
<1>1. /\ phase' = "idle" /\ signal' = "live" /\ working' = <<>> /\ fitted' = <<>> /\ trigger' = "none" /\ answered' = 0
      /\ log' = log /\ turnStart' = turnStart /\ turns' = turns
  BY DEF TurnOver, NoTurn, logVars
<1>2. <<>> \in Seq(Said)
  OBVIOUS
<1>3. TypeInv'
  BY <1>1, <1>2 DEF TypeInv, Phases
<1>4. Current' = messages'
  BY <1>1 DEF Current, InTurn
<1>5. SameInv'
  BY <1>1, <1>4 DEF SameInv
<1>6. LinesInv'
  <2>1. turns' \in Nat /\ turns <= turns'
    BY <1>1 DEF TypeInv
  <2>2. QED
    BY <1>1, <2>1, SameLines
<1>7. TurnInv'
  BY <1>1, SameLog, IdleTurn
<1>8. QED
  BY <1>3, <1>5, <1>6, <1>7 DEF PastPart

\* A compaction that finds nothing to summarize.
LEMMA NothingStep == ASSUME TypeInv, SameInv, LinesInv, TurnInv, NothingToSummarize PROVE PastPart'
<1>1. phase = "compacting" /\ signal = "live"
  BY DEF NothingToSummarize
<1>2. CASE TakeOver(fitted) /\ UNCHANGED logVars
  <2>1. turns' = turns /\ log' = log /\ turnStart' = turnStart
    BY <1>2 DEF TakeOver, logVars
  <2>2. Grows
    BY <2>1, SameLog
  <2>3. LinesInv'
    <3>1. turns' \in Nat /\ turns <= turns'
      BY <2>1 DEF TypeInv
    <3>2. QED
      BY <2>1, <3>1, SameLines
  <2>4. fitted \in Seq(Said) /\ Agrees(fitted, Projection(log'), apart)
    BY <1>1, <2>1 DEF SameInv, Current, TypeInv
  <2>5. QED
    BY <1>1, <1>2, <2>1, <2>2, <2>3, <2>4, TakenStep
<1>3. CASE trigger = "overflow" /\ TurnOver /\ messages' = working /\ Unfitted /\ UNCHANGED <<logVars, turns>>
  <2>1. /\ apart' \in {"no", "stubs", "messages"} /\ Agrees(working, Projection(log), apart')
    BY <1>1, <1>3, UnfittedIs
  <2>2. messages' \in Seq(Said) /\ Agrees(messages', Projection(log), apart')
    BY <1>3, <2>1 DEF TypeInv
  <2>3. QED
    BY <1>1, <1>3, <2>1, <2>2, EndedStep
<1>4. CASE /\ trigger = "overflow" /\ phase' = "wrapup" /\ trigger' = "none" /\ fitted' = <<>>
           /\ Record(<<Harness>>) /\ Unfitted /\ UNCHANGED <<signal, answered, messages, turns>>
  <2>1. /\ apart' \in {"no", "stubs", "messages"} /\ (apart' = "no" => apart = "no")
        /\ Agrees(working, Projection(log), apart')
    BY <1>1, <1>4, UnfittedIs
  <2>2. Harness \in Said /\ Harness.ask = 0
    BY MessagesAre
  <2>3. /\ <<Harness>> \in Seq(Said) /\ Len(<<Harness>>) = 1 /\ <<Harness>>[1] = Harness
    BY <2>2, FewAre
  <2>4. PICK ms : ms = <<Harness>>
    OBVIOUS
  <2>5. /\ ms \in Seq(Said) /\ Len(ms) > 0 /\ Record(ms) /\ \A i \in 1..Len(ms) : ms[i].ask \in {0, turns}
        /\ (ms[Len(ms)].role = "user" => ms[Len(ms)].ask = 0)
    BY <1>4, <2>2, <2>3, <2>4
  <2>6. phase \notin Before /\ trigger # "manual" /\ answered' \in Nat /\ fitted' \in Seq(Said)
    BY <1>1, <1>4 DEF Before, TypeInv
  <2>7. QED
    BY <1>4, <2>1, <2>5, <2>6, RecordStep
<1>5. QED
  BY <1>2, <1>3, <1>4 DEF NothingToSummarize

\* A compaction that is cancelled.
LEMMA AbortedStep == ASSUME TypeInv, SameInv, LinesInv, TurnInv, SummaryAborted PROVE PastPart'
<1>1. phase = "compacting" /\ TurnOver /\ UNCHANGED <<logVars, turns>>
  BY DEF SummaryAborted
<1>2. CASE trigger = "auto" /\ messages' = working /\ Unfitted
  <2>1. /\ apart' \in {"no", "stubs", "messages"} /\ Agrees(working, Projection(log), apart')
    BY <1>1, <1>2, UnfittedIs
  <2>2. messages' \in Seq(Said) /\ Agrees(messages', Projection(log), apart')
    BY <1>2, <2>1 DEF TypeInv
  <2>3. QED
    BY <1>1, <2>1, <2>2, EndedStep
<1>3. CASE trigger = "overflow" /\ messages' = messages /\ apart' = "messages"
  <2>1. messages' \in Seq(Said) /\ apart' \in {"no", "stubs", "messages"} /\ Agrees(messages', Projection(log), apart')
    BY <1>3 DEF TypeInv, Agrees
  <2>2. QED
    BY <1>1, <2>1, EndedStep
<1>4. QED
  BY <1>2, <1>3 DEF SummaryAborted

-----------------------------------------------------------------------------
(* The process and the log.                                                *)

\* A process ends, and its log stays.
LEMMA CrashStep == ASSUME TypeInv, SameInv, LinesInv, TurnInv, Crash PROVE PastPart'
<1>1. /\ phase' = "down" /\ signal' = "live" /\ working' = <<>> /\ fitted' = <<>> /\ trigger' = "none" /\ answered' = 0
      /\ messages' = <<>> /\ turnStart' = 0 /\ apart' = "no" /\ log' = log /\ turns' = turns
  BY DEF Crash, NoTurn
<1>2. <<>> \in Seq(Said) /\ Len(log) \in Nat
  BY LenProperties DEF TypeInv
<1>3. TypeInv'
  BY <1>1, <1>2 DEF TypeInv, Phases
<1>4. SameInv'
  BY <1>1 DEF SameInv
<1>5. LinesInv'
  <2>1. turns' \in Nat /\ turns <= turns'
    BY <1>1 DEF TypeInv
  <2>2. QED
    BY <1>1, <2>1, SameLines
<1>6. TurnInv'
  BY <1>1 DEF TurnInv, Before
<1>7. QED
  BY <1>3, <1>4, <1>5, <1>6 DEF PastPart

\* A session opened on lines of its log holds what they tell.
LEMMA OpenStep ==
  ASSUME TypeInv, phase \in {"down", "idle"}, phase' = "idle", UNCHANGED <<turnVars, turns>>, NEW lines \in Seq(Line), Open(lines), LinesInv'
  PROVE  PastPart'
<1>1. /\ log' = lines /\ messages' = Projection(lines) /\ turnStart' = 0 /\ apart' = "no"
      /\ signal' = signal /\ working' = working /\ fitted' = fitted /\ trigger' = trigger /\ answered' = answered /\ turns' = turns
  BY DEF Open, turnVars
<1>2. Projection(lines) \in Seq(Said) /\ Len(lines) \in Nat
  BY ProjectionIsSaid, LenProperties
<1>3. TypeInv'
  BY <1>1, <1>2 DEF TypeInv, Phases
<1>4. Current' = Projection(log')
  BY <1>1 DEF Current, InTurn
<1>5. SameInv'
  BY <1>1, <1>4 DEF SameInv, Agrees, TypeInv
<1>6. TurnInv'
  BY <1>1 DEF TurnInv, Before
<1>7. QED
  BY <1>3, <1>5, <1>6 DEF PastPart

\* A session is resumed on all of its log.
LEMMA ResumeStep == ASSUME TypeInv, SameInv, LinesInv, TurnInv, Resume PROVE PastPart'
<1>1. phase = "down" /\ phase' = "idle" /\ UNCHANGED <<turnVars, turns>> /\ Open(log) /\ log' = log /\ log \in Seq(Line)
  BY DEF Resume, Open, TypeInv
<1>2. LinesInv'
  <2>1. turns' \in Nat /\ turns <= turns'
    BY <1>1 DEF TypeInv
  <2>2. QED
    BY <1>1, <2>1, SameLines
<1>3. QED
  BY <1>1, <1>2, OpenStep

\* A rewound conversation's log is the beginning of what it was.
LEMMA RewindStep == ASSUME TypeInv, SameInv, LinesInv, TurnInv, Rewind PROVE PastPart'
<1>1. PICK c \in Checkpoints : Open(ForkAt(c))
  BY DEF Rewind
<1>2. phase = "idle" /\ phase' = "idle" /\ UNCHANGED <<turnVars, turns>>
  BY DEF Rewind
<1>3. log \in Seq(Line) /\ Len(log) \in Nat /\ DOMAIN log = 1..Len(log)
  BY LenProperties DEF TypeInv
<1> DEFINE n == log[c].turn - 1
<1>4. c \in 1..Len(log) /\ log[c].type = "checkpoint" /\ log[c].turn # 0
  BY <1>1, <1>3 DEF Checkpoints
<1>5. n \in Nat /\ n <= Len(log)
  <2>1. log[c] \in Line
    BY <1>3, <1>4, ElementOfSeq
  <2>2. log[c].turn \in Nat /\ log[c].turn < c
    BY <1>4, <2>1, LineShape DEF LinesInv, PastInv
  <2>3. QED
    BY <1>3, <1>4, <2>2
<1>6. log' = SubSeq(log, 1, n)
  BY <1>1 DEF Open, ForkAt
<1> HIDE DEF n
<1>7. log' \in Seq(Line) /\ Len(log') = n /\ \A i \in 1..n : log'[i] = log[i]
  BY <1>3, <1>5, <1>6, Prefix
<1>8. turns' = turns
  BY <1>2
<1>9. ASSUME NEW i \in 1..Len(log'), log'[i].type = "message" PROVE log'[i].message.ask <= turns'
  <2>1. i \in 1..Len(log) /\ log'[i] = log[i]
    BY <1>3, <1>5, <1>7
  <2>2. QED
    BY <1>8, <1>9, <2>1 DEF LinesInv
<1>10. ASSUME NEW i \in 1..Len(log'), log'[i].type = "checkpoint" PROVE PastInv(i)'
  <2>1. i \in 1..Len(log) /\ log'[i] = log[i]
    BY <1>3, <1>5, <1>7
  <2>2. PastInv(i) /\ log[i] \in Line
    BY <1>3, <1>10, <2>1, ElementOfSeq DEF LinesInv
  <2>3. log[i].turn \in Nat /\ log[i].turn < i
    BY <1>10, <2>1, <2>2, LineShape DEF PastInv
  <2>4. log[i].turn # 0 => log'[log[i].turn] = log[log[i].turn]
    <3>1. log[i].turn # 0 => log[i].turn \in 1..n
      BY <1>3, <1>5, <1>7, <2>1, <2>3
    <3>2. QED
      BY <1>7, <3>1
  <2>5. log[i].turn # 0 => SubSeq(log', 1, log[i].turn - 1) = SubSeq(log, 1, log[i].turn - 1)
    <3>1. log[i].turn # 0 => log[i].turn - 1 \in Nat /\ log[i].turn - 1 <= n
      BY <1>3, <1>5, <1>7, <2>1, <2>3
    <3>2. QED
      BY <1>3, <1>5, <1>6, <3>1, PrefixOfPrefix
  <2>6. QED
    BY <2>1, <2>2, <2>3, <2>4, <2>5 DEF PastInv
<1>11. LinesInv'
  BY <1>9, <1>10 DEF LinesInv
<1>12. ForkAt(c) \in Seq(Line)
  BY <1>1, <1>7 DEF Open
<1>13. QED
  BY <1>1, <1>2, <1>11, <1>12, OpenStep

-----------------------------------------------------------------------------
(* Every step keeps what the log tells.                                    *)

\* The turn's own records.
LEMMA TurnRecords ==
  ASSUME TypeInv, SameInv, LinesInv, TurnInv,
         NEW ms, ms \in Seq(Said), Len(ms) > 0, Record(ms), ms[Len(ms)].role = "user" => ms[Len(ms)].ask = 0,
         \A i \in 1..Len(ms) : ms[i].ask = 0,
         UNCHANGED <<signal, messages, turns, apart, trigger, fitted>>, answered' \in Nat,
         phase \in {"head", "model", "stopping", "results", "fitting", "batch"}, phase' \in {"head", "wrapup", "batch", "stopping", "results"}
  PROVE  PastPart'
<1>1. trigger = "none" /\ trigger' = "none" /\ fitted' \in Seq(Said) /\ phase \notin Before
  BY DEF TypeInv, Before
<1>2. apart' \in {"no", "stubs", "messages"} /\ (apart' = "no" => apart = "no") /\ Agrees(working, Projection(log), apart')
  <2>1. Current = working
    BY <1>1 DEF Current, InTurn
  <2>2. QED
    BY <2>1 DEF SameInv, TypeInv
<1>3. \A i \in 1..Len(ms) : ms[i].ask \in {0, turns}
  OBVIOUS
<1>4. QED
  BY <1>1, <1>2, <1>3, RecordStep

\* One record of a turn's.
LEMMA OneRecord ==
  ASSUME TypeInv, SameInv, LinesInv, TurnInv, NEW x \in Said, x.ask = 0, Record(<<x>>),
         UNCHANGED <<signal, messages, turns, apart, trigger, fitted>>, answered' \in Nat,
         phase \in {"head", "model", "stopping", "results", "fitting", "batch"}, phase' \in {"head", "wrapup", "batch", "stopping", "results"}
  PROVE  PastPart'
<1>1. <<x>> \in Seq(Said) /\ Len(<<x>>) = 1 /\ <<x>>[1] = x
  BY FewAre
<1>2. PICK ms : ms = <<x>>
  OBVIOUS
<1>3. ms \in Seq(Said) /\ Len(ms) > 0 /\ Record(ms) /\ (ms[Len(ms)].role = "user" => ms[Len(ms)].ask = 0)
      /\ \A i \in 1..Len(ms) : ms[i].ask = 0
  BY <1>1, <1>2
<1>4. QED
  BY <1>3, TurnRecords

\* A turn that ends with one message more.
LEMMA OneLast ==
  ASSUME TypeInv, SameInv, LinesInv, TurnInv, phase \notin {"down", "idle", "compacting"},
         NEW x \in Said, x.ask = 0, FinishWith(<<x>>)
  PROVE  PastPart'
<1>1. <<x>> \in Seq(Said) /\ Len(<<x>>) = 1 /\ <<x>>[1] = x
  BY FewAre
<1>2. PICK ms : ms = <<x>>
  OBVIOUS
<1>3. ms \in Seq(Said) /\ FinishWith(ms) /\ \A i \in 1..Len(ms) : ms[i].ask \in {0, turns}
  BY <1>1, <1>2
<1>4. QED
  BY <1>3, FinishStep

\* A turn that ends as it is.
LEMMA NoneLast ==
  ASSUME TypeInv, SameInv, LinesInv, TurnInv, phase \notin {"down", "idle", "compacting"}, Finish
  PROVE  PastPart'
<1>1. <<>> \in Seq(Said) /\ \A i \in 1..Len(<<>>) : <<>>[i].ask \in {0, turns}
  OBVIOUS
<1>2. PICK ms : ms = <<>>
  OBVIOUS
<1>3. ms \in Seq(Said) /\ FinishWith(ms) /\ \A i \in 1..Len(ms) : ms[i].ask \in {0, turns}
  BY <1>1, <1>2 DEF Finish
<1>4. QED
  BY <1>3, FinishStep

\* A reply with calls, as one or as the last.
LEMMA PromptStep == ASSUME TypeInv, SameInv, LinesInv, TurnInv, PromptAccepted PROVE PastPart'
<1>1. /\ phase = "prompt" /\ phase' = "head" /\ Record(<<Prompt>>)
      /\ UNCHANGED <<signal, messages, turns>> /\ trigger' = "none" /\ answered' \in Nat /\ fitted' \in Seq(Said) /\ apart' = apart
  BY DEF PromptAccepted, turnLocals, session, TypeInv
<1>2. Prompt \in Said /\ Prompt.role = "user" /\ Prompt.ask = turns
  BY MessagesAre
<1>3. <<Prompt>> \in Seq(Said) /\ Len(<<Prompt>>) = 1 /\ <<Prompt>>[1] = Prompt
  BY <1>2, FewAre
<1>4. PICK ms : ms = <<Prompt>>
  OBVIOUS
<1>5. /\ ms \in Seq(Said) /\ Len(ms) > 0 /\ Len(ms) = 1 /\ Record(ms) /\ ms[1].role = "user"
      /\ \A i \in 1..Len(ms) : ms[i].ask \in {0, turns}
  BY <1>1, <1>2, <1>3, <1>4
<1>6. apart' \in {"no", "stubs", "messages"} /\ (apart' = "no" => apart = "no") /\ Agrees(working, Projection(log), apart')
  <2>1. Current = working
    BY <1>1 DEF Current, InTurn, TypeInv
  <2>2. QED
    BY <1>1, <2>1 DEF SameInv, TypeInv
<1>7. QED
  BY <1>1, <1>5, <1>6, RecordStep

\* A reply whose calls had no names, and what it is told.
LEMMA NamelessStep == ASSUME TypeInv, SameInv, LinesInv, TurnInv, ReplyNameless PROVE PastPart'
<1>1. /\ phase = "model" /\ phase' = "head" /\ Record(<<Reply(0), Harness>>)
      /\ UNCHANGED <<signal, messages, turns, apart, trigger, fitted>> /\ answered' \in Nat
  BY DEF ReplyNameless, turnLocals, session, TypeInv
<1>2. Reply(0) \in Said /\ Reply(0).ask = 0 /\ Harness \in Said /\ Harness.ask = 0
  BY MessagesAre
<1>3. /\ <<Reply(0), Harness>> \in Seq(Said) /\ Len(<<Reply(0), Harness>>) = 2
      /\ <<Reply(0), Harness>>[1] = Reply(0) /\ <<Reply(0), Harness>>[2] = Harness
  BY <1>2, FewAre
<1>4. PICK ms : ms = <<Reply(0), Harness>>
  OBVIOUS
<1>5. ms \in Seq(Said) /\ Len(ms) > 0 /\ Record(ms) /\ (ms[Len(ms)].role = "user" => ms[Len(ms)].ask = 0)
      /\ \A i \in 1..Len(ms) : ms[i].ask = 0
  BY <1>1, <1>2, <1>3, <1>4
<1>6. QED
  BY <1>1, <1>5, TurnRecords

\* One result recorded, the last one or not.
LEMMA ResultStep == ASSUME TypeInv, SameInv, LinesInv, TurnInv, RecordResult PROVE PastPart'
<1>1. phase = "results" /\ answered \in Nat /\ answered + 1 \in Nat
  BY DEF RecordResult, TypeInv
<1>2. Result(answered + 1) \in Said /\ Result(answered + 1).ask = 0
  BY <1>1, MessagesAre
<1>3. CASE FinishWith(<<Result(answered + 1)>>)
  BY <1>1, <1>2, <1>3, OneLast
<1>4. CASE signal = "live" /\ phase' = "head" /\ Record(<<Result(answered + 1)>>) /\ UNCHANGED <<signal, turnLocals, session>>
  <2>1. UNCHANGED <<signal, messages, turns, apart, trigger, fitted>> /\ answered' \in Nat
    BY <1>1, <1>4 DEF turnLocals, session
  <2>2. QED
    BY <1>1, <1>2, <1>4, <2>1, OneRecord
<1>5. CASE /\ answered' = answered + 1 /\ Record(<<Result(answered + 1)>>)
           /\ UNCHANGED <<phase, signal, fitted, trigger, compactable, steps, retried, session>>
  <2>1. UNCHANGED <<signal, messages, turns, apart, trigger, fitted>> /\ answered' \in Nat /\ phase' = "results"
    BY <1>1, <1>5 DEF session
  <2>2. QED
    BY <1>1, <1>2, <1>5, <2>1, OneRecord
<1>6. QED
  BY <1>3, <1>4, <1>5 DEF RecordResult

\* What comes of a request.
LEMMA AnswersStep ==
  ASSUME TypeInv, SameInv, LinesInv, TurnInv, ReplyCalls \/ ReplyEnds \/ StopHook \/ RequestFails \/ RequestFailsForGood
  PROVE  PastPart'
<1>1. CASE ReplyCalls
  <2>1. PICK c \in CallCounts : Record(<<Reply(c)>>)
    BY <1>1 DEF ReplyCalls
  <2>2. c \in Nat
    BY CallCountsAssumption
  <2>3. Reply(c) \in Said /\ Reply(c).ask = 0
    BY <2>2, MessagesAre
  <2>4. /\ UNCHANGED <<signal, messages, turns, apart, trigger, fitted>> /\ answered' \in Nat /\ phase = "model" /\ phase' = "batch"
    BY <1>1 DEF ReplyCalls, session
  <2>5. QED
    BY <2>1, <2>3, <2>4, OneRecord
<1>2. Reply(0) \in Said /\ Reply(0).ask = 0 /\ Harness \in Said /\ Harness.ask = 0
  BY MessagesAre
<1>3. CASE ReplyEnds
  <2>1. /\ UNCHANGED <<signal, messages, turns, apart, trigger, fitted>> /\ answered' \in Nat /\ phase = "model" /\ phase' = "stopping"
        /\ Record(<<Reply(0)>>)
    BY <1>3 DEF ReplyEnds, turnLocals, session, TypeInv
  <2>2. QED
    BY <1>2, <2>1, OneRecord
<1>4. CASE StopHook
  <2>1. CASE Finish
    BY <1>4, <2>1, NoneLast DEF StopHook
  <2>2. CASE phase' = "head" /\ Record(<<Harness>>) /\ UNCHANGED <<signal, turnLocals, session>>
    <3>1. /\ UNCHANGED <<signal, messages, turns, apart, trigger, fitted>> /\ answered' \in Nat /\ phase = "stopping"
      BY <1>4, <2>2 DEF StopHook, turnLocals, session, TypeInv
    <3>2. QED
      BY <1>2, <2>2, <3>1, OneRecord
  <2>3. QED
    BY <1>4, <2>1, <2>2 DEF StopHook
<1>5. CASE RequestFails
  <2>1. phase = "model"
    BY <1>5 DEF RequestFails
  <2>2. CASE FinishWith(<<>>)
    BY <2>1, <2>2, NoneLast DEF Finish
  <2>3. CASE FinishWith(<<Reply(0)>>)
    BY <1>2, <2>1, <2>3, OneLast
  <2>4. QED
    BY <1>5, <2>2, <2>3 DEF RequestFails
<1>6. CASE RequestFailsForGood
  <2>1. /\ UNCHANGED <<signal, messages, turns, apart, trigger, fitted>> /\ answered' \in Nat /\ phase = "model" /\ phase' = "wrapup"
        /\ Record(<<Harness>>)
    BY <1>6 DEF RequestFailsForGood, turnLocals, session, TypeInv
  <2>2. QED
    BY <1>2, <2>1, OneRecord
<1>7. QED
  BY <1>1, <1>3, <1>4, <1>5, <1>6

\* The other steps of a turn, and a cancel.
LEMMA LoopStep ==
  ASSUME TypeInv, SameInv, LinesInv, TurnInv,
         PromptBlocked \/ Cancelled \/ BeginStep \/ OutOfSteps \/ WrapUp \/ Send \/ DirectDone \/ Cancel
  PROVE  PastPart'
<1>1. Reply(0) \in Said /\ Reply(0).ask = 0 /\ Harness \in Said /\ Harness.ask = 0
  BY MessagesAre
<1>2. CASE PromptBlocked
  BY <1>2, NoneLast DEF PromptBlocked
<1>3. CASE Cancelled
  BY <1>3, NoneLast DEF Cancelled
<1>4. CASE BeginStep \/ Send
  <2>1. /\ UNCHANGED <<working, messages, fitted, log, turnStart, turns, trigger, answered, apart, signal>>
        /\ phase \in Mid /\ phase' \in Mid
    BY <1>4 DEF BeginStep, Send, turnLocals, session, logVars, Mid
  <2>2. signal' \in {"live", "aborted"} /\ ((phase \in {"down", "idle"} \/ trigger = "manual") => signal' = "live") /\ phase # "down"
    BY <2>1 DEF TypeInv, Mid
  <2>3. QED
    BY <2>1, <2>2, StillStep
<1>5. CASE Cancel
  <2>1. /\ UNCHANGED <<working, messages, fitted, log, turnStart, turns, trigger, answered, apart>> /\ phase' = phase
        /\ signal' \in {"live", "aborted"} /\ ((phase \in {"down", "idle"} \/ trigger = "manual") => signal' = "live") /\ phase # "down"
    BY <1>5 DEF Cancel, InTurn, turnLocals, session, logVars
  <2>2. QED
    BY <2>1, StillStep
<1>6. CASE OutOfSteps
  <2>1. CASE Finish
    BY <1>6, <2>1, NoneLast DEF OutOfSteps
  <2>2. CASE phase' = "wrapup" /\ Record(<<Harness>>) /\ UNCHANGED <<signal, turnLocals, session>>
    <3>1. /\ UNCHANGED <<signal, messages, turns, apart, trigger, fitted>> /\ answered' \in Nat /\ phase = "head"
      BY <1>6, <2>2 DEF OutOfSteps, turnLocals, session, TypeInv
    <3>2. QED
      BY <1>1, <2>2, <3>1, OneRecord
  <2>3. QED
    BY <1>6, <2>1, <2>2 DEF OutOfSteps
<1>7. CASE WrapUp
  <2>1. phase = "wrapup"
    BY <1>7 DEF WrapUp
  <2>2. CASE FinishWith(<<Reply(0)>>)
    BY <1>1, <2>1, <2>2, OneLast
  <2>3. CASE Finish
    BY <2>1, <2>3, NoneLast
  <2>4. QED
    BY <1>7, <2>2, <2>3 DEF WrapUp
<1>8. CASE DirectDone
  BY <1>1, <1>8, OneLast DEF DirectDone
<1>9. QED
  BY <1>2, <1>3, <1>4, <1>5, <1>6, <1>7, <1>8

\* A prompt, or a call the person makes.
LEMMA BeginsStep == ASSUME TypeInv, SameInv, LinesInv, TurnInv, StartTurn \/ StartDirect PROVE PastPart'
<1>1. /\ phase = "idle" /\ phase' \in {"prompt", "direct"} /\ working' = messages /\ turns' = turns + 1
      /\ UNCHANGED <<signal, turnLocals, messages, logVars, apart>>
  BY DEF StartTurn, StartDirect
<1>2. QED
  BY <1>1, StartStep

\* Every step there is.
LEMMA PastStep == ASSUME PastPart, [Next]_vars PROVE PastPart'
<1>1. TypeInv /\ SameInv /\ LinesInv /\ TurnInv
  BY DEF PastPart
<1>2. CASE UNCHANGED vars
  <2>1. /\ UNCHANGED <<working, messages, fitted, log, turnStart, turns, trigger, answered, apart, phase, signal>>
    BY <1>2 DEF vars, turnVars, logVars
  <2>2. TypeInv'
    BY <1>1, <2>1 DEF TypeInv
  <2>3. SameInv' /\ TurnInv'
    BY <1>1, <2>1 DEF SameInv, TurnInv, Current, InTurn
  <2>4. LinesInv'
    <3>1. turns' \in Nat /\ turns <= turns'
      BY <1>1, <2>1 DEF TypeInv
    <3>2. QED
      BY <1>1, <2>1, <3>1, SameLines
  <2>5. QED
    BY <2>2, <2>3, <2>4 DEF PastPart
<1>3. CASE Next
  <2>1. CASE StartTurn \/ StartDirect
    BY <1>1, <2>1, BeginsStep
  <2>2. CASE PromptBlocked \/ Cancelled \/ BeginStep \/ OutOfSteps \/ WrapUp \/ Send \/ DirectDone \/ Cancel
    BY <1>1, <2>2, LoopStep
  <2>3. CASE ReplyCalls \/ ReplyEnds \/ StopHook \/ RequestFails \/ RequestFailsForGood
    BY <1>1, <2>3, AnswersStep
  <2>4. CASE PromptAccepted
    BY <1>1, <2>4, PromptStep
  <2>5. CASE ReplyNameless
    BY <1>1, <2>5, NamelessStep
  <2>6. CASE RecordResult
    BY <1>1, <2>6, ResultStep
  <2>7. CASE BatchDone \/ DirectSettled
    BY <1>1, <2>7, SettledStep
  <2>8. CASE ElideAhead
    BY <1>1, <2>8, ElideStep
  <2>9. CASE CompactAhead \/ CompactRefused \/ CompactAsked
    BY <1>1, <2>9, CompactStep
  <2>10. CASE Summarized
    BY <1>1, <2>10, SummarizedStep
  <2>11. CASE NothingToSummarize
    BY <1>1, <2>11, NothingStep
  <2>12. CASE SummaryAborted
    BY <1>1, <2>12, AbortedStep
  <2>13. CASE Crash
    BY <1>1, <2>13, CrashStep
  <2>14. CASE Resume
    BY <1>1, <2>14, ResumeStep
  <2>15. CASE Rewind
    BY <1>1, <2>15, RewindStep
  <2>16. QED
    BY <1>3, <2>1, <2>2, <2>3, <2>4, <2>5, <2>6, <2>7, <2>8, <2>9, <2>10, <2>11, <2>12, <2>13, <2>14, <2>15
       DEF Next, Steps, Answers, Summaries
<1>4. QED
  BY <1>2, <1>3

-----------------------------------------------------------------------------
(* Whole conversations.                                                    *)

\* Whole, by position.
LEMMA WholeIs ==
  ASSUME NEW ms \in Seq(Said)
  PROVE  Whole(ms) <=>
           \A i \in 1..Len(ms) :
             /\ ms[i].role = "assistant" =>
                  \A k \in 1..ms[i].calls : i + k \in 1..Len(ms) /\ ms[i + k].role = "tool" /\ ms[i + k].calls = k
             /\ ms[i].role = "tool" =>
                  /\ ms[i].calls < i
                  /\ ms[i - ms[i].calls].role = "assistant" /\ ms[i - ms[i].calls].calls >= ms[i].calls
<1>1. DOMAIN ms = 1..Len(ms)
  BY LenProperties
<1>2. QED
  BY <1>1 DEF Whole

\* A message of a conversation, its calls and its asking.
LEMMA CallsAre == ASSUME NEW ms \in Seq(Said), NEW i \in 1..Len(ms) PROVE ms[i] \in Said /\ ms[i].calls \in Nat /\ ms[i].ask \in Nat
<1>1. ms[i] \in Said
  BY LenProperties, ElementOfSeq
<1>2. QED
  BY <1>1 DEF Said

\* A call's result follows it.
LEMMA CallIsAnswered ==
  ASSUME NEW ms \in Seq(Said), Whole(ms), NEW i \in 1..Len(ms), ms[i].role = "assistant", NEW k \in 1..ms[i].calls
  PROVE  i + k \in 1..Len(ms) /\ ms[i + k].role = "tool" /\ ms[i + k].calls = k
BY WholeIs

\* Nothing said is whole.
LEMMA NoneIsWhole == Whole(<<>>)
<1>1. <<>> \in Seq(Said) /\ Len(<<>>) = 0
  OBVIOUS
<1>2. QED
  BY <1>1 DEF Whole

\* What shrinks stays whole.
LEMMA SameIsWhole == ASSUME NEW a \in Seq(Said), NEW b \in Seq(Said), SameBut(a, b), Whole(a) PROVE Whole(b)
<1>1. Len(a) \in Nat /\ Len(b) = Len(a)
  BY LenProperties DEF SameBut
<1>2. \A i \in 1..Len(a) : b[i].role = a[i].role /\ b[i].calls = a[i].calls
  BY DEF SameBut
<1>3. ASSUME NEW i \in 1..Len(b), b[i].role = "assistant", NEW k \in 1..b[i].calls
      PROVE  i + k \in 1..Len(b) /\ b[i + k].role = "tool" /\ b[i + k].calls = k
  <2>1. i \in 1..Len(a) /\ a[i].role = "assistant" /\ k \in 1..a[i].calls
    BY <1>1, <1>2, <1>3
  <2>2. i + k \in 1..Len(a) /\ a[i + k].role = "tool" /\ a[i + k].calls = k
    BY <2>1, WholeIs
  <2>3. QED
    BY <1>1, <1>2, <2>2
<1>4. ASSUME NEW i \in 1..Len(b), b[i].role = "tool"
      PROVE  /\ b[i].calls < i
             /\ b[i - b[i].calls].role = "assistant" /\ b[i - b[i].calls].calls >= b[i].calls
  <2>1. i \in 1..Len(a) /\ a[i].role = "tool" /\ b[i].calls = a[i].calls /\ a[i].calls \in Nat
    BY <1>1, <1>2, <1>4, CallsAre
  <2>2. a[i].calls < i /\ a[i - a[i].calls].role = "assistant" /\ a[i - a[i].calls].calls >= a[i].calls
    BY <2>1, WholeIs
  <2>3. i - a[i].calls \in 1..Len(a)
    BY <1>1, <2>1, <2>2
  <2>4. QED
    BY <1>2, <2>1, <2>2, <2>3
<1>5. QED
  BY <1>3, <1>4, WholeIs

\* Messages that call nothing and answer nothing keep a conversation whole.
LEMMA MoreIsWhole ==
  ASSUME NEW u \in Seq(Said), NEW v \in Seq(Said), Whole(u), Len(u) <= Len(v), \A i \in 1..Len(u) : v[i] = u[i],
         \A i \in (Len(u) + 1)..Len(v) : v[i].role # "tool" /\ (v[i].role = "assistant" => v[i].calls = 0)
  PROVE  Whole(v)
<1>1. Len(u) \in Nat /\ Len(v) \in Nat /\ \A i \in 1..Len(v) : i \in 1..Len(u) \/ i \in (Len(u) + 1)..Len(v)
  BY LenProperties
<1>2. ASSUME NEW i \in 1..Len(v), v[i].role = "assistant", NEW k \in 1..v[i].calls
      PROVE  i + k \in 1..Len(v) /\ v[i + k].role = "tool" /\ v[i + k].calls = k
  <2>1. i \in 1..Len(u)
    BY <1>1, <1>2
  <2>2. i + k \in 1..Len(u) /\ u[i + k].role = "tool" /\ u[i + k].calls = k
    BY <1>2, <2>1, WholeIs
  <2>3. QED
    BY <1>1, <2>2
<1>3. ASSUME NEW i \in 1..Len(v), v[i].role = "tool"
      PROVE  /\ v[i].calls < i
             /\ v[i - v[i].calls].role = "assistant" /\ v[i - v[i].calls].calls >= v[i].calls
  <2>1. i \in 1..Len(u) /\ v[i] = u[i] /\ u[i].calls \in Nat
    BY <1>1, <1>3, CallsAre
  <2>2. u[i].calls < i /\ u[i - u[i].calls].role = "assistant" /\ u[i - u[i].calls].calls >= u[i].calls
    BY <1>3, <2>1, WholeIs
  <2>3. i - u[i].calls \in 1..Len(u)
    BY <1>1, <2>1, <2>2
  <2>4. QED
    BY <2>1, <2>2, <2>3
<1>4. QED
  BY <1>2, <1>3, WholeIs

\* A summary takes the place of whole replies.
LEMMA ReplacedIsWhole ==
  ASSUME NEW ms \in Seq(Said), Whole(ms), NEW k \in Nat, k < Len(ms), ms[k + 1].role # "tool", NEW s \in Said, s.role = "summary"
  PROVE  Whole(Replaced(ms, k, s))
<1> DEFINE v == Replaced(ms, k, s)
<1>1. Len(ms) \in Nat
  BY LenProperties
<1>2. /\ v \in Seq(Said) /\ Len(v) = 1 + (Len(ms) - k) /\ v[1] = s
      /\ \A i \in 2..Len(v) : v[i] = ms[k + i - 1]
  BY <1>1, ReplacedIs
<1> HIDE DEF v
<1>3. ASSUME NEW i \in 2..Len(v) PROVE k + i - 1 \in 1..Len(ms)
  BY <1>1, <1>2
<1>4. ASSUME NEW i \in 1..Len(v), v[i].role \in {"assistant", "tool"} PROVE i \in 2..Len(v)
  <2>1. i # 1
    BY <1>2, <1>4
  <2>2. QED
    BY <1>1, <1>2, <2>1
<1>5. ASSUME NEW i \in 1..Len(v), v[i].role = "assistant", NEW c \in 1..v[i].calls
      PROVE  i + c \in 1..Len(v) /\ v[i + c].role = "tool" /\ v[i + c].calls = c
  <2>1. i \in 2..Len(v) /\ k + i - 1 \in 1..Len(ms) /\ v[i] = ms[k + i - 1]
    BY <1>2, <1>3, <1>4, <1>5
  <2>2. (k + i - 1) + c \in 1..Len(ms) /\ ms[(k + i - 1) + c].role = "tool" /\ ms[(k + i - 1) + c].calls = c
    BY <1>5, <2>1, WholeIs
  <2>3. v[i].calls \in Nat
    BY <1>2, CallsAre
  <2>4. c \in Nat /\ i + c \in 2..Len(v) /\ k + (i + c) - 1 = (k + i - 1) + c
    BY <1>1, <1>2, <2>1, <2>2, <2>3
  <2>5. QED
    BY <1>2, <2>2, <2>4
<1>6. ASSUME NEW i \in 1..Len(v), v[i].role = "tool"
      PROVE  /\ v[i].calls < i
             /\ v[i - v[i].calls].role = "assistant" /\ v[i - v[i].calls].calls >= v[i].calls
  <2>1. i \in 2..Len(v) /\ k + i - 1 \in 1..Len(ms) /\ v[i] = ms[k + i - 1]
    BY <1>2, <1>3, <1>4, <1>6
  <2>2. PICK j \in 1..Len(ms) : j = k + i - 1
    BY <2>1
  <2>3. PICK c \in Nat : c = ms[j].calls
    BY CallsAre
  <2>4. c < j /\ ms[j - c].role = "assistant" /\ ms[j - c].calls >= c
    BY SMTT(40), <1>6, <2>1, <2>2, <2>3, WholeIs
  <2>5. j - c > k
    <3>1. SUFFICES ASSUME j - c <= k PROVE FALSE
      BY <1>1, <2>2, <2>3
    <3>2. j - c \in 1..Len(ms) /\ ms[j - c].calls \in Nat
      BY <1>1, <2>3, <2>4, CallsAre
    <3>3. PICK a \in 1..Len(ms) : a = j - c
      BY <3>2
    <3>4. PICK d \in Nat : d = ms[a].calls
      BY <3>2, <3>3
    <3>5. d >= c /\ ms[a].role = "assistant" /\ a \in Nat /\ j \in Nat /\ a <= k /\ j = a + c /\ j >= k + 1
      BY <1>1, <2>1, <2>2, <2>3, <2>4, <3>1, <3>3, <3>4
    <3>6. PICK b \in Nat : b = (k + 1) - a
      BY <3>5
    <3>7. b \in 1..d /\ a + b = k + 1
      BY <3>5, <3>6
    <3>8. b \in 1..ms[a].calls
      BY <3>4, <3>7
    <3>9. ms[a + b].role = "tool"
      BY <3>5, <3>8, CallIsAnswered
    <3>10. QED
      BY <3>7, <3>9
  <2>6. i - c \in 2..Len(v) /\ k + (i - c) - 1 = j - c /\ c < i
    <3>1. PICK n \in Nat : n = Len(v)
      BY <1>2, LenProperties
    <3>2. i \in 1..n /\ j = k + i - 1
      BY <2>2, <3>1
    <3>3. i - c \in 2..n /\ k + (i - c) - 1 = j - c /\ c < i
      BY <2>5, <3>2
    <3>4. QED
      BY <3>1, <3>3
  <2>7. v[i - c] = ms[j - c]
    BY <1>2, <2>6
  <2>8. QED
    BY <2>1, <2>2, <2>3, <2>4, <2>6, <2>7
<1>7. Whole(v)
  BY <1>2, <1>5, <1>6, WholeIs
<1>8. QED
  BY <1>7 DEF v

\* A reply whose calls wait.
LEMMA ReplyOwes ==
  ASSUME NEW u \in Seq(Said), NEW v \in Seq(Said), Whole(u), Len(v) = Len(u) + 1, \A i \in 1..Len(u) : v[i] = u[i],
         v[Len(u) + 1].role = "assistant", v[Len(u) + 1].calls >= 1
  PROVE  Owing(v, 0)
<1>1. Len(u) \in Nat /\ Len(v) - 0 = Len(u) + 1 /\ (Len(u) + 1) - 1 = Len(u) /\ 0 < Len(v)
  BY LenProperties
<1>2. SubSeq(v, 1, Len(u)) = SubSeq(u, 1, Len(u))
  BY <1>1, SamePrefix
<1>3. SubSeq(u, 1, Len(u)) = u
  BY SubSeqFull
<1>4. v[Len(u) + 1].calls \in Nat
  BY <1>1, CallsAre
<1>5. PICK r \in Nat : r = Len(u) + 1
  BY <1>1
<1>6. Len(v) - 0 = r /\ r - 1 = Len(u) /\ 0 < v[r].calls /\ v[r].role = "assistant"
  BY <1>1, <1>4, <1>5
<1>7. Whole(SubSeq(v, 1, r - 1))
  BY <1>2, <1>3, <1>6
<1>8. \A k \in 1..0 : v[r + k].role = "tool" /\ v[r + k].calls = k
  OBVIOUS
<1>9. QED
  BY <1>1, <1>6, <1>7, <1>8 DEF Owing

\* What an owing conversation is.
LEMMA OwingIs ==
  ASSUME NEW u \in Seq(Said), NEW n \in Nat, Owing(u, n)
  PROVE  \E r \in 1..Len(u) :
           /\ r = Len(u) - n /\ Whole(SubSeq(u, 1, r - 1)) /\ u[r].role = "assistant" /\ n < u[r].calls
           /\ \A k \in 1..n : u[r + k].role = "tool" /\ u[r + k].calls = k
<1>1. Len(u) \in Nat /\ n < Len(u)
  BY LenProperties DEF Owing
<1>2. Len(u) - n \in 1..Len(u)
  BY <1>1
<1>3. QED
  BY <1>2 DEF Owing

\* One result more, of several that are owed.
LEMMA ResultOwes ==
  ASSUME NEW u \in Seq(Said), NEW v \in Seq(Said), NEW n \in Nat, Owing(u, n), Len(v) = Len(u) + 1, \A i \in 1..Len(u) : v[i] = u[i],
         v[Len(u) + 1].role = "tool", v[Len(u) + 1].calls = n + 1, n + 1 # u[Len(u) - n].calls
  PROVE  Owing(v, n + 1)
<1>1. PICK r \in 1..Len(u) :
           /\ r = Len(u) - n /\ Whole(SubSeq(u, 1, r - 1)) /\ u[r].role = "assistant" /\ n < u[r].calls
           /\ \A k \in 1..n : u[r + k].role = "tool" /\ u[r + k].calls = k
  BY ZenonT(60), OwingIs
<1>2. Len(u) \in Nat /\ r \in Nat /\ r - 1 \in Nat /\ r - 1 <= Len(u) /\ r - 1 <= Len(v) /\ Len(v) - (n + 1) = r /\ n + 1 < Len(v)
      /\ r + (n + 1) = Len(u) + 1
  BY <1>1, LenProperties
<1>3. SubSeq(v, 1, r - 1) = SubSeq(u, 1, r - 1)
  <2>1. \A i \in 1..(r - 1) : v[i] = u[i]
    BY <1>2
  <2>2. QED
    BY <1>2, <2>1, SamePrefix
<1>4. v[r] = u[r] /\ n + 1 < u[r].calls
  <2>1. u[r].calls \in Nat
    BY CallsAre
  <2>2. QED
    BY <1>1, <2>1
<1>5. ASSUME NEW k \in 1..(n + 1) PROVE v[r + k].role = "tool" /\ v[r + k].calls = k
  <2>1. CASE k \in 1..n
    <3>1. r + k \in 1..Len(u)
      BY <1>1, <1>2, <2>1
    <3>2. QED
      BY <1>1, <2>1, <3>1
  <2>2. CASE k = n + 1
    BY <1>2, <2>2
  <2>3. QED
    BY <2>1, <2>2
<1>6. QED
  BY ZenonT(60), <1>1, <1>2, <1>3, <1>4, <1>5 DEF Owing

\* The last result that is owed.
LEMMA ResultSettles ==
  ASSUME NEW u \in Seq(Said), NEW v \in Seq(Said), NEW n \in Nat, Owing(u, n), Len(v) = Len(u) + 1, \A i \in 1..Len(u) : v[i] = u[i],
         v[Len(u) + 1].role = "tool", v[Len(u) + 1].calls = n + 1, n + 1 = u[Len(u) - n].calls
  PROVE  Whole(v)
<1>1. PICK r \in 1..Len(u) :
           /\ r = Len(u) - n /\ Whole(SubSeq(u, 1, r - 1)) /\ u[r].role = "assistant" /\ n < u[r].calls
           /\ \A k \in 1..n : u[r + k].role = "tool" /\ u[r + k].calls = k
  BY ZenonT(60), OwingIs
<1>2. Len(u) \in Nat /\ r \in Nat /\ r - 1 \in Nat /\ r - 1 <= Len(u) /\ Len(v) = r + n + 1 /\ Len(v) \in Nat
  BY <1>1, LenProperties
<1> DEFINE w == SubSeq(u, 1, r - 1)
<1>3. w \in Seq(Said) /\ Len(w) = r - 1 /\ \A i \in 1..(r - 1) : w[i] = u[i]
  BY <1>2, Prefix
<1> HIDE DEF w
<1>4. Whole(w)
  BY <1>1 DEF w
<1>5. \A i \in 1..(r - 1) : v[i] = w[i]
  BY <1>2, <1>3
<1>6. v[r].role = "assistant" /\ v[r].calls = n + 1
  BY <1>1, <1>2
<1>7. ASSUME NEW k \in 1..(n + 1) PROVE v[r + k].role = "tool" /\ v[r + k].calls = k
  <2>1. CASE k \in 1..n
    <3>1. r + k \in 1..Len(u)
      BY <1>1, <1>2, <2>1
    <3>2. QED
      BY <1>1, <2>1, <3>1
  <2>2. CASE k = n + 1
    BY SMTT(40), <1>2, <2>2
  <2>3. QED
    BY <2>1, <2>2
<1>8. ASSUME NEW i \in 1..Len(v) PROVE i \in 1..(r - 1) \/ i = r \/ (i - r \in 1..(n + 1) /\ r + (i - r) = i)
  BY <1>2
<1>9. ASSUME NEW i \in 1..Len(v), v[i].role = "assistant", NEW k \in 1..v[i].calls
      PROVE  i + k \in 1..Len(v) /\ v[i + k].role = "tool" /\ v[i + k].calls = k
  <2>1. CASE i \in 1..(r - 1)
    <3>1. w[i].role = "assistant" /\ k \in 1..w[i].calls /\ i \in 1..Len(w)
      BY <1>3, <1>5, <1>9, <2>1
    <3>2. i + k \in 1..Len(w) /\ w[i + k].role = "tool" /\ w[i + k].calls = k
      BY <1>3, <1>4, <3>1, CallIsAnswered
    <3>3. QED
      BY <1>2, <1>3, <1>5, <3>2
  <2>2. CASE i = r
    <3>1. k \in 1..(n + 1)
      BY <1>6, <2>2
    <3>2. r + k \in 1..Len(v)
      BY <1>2, <3>1
    <3>3. QED
      BY <1>7, <2>2, <3>1, <3>2
  <2>3. CASE i - r \in 1..(n + 1) /\ r + (i - r) = i
    <3>1. v[r + (i - r)].role = "tool"
      BY <1>7, <2>3
    <3>2. QED
      BY <1>9, <2>3, <3>1
  <2>4. QED
    BY <1>8, <2>1, <2>2, <2>3
<1>10. ASSUME NEW i \in 1..Len(v), v[i].role = "tool"
       PROVE  /\ v[i].calls < i
              /\ v[i - v[i].calls].role = "assistant" /\ v[i - v[i].calls].calls >= v[i].calls
  <2>1. CASE i \in 1..(r - 1)
    <3>1. w[i].role = "tool" /\ v[i] = w[i] /\ i \in 1..Len(w) /\ w[i].calls \in Nat
      BY <1>3, <1>5, <1>10, <2>1, CallsAre
    <3>2. w[i].calls < i /\ w[i - w[i].calls].role = "assistant" /\ w[i - w[i].calls].calls >= w[i].calls
      BY <1>3, <1>4, <3>1, WholeIs
    <3>3. PICK c \in Nat : c = w[i].calls
      BY <3>1
    <3>4. c < i
      BY <3>2, <3>3
    <3>5. i - c \in 1..(r - 1)
      BY <1>2, <2>1, <3>4
    <3>6. QED
      BY <1>5, <3>1, <3>2, <3>3, <3>5
  <2>2. CASE i = r
    BY <1>6, <1>10, <2>2
  <2>3. CASE i - r \in 1..(n + 1) /\ r + (i - r) = i
    <3>1. v[r + (i - r)].calls = i - r
      BY <1>7, <2>3
    <3>2. v[i].calls = i - r
      BY <2>3, <3>1
    <3>3. i - (i - r) = r /\ i - r < i /\ n + 1 >= i - r
      BY <1>2, <2>3
    <3>4. QED
      BY <1>6, <3>2, <3>3
  <2>4. QED
    BY <1>8, <2>1, <2>2, <2>3
<1>11. QED
  BY SMTT(40), <1>9, <1>10, WholeIs

-----------------------------------------------------------------------------
(* Requests are whole.                                                     *)

\* What a step owes: the requests of a whole session stay whole, and so does the session.
StaysWhole ==
  /\ WholeInv'
  /\ phase \notin {"down", "idle"} /\ phase' = "idle" /\ Whole(messages) => Whole(messages')

\* What a turn adds keeps it whole, unless it has calls or answers one.
LEMMA WithWhole ==
  ASSUME TypeInv, NEW ms \in Seq(Said), Recorder(ms), Whole(working), \A i \in 1..Len(ms) : ms[i].role # "tool" /\ ms[i].calls = 0
  PROVE  Whole(With(ms))
<1>1. /\ With(ms) \in Seq(Said) /\ Len(With(ms)) = Len(working) + Len(ms)
      /\ \A i \in 1..Len(working) : With(ms)[i] = working[i]
      /\ \A i \in 1..Len(ms) : LET w == With(ms)[Len(working) + i]
                               IN w.role = ms[i].role /\ w.ask = ms[i].ask /\ w.calls = ms[i].calls
  BY RecorderIs
<1>2. working \in Seq(Said) /\ Len(working) \in Nat /\ Len(ms) \in Nat /\ Len(working) <= Len(With(ms))
  BY <1>1, LenProperties DEF TypeInv
<1>3. ASSUME NEW i \in (Len(working) + 1)..Len(With(ms))
      PROVE  With(ms)[i].role # "tool" /\ (With(ms)[i].role = "assistant" => With(ms)[i].calls = 0)
  <2>1. PICK k \in 1..Len(ms) : i = Len(working) + k
    <3>1. i - Len(working) \in 1..Len(ms) /\ i = Len(working) + (i - Len(working))
      BY <1>1, <1>2
    <3>2. QED
      BY <3>1
  <2>2. With(ms)[i].role = ms[k].role /\ With(ms)[i].calls = ms[k].calls
    BY <1>1, <2>1
  <2>3. QED
    BY <2>2
<1>4. QED
  BY <1>1, <1>2, <1>3, MoreIsWhole

\* The same of one message.
LEMMA WithOne ==
  ASSUME TypeInv, NEW x \in Said, Recorder(<<x>>)
  PROVE  /\ With(<<x>>) \in Seq(Said) /\ Len(With(<<x>>)) = Len(working) + 1
         /\ \A i \in 1..Len(working) : With(<<x>>)[i] = working[i]
         /\ With(<<x>>)[Len(working) + 1].role = x.role /\ With(<<x>>)[Len(working) + 1].calls = x.calls
         /\ With(<<x>>)[Len(working) + 1].ask = x.ask
         /\ x.role # "tool" /\ x.calls = 0 /\ Whole(working) => Whole(With(<<x>>))
<1>1. <<x>> \in Seq(Said) /\ Len(<<x>>) = 1 /\ <<x>>[1] = x
  BY FewAre
<1>2. PICK ms : ms = <<x>>
  OBVIOUS
<1>3. ms \in Seq(Said) /\ Len(ms) = 1 /\ ms[1] = x /\ Recorder(ms) /\ 1 \in 1..Len(ms)
  BY <1>1, <1>2
<1>4. /\ With(ms) \in Seq(Said) /\ Len(With(ms)) = Len(working) + 1
      /\ \A i \in 1..Len(working) : With(ms)[i] = working[i]
      /\ With(ms)[Len(working) + 1].role = x.role /\ With(ms)[Len(working) + 1].calls = x.calls
      /\ With(ms)[Len(working) + 1].ask = x.ask
  <2>1. /\ With(ms) \in Seq(Said) /\ Len(With(ms)) = Len(working) + Len(ms)
        /\ \A i \in 1..Len(working) : With(ms)[i] = working[i]
        /\ \A i \in 1..Len(ms) : LET w == With(ms)[Len(working) + i]
                                 IN w.role = ms[i].role /\ w.ask = ms[i].ask /\ w.calls = ms[i].calls
    BY <1>3, RecorderIs
  <2>2. QED
    BY <1>3, <2>1
<1>5. x.role # "tool" /\ x.calls = 0 /\ Whole(working) => Whole(With(ms))
  <2>1. x.role # "tool" /\ x.calls = 0 => \A i \in 1..Len(ms) : ms[i].role # "tool" /\ ms[i].calls = 0
    BY <1>3
  <2>2. QED
    BY <1>3, <2>1, WithWhole
<1>6. QED
  BY <1>2, <1>4, <1>5

\* A step that ends no turn, changes nothing of the session's, and leaves its request whole.
LEMMA OnlyWhole ==
  ASSUME messages' = messages, phase' \in {"prompt", "head", "fitting", "model", "stopping", "wrapup", "direct", "directed"},
         Whole(messages) => Whole(working')
  PROVE  StaysWhole
BY DEF StaysWhole, WholeInv

\* A step to where no turn is.
LEMMA EndsWhole ==
  ASSUME phase' \in {"idle", "down"}, phase' = "idle" /\ phase # "idle" /\ phase # "down" /\ Whole(messages) => Whole(messages')
  PROVE  StaysWhole
BY DEF StaysWhole, WholeInv

WholePhases == {"prompt", "head", "fitting", "model", "stopping", "wrapup", "direct", "directed"}

\* One message more, in a phase whose request is whole.
LEMMA OneWhole ==
  ASSUME TypeInv, WholeInv, phase \in WholePhases, NEW x \in Said, x.role # "tool", x.calls = 0, Recorder(<<x>>)
  PROVE  Whole(messages) => Whole(With(<<x>>))
BY WithOne DEF WholeInv, WholePhases

\* A turn that ends as it is.
LEMMA FinishWhole ==
  ASSUME TypeInv, WholeInv, phase \in WholePhases, Finish
  PROVE  StaysWhole
<1>1. PICK ms : ms = <<>>
  OBVIOUS
<1>2. ms \in Seq(Said) /\ Recorder(ms) /\ \A i \in 1..Len(ms) : ms[i].role # "tool" /\ ms[i].calls = 0
  BY <1>1 DEF Finish, FinishWith
<1>3. Whole(messages) => Whole(With(ms))
  BY <1>2, WithWhole DEF WholeInv, WholePhases
<1>4. phase' = "idle" /\ messages' = With(ms)
  BY <1>1 DEF Finish, FinishWith, TurnOver
<1>5. QED
  BY <1>3, <1>4, EndsWhole

\* A turn that ends with one message more.
LEMMA LastWhole ==
  ASSUME TypeInv, WholeInv, phase \in WholePhases, NEW x \in Said, x.role # "tool", x.calls = 0, FinishWith(<<x>>)
  PROVE  StaysWhole
<1>1. phase' = "idle" /\ messages' = With(<<x>>) /\ Recorder(<<x>>)
  BY DEF FinishWith, TurnOver
<1>2. QED
  BY <1>1, OneWhole, EndsWhole

\* A turn that goes on with one message more.
LEMMA RecordWhole ==
  ASSUME TypeInv, WholeInv, phase \in WholePhases, NEW x \in Said, x.role # "tool", x.calls = 0, Record(<<x>>),
         messages' = messages, phase' \in WholePhases
  PROVE  StaysWhole
<1>1. working' = With(<<x>>) /\ Recorder(<<x>>)
  BY DEF Record
<1>2. QED
  BY <1>1, OneWhole, OnlyWhole DEF WholePhases

\* The steps that add nothing with calls and answer none.
LEMMA StepsWhole ==
  ASSUME TypeInv, WholeInv,
         PromptBlocked \/ PromptAccepted \/ Cancelled \/ BeginStep \/ OutOfSteps \/ WrapUp \/ Send \/ ReplyEnds \/ StopHook
           \/ RequestFails \/ RequestFailsForGood \/ DirectSettled \/ DirectDone
  PROVE  StaysWhole
<1>1. /\ Prompt \in Said /\ Prompt.role # "tool" /\ Prompt.calls = 0
      /\ Harness \in Said /\ Harness.role # "tool" /\ Harness.calls = 0
      /\ Reply(0) \in Said /\ Reply(0).role # "tool" /\ Reply(0).calls = 0
  BY MessagesAre
<1>2. CASE PromptBlocked
  BY <1>2, FinishWhole DEF PromptBlocked, WholePhases
<1>3. CASE PromptAccepted
  <2>1. phase \in WholePhases /\ phase' \in WholePhases /\ Record(<<Prompt>>) /\ messages' = messages
    BY <1>3 DEF PromptAccepted, WholePhases, session
  <2>2. QED
    BY <1>1, <2>1, RecordWhole
<1>4. CASE Cancelled
  BY <1>4, FinishWhole DEF Cancelled, WholePhases
<1>5. CASE BeginStep \/ Send \/ DirectSettled
  <2>1. /\ phase \in WholePhases /\ phase' \in {"prompt", "head", "fitting", "model", "stopping", "wrapup", "direct", "directed"}
        /\ messages' = messages /\ working' = working
    BY <1>5 DEF BeginStep, Send, DirectSettled, session, WholePhases
  <2>2. Whole(messages) => Whole(working')
    BY <2>1 DEF WholeInv, WholePhases
  <2>3. QED
    BY <2>1, <2>2, OnlyWhole
<1>6. CASE OutOfSteps
  <2>1. phase \in WholePhases
    BY <1>6 DEF OutOfSteps, WholePhases
  <2>2. CASE Finish
    BY <2>1, <2>2, FinishWhole
  <2>3. CASE phase' = "wrapup" /\ Record(<<Harness>>) /\ UNCHANGED <<signal, turnLocals, session>>
    <3>1. phase' \in WholePhases /\ messages' = messages
      BY <2>3 DEF WholePhases, session
    <3>2. QED
      BY <1>1, <2>1, <2>3, <3>1, RecordWhole
  <2>4. QED
    BY <1>6, <2>2, <2>3 DEF OutOfSteps
<1>7. CASE WrapUp
  <2>1. phase \in WholePhases
    BY <1>7 DEF WrapUp, WholePhases
  <2>2. QED
    BY <1>1, <1>7, <2>1, FinishWhole, LastWhole DEF WrapUp
<1>8. CASE ReplyEnds
  <2>1. phase \in WholePhases /\ phase' \in WholePhases /\ Record(<<Reply(0)>>) /\ messages' = messages
    BY <1>8 DEF ReplyEnds, WholePhases, session
  <2>2. QED
    BY <1>1, <2>1, RecordWhole
<1>9. CASE StopHook
  <2>1. phase \in WholePhases
    BY <1>9 DEF StopHook, WholePhases
  <2>2. CASE Finish
    BY <2>1, <2>2, FinishWhole
  <2>3. CASE phase' = "head" /\ Record(<<Harness>>) /\ UNCHANGED <<signal, turnLocals, session>>
    <3>1. phase' \in WholePhases /\ messages' = messages
      BY <2>3 DEF WholePhases, session
    <3>2. QED
      BY <1>1, <2>1, <2>3, <3>1, RecordWhole
  <2>4. QED
    BY <1>9, <2>2, <2>3 DEF StopHook
<1>10. CASE RequestFails
  <2>1. phase \in WholePhases
    BY <1>10 DEF RequestFails, WholePhases
  <2>2. QED
    BY <1>1, <1>10, <2>1, FinishWhole, LastWhole DEF RequestFails, Finish
<1>11. CASE RequestFailsForGood
  <2>1. phase \in WholePhases /\ phase' \in WholePhases /\ Record(<<Harness>>) /\ messages' = messages
    BY <1>11 DEF RequestFailsForGood, WholePhases, session
  <2>2. QED
    BY <1>1, <2>1, RecordWhole
<1>12. CASE DirectDone
  <2>1. phase \in WholePhases
    BY <1>12 DEF DirectDone, WholePhases
  <2>2. QED
    BY <1>1, <1>12, <2>1, LastWhole DEF DirectDone
<1>13. QED
  BY <1>2, <1>3, <1>4, <1>5, <1>6, <1>7, <1>8, <1>9, <1>10, <1>11, <1>12

\* A reply without its calls, and what it is told.
LEMMA NamelessWhole == ASSUME TypeInv, WholeInv, ReplyNameless PROVE StaysWhole
<1>1. /\ phase = "model" /\ phase' = "head" /\ working' = With(<<Reply(0), Harness>>) /\ Recorder(<<Reply(0), Harness>>)
      /\ messages' = messages
  BY DEF ReplyNameless, Record, session
<1>2. /\ Harness \in Said /\ Harness.role # "tool" /\ Harness.calls = 0
      /\ Reply(0) \in Said /\ Reply(0).role # "tool" /\ Reply(0).calls = 0
  BY MessagesAre
<1>3. /\ <<Reply(0), Harness>> \in Seq(Said) /\ Len(<<Reply(0), Harness>>) = 2
      /\ <<Reply(0), Harness>>[1] = Reply(0) /\ <<Reply(0), Harness>>[2] = Harness
  BY <1>2, FewAre
<1>4. PICK ms : ms = <<Reply(0), Harness>>
  OBVIOUS
<1>5. ms \in Seq(Said) /\ Recorder(ms) /\ \A i \in 1..Len(ms) : ms[i].role # "tool" /\ ms[i].calls = 0
  <2>1. \A i \in 1..2 : ms[i].role # "tool" /\ ms[i].calls = 0
    BY <1>2, <1>3, <1>4
  <2>2. QED
    BY <1>1, <1>3, <1>4, <2>1
<1>6. Whole(messages) => Whole(With(ms))
  BY <1>1, <1>5, WithWhole DEF WholeInv
<1>7. QED
  BY <1>1, <1>4, <1>6, OnlyWhole

\* A reply with calls owes all of their results.
LEMMA CallsWhole == ASSUME TypeInv, WholeInv, ReplyCalls PROVE StaysWhole
<1>1. PICK c \in CallCounts : Record(<<Reply(c)>>)
  BY DEF ReplyCalls
<1>2. phase = "model" /\ phase' = "batch" /\ answered' = 0 /\ messages' = messages
  BY DEF ReplyCalls, session
<1>3. c \in Nat /\ c >= 1
  BY CallCountsAssumption
<1>4. Reply(c) \in Said /\ Reply(c).role = "assistant" /\ Reply(c).calls = c
  BY <1>3, MessagesAre
<1>5. working' = With(<<Reply(c)>>) /\ Recorder(<<Reply(c)>>)
  BY <1>1 DEF Record
<1>6. /\ working' \in Seq(Said) /\ Len(working') = Len(working) + 1 /\ \A i \in 1..Len(working) : working'[i] = working[i]
      /\ working'[Len(working) + 1].role = "assistant" /\ working'[Len(working) + 1].calls = c
  BY <1>4, <1>5, WithOne
<1>7. Whole(working) => Owing(working', 0)
  <2>1. working \in Seq(Said) /\ working'[Len(working) + 1].calls >= 1
    BY <1>3, <1>6 DEF TypeInv
  <2>2. QED
    BY <1>6, <2>1, ReplyOwes
<1>8. QED
  BY <1>2, <1>7 DEF StaysWhole, WholeInv

\* A result settles one of them.
LEMMA ResultWhole == ASSUME TypeInv, WholeInv, RecordResult PROVE StaysWhole
<1>1. phase = "results" /\ answered \in Nat /\ answered + 1 \in Nat /\ working \in Seq(Said)
  BY DEF RecordResult, TypeInv
<1> DEFINE x == Result(answered + 1)
<1>2. x \in Said /\ x.role = "tool" /\ x.calls = answered + 1
  BY <1>1, MessagesAre
<1>3. /\ answered + 1 = Calls =>
           \/ FinishWith(<<x>>)
           \/ phase' = "head" /\ Record(<<x>>) /\ UNCHANGED <<signal, turnLocals, session>>
      /\ answered + 1 # Calls =>
           answered' = answered + 1 /\ Record(<<x>>) /\ UNCHANGED <<phase, signal, fitted, trigger, compactable, steps, retried, session>>
  BY DEF RecordResult
<1> HIDE DEF x
<1>4. Recorder(<<x>>)
  BY <1>3 DEF FinishWith, Record
<1>5. /\ With(<<x>>) \in Seq(Said) /\ Len(With(<<x>>)) = Len(working) + 1
      /\ \A i \in 1..Len(working) : With(<<x>>)[i] = working[i]
      /\ With(<<x>>)[Len(working) + 1].role = "tool" /\ With(<<x>>)[Len(working) + 1].calls = answered + 1
  BY <1>2, <1>4, WithOne
<1>6. Whole(messages) => Owing(working, answered)
  BY <1>1 DEF WholeInv
<1>7. CASE answered + 1 = Calls
  <2>1. Whole(messages) => Whole(With(<<x>>))
    <3>1. Owing(working, answered) => Whole(With(<<x>>))
      BY <1>1, <1>5, <1>7, ResultSettles DEF Calls
    <3>2. QED
      BY <1>6, <3>1
  <2>2. CASE FinishWith(<<x>>)
    <3>1. phase' = "idle" /\ messages' = With(<<x>>)
      BY <2>2 DEF FinishWith, TurnOver
    <3>2. QED
      BY <2>1, <3>1, EndsWhole
  <2>3. CASE phase' = "head" /\ Record(<<x>>) /\ UNCHANGED <<signal, turnLocals, session>>
    <3>1. working' = With(<<x>>) /\ messages' = messages
      BY <2>3 DEF Record, session
    <3>2. QED
      BY <2>1, <2>3, <3>1, OnlyWhole
  <2>4. QED
    BY <1>3, <1>7, <2>2, <2>3
<1>8. CASE answered + 1 # Calls
  <2>1. answered' = answered + 1 /\ working' = With(<<x>>) /\ messages' = messages /\ phase' = "results"
    BY <1>1, <1>3, <1>8 DEF Record, session
  <2>2. Owing(working, answered) => Owing(With(<<x>>), answered + 1)
    BY <1>1, <1>5, <1>8, ResultOwes DEF Calls
  <2>3. Whole(messages) => Owing(working', answered')
    BY <1>6, <2>1, <2>2
  <2>4. QED
    BY <2>1, <2>3 DEF StaysWhole, WholeInv
<1>9. QED
  BY <1>7, <1>8

\* What shrank is whole when what it was is.
LEMMA SameWholes == ASSUME NEW a \in Seq(Said), NEW b \in Seq(Said), SameBut(a, b) PROVE Whole(b) => Whole(a)
BY SameIsSame, SameIsWhole

\* Results shrink ahead of a step.
LEMMA ElideWhole == ASSUME TypeInv, WholeInv, ElideAhead PROVE StaysWhole
<1>1. /\ phase = "fitting" /\ phase' = phase /\ messages' = messages
      /\ ElideInto(working', working) \/ UNCHANGED <<working, logVars>>
  BY DEF ElideAhead
<1>2. working \in Seq(Said)
  BY DEF TypeInv
<1>3. Whole(working) => Whole(working')
  <2>1. CASE ElideInto(working', working)
    <3>1. working' \in Seq(Said) /\ SameBut(working', working)
      BY <1>2, <2>1, ElisionIs
    <3>2. QED
      BY <1>2, <3>1, SameWholes
  <2>2. QED
    BY <1>1, <2>1
<1>4. Whole(messages) => Whole(working')
  BY <1>1, <1>3 DEF WholeInv
<1>5. QED
  BY <1>1, <1>4, OnlyWhole

\* A compaction begins with a copy.
LEMMA CompactWhole == ASSUME TypeInv, WholeInv, CompactAhead \/ CompactRefused \/ CompactAsked PROVE StaysWhole
<1> DEFINE ms == IF phase = "idle" THEN messages ELSE working
<1>1. /\ phase' = "compacting"
      /\ ElideInto(fitted', ms) \/ (fitted' = ms /\ UNCHANGED logVars)
      /\ UNCHANGED <<working, messages>>
      /\ \/ phase \in {"fitting", "model"}
         \/ phase = "idle" /\ trigger' = "manual"
  BY DEF CompactAhead, CompactRefused, CompactAsked, Compact
<1>2. ms \in Seq(Said)
  BY DEF TypeInv
<1>3. Whole(messages) => Whole(ms) /\ (trigger' # "manual" => Whole(working'))
  BY <1>1 DEF WholeInv
<1> HIDE DEF ms
<1>4. fitted' \in Seq(Said) /\ SameBut(fitted', ms)
  BY <1>1, <1>2, CompactIs
<1>5. Whole(ms) => Whole(fitted')
  BY <1>2, <1>4, SameWholes
<1>6. QED
  BY <1>1, <1>3, <1>5 DEF StaysWhole, WholeInv

\* What was compacted is taken over.
LEMMA TakenWhole ==
  ASSUME WholeInv, phase = "compacting", NEW ms, TakeOver(ms), Whole(messages) => Whole(ms) PROVE StaysWhole
<1>1. CASE trigger = "manual" /\ TurnOver /\ messages' = ms
  <2>1. phase' = "idle" /\ messages' = ms
    BY <1>1 DEF TurnOver
  <2>2. QED
    BY <2>1, EndsWhole
<1>2. CASE phase' = "model" /\ working' = ms /\ messages' = messages
  BY <1>2, OnlyWhole
<1>3. QED
  BY <1>1, <1>2 DEF TakeOver

\* A summary is cut in between replies.
LEMMA SummarizedWhole == ASSUME TypeInv, WholeInv, Summarized PROVE StaysWhole
<1>1. phase = "compacting"
  BY DEF Summarized
<1>2. PICK k \in Boundaries(fitted) \ {0} :
         LET summary == [Summary(Carried(fitted, k)) EXCEPT !.at = Len(log) + 1]
         IN log' = Append(log, CompactionLine(k, summary)) /\ TakeOver(Replaced(fitted, k, summary))
  BY DEF Summarized
<1>3. PICK summary : summary = [Summary(Carried(fitted, k)) EXCEPT !.at = Len(log) + 1]
  OBVIOUS
<1>4. TakeOver(Replaced(fitted, k, summary))
  BY <1>2, <1>3
<1>5. summary \in Said /\ summary.role = "summary" /\ k \in Nat /\ k < Len(fitted) /\ fitted[k + 1].role # "tool"
  BY <1>3, SummaryIs
<1>6. Whole(fitted) => Whole(Replaced(fitted, k, summary))
  BY <1>5, ReplacedIsWhole DEF TypeInv
<1>7. Whole(messages) => Whole(Replaced(fitted, k, summary))
  BY <1>1, <1>6 DEF WholeInv
<1>8. QED
  BY <1>1, <1>4, <1>7, TakenWhole

\* Nothing to summarize.
LEMMA NothingWhole == ASSUME TypeInv, WholeInv, NothingToSummarize PROVE StaysWhole
<1>1. phase = "compacting"
  BY DEF NothingToSummarize
<1>2. Whole(messages) => Whole(fitted) /\ (trigger # "manual" => Whole(working))
  BY <1>1 DEF WholeInv
<1>3. CASE TakeOver(fitted)
  BY <1>1, <1>2, <1>3, TakenWhole
<1>4. CASE trigger = "overflow" /\ TurnOver /\ messages' = working
  <2>1. phase' = "idle" /\ messages' = working /\ trigger # "manual"
    BY <1>4 DEF TurnOver
  <2>2. QED
    BY <1>2, <2>1, EndsWhole
<1>5. CASE trigger = "overflow" /\ phase' = "wrapup" /\ Record(<<Harness>>) /\ messages' = messages
  <2>1. Harness \in Said /\ Harness.role # "tool" /\ Harness.calls = 0
    BY MessagesAre
  <2>2. working' = With(<<Harness>>) /\ Recorder(<<Harness>>)
    BY <1>5 DEF Record
  <2>3. Whole(working) => Whole(working')
    BY <2>1, <2>2, WithOne
  <2>4. Whole(messages) => Whole(working')
    BY <1>2, <1>5, <2>3
  <2>5. QED
    BY <1>5, <2>4, OnlyWhole
<1>6. QED
  BY <1>3, <1>4, <1>5 DEF NothingToSummarize

\* A compaction cancelled.
LEMMA AbortedWhole == ASSUME TypeInv, WholeInv, SummaryAborted PROVE StaysWhole
<1>1. phase = "compacting" /\ phase' = "idle"
  BY DEF SummaryAborted, TurnOver
<1>2. Whole(messages) => Whole(messages')
  BY <1>1 DEF SummaryAborted, WholeInv
<1>3. QED
  BY <1>1, <1>2, EndsWhole

\* Every step there is.
LEMMA WholeStep == ASSUME TypeInv, WholeInv, [Next]_vars PROVE StaysWhole
<1>1. CASE UNCHANGED vars
  BY <1>1 DEF vars, turnVars, logVars, StaysWhole, WholeInv
<1>2. CASE Next
  <2>1. CASE StartTurn \/ StartDirect
    <3>1. phase' \in {"prompt", "head", "fitting", "model", "stopping", "wrapup", "direct", "directed"}
          /\ working' = messages /\ messages' = messages
      BY <2>1 DEF StartTurn, StartDirect
    <3>2. QED
      BY <3>1, OnlyWhole
  <2>2. CASE PromptBlocked \/ PromptAccepted \/ Cancelled \/ BeginStep \/ OutOfSteps \/ WrapUp \/ Send \/ ReplyEnds \/ StopHook
               \/ RequestFails \/ RequestFailsForGood \/ DirectSettled \/ DirectDone
    BY <2>2, StepsWhole
  <2>3. CASE ReplyCalls
    BY <2>3, CallsWhole
  <2>4. CASE ReplyNameless
    BY <2>4, NamelessWhole
  <2>5. CASE RecordResult
    BY <2>5, ResultWhole
  <2>6. CASE BatchDone
    <3>1. /\ phase = "batch" /\ phase' = "results" /\ UNCHANGED <<working, answered, messages>>
      BY <2>6 DEF BatchDone, turnLocals, session
    <3>2. QED
      BY <3>1 DEF StaysWhole, WholeInv
  <2>7. CASE Cancel
    <3>1. UNCHANGED <<phase, working, messages, fitted, trigger, answered>>
      BY <2>7 DEF Cancel, turnLocals, session
    <3>2. phase' = "idle" => phase = "idle"
      BY <3>1
    <3>3. QED
      BY <3>1, <3>2 DEF StaysWhole, WholeInv
  <2>8. CASE ElideAhead
    BY <2>8, ElideWhole
  <2>9. CASE CompactAhead \/ CompactRefused \/ CompactAsked
    BY <2>9, CompactWhole
  <2>10. CASE Summarized
    BY <2>10, SummarizedWhole
  <2>11. CASE NothingToSummarize
    BY <2>11, NothingWhole
  <2>12. CASE SummaryAborted
    BY <2>12, AbortedWhole
  <2>13. CASE Crash \/ Resume \/ Rewind
    <3>1. phase' \in {"idle", "down"} /\ (phase' = "idle" => phase \in {"idle", "down"})
      BY <2>13 DEF Crash, Resume, Rewind
    <3>2. QED
      BY <3>1, EndsWhole
  <2>14. QED
    BY <1>2, <2>1, <2>2, <2>3, <2>4, <2>5, <2>6, <2>7, <2>8, <2>9, <2>10, <2>11, <2>12, <2>13
       DEF Next, Steps, Answers, Summaries
<1>3. QED
  BY <1>1, <1>2

-----------------------------------------------------------------------------
(* What was asked stays in the request.                                    *)

\* What is added keeps the last request, unless it is one.
LEMMA MoreIsLast ==
  ASSUME NEW u \in Seq(Said), NEW v \in Seq(Said), NEW asked, LastSaid(u, asked),
         Len(u) <= Len(v), \A i \in 1..Len(u) : v[i].role = u[i].role /\ v[i].ask = u[i].ask,
         \A i \in (Len(u) + 1)..Len(v) : v[i].role \notin {"user", "summary"}
  PROVE  LastSaid(v, asked)
<1>1. /\ Len(u) \in Nat /\ Len(v) \in Nat /\ DOMAIN u = 1..Len(u) /\ DOMAIN v = 1..Len(v)
      /\ \A i \in 1..Len(v) : i \in 1..Len(u) \/ i \in (Len(u) + 1)..Len(v)
  BY LenProperties
<1>2. PICK i \in 1..Len(u) :
        /\ u[i].role \in {"user", "summary"} /\ u[i].ask = asked
        /\ \A j \in 1..Len(u) : j > i => u[j].role \notin {"user", "summary"}
  BY <1>1 DEF LastSaid
<1>3. i \in 1..Len(v) /\ v[i].role \in {"user", "summary"} /\ v[i].ask = asked
  BY <1>1, <1>2
<1>4. ASSUME NEW j \in 1..Len(v), j > i PROVE v[j].role \notin {"user", "summary"}
  BY <1>1, <1>2, <1>4
<1>5. QED
  BY <1>1, <1>3, <1>4 DEF LastSaid

\* What shrinks has the same last request.
LEMMA SameIsLast ==
  ASSUME NEW a \in Seq(Said), NEW b \in Seq(Said), SameBut(a, b), Lastly(b) PROVE Lastly(a)
<1>1. Len(a) = Len(b) /\ DOMAIN a = 1..Len(a) /\ DOMAIN b = 1..Len(b)
  BY LenProperties DEF SameBut
<1>2. \A i \in 1..Len(a) : a[i].role = b[i].role /\ a[i].ask = b[i].ask
  BY DEF SameBut
<1>3. PICK i \in 1..Len(b) :
        /\ b[i].role \in {"user", "summary"} /\ b[i].ask = turns
        /\ \A j \in 1..Len(b) : j > i => b[j].role \notin {"user", "summary"}
  BY <1>1 DEF Lastly, LastSaid
<1>4. /\ i \in 1..Len(a) /\ a[i].role \in {"user", "summary"} /\ a[i].ask = turns
      /\ \A j \in 1..Len(a) : j > i => a[j].role \notin {"user", "summary"}
  BY <1>1, <1>2, <1>3
<1>5. QED
  BY <1>1, <1>4 DEF Lastly, LastSaid

\* A summary carries the last request it replaces.
LEMMA CarriedIsLast ==
  ASSUME NEW ms \in Seq(Said), Lastly(ms), NEW k \in Nat, k < Len(ms),
         NEW s \in Said, s.role = "summary", s.ask = Carried(ms, k)
  PROVE  Lastly(Replaced(ms, k, s))
<1> DEFINE v == Replaced(ms, k, s)
<1>1. Len(ms) \in Nat /\ DOMAIN ms = 1..Len(ms)
  BY LenProperties
<1>2. /\ v \in Seq(Said) /\ Len(v) = 1 + (Len(ms) - k) /\ v[1] = s
      /\ \A i \in 2..Len(v) : v[i] = ms[k + i - 1]
  BY <1>1, ReplacedIs
<1>3. DOMAIN v = 1..Len(v)
  BY <1>2, LenProperties
<1> HIDE DEF v
<1>4. PICK i \in 1..Len(ms) :
        /\ ms[i].role \in {"user", "summary"} /\ ms[i].ask = turns
        /\ \A j \in 1..Len(ms) : j > i => ms[j].role \notin {"user", "summary"}
  BY <1>1 DEF Lastly, LastSaid
<1>5. CASE i > k
  <2>1. i - k + 1 \in 2..Len(v) /\ k + (i - k + 1) - 1 = i
    BY <1>1, <1>2, <1>4, <1>5
  <2>2. PICK x \in 2..Len(v) : x = i - k + 1
    BY <2>1
  <2>3. v[x] = ms[i]
    BY <1>2, <2>1, <2>2
  <2>4. ASSUME NEW j \in 1..Len(v), j > x PROVE v[j].role \notin {"user", "summary"}
    <3>1. j \in 2..Len(v) /\ k + j - 1 \in 1..Len(ms) /\ k + j - 1 > i
      BY <1>1, <1>2, <1>4, <1>5, <2>2, <2>4
    <3>2. QED
      BY <1>2, <1>4, <3>1
  <2>5. x \in 1..Len(v) /\ v[x].role \in {"user", "summary"} /\ v[x].ask = turns
    BY <1>4, <2>3
  <2>6. QED
    BY <1>3, <2>4, <2>5 DEF Lastly, LastSaid, v
<1>6. CASE i <= k
  <2>1. UserCuts(ms, k) = {}
    <3>1. SUFFICES ASSUME NEW j \in UserCuts(ms, k) PROVE FALSE
      OBVIOUS
    <3>2. j + 1 \in 1..Len(ms) /\ j + 1 > i /\ ms[j + 1].role = "user"
      BY <1>1, <1>4, <1>6 DEF UserCuts
    <3>3. QED
      BY <1>4, <3>2
  <2> DEFINE said == {j \in 1..k : ms[j].role \in {"user", "summary"}}
  <2>2. i \in said /\ said \subseteq 0..k
    BY <1>1, <1>4, <1>6
  <2>3. \A j \in said : j <= i
    BY <1>1, <1>4, <1>6
  <2>4. Carried(ms, k) = IF UserCuts(ms, k) # {} \/ said = {} THEN 0 ELSE ms[Max(said)].ask
    BY DEF Carried
  <2> HIDE DEF said
  <2>5. Max(said) \in said /\ \A y \in said : y <= Max(said)
    BY <2>2, GreatestOf
  <2>6. Max(said) = i
    <3>1. Max(said) \in 0..k /\ Max(said) <= i /\ i <= Max(said)
      BY <2>2, <2>3, <2>5
    <3>2. QED
      BY <1>1, <3>1
  <2>7. v[1].role = "summary" /\ v[1].ask = turns
    BY <1>2, <1>4, <2>1, <2>2, <2>4, <2>6
  <2>8. ASSUME NEW j \in 1..Len(v), j > 1 PROVE v[j].role \notin {"user", "summary"}
    <3>1. j \in 2..Len(v) /\ k + j - 1 \in 1..Len(ms) /\ k + j - 1 > i
      BY <1>1, <1>2, <1>4, <1>6, <2>8
    <3>2. QED
      BY <1>2, <1>4, <3>1
  <2>9. 1 \in 1..Len(v)
    BY <1>1, <1>2
  <2>10. QED
    BY <1>3, <2>7, <2>8, <2>9 DEF Lastly, LastSaid, v
<1>7. QED
  BY <1>1, <1>4, <1>5, <1>6

\* Where the turn's message is does not change, nor does what it says.
LEMMA SameNudge ==
  ASSUME TypeInv, TurnInv, Grows, turnStart' = turnStart, phase \notin Before, trigger # "manual"
  PROVE  Nudged' <=> Nudged
<1>1. turnStart \in 1..Len(log)
  BY LenProperties DEF TypeInv, TurnInv
<1>2. log'[turnStart] = log[turnStart]
  BY <1>1 DEF Grows
<1>3. QED
  BY <1>2 DEF Nudged

\* A step of a turn that keeps the turn's message, and the last request.
LEMMA KeepsKept ==
  ASSUME TypeInv, TurnInv, KeptInv, Grows, turnStart' = turnStart, phase \notin Before, trigger # "manual",
         ~Nudged /\ Lastly(working) /\ (phase = "compacting" => Lastly(fitted)) =>
           Lastly(working)' /\ (phase' = "compacting" => Lastly(fitted)')
  PROVE  KeptInv'
<1>1. Nudged' <=> Nudged
  BY SameNudge
<1>2. QED
  BY <1>1 DEF KeptInv

\* One message recorded.
LEMMA RecordKept ==
  ASSUME TypeInv, TurnInv, KeptInv, NEW x \in Said, Record(<<x>>), turns' = turns, phase \notin Before, trigger # "manual", phase' # "compacting",
         x.role \notin {"user", "summary"} \/ (x.role = "user" /\ x.ask = 0)
  PROVE  KeptInv'
<1>1. working' = With(<<x>>) /\ Recorder(<<x>>) /\ working \in Seq(Said)
  BY DEF Record, TypeInv
<1>2. <<x>> \in Seq(Said) /\ Len(<<x>>) = 1 /\ <<x>>[1] = x
  BY FewAre
<1>3. PICK ms : ms = <<x>>
  OBVIOUS
<1>4. ms \in Seq(Said) /\ Len(ms) = 1 /\ ms[1] = x /\ Recorder(ms) /\ 1 \in 1..Len(ms)
  BY <1>1, <1>2, <1>3
<1>5. /\ log' \in Seq(Line) /\ Len(log') = Len(log) + 1
      /\ \A i \in 1..Len(log) : log'[i] = log[i]
      /\ log'[Len(log) + 1].message.ask = x.ask
      /\ turnStart' = (IF x.role = "user" THEN Len(log) + 1 ELSE turnStart)
  <2>1. /\ log' \in Seq(Line) /\ Len(log') = Len(log) + Len(ms)
        /\ \A i \in 1..Len(log) : log'[i] = log[i]
        /\ \A i \in 1..Len(ms) : log'[Len(log) + i].type = "message" /\ log'[Len(log) + i].message.ask = ms[i].ask
        /\ turnStart' = (IF Len(ms) > 0 /\ ms[Len(ms)].role = "user" THEN Len(log) + Len(ms) ELSE turnStart)
    BY <1>4, RecorderIs
  <2>2. QED
    BY <1>4, <2>1
<1>6. Len(log) \in Nat /\ Len(working) \in Nat
  BY LenProperties DEF TypeInv
<1>7. Grows
  BY <1>5, <1>6 DEF Grows
<1>8. CASE x.role = "user" /\ x.ask = 0
  <2>1. Nudged'
    BY <1>5, <1>8 DEF Nudged
  <2>2. QED
    BY <2>1 DEF KeptInv
<1>9. CASE x.role \notin {"user", "summary"}
  <2>1. /\ working' \in Seq(Said) /\ Len(working') = Len(working) + 1
        /\ \A i \in 1..Len(working) : working'[i] = working[i]
        /\ working'[Len(working) + 1].role = x.role
    BY <1>1, WithOne
  <2>2. \A i \in (Len(working) + 1)..Len(working') : working'[i].role \notin {"user", "summary"}
    <3>1. \A i \in (Len(working) + 1)..Len(working') : i = Len(working) + 1
      BY <1>6, <2>1
    <3>2. QED
      BY <1>9, <2>1, <3>1
  <2>3. Lastly(working) => Lastly(working)'
    <3>1. Len(working) <= Len(working') /\ \A i \in 1..Len(working) : working'[i].role = working[i].role /\ working'[i].ask = working[i].ask
      BY <1>6, <2>1
    <3>2. LastSaid(working, turns) => LastSaid(working', turns)
      BY <1>1, <2>1, <2>2, <3>1, MoreIsLast
    <3>3. QED
      BY <3>2 DEF Lastly
  <2>4. turnStart' = turnStart
    BY <1>5, <1>9
  <2>5. QED
    BY <1>7, <2>3, <2>4, KeepsKept
<1>10. QED
  BY <1>8, <1>9

\* The prompt itself.
LEMMA PromptKept == ASSUME TypeInv, PromptAccepted PROVE KeptInv'
<1>1. working' = With(<<Prompt>>) /\ Recorder(<<Prompt>>) /\ turns' = turns /\ phase' = "head" /\ working \in Seq(Said)
  BY DEF PromptAccepted, Record, session, TypeInv
<1>2. Prompt \in Said /\ Prompt.role = "user" /\ Prompt.ask = turns
  BY MessagesAre
<1>3. /\ working' \in Seq(Said) /\ Len(working') = Len(working) + 1
      /\ working'[Len(working) + 1].role = "user" /\ working'[Len(working) + 1].ask = turns
  BY <1>1, <1>2, WithOne
<1>4. Len(working) \in Nat /\ DOMAIN working' = 1..Len(working')
  BY <1>1, <1>3, LenProperties
<1>5. PICK n \in Nat : n = Len(working) + 1
  BY <1>4
<1>6. /\ n \in DOMAIN working' /\ working'[n].role \in {"user", "summary"} /\ working'[n].ask = turns'
      /\ \A j \in DOMAIN working' : ~(j > n)
  BY <1>1, <1>3, <1>4, <1>5
<1>7. Lastly(working)'
  BY <1>6 DEF Lastly, LastSaid
<1>8. QED
  BY <1>1, <1>7 DEF KeptInv

\* A reply without its calls is followed by the harness.
LEMMA NamelessKept == ASSUME TypeInv, ReplyNameless PROVE KeptInv'
<1>1. Recorder(<<Reply(0), Harness>>)
  BY DEF ReplyNameless, Record
<1>2. Reply(0) \in Said /\ Harness \in Said /\ Harness.role = "user" /\ Harness.ask = 0
  BY MessagesAre
<1>3. /\ <<Reply(0), Harness>> \in Seq(Said) /\ Len(<<Reply(0), Harness>>) = 2
      /\ <<Reply(0), Harness>>[2] = Harness
  BY <1>2, FewAre
<1>4. PICK ms : ms = <<Reply(0), Harness>>
  OBVIOUS
<1>5. ms \in Seq(Said) /\ Len(ms) = 2 /\ ms[2] = Harness /\ Recorder(ms) /\ 2 \in 1..Len(ms) /\ Len(ms) > 0
  BY <1>1, <1>3, <1>4
<1>6. turnStart' = Len(log) + 2 /\ log'[Len(log) + 2].message.ask = 0
  <2>1. /\ \A i \in 1..Len(ms) : log'[Len(log) + i].type = "message" /\ log'[Len(log) + i].message.ask = ms[i].ask
        /\ turnStart' = (IF Len(ms) > 0 /\ ms[Len(ms)].role = "user" THEN Len(log) + Len(ms) ELSE turnStart)
    BY <1>5, RecorderIs
  <2>2. QED
    BY <1>2, <1>5, <2>1
<1>7. Nudged'
  BY <1>6 DEF Nudged
<1>8. QED
  BY <1>7 DEF KeptInv

\* What a turn records after its prompt is no request, or the harness's.
LEMMA RecordsKept ==
  ASSUME TypeInv, TurnInv, KeptInv,
         OutOfSteps \/ ReplyCalls \/ ReplyEnds \/ StopHook \/ RequestFailsForGood \/ RecordResult
  PROVE  KeptInv'
<1>1. /\ Harness \in Said /\ Harness.role = "user" /\ Harness.ask = 0
      /\ \A c \in Nat : /\ Reply(c) \in Said /\ Reply(c).role = "assistant"
                        /\ Result(c) \in Said /\ Result(c).role = "tool"
  BY MessagesAre
<1>2. phase \in {"head", "model", "stopping", "results"} /\ answered \in Nat /\ answered + 1 \in Nat
  BY DEF OutOfSteps, ReplyCalls, ReplyEnds, StopHook, RequestFailsForGood, RecordResult, TypeInv
<1>3. phase \notin Before /\ trigger # "manual"
  BY <1>2 DEF Before, TypeInv
<1>4. \/ phase' = "idle"
      \/ \E x \in Said : /\ Record(<<x>>) /\ turns' = turns /\ phase' # "compacting"
                         /\ x.role \notin {"user", "summary"} \/ (x.role = "user" /\ x.ask = 0)
  <2>1. CASE OutOfSteps
    BY <1>1, <2>1 DEF OutOfSteps, Finish, FinishWith, TurnOver, session
  <2>2. CASE ReplyCalls
    <3>1. PICK c \in CallCounts : Record(<<Reply(c)>>)
      BY <2>2 DEF ReplyCalls
    <3>2. c \in Nat
      BY CallCountsAssumption
    <3>3. turns' = turns /\ phase' # "compacting"
      BY <2>2 DEF ReplyCalls, session
    <3>4. QED
      BY <1>1, <3>1, <3>2, <3>3
  <2>3. CASE ReplyEnds
    BY <1>1, <2>3 DEF ReplyEnds, session
  <2>4. CASE StopHook
    BY <1>1, <2>4 DEF StopHook, Finish, FinishWith, TurnOver, session
  <2>5. CASE RequestFailsForGood
    BY <1>1, <2>5 DEF RequestFailsForGood, session
  <2>6. CASE RecordResult
    <3>1. Result(answered + 1) \in Said /\ Result(answered + 1).role = "tool"
      BY <1>1, <1>2
    <3>2. phase' = "idle" \/ (Record(<<Result(answered + 1)>>) /\ turns' = turns /\ phase' # "compacting")
      BY <1>2, <2>6 DEF RecordResult, FinishWith, TurnOver, session
    <3>3. QED
      BY <3>1, <3>2
  <2>7. QED
    BY <2>1, <2>2, <2>3, <2>4, <2>5, <2>6
<1>5. CASE phase' = "idle"
  BY <1>5 DEF KeptInv, Before
<1>6. QED
  BY <1>3, <1>4, <1>5, RecordKept

\* The end of a turn, or of a process, leaves no request.
LEMMA OutsideKept == ASSUME phase' \in Before \/ trigger' = "manual" PROVE KeptInv'
BY DEF KeptInv

\* A step that says nothing.
LEMMA StillKept ==
  ASSUME TypeInv, TurnInv, KeptInv, UNCHANGED <<working, fitted, trigger, turns>>, Grows, turnStart' = turnStart,
         phase' = phase \/ (phase \in Mid /\ phase' \in Mid)
  PROVE  KeptInv'
<1>1. CASE phase \in Before \/ trigger = "manual"
  <2>1. phase' \in Before \/ trigger' = "manual"
    BY <1>1 DEF Before, Mid
  <2>2. QED
    BY <2>1, OutsideKept
<1>2. CASE phase \notin Before /\ trigger # "manual"
  <2>1. /\ Lastly(working) => Lastly(working)'
        /\ Lastly(fitted) => Lastly(fitted)'
    BY DEF Lastly, LastSaid
  <2>2. phase' = "compacting" => phase = "compacting"
    BY DEF Mid
  <2>3. QED
    BY <1>2, <2>1, <2>2, KeepsKept
<1>3. QED
  BY <1>1, <1>2

\* Results shrink ahead of a step.
LEMMA ElideKept == ASSUME TypeInv, TurnInv, KeptInv, ElideAhead PROVE KeptInv'
<1>1. /\ phase = "fitting" /\ phase' = "fitting" /\ UNCHANGED <<fitted, trigger, turns>>
      /\ ElideInto(working', working) \/ UNCHANGED <<working, logVars>>
  BY DEF ElideAhead, turnLocals
<1>2. CASE UNCHANGED <<working, logVars>>
  <2>1. Grows /\ turnStart' = turnStart
    BY <1>2, SameLog DEF logVars
  <2>2. QED
    BY <1>1, <1>2, <2>1, StillKept
<1>3. CASE ElideInto(working', working)
  <2>1. Grows /\ turnStart' = turnStart /\ working' \in Seq(Said) /\ SameBut(working', working) /\ working \in Seq(Said)
    BY <1>3, ElisionIs DEF TypeInv
  <2>2. Lastly(working) => Lastly(working')
    BY <2>1, SameIsLast
  <2>3. Lastly(working') => Lastly(working)'
    BY <1>1 DEF Lastly, LastSaid
  <2>4. phase \notin Before /\ trigger # "manual" /\ phase' # "compacting"
    BY <1>1 DEF Before, TypeInv
  <2>5. QED
    BY <2>1, <2>2, <2>3, <2>4, KeepsKept
<1>4. QED
  BY <1>1, <1>2, <1>3

\* A compaction begins with a copy.
LEMMA CompactKept == ASSUME TypeInv, TurnInv, KeptInv, CompactAhead \/ CompactRefused \/ CompactAsked PROVE KeptInv'
<1>1. CASE CompactAsked
  <2>1. trigger' = "manual"
    BY <1>1 DEF CompactAsked, Compact
  <2>2. QED
    BY <2>1, OutsideKept
<1>2. CASE CompactAhead \/ CompactRefused
  <2>1. /\ phase \in {"fitting", "model"} /\ UNCHANGED <<working, turns>>
        /\ ElideInto(fitted', working) \/ (fitted' = working /\ UNCHANGED logVars)
    BY <1>2 DEF CompactAhead, CompactRefused, Compact
  <2>2. Grows /\ turnStart' = turnStart /\ fitted' \in Seq(Said) /\ SameBut(fitted', working) /\ working \in Seq(Said)
    BY <2>1, CompactIs DEF TypeInv
  <2>3. Lastly(working) => Lastly(fitted')
    BY <2>2, SameIsLast
  <2>4. /\ Lastly(fitted') => Lastly(fitted)'
        /\ Lastly(working) => Lastly(working)'
    BY <2>1 DEF Lastly, LastSaid
  <2>5. phase \notin Before /\ trigger # "manual"
    BY <2>1 DEF Before, TypeInv
  <2>6. QED
    BY <2>2, <2>3, <2>4, <2>5, KeepsKept
<1>3. QED
  BY <1>1, <1>2

\* What was compacted is taken over.
LEMMA TakenKept ==
  ASSUME TypeInv, TurnInv, KeptInv, phase = "compacting", Grows, turnStart' = turnStart, NEW ms, TakeOver(ms),
         trigger # "manual" /\ Lastly(fitted) => Lastly(ms)
  PROVE  KeptInv'
<1>1. CASE trigger = "manual" /\ TurnOver
  <2>1. phase' = "idle"
    BY <1>1 DEF TurnOver
  <2>2. QED
    BY <2>1, OutsideKept DEF Before
<1>2. CASE trigger # "manual" /\ phase' = "model" /\ working' = ms /\ turns' = turns
  <2>1. Lastly(ms) => Lastly(working)'
    BY <1>2 DEF Lastly, LastSaid
  <2>2. phase \notin Before /\ phase' # "compacting"
    BY <1>2 DEF Before
  <2>3. QED
    BY <1>2, <2>1, <2>2, KeepsKept
<1>3. QED
  BY <1>1, <1>2 DEF TakeOver

\* A summary carries the request.
LEMMA SummarizedKept == ASSUME TypeInv, TurnInv, KeptInv, Summarized PROVE KeptInv'
<1>1. phase = "compacting" /\ turnStart' = turnStart
  BY DEF Summarized
<1>2. PICK k \in Boundaries(fitted) \ {0} :
         LET summary == [Summary(Carried(fitted, k)) EXCEPT !.at = Len(log) + 1]
         IN log' = Append(log, CompactionLine(k, summary)) /\ TakeOver(Replaced(fitted, k, summary))
  BY DEF Summarized
<1>3. PICK summary : summary = [Summary(Carried(fitted, k)) EXCEPT !.at = Len(log) + 1]
  OBVIOUS
<1>4. log' = Append(log, CompactionLine(k, summary)) /\ TakeOver(Replaced(fitted, k, summary))
  BY <1>2, <1>3
<1>5. /\ summary \in Said /\ summary.role = "summary" /\ summary.ask = Carried(fitted, k)
      /\ k \in Nat /\ k < Len(fitted)
  BY <1>3, SummaryIs
<1>6. Grows
  <2>1. CompactionLine(k, summary) \in Line
    BY <1>5 DEF CompactionLine, Line
  <2>2. log \in Seq(Line) /\ Len(log) \in Nat
    BY LenProperties DEF TypeInv
  <2>3. log' \in Seq(Line) /\ Len(log') = Len(log) + 1 /\ \A i \in 1..Len(log) : log'[i] = log[i]
    BY <1>4, <2>1, <2>2
  <2>4. QED
    BY <2>2, <2>3 DEF Grows
<1>7. Lastly(fitted) => Lastly(Replaced(fitted, k, summary))
  BY <1>5, CarriedIsLast DEF TypeInv
<1>8. QED
  BY <1>1, <1>4, <1>6, <1>7, TakenKept

\* Nothing to summarize.
LEMMA NothingKept == ASSUME TypeInv, TurnInv, KeptInv, NothingToSummarize PROVE KeptInv'
<1>1. phase = "compacting"
  BY DEF NothingToSummarize
<1>2. CASE TakeOver(fitted) /\ UNCHANGED logVars
  <2>1. Grows /\ turnStart' = turnStart
    BY <1>2, SameLog DEF logVars
  <2>2. QED
    BY <1>1, <1>2, <2>1, TakenKept
<1>3. CASE TurnOver
  <2>1. phase' = "idle"
    BY <1>3 DEF TurnOver
  <2>2. QED
    BY <2>1, OutsideKept DEF Before
<1>4. CASE trigger = "overflow" /\ phase' = "wrapup" /\ Record(<<Harness>>) /\ turns' = turns
  <2>1. Harness \in Said /\ Harness.role = "user" /\ Harness.ask = 0
    BY MessagesAre
  <2>2. phase \notin Before /\ trigger # "manual" /\ phase' # "compacting"
    BY <1>1, <1>4 DEF Before
  <2>3. QED
    BY <1>4, <2>1, <2>2, RecordKept
<1>5. QED
  BY <1>2, <1>3, <1>4 DEF NothingToSummarize

\* Every step there is.
LEMMA KeptStep == ASSUME TypeInv, TurnInv, KeptInv, [Next]_vars PROVE KeptInv'
<1>1. CASE UNCHANGED vars
  <2>1. UNCHANGED <<working, fitted, trigger, turns, turnStart, phase>> /\ log' = log
    BY <1>1 DEF vars, turnVars, logVars
  <2>2. QED
    BY <2>1, SameLog, StillKept
<1>2. CASE Next
  <2>1. CASE StartTurn \/ StartDirect \/ PromptBlocked \/ Cancelled \/ WrapUp \/ RequestFails \/ DirectSettled \/ DirectDone
               \/ SummaryAborted \/ Crash \/ Resume \/ Rewind
    <3>1. phase' \in Before
      BY <2>1 DEF StartTurn, StartDirect, PromptBlocked, Cancelled, WrapUp, RequestFails, DirectSettled, DirectDone,
                  SummaryAborted, Crash, Resume, Rewind, Finish, FinishWith, TurnOver, Before
    <3>2. QED
      BY <3>1, OutsideKept
  <2>2. CASE BeginStep \/ Send \/ Cancel
    <3>1. /\ UNCHANGED <<working, fitted, trigger, turns, turnStart>> /\ log' = log
          /\ phase' = phase \/ (phase \in Mid /\ phase' \in Mid)
      BY <2>2 DEF BeginStep, Send, Cancel, turnLocals, session, logVars, Mid
    <3>2. QED
      BY <3>1, SameLog, StillKept
  <2>3. CASE BatchDone
    <3>1. UNCHANGED <<working, fitted, trigger, turns>> /\ phase \in Mid /\ phase' \in Mid /\ Checkpointed
      BY <2>3 DEF BatchDone, turnLocals, session, Mid
    <3>2. turnStart' = turnStart
      BY <3>1 DEF Checkpointed, logVars
    <3>3. Grows
      <4>1. CASE UNCHANGED logVars
        BY <4>1, SameLog DEF logVars
      <4>2. CASE log' = Append(log, CheckpointLine(turnStart))
        <5>1. CheckpointLine(turnStart) \in Line
          <6>1. turnStart \in Nat
            BY LenProperties DEF TypeInv
          <6>2. QED
            BY <6>1 DEF CheckpointLine, Line, TypeInv
        <5>2. log \in Seq(Line) /\ Len(log) \in Nat
          BY LenProperties DEF TypeInv
        <5>3. log' \in Seq(Line) /\ Len(log') = Len(log) + 1 /\ \A i \in 1..Len(log) : log'[i] = log[i]
          BY <4>2, <5>1, <5>2
        <5>4. QED
          BY <5>2, <5>3 DEF Grows
      <4>3. QED
        BY <3>1, <4>1, <4>2 DEF Checkpointed
    <3>4. QED
      BY <3>1, <3>2, <3>3, StillKept
  <2>4. CASE PromptAccepted
    BY <2>4, PromptKept
  <2>5. CASE ReplyNameless
    BY <2>5, NamelessKept
  <2>6. CASE OutOfSteps \/ ReplyCalls \/ ReplyEnds \/ StopHook \/ RequestFailsForGood \/ RecordResult
    BY <2>6, RecordsKept
  <2>7. CASE ElideAhead
    BY <2>7, ElideKept
  <2>8. CASE CompactAhead \/ CompactRefused \/ CompactAsked
    BY <2>8, CompactKept
  <2>9. CASE Summarized
    BY <2>9, SummarizedKept
  <2>10. CASE NothingToSummarize
    BY <2>10, NothingKept
  <2>11. QED
    BY <1>2, <2>1, <2>2, <2>3, <2>4, <2>5, <2>6, <2>7, <2>8, <2>9, <2>10 DEF Next, Steps, Answers, Summaries
<1>3. QED
  BY <1>1, <1>2

-----------------------------------------------------------------------------
(* What every run of the session keeps.                                    *)

\* A new session.
LEMMA InitInv == Init => Inv
<1> SUFFICES ASSUME Init PROVE Inv
  OBVIOUS
<1>1. /\ phase = "idle" /\ signal = "live" /\ trigger = "none" /\ messages = <<>> /\ working = <<>> /\ fitted = <<>>
      /\ answered = 0 /\ log = <<>> /\ turnStart = 0 /\ turns = 0 /\ apart = "no"
  BY DEF Init
<1>2. <<>> \in Seq(Said) /\ <<>> \in Seq(Line) /\ Len(<<>>) = 0
  OBVIOUS
<1>3. TypeInv
  BY <1>1, <1>2 DEF TypeInv, Phases
<1>4. SameInv
  <2>1. Current = <<>>
    BY <1>1 DEF Current, InTurn
  <2>2. QED
    BY <1>1, <2>1, NoLines DEF SameInv, Agrees
<1>5. LinesInv
  BY <1>1, <1>2 DEF LinesInv
<1>6. TurnInv /\ WholeInv /\ KeptInv
  BY <1>1 DEF TurnInv, WholeInv, KeptInv, Before
<1>7. QED
  BY <1>3, <1>4, <1>5, <1>6 DEF Inv, PastPart

\* Whatever happens, the log tells what the session holds, checkpoints remember what they name, and
\* a turn's request is whole and holds what was asked (core/agent.ts, core/transcript, core/context).
THEOREM Inductive == Spec => []Inv
<1>1. Inv /\ [Next]_vars => Inv'
  <2> SUFFICES ASSUME Inv, [Next]_vars PROVE Inv'
    OBVIOUS
  <2>1. PastPart /\ WholeInv /\ KeptInv /\ TypeInv /\ TurnInv
    BY DEF Inv, PastPart
  <2>2. PastPart'
    BY <2>1, PastStep
  <2>3. WholeInv'
    BY <2>1, WholeStep DEF StaysWhole
  <2>4. KeptInv'
    BY <2>1, KeptStep
  <2>5. QED
    BY <2>2, <2>3, <2>4 DEF Inv
<1>2. QED
  BY <1>1, InitInv, PTL DEF Spec

\* What the log part of the invariant says of resumes and rewinds.
LEMMA KeptMeans == PastPart => ConversationKept
<1> SUFFICES ASSUME TypeInv, SameInv, LinesInv PROVE ConversationKept
  BY DEF PastPart
<1>1. SameConversation
  <2>1. SUFFICES ASSUME phase # "down"
                 PROVE  /\ apart = "no" => Current = Projection(log)
                        /\ apart = "stubs" => Faded(Current) = Faded(Projection(log))
    BY DEF SameConversation
  <2>2. Agrees(Current, Projection(log), apart)
    BY <2>1 DEF SameInv
  <2>3. Current \in Seq(Said) /\ Projection(log) \in Seq(Said)
    BY ProjectionIsSaid DEF TypeInv, Current
  <2>4. apart = "stubs" => Faded(Current) = Faded(Projection(log))
    BY <2>2, <2>3, FadedMeans DEF Agrees
  <2>5. QED
    BY <2>2, <2>4 DEF Agrees
<1>2. RewindReturns
  <2>1. SUFFICES ASSUME NEW c \in Checkpoints, NamesItsTurn(c), log[c].known PROVE Projection(ForkAt(c)) = log[c].before
    BY DEF RewindReturns
  <2>2. c \in 1..Len(log) /\ log[c].type = "checkpoint" /\ log[c].turn # 0
    BY LenProperties DEF Checkpoints, TypeInv
  <2>3. PastInv(c)
    BY <2>2 DEF LinesInv
  <2>4. QED
    BY <2>1, <2>2, <2>3 DEF PastInv, NamesItsTurn, ForkAt
<1>3. QED
  BY <1>1, <1>2 DEF ConversationKept

\* A resume goes on with what the model was sent, and a rewind gives back the conversation from before
\* the turn a checkpoint names, whatever was elided, compacted, cancelled or cut off
\* (core/transcript/read.ts, core/runtime/index.ts).
THEOREM KeptHolds == Spec => []ConversationKept
<1>1. Inv => ConversationKept
  BY KeptMeans DEF Inv
<1>2. QED
  BY <1>1, Inductive, PTL

\* What the others say of a request.
LEMMA RequestsMean == Inv => RequestsHold
<1> SUFFICES ASSUME TypeInv, TurnInv, WholeInv, KeptInv PROVE RequestsHold
  BY DEF Inv, PastPart
<1>1. RequestsAreWhole
  BY DEF RequestsAreWhole, WholeInv
<1>2. RequestIsKept
  <2>1. SUFFICES ASSUME phase = "model", ~Nudged PROVE HasRequest
    BY DEF RequestIsKept
  <2>2. Lastly(working)
    BY <2>1 DEF KeptInv, TypeInv, Before
  <2>3. QED
    BY <2>2 DEF Lastly, LastSaid, HasRequest
<1>3. QED
  BY <1>1, <1>2 DEF RequestsHold

\* No request has a call without its result, or a result without its call, in a session that had none, and
\* each holds what the person asked in its turn, however it was shortened on the way
\* (core/agent.ts, core/context/compact.ts).
THEOREM RequestsAlwaysHold == Spec => []RequestsHold
BY Inductive, RequestsMean, PTL

\* However a turn or a compaction ends, a whole conversation stays whole (core/agent.ts, core/runtime/index.ts).
THEOREM WholeHolds == Spec => WholeStaysWhole
<1>1. Inv /\ [Next]_vars => [phase \notin {"down", "idle"} /\ phase' = "idle" /\ Whole(messages) => Whole(messages')]_vars
  <2> SUFFICES ASSUME Inv, [Next]_vars
               PROVE  phase \notin {"down", "idle"} /\ phase' = "idle" /\ Whole(messages) => Whole(messages')
    OBVIOUS
  <2>1. TypeInv /\ WholeInv
    BY DEF Inv, PastPart
  <2>2. QED
    BY <2>1, WholeStep DEF StaysWhole
<1>2. Spec => [][phase \notin {"down", "idle"} /\ phase' = "idle" /\ Whole(messages) => Whole(messages')]_vars
  BY <1>1, Inductive, PTL DEF Spec
<1>3. QED
  BY <1>2 DEF WholeStaysWhole

-----------------------------------------------------------------------------
(* The cache of pages (Web): for any pages, redirects and lifetime, a fetch   *)
(* is given a page it was let read, no older than its entry may be, and a     *)
(* page is kept once.                                                         *)

CONSTANTS Fetches, Urls, Host, Size, Redirects, Lifetime, MaxBytes, MaxRedirects, MaxTime
VARIABLES stage, asked, at, hops, given, cache, bytes, now

Page == INSTANCE Web

(* What the cache keeps of a URL, and when it was read.                       *)
PageEntries == [url : Urls, bytes : {Size[u] : u \in Urls}, at : Nat]
OnceEach(entries) == \A i, j \in DOMAIN entries : entries[i].url = entries[j].url => i = j
GivenIs(f) ==
  given[f] # Page!Nothing =>
    given[f].told - given[f].time <= Lifetime /\ Host[given[f].url] = Host[asked[f]]
PagesInv ==
  /\ now \in Nat
  /\ cache \in Seq(PageEntries) /\ OnceEach(cache)
  /\ DOMAIN given = Fetches /\ DOMAIN at = Fetches /\ DOMAIN asked = Fetches /\ DOMAIN stage = Fetches
  /\ \A f \in Fetches :
       /\ stage[f] # "none" => at[f] \in Urls /\ Host[at[f]] = Host[asked[f]]
       /\ stage[f] = "none" => given[f] = Page!Nothing
       /\ GivenIs(f)

(* What is before and after an entry of the cache.                            *)
LEMMA Parts ==
  ASSUME NEW s \in Seq(PageEntries), OnceEach(s), NEW m \in 1..Len(s) + 1, NEW n \in 0..Len(s)
  PROVE  SubSeq(s, m, n) \in Seq(PageEntries) /\ OnceEach(SubSeq(s, m, n))
<1> DEFINE part == SubSeq(s, m, n)
<1>1. part \in Seq(PageEntries)
  OBVIOUS
<1>2. ASSUME NEW i \in DOMAIN part, NEW j \in DOMAIN part
      PROVE  /\ m + i - 1 \in DOMAIN s /\ m + j - 1 \in DOMAIN s
             /\ part[i] = s[m + i - 1] /\ part[j] = s[m + j - 1]
             /\ i \in Int /\ j \in Int /\ m \in Int
  OBVIOUS
<1> HIDE DEF part
<1>3. ASSUME NEW i \in DOMAIN part, NEW j \in DOMAIN part, part[i].url = part[j].url PROVE i = j
  <2>1. m + i - 1 = m + j - 1
    BY <1>2, <1>3 DEF OnceEach
  <2> QED
    BY <1>2, <2>1
<1> QED
  BY <1>1, <1>3 DEF OnceEach, part

(* The cache without an entry.                                                *)
LEMMA Removed == ASSUME NEW s \in Seq(PageEntries), OnceEach(s), NEW i \in 1..Len(s)
  PROVE  /\ Page!RemoveAt(s, i) \in Seq(PageEntries) /\ OnceEach(Page!RemoveAt(s, i))
         /\ \A j \in DOMAIN Page!RemoveAt(s, i) : Page!RemoveAt(s, i)[j].url # s[i].url
<1> DEFINE a == SubSeq(s, 1, i - 1)
           b == SubSeq(s, i + 1, Len(s))
           r == Page!RemoveAt(s, i)
<1>1. r = a \o b
  BY DEF Page!RemoveAt
<1>2. /\ a \in Seq(PageEntries) /\ Len(a) = i - 1 /\ \A j \in 1..i - 1 : a[j] = s[j]
      /\ b \in Seq(PageEntries) /\ Len(b) = Len(s) - i /\ \A j \in 1..Len(s) - i : b[j] = s[i + j]
  OBVIOUS
<1> HIDE DEF a, b
<1>0. Len(s) \in Nat /\ i \in Int
  OBVIOUS
<1>3. r \in Seq(PageEntries) /\ Len(r) = Len(s) - 1
  <2>1. r \in Seq(PageEntries) /\ Len(r) = Len(a) + Len(b)
    <3>1. ASSUME NEW x \in Seq(PageEntries), NEW y \in Seq(PageEntries)
          PROVE  x \o y \in Seq(PageEntries) /\ Len(x \o y) = Len(x) + Len(y)
      OBVIOUS
    <3> QED BY <1>1, <1>2, <3>1
  <2> QED BY <1>0, <1>2, <2>1
<1>4. \A j \in 1..Len(s) - 1 : r[j] = IF j < i THEN s[j] ELSE s[j + 1]
  <2> SUFFICES ASSUME NEW j \in 1..Len(s) - 1 PROVE r[j] = IF j < i THEN s[j] ELSE s[j + 1]
    OBVIOUS
  <2>1. CASE j < i
    BY <1>0, <1>1, <1>2, <2>1
  <2>2. CASE ~(j < i)
    <3>1. j - (i - 1) \in 1..Len(s) - i /\ r[j] = b[j - (i - 1)]
      BY <1>0, <1>1, <1>2, <2>2
    <3> QED BY <1>0, <1>2, <2>2, <3>1
  <2> QED BY <2>1, <2>2
<1> HIDE DEF r
<1> DEFINE q(j) == IF j < i THEN j ELSE j + 1
<1>7. DOMAIN r = 1..Len(s) - 1 /\ DOMAIN s = 1..Len(s)
  BY <1>3
<1>8. \A j \in 1..Len(s) - 1 : q(j) \in 1..Len(s) /\ q(j) # i /\ r[j] = s[q(j)]
  BY <1>0, <1>4
<1>9. \A j, k \in 1..Len(s) - 1 : q(j) = q(k) => j = k
  BY <1>0
<1> HIDE DEF q
<1>5. OnceEach(r)
  BY <1>7, <1>8, <1>9 DEF OnceEach
<1>6. \A j \in DOMAIN r : r[j].url # s[i].url
  BY <1>7, <1>8 DEF OnceEach
<1> QED BY <1>3, <1>5, <1>6 DEF r

(* The cache with an entry more.                                              *)
LEMMA Added ==
  ASSUME NEW s \in Seq(PageEntries), OnceEach(s), NEW e \in PageEntries,
         \A j \in DOMAIN s : s[j].url # e.url
  PROVE  /\ Append(s, e) \in Seq(PageEntries) /\ OnceEach(Append(s, e)) /\ Page!Last(Append(s, e)) = e
         /\ \E j \in DOMAIN Append(s, e) : Append(s, e)[j].url = e.url
<1> DEFINE r == Append(s, e)
<1>1. r \in Seq(PageEntries) /\ Len(r) = Len(s) + 1 /\ r[Len(s) + 1] = e
           /\ \A j \in 1..Len(s) : r[j] = s[j]
  OBVIOUS
<1> HIDE DEF r
<1>2. OnceEach(r)
  BY <1>1 DEF OnceEach
<1>3. Page!Last(r) = e /\ \E j \in DOMAIN r : r[j].url = e.url
  BY <1>1 DEF Page!Last
<1> QED BY <1>1, <1>2, <1>3 DEF r

(* Nothing is fetched, and nothing is kept.                                   *)
LEMMA NoPageInv == Page!Init => PagesInv
BY DEF Page!Init, PagesInv, OnceEach, GivenIs

(* set: the page takes the place of an earlier one, and the oldest go for it. *)
LEMMA SetInv ==
  ASSUME PagesInv, NEW e \in PageEntries, Page!Set(e)
  PROVE  cache' \in Seq(PageEntries) /\ OnceEach(cache')
<1>1. CASE UNCHANGED Page!kept
  BY <1>1 DEF Page!kept, PagesInv, OnceEach
<1>2. CASE ~ UNCHANGED Page!kept
  <2> DEFINE all == Page!Put(e)
             count == bytes + e.bytes
             fits == {n \in 0..Len(all) : n = Len(all) \/ count - Page!Counted(SubSeq(all, 1, n)) <= MaxBytes}
             gone == CHOOSE n \in fits : \A m \in fits : n <= m
  <2>1. cache' = SubSeq(all, gone + 1, Len(all))
    BY <1>2 DEF Page!Set
  <2>2. all \in Seq(PageEntries) /\ OnceEach(all)
    <3>1. CASE Page!Places(e.url) = {}
      <4>1. \A j \in DOMAIN cache : cache[j].url # e.url
        BY <3>1 DEF Page!Places
      <4>2. all = Append(cache, e)
        BY <3>1 DEF Page!Put
      <4> QED BY <4>1, <4>2, Added DEF PagesInv
    <3>2. CASE Page!Places(e.url) # {}
      <4>1. Page!Place(e.url) \in DOMAIN cache /\ cache[Page!Place(e.url)].url = e.url
        BY <3>2 DEF Page!Places, Page!Place
      <4>2. all = [cache EXCEPT ![Page!Place(e.url)] = e]
        BY <3>2 DEF Page!Put
      <4> QED BY <4>1, <4>2 DEF PagesInv, OnceEach
    <3> QED BY <3>1, <3>2
  <2> HIDE DEF all
  <2>3. gone \in 0..Len(all)
    <3>1. Len(all) \in fits /\ fits \subseteq 0..Len(all)
      BY <2>2
    <3>2. \E n \in fits : \A m \in fits : n <= m
      <4> HIDE DEF fits
      <4>1. fits \subseteq Nat /\ fits # {}
        BY <2>2, <3>1
      <4> QED BY <4>1, LeastNat
    <3> QED BY <3>1, <3>2
  <2> HIDE DEF gone
  <2>4. gone + 1 \in 1..Len(all) + 1 /\ Len(all) \in 0..Len(all)
    BY <2>2, <2>3
  <2> QED BY <2>1, <2>2, <2>4, Parts
<1> QED BY <1>1, <1>2

(* A fetch is given a page.                                                   *)
LEMMA GivenInv ==
  ASSUME PagesInv, NEW f \in Fetches, NEW to, GivenIs(f)',
         given' = [given EXCEPT ![f] = to] \/ UNCHANGED given,
                         UNCHANGED asked
                  PROVE  DOMAIN given' = Fetches /\ \A g \in Fetches : GivenIs(g)'
BY DEF PagesInv, GivenIs

(* Whatever a fetch, another one or the clock does next.                      *)
LEMMA PagesNextInv == ASSUME Lifetime \in Nat PROVE PagesInv /\ [Page!Next]_(Page!weVars) => PagesInv'
<1> SUFFICES ASSUME PagesInv, [Page!Next]_(Page!weVars) PROVE PagesInv'
  OBVIOUS
<1>1. CASE Page!Tick
  BY <1>1 DEF Page!Tick, PagesInv, Page!kept, OnceEach, GivenIs
<1>2. ASSUME NEW f \in Fetches, NEW url \in Urls, Page!Begins(f, url) PROVE PagesInv'
  BY <1>2 DEF Page!Begins, PagesInv, Page!kept, OnceEach, GivenIs
<1>3. ASSUME NEW f \in Fetches, NEW url \in Urls, Page!Redirected(f, url) PROVE PagesInv'
  BY <1>3 DEF Page!Redirected, PagesInv, Page!kept, OnceEach, GivenIs, Page!Ends, Page!Leaves
<1>4. ASSUME NEW f \in Fetches, Page!Answers(f) \/ Page!Fails(f) PROVE PagesInv'
  BY <1>4 DEF Page!Answers, Page!Fails, PagesInv, Page!kept, OnceEach, GivenIs, Page!Ends
<1>5. ASSUME NEW f \in Fetches, Page!Reads(f) PROVE PagesInv'
  <2> DEFINE e == [url |-> at[f], bytes |-> Size[at[f]], at |-> now]
             to == Page!Text(at[f], now)
  <2>1. e \in PageEntries /\ Page!Set(e)
    BY <1>5 DEF Page!Reads, PagesInv, PageEntries
  <2>2. cache' \in Seq(PageEntries) /\ OnceEach(cache')
    <3> HIDE DEF e
    <3> QED BY <2>1, SetInv
  <2>3. to.url = at[f] /\ to.time = now /\ to.told = now
    BY DEF Page!Text
  <2>4. given' = [given EXCEPT ![f] = to] /\ UNCHANGED <<asked, at, hops, now>> /\ stage[f] = "reading"
        /\ stage' = [stage EXCEPT ![f] = "done"]
    BY <1>5 DEF Page!Reads
  <2> HIDE DEF to
  <2>5. now - now <= Lifetime
    BY DEF PagesInv
  <2>6. given'[f] = to
    BY <2>4 DEF PagesInv
  <2>7. GivenIs(f)'
    BY <2>3, <2>4, <2>5, <2>6 DEF PagesInv, GivenIs
  <2>8. DOMAIN given' = Fetches /\ \A g \in Fetches : GivenIs(g)'
    BY <2>4, <2>7, GivenInv
  <2> QED BY <2>2, <2>4, <2>8 DEF PagesInv
<1>6. ASSUME NEW f \in Fetches, Page!Looks(f) PROVE PagesInv'
  <2> DEFINE hit == \E i \in DOMAIN cache' : cache'[i].url = at[f]
             to == Page!Text(at[f], Page!Last(cache').at)
  <2>1. /\ IF Page!Places(at[f]) = {} THEN UNCHANGED Page!kept ELSE Page!Get(at[f])
        /\ stage' = [stage EXCEPT ![f] = IF hit THEN "done" ELSE "asking"]
        /\ given' = IF hit THEN [given EXCEPT ![f] = to] ELSE given
        /\ UNCHANGED <<asked, at, hops, now>> /\ stage[f] = "looking"
    BY <1>6 DEF Page!Looks
  <2>2. to.url = at[f] /\ to.time = Page!Last(cache').at /\ to.told = now
    BY DEF Page!Text
  <2>3. cache' \in Seq(PageEntries) /\ OnceEach(cache')
             /\ (hit => now - Page!Last(cache').at <= Lifetime)
    <3>1. CASE Page!Places(at[f]) = {}
      BY <2>1, <3>1 DEF Page!kept, Page!Places, PagesInv, OnceEach
    <3>2. CASE Page!Places(at[f]) # {}
      <4> DEFINE i == Page!Place(at[f])
      <4>1. i \in 1..Len(cache) /\ cache[i].url = at[f] /\ cache[i] \in PageEntries
        BY <3>2 DEF Page!Place, Page!Places, PagesInv
      <4> DEFINE rest == Page!RemoveAt(cache, i)
      <4>2. rest \in Seq(PageEntries) /\ OnceEach(rest) /\ \A j \in DOMAIN rest : rest[j].url # at[f]
        BY <4>1, Removed DEF PagesInv
      <4>3. Page!Get(at[f])
        BY <2>1, <3>2
      <4>4. CASE Page!Fresh(cache[i])
        <5>1. cache' = Append(rest, cache[i])
          BY <4>3, <4>4 DEF Page!Get
        <5> HIDE DEF rest, i
        <5>2. cache' \in Seq(PageEntries) /\ OnceEach(cache') /\ Page!Last(cache') = cache[i]
          BY <4>1, <4>2, <5>1, Added
        <5> QED BY <4>4, <5>2 DEF Page!Fresh
      <4>5. CASE ~ Page!Fresh(cache[i])
        <5>1. cache' = rest
          BY <4>3, <4>5 DEF Page!Get
        <5> HIDE DEF rest, i
        <5> QED BY <4>2, <5>1
      <4> QED BY <4>4, <4>5
    <3> QED BY <3>1, <3>2
  <2> HIDE DEF to, hit
  <2>4. CASE hit
    <3>1. given' = [given EXCEPT ![f] = to] /\ given'[f] = to
      BY <2>1, <2>4 DEF PagesInv
    <3>2. GivenIs(f)'
      BY <2>1, <2>2, <2>3, <2>4, <3>1 DEF PagesInv, GivenIs
    <3>3. DOMAIN given' = Fetches /\ \A g \in Fetches : GivenIs(g)'
      BY <2>1, <3>1, <3>2, GivenInv
    <3> QED BY <2>1, <2>3, <2>4, <3>3 DEF PagesInv
  <2>5. CASE ~ hit
    BY <2>1, <2>3, <2>5 DEF PagesInv, GivenIs
  <2> QED BY <2>4, <2>5
<1>7. CASE UNCHANGED Page!weVars
  BY <1>7 DEF Page!weVars, PagesInv, OnceEach, GivenIs
<1> QED BY <1>1, <1>2, <1>3, <1>4, <1>5, <1>6, <1>7 DEF Page!Next

(* What a call gives is a page of the host it was given, read no longer ago   *)
(* than a cached text may live, and the cache holds no URL twice, however the *)
(* calls that fill it overlap (tools/web/index.ts).                           *)
THEOREM PagesHold == ASSUME Lifetime \in Nat PROVE Page!Spec => [](Page!GivenInTime /\ Page!KeptOnce)
<1>1. PagesInv => Page!GivenInTime /\ Page!KeptOnce
  BY DEF PagesInv, GivenIs, OnceEach, Page!GivenInTime, Page!KeptOnce
<1> QED BY <1>1, NoPageInv, PagesNextInv, PTL DEF Page!Spec

-----------------------------------------------------------------------------
(* The stamps that the gates' passing earns the items of a list (Todos): for *)
(* any items and agents that write the list and stamp it side by side, an    *)
(* item is stamped only as completed on a tree that the gates passed on.     *)

CONSTANTS Agents, Items, MaxTree
VARIABLES file, lastRead, version, passed, stamped, wasDone

Todo == INSTANCE Todos WITH tree <- version, held <- lastRead

Stamped == [status : Todo!Statuses, tree : Nat]

(* A stamp is one the harness set, on a tree the gates passed on and no       *)
(* earlier than a tree the item was completed at.                             *)
Earned(i, e) ==
  e.tree # 0 => /\ e.status = "completed" /\ <<i, e.tree>> \in stamped /\ e.tree \in passed
                /\ \E t \in 1..e.tree : <<i, t>> \in wasDone
(* What is completed was completed by then.                                   *)
DoneBy(i, e, then) == e.status = "completed" => \E t \in 1..then : <<i, t>> \in wasDone

(* What an agent read before its wait is as good as what the file holds.      *)
HeldEarned(h) ==
  /\ h.stage \in {"write", "stamp"} => h.seen \in [Items -> Stamped] /\ \A i \in Items : Earned(i, h.seen[i])
  /\ h.stage = "write" => h.list \in Todo!Lists
  /\ h.stage = "stamp" => /\ h.tree \in Nat \ {0} /\ h.tree <= version /\ h.tree \in passed
                          /\ \A i \in Items : DoneBy(i, h.seen[i], h.tree)

StampInv ==
  /\ file \in [Items -> Stamped] /\ version \in Nat \ {0} /\ DOMAIN lastRead = Agents
  /\ lastRead = [a \in Agents |-> lastRead[a]]
  /\ \A i \in Items : Earned(i, file[i]) /\ DoneBy(i, file[i], version)
  /\ \A a \in Agents : HeldEarned(lastRead[a])

(* A list with no items.                                                      *)
LEMMA StampInitInv == Todo!Init => StampInv
BY DEF Todo!Init, StampInv, Todo!Absent, Stamped, Todo!Statuses, Earned, DoneBy, HeldEarned, Todo!NotHeld

(* What was vouched for, and was done, stays so.                              *)
LEMMA Stays == ASSUME stamped \subseteq stamped', passed \subseteq passed', wasDone \subseteq wasDone',
                      version \in Nat, version' \in Nat, version <= version'
               PROVE  /\ \A i, e : Earned(i, e) => Earned(i, e)'
                      /\ \A i, e, t : DoneBy(i, e, t) => DoneBy(i, e, t)'
                      /\ \A h : HeldEarned(h) => HeldEarned(h)'
<1>1. \A i, e : Earned(i, e) => Earned(i, e)'
  BY DEF Earned
<1>2. \A i, e, t : DoneBy(i, e, t) => DoneBy(i, e, t)'
  BY DEF DoneBy
<1>3. \A h : HeldEarned(h) => HeldEarned(h)'
  BY <1>1, <1>2 DEF HeldEarned
<1>4. QED
  BY <1>1, <1>2, <1>3

(* A step of one agent's, that leaves the file alone or writes it.            *)
LEMMA OneInv == ASSUME StampInv, NEW a \in Agents, NEW h, lastRead' = [lastRead EXCEPT ![a] = h], HeldEarned(h)',
                       stamped \subseteq stamped', passed \subseteq passed', wasDone \subseteq wasDone', version' = version,
                       \/ UNCHANGED file
                       \/ /\ file' \in [Items -> Stamped]
                          /\ \A i \in Items : (Earned(i, file[i]) /\ DoneBy(i, file[i], version))'
                PROVE  StampInv'
<1>1. /\ DOMAIN lastRead' = Agents /\ lastRead' = [b \in Agents |-> lastRead'[b]]
      /\ lastRead'[a] = h /\ \A b \in Agents : b # a => lastRead'[b] = lastRead[b]
  BY DEF StampInv
<1>2. (\A b \in Agents : HeldEarned(lastRead[b]))'
  BY <1>1, Stays DEF StampInv
<1>3. (\A i \in Items : Earned(i, file[i]) /\ DoneBy(i, file[i], version))'
  BY Stays DEF StampInv
<1>4. QED
  BY <1>1, <1>2, <1>3 DEF StampInv

(* An agent writes the list it made of what it read.                          *)
LEMMA WriteListInv == ASSUME StampInv, NEW a \in Agents, Todo!TodoWrite(a) PROVE StampInv'
<1> DEFINE list == lastRead[a].list
           seen == lastRead[a].seen
<1>1. /\ list \in [Items -> [status : Todo!Statuses, tree : {0, MaxTree}]] /\ seen \in [Items -> Stamped]
      /\ \A i \in Items : Earned(i, seen[i])
  BY DEF Todo!TodoWrite, StampInv, HeldEarned, Todo!Lists
<1>2. /\ file' = [i \in Items |-> Todo!Kept(list[i], seen[i])] /\ lastRead' = [lastRead EXCEPT ![a] = Todo!NotHeld]
      /\ wasDone' = wasDone \cup {<<i, version>> : i \in {j \in Items : list[j].status = "completed"}}
      /\ UNCHANGED <<version, passed, stamped>>
  BY DEF Todo!TodoWrite
<1> HIDE DEF list, seen
<1>3. \A i \in Items : /\ file'[i] \in Stamped /\ file'[i].status = list[i].status
                       /\ file'[i].tree = (IF list[i].status = "completed" THEN seen[i].tree ELSE 0)
  BY <1>1, <1>2 DEF Todo!Kept, Stamped
<1>4. \A i \in Items : list[i].status = "completed" => <<i, version>> \in wasDone'
  BY <1>2
<1>5. \A i \in Items : (Earned(i, file[i]) /\ DoneBy(i, file[i], version))'
  <2>1. ASSUME NEW i \in Items PROVE Earned(i, file[i])'
    <3>1. file'[i].tree # 0 => seen[i].tree # 0 /\ file'[i].tree = seen[i].tree
      BY <1>3
    <3>2. QED
      BY <1>1, <1>2, <1>3, <3>1 DEF Earned
  <2>2. ASSUME NEW i \in Items PROVE DoneBy(i, file[i], version)'
    <3>1. version' = version /\ version \in 1..version
      BY <1>2 DEF StampInv
    <3>2. QED
      BY <1>3, <1>4, <3>1 DEF DoneBy
  <2>3. QED
    BY <2>1, <2>2
<1>6. file' \in [Items -> Stamped]
  BY <1>2, <1>3
<1>7. HeldEarned(Todo!NotHeld)'
  BY DEF HeldEarned, Todo!NotHeld
<1>8. QED
  BY <1>2, <1>5, <1>6, <1>7, OneInv

(* The harness stamps what it read as completed.                              *)
LEMMA StampsInv == ASSUME StampInv, NEW a \in Agents, Todo!StampTodos(a) PROVE StampInv'
<1> DEFINE h == lastRead[a]
           due == Todo!Due(h)
<1>1. /\ h.seen \in [Items -> Stamped] /\ h.tree \in Nat \ {0} /\ h.tree <= version /\ h.tree \in passed
      /\ \A i \in Items : Earned(i, h.seen[i]) /\ DoneBy(i, h.seen[i], h.tree)
  BY DEF Todo!StampTodos, StampInv, HeldEarned
<1>2. /\ file' = IF due = {} THEN file
                 ELSE [i \in Items |-> IF i \in due THEN [h.seen[i] EXCEPT !.tree = h.tree] ELSE h.seen[i]]
      /\ stamped' = stamped \cup (due \X {h.tree})
      /\ lastRead' = [lastRead EXCEPT ![a] = Todo!NotHeld] /\ UNCHANGED <<version, passed, wasDone>>
  BY DEF Todo!StampTodos
<1>3. HeldEarned(Todo!NotHeld)'
  BY DEF HeldEarned, Todo!NotHeld
<1>4. CASE due = {}
  BY <1>2, <1>3, <1>4, OneInv
<1>5. CASE due # {}
  <2>1. \A i \in due : i \in Items /\ h.seen[i].status = "completed"
    BY DEF Todo!Due
  <2>2. \A i \in due : <<i, h.tree>> \in stamped'
    BY <1>2
  <2> HIDE DEF due
  <2>3. \A i \in Items : /\ file'[i] \in Stamped /\ file'[i].status = h.seen[i].status
                         /\ file'[i].tree = (IF i \in due THEN h.tree ELSE h.seen[i].tree)
    BY <1>1, <1>2, <1>5 DEF Stamped
  <2> HIDE DEF h
  <2>4. \A i \in Items : Earned(i, file[i])'
    <3> SUFFICES ASSUME NEW i \in Items PROVE Earned(i, file[i])'
      OBVIOUS
    <3>1. CASE i \in due
      <4>1. file'[i].tree = h.tree /\ file'[i].status = "completed"
        BY <2>1, <2>3, <3>1
      <4>2. \E t \in 1..h.tree : <<i, t>> \in wasDone
        BY <1>1, <2>1, <3>1 DEF DoneBy
      <4>3. QED
        BY <1>1, <1>2, <2>2, <3>1, <4>1, <4>2 DEF Earned
    <3>2. CASE i \notin due
      BY <1>1, <1>2, <2>3, <3>2 DEF Earned
    <3>3. QED
      BY <3>1, <3>2
  <2>5. \A i \in Items : DoneBy(i, file[i], version)'
    <3>1. version' = version /\ \A t \in 1..h.tree : t \in 1..version
      BY <1>1, <1>2 DEF StampInv
    <3>2. QED
      BY <1>1, <1>2, <2>3, <3>1 DEF DoneBy
  <2>6. file' \in [Items -> Stamped]
    BY <1>2, <1>5, <2>3
  <2>7. QED
    BY <1>2, <1>3, <2>4, <2>5, <2>6, OneInv
<1>6. QED
  BY <1>4, <1>5

(* Whatever an agent, the gates or the tree does next.                        *)
LEMMA StampNextInv == StampInv /\ [Todo!Next]_(Todo!toVars) => StampInv'
<1> SUFFICES ASSUME StampInv, [Todo!Next]_(Todo!toVars) PROVE StampInv'
  OBVIOUS
<1>1. HeldEarned(Todo!NotHeld)'
  BY DEF HeldEarned, Todo!NotHeld
<1>2. CASE Todo!Changes \/ Todo!GatesPass \/ UNCHANGED Todo!toVars
  <2>1. /\ version \in Nat /\ version' \in Nat \ {0} /\ version <= version' /\ UNCHANGED <<file, lastRead, stamped, wasDone>>
        /\ passed \subseteq passed'
    BY <1>2 DEF Todo!Changes, Todo!GatesPass, Todo!toVars, StampInv
  <2>2. (\A i \in Items : Earned(i, file[i]))' /\ (\A a \in Agents : HeldEarned(lastRead[a]))'
    BY <2>1, Stays DEF StampInv
  <2>3. (\A i \in Items : DoneBy(i, file[i], version))'
    <3>1. \A t \in 1..version : t \in 1..version'
      BY <2>1
    <3>2. QED
      BY <2>1, <3>1 DEF StampInv, DoneBy
  <2>4. QED
    BY <2>1, <2>2, <2>3 DEF StampInv
<1>3. ASSUME NEW a \in Agents, NEW list \in Todo!Lists, Todo!ReadForWrite(a, list) PROVE StampInv'
  <2> DEFINE h == [stage |-> "write", list |-> list, seen |-> file]
  <2>1. lastRead' = [lastRead EXCEPT ![a] = h] /\ UNCHANGED <<file, version, passed, stamped, wasDone>>
    BY <1>3 DEF Todo!ReadForWrite
  <2>2. h.stage = "write" /\ h.list = list /\ h.seen = file
    OBVIOUS
  <2> HIDE DEF h
  <2>3. HeldEarned(h)
    BY <2>2 DEF HeldEarned, StampInv
  <2>4. \A g : HeldEarned(g) /\ lastRead' = [lastRead EXCEPT ![a] = g] => StampInv'
    BY <2>1, Stays, OneInv DEF StampInv
  <2>5. QED
    BY <2>1, <2>3, <2>4
<1>4. ASSUME NEW a \in Agents, Todo!ReadForStamp(a) PROVE StampInv'
  <2> DEFINE h == [stage |-> "stamp", seen |-> file, tree |-> version]
  <2>1. lastRead' = [lastRead EXCEPT ![a] = h] /\ UNCHANGED <<file, version, passed, stamped, wasDone>> /\ version \in passed
    BY <1>4 DEF Todo!ReadForStamp
  <2>2. h.stage = "stamp" /\ h.seen = file /\ h.tree = version
    OBVIOUS
  <2> HIDE DEF h
  <2>3. HeldEarned(h)
    BY <2>1, <2>2 DEF HeldEarned, StampInv
  <2>4. \A g : HeldEarned(g) /\ lastRead' = [lastRead EXCEPT ![a] = g] => StampInv'
    BY <2>1, Stays, OneInv DEF StampInv
  <2>5. QED
    BY <2>1, <2>3, <2>4
<1>5. ASSUME NEW a \in Agents, Todo!Fails(a) PROVE StampInv'
  BY <1>1, <1>5, OneInv DEF Todo!Fails
<1>6. QED
  BY <1>2, <1>3, <1>4, <1>5, WriteListInv, StampsInv DEF Todo!Next

(* The invariant of the list and of what each agent read of it, in every      *)
(* state.                                                                     *)
THEOREM StampInvariant == Todo!Spec => []StampInv
<1>1. QED
  BY StampInitInv, StampNextInv, PTL DEF Todo!Spec

(* Whatever agents write and stamp between another's read and its write, an   *)
(* item's stamp is one the harness set, for a tree that the gates passed on   *)
(* and by which the item was completed (stampTodos, todo_write).              *)
THEOREM StampsHold == Todo!Spec => []Todo!StampsAreEarned
<1>1. StampInv => Todo!StampsAreEarned
  BY DEF StampInv, Earned, Todo!StampsAreEarned
<1>2. QED
  BY <1>1, StampInvariant, PTL
=============================================================================
