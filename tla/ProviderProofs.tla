---------------------------- MODULE ProviderProofs ----------------------------
(***************************************************************************)
(* Proofs about Provider, for any number of requests, attempts, calls and  *)
(* events, and for every dialect.  The invariant relates what the client   *)
(* has put together of a reply to the whole of its stream so far: each     *)
(* place holds the events that said it (PiecesInv), or each call the one   *)
(* event it came with (WholeInv).  That the form a reply is read in is the *)
(* one it was asked for in rests on what was learned (FormInv).            *)
(***************************************************************************)
EXTENDS Provider, FiniteSetTheorems, SequenceTheorems, TLAPS

Before == {"idle", "sent", "refused", "sleeping"}

\* The events that say something of a call, and those that say a place.
Says(s)  == {k \in 1..Len(s) : s[k].type \in {"start", "piece"}}
At(s, p) == {k \in Says(s) : Place(s[k]) = p}

Over(s) == \E k \in 1..Len(s) : s[k].type \in {"end", "error"}

\* Chat Completions and Messages: a place holds the events that said it.
PiecesInv(s, held) ==
  /\ \A p : p \in DOMAIN held <=> \E k \in Says(s) : Place(s[k]) = p
  /\ \A p \in DOMAIN held : held[p] = At(s, p)

\* The others: each call is held alone, and came once.
WholeInv(s, held) ==
  /\ DOMAIN held = Says(s)
  /\ \A k \in Says(s) : held[k] = {k}
  /\ \A k, l \in Says(s) : s[k].of = s[l].of => k = l

InPieces(f) == f \in {"chat", "messages"}

\* What is held of a stream in a form f.
HeldInv(f, s, held) ==
  /\ InPieces(f) /\ ToldApart(s) => PiecesInv(s, held)
  /\ ~InPieces(f) => WholeInv(s, held)

\* What is given of it.
GivenInv(f, s, given) ==
  (InPieces(f) => ToldApart(s)) => given = CallsOf(s) \/ (f = "responses" /\ given = {})

DataInv(r) ==
  /\ HeldInv(reads[r], events[r], blocks[r])
  /\ ends[r] \in {0, 1}
  /\ ends[r] = 1 => GivenInv(reads[r], events[r], calls[r])

\* Nothing came before the response did; only a stream is given, and once.
PlaceInv(r) ==
  /\ at[r] \in Before => events[r] = <<>> /\ blocks[r] = <<>> /\ ends[r] = 0
  /\ ends[r] = 1 /\ at[r] = "reading" => Over(events[r])
  /\ r \in Streaming /\ at[r] = "done" => ends[r] = 1

\* Attempts are counted, and a delay comes before one that is left.
CountInv(r) ==
  /\ attempt[r] \in 0..MaxAttempts
  /\ at[r] \in {"sent", "refused", "sleeping"} => attempt[r] >= 1
  /\ at[r] = "sleeping" => attempt[r] < MaxAttempts

\* A request that left the protocol out was made by what was learned.
FormInv(r) ==
  /\ answer[r] \in Features => answer[r] \in refuses
  /\ at[r] # "idle" /\ dialect = "chat" /\ "protocol" \in Features \ body[r] => "protocol" \in dropped
  /\ at[r] = "reading" => reads[r] = SentAs(r)

RangeInv ==
  /\ dialect \in Dialects /\ aborted \subseteq Requests
  /\ dropped \subseteq Features /\ dropped \subseteq refuses
  /\ at \in [Requests -> Before \cup {"reading"} \cup Ended]
  /\ attempt \in [Requests -> Nat]
  /\ events \in [Requests -> Seq(Event)]
  /\ DOMAIN blocks = Requests /\ DOMAIN calls = Requests /\ DOMAIN ends = Requests
  /\ reads \in [Requests -> Forms] /\ body \in [Requests -> SUBSET Features] /\ answer \in [Requests -> Answers]

Inv == RangeInv /\ \A r \in Requests : DataInv(r) /\ PlaceInv(r) /\ CountInv(r) /\ FormInv(r)

-----------------------------------------------------------------------------
(* A stream that grows.                                                    *)

LEMMA EventShape ==
  ASSUME NEW e \in Event
  PROVE  /\ e.type \in {"end", "error", "start", "piece"}
         /\ e.type \in {"start", "piece"} => e.of \in Index /\ e.placed \in BOOLEAN /\ e.named \in BOOLEAN
BY DEF Event

\* An event adds its number to those that say something, or not.
Grows(s, e, t, n) ==
  /\ t \in Seq(Event)
  /\ n \in 1..Len(t) /\ n \notin Says(s) /\ t[n] = e
  /\ \A k \in Says(s) : t[k] = s[k]
  /\ e.type \in {"start", "piece"} => Says(t) = Says(s) \cup {n}
  /\ e.type \notin {"start", "piece"} => Says(t) = Says(s)

LEMMA OneEventMore ==
  ASSUME NEW s \in Seq(Event), NEW e \in Event
  PROVE  Grows(s, e, Append(s, e), Len(s) + 1)
<1> DEFINE t == Append(s, e)  n == Len(s) + 1
<1>1. /\ t = Append(s, e) /\ n = Len(s) + 1 /\ n \in Nat /\ t \in Seq(Event) /\ Len(s) \in Nat /\ Len(t) = n /\ t[n] = e
      /\ \A k \in 1..Len(s) : t[k] = s[k]
  OBVIOUS
<1>2. 1..Len(t) = 1..Len(s) \cup {n} /\ n \notin 1..Len(s) /\ n \in 1..Len(t)
  BY <1>1
<1> HIDE DEF t, n
<1>3. Says(t) = {k \in 1..Len(s) : t[k].type \in {"start", "piece"}}
                  \cup {k \in {n} : t[k].type \in {"start", "piece"}}
  BY <1>2 DEF Says
<1>4. {k \in 1..Len(s) : t[k].type \in {"start", "piece"}} = Says(s)
  BY <1>1 DEF Says
<1>5. {k \in {n} : t[k].type \in {"start", "piece"}} = IF e.type \in {"start", "piece"} THEN {n} ELSE {}
  BY <1>1
<1>6. n \notin Says(s) /\ \A k \in Says(s) : t[k] = s[k]
  BY <1>1, <1>2 DEF Says
<1> QED
  BY <1>1, <1>2, <1>3, <1>4, <1>5, <1>6 DEF Grows, t, n

\* What is said of a call, and which calls are told apart, by the events that say something.
LEMMA SaysIs ==
  ASSUME NEW s, NEW i
  PROVE  \A k : k \in SaysOfCall(s, i) <=> k \in Says(s) /\ s[k].of = i
BY DEF SaysOfCall, Says

LEMMA ToldIs ==
  ASSUME NEW s, ToldApart(s), NEW k \in Says(s), NEW l \in Says(s)
  PROVE  Place(s[k]) = Place(s[l]) <=> s[k].of = s[l].of
BY DEF Says, ToldApart

\* The calls: what is said of each that has a name, from any one event that says something of it.
LEMMA CallsAre ==
  ASSUME NEW s \in Seq(Event)
  PROVE  CallsOf(s) = {from \in {SaysOfCall(s, s[k].of) : k \in Says(s)} : HasName(s, from)}
<1>1. \A k \in Says(s) : s[k].of \in Index
  BY EventShape DEF Says
<1>2. ASSUME NEW i \in Index, HasName(s, SaysOfCall(s, i))
      PROVE  \E k \in Says(s) : SaysOfCall(s, i) = SaysOfCall(s, s[k].of)
  <2>1. PICK k \in SaysOfCall(s, i) : s[k].named
    BY <1>2 DEF HasName
  <2>2. k \in Says(s) /\ s[k].of = i
    BY <2>1, SaysIs
  <2> QED
    BY <2>2
<1> QED
  BY <1>1, <1>2 DEF CallsOf

\* The end of a stream says nothing of its calls.
LEMMA EndSaysNothing ==
  ASSUME NEW s \in Seq(Event), NEW e \in Event, e.type \in {"end", "error"}, NEW t, t = Append(s, e)
  PROVE  /\ t \in Seq(Event) /\ Over(t) /\ Says(t) = Says(s) /\ \A k \in Says(s) : t[k] = s[k]
         /\ CallsOf(t) = CallsOf(s) /\ (ToldApart(t) <=> ToldApart(s))
<1>0. Grows(s, e, t, Len(s) + 1)
  BY OneEventMore
<1>1. t \in Seq(Event) /\ Says(t) = Says(s) /\ \A k \in Says(s) : t[k] = s[k]
  BY <1>0 DEF Grows
<1>2. Over(t)
  BY <1>0 DEF Over, Grows
<1>3. ToldApart(t) <=> ToldApart(s)
  BY <1>1 DEF ToldApart, Says
<1>4. ASSUME NEW i PROVE SaysOfCall(t, i) = SaysOfCall(s, i)
  <2>1. \A k : k \in SaysOfCall(t, i) <=> k \in SaysOfCall(s, i)
    <3>1. \A k \in Says(s) : t[k].of = s[k].of
      BY <1>1
    <3>2. Says(t) = Says(s)
      BY <1>1
    <3> QED
      BY <3>1, <3>2 DEF SaysOfCall, Says
  <2> QED
    BY <2>1 DEF SaysOfCall
<1>5. ASSUME NEW i PROVE HasName(t, SaysOfCall(s, i)) <=> HasName(s, SaysOfCall(s, i))
  <2>1. SaysOfCall(s, i) \subseteq Says(s)
    BY SaysIs
  <2> QED
    BY <1>1, <2>1 DEF HasName
<1>6. CallsOf(t) = CallsOf(s)
  <2>1. {SaysOfCall(t, i) : i \in Index} = {SaysOfCall(s, i) : i \in Index}
    BY <1>4
  <2>2. ASSUME NEW from \in {SaysOfCall(s, i) : i \in Index} PROVE HasName(t, from) <=> HasName(s, from)
    BY <1>5
  <2> QED
    BY <2>1, <2>2 DEF CallsOf
<1> QED
  BY <1>1, <1>2, <1>3, <1>6

\* Nor does it change what is held.
LEMMA EndKeepsHeld ==
  ASSUME NEW s \in Seq(Event), NEW e \in Event, e.type \in {"end", "error"}, NEW f, NEW held,
         NEW t, t = Append(s, e), HeldInv(f, s, held)
  PROVE  HeldInv(f, t, held)
<1>1. Says(t) = Says(s) /\ (\A k \in Says(s) : t[k] = s[k]) /\ (ToldApart(t) <=> ToldApart(s))
  BY EndSaysNothing
<1>2. \A p : At(t, p) = At(s, p)
  BY <1>1 DEF At
<1>3. PiecesInv(s, held) => PiecesInv(t, held)
  BY <1>1, <1>2 DEF PiecesInv
<1>4. WholeInv(s, held) => WholeInv(t, held)
  BY <1>1 DEF WholeInv
<1> QED
  BY <1>1, <1>3, <1>4 DEF HeldInv

-----------------------------------------------------------------------------
(* What is put together of it.                                             *)

\* A piece put to its place.
PutTo(s, p, n, held, next) ==
  /\ DOMAIN next = DOMAIN held \cup {p}
  /\ \A q \in DOMAIN held : q # p => next[q] = held[q]
  /\ next[p] = At(s, p) \cup {n}

LEMMA PutKeepsPieces ==
  ASSUME NEW s \in Seq(Event), NEW e \in Event, e.type \in {"start", "piece"},
         NEW held, PiecesInv(s, held), NEW next, PutTo(s, Place(e), Len(s) + 1, held, next)
  PROVE  PiecesInv(Append(s, e), next)
<1> DEFINE t == Append(s, e)  n == Len(s) + 1  p == Place(e)
<1>9. PutTo(s, p, n, held, next)
  OBVIOUS
<1>0. Grows(s, e, t, n) /\ p = Place(e)
  BY OneEventMore
<1> HIDE DEF t, n, p
<1>1. /\ Says(t) = Says(s) \cup {n} /\ n \notin Says(s)
      /\ t[n] = e /\ \A k \in Says(s) : t[k] = s[k]
  BY <1>0 DEF Grows
<1>2. \A q : (\E k \in Says(t) : Place(t[k]) = q) <=> q = p \/ \E k \in Says(s) : Place(s[k]) = q
  BY <1>0, <1>1
<1>3. \A q : q \in DOMAIN next <=> \E k \in Says(t) : Place(t[k]) = q
  BY <1>2, <1>9 DEF PiecesInv, PutTo
<1>4. ASSUME NEW q \in DOMAIN next PROVE next[q] = At(t, q)
  <2>1. At(t, q) = At(s, q) \cup (IF q = p THEN {n} ELSE {})
    BY <1>0, <1>1 DEF At
  <2>2. CASE q = p
    BY <1>9, <2>1, <2>2 DEF PutTo
  <2>3. CASE q # p
    BY <1>9, <2>1, <2>3 DEF PiecesInv, PutTo
  <2> QED
    BY <2>2, <2>3
<1> QED
  BY <1>3, <1>4 DEF PiecesInv, t

\* The first events of a stream tell its calls apart if all do.
LEMMA ApartBefore ==
  ASSUME NEW s \in Seq(Event), NEW e \in Event, NEW t, t = Append(s, e), ToldApart(t)
  PROVE  ToldApart(s)
<1>0. Grows(s, e, t, Len(s) + 1)
  BY OneEventMore
<1>1. Says(s) \subseteq Says(t) /\ \A k \in Says(s) : t[k] = s[k]
  BY <1>0 DEF Grows
<1> QED
  BY <1>1 DEF ToldApart, Says

\* An event that says something of a call is taken, in the form its request was sent in.
LEMMA TakesKeepsHeld ==
  ASSUME NEW r \in Requests, reads[r] = SentAs(r), SentAs(r) \in Forms,
         events[r] \in Seq(Event), HeldInv(reads[r], events[r], blocks[r]),
         NEW e \in MaySend(r), e.type \in {"start", "piece"},
         NEW t, t = Append(events[r], e)
  PROVE  HeldInv(reads[r], t, Takes(r, e))
<1> DEFINE s == events[r]  held == blocks[r]  f == reads[r]  n == Len(s) + 1  p == Place(e)  next == Takes(r, e)
<1>0. e \in Event /\ s \in Seq(Event) /\ n = Len(s) + 1 /\ p = Place(e)
  BY DEF MaySend
<1>1. /\ Says(t) = Says(s) \cup {n} /\ n \notin Says(s)
      /\ t[n] = e /\ \A k \in Says(s) : t[k] = s[k]
  <2>1. Grows(s, e, t, n)
    BY <1>0, OneEventMore
  <2> QED
    BY <1>0, <2>1 DEF Grows
<1>2. ASSUME InPieces(f), ToldApart(t) PROVE PiecesInv(t, next)
  <2>1. PiecesInv(s, held)
    BY <1>0, <1>2, ApartBefore DEF HeldInv
  <2>2. p \in DOMAIN held => held[p] = At(s, p)
    BY <2>1 DEF PiecesInv
  <2>3. p \notin DOMAIN held => At(s, p) = {}
    BY <2>1 DEF PiecesInv, At
  <2>4. CASE next = Put(held, p, n)
    <3>1. DOMAIN next = DOMAIN held \cup {p} /\ (\A q \in DOMAIN held : q # p => next[q] = held[q])
      BY <2>4 DEF Put
    <3>2. next[p] = At(s, p) \cup {n}
      BY <2>2, <2>3, <2>4 DEF Put
    <3>3. PutTo(s, Place(e), Len(s) + 1, held, next)
      BY <3>1, <3>2 DEF PutTo
    <3> QED
      BY <1>0, <2>1, <3>3, PutKeepsPieces
  <2>5. CASE f = "messages" /\ e.type = "start"
    <3>1. next = [q \in DOMAIN held \cup {p} |-> IF q = p THEN {n} ELSE held[q]]
      BY <2>5 DEF Takes, MessagesTakes
    <3>2. \A k \in Says(s) : s[k].of # e.of
      BY <2>5, SaysIs DEF MaySend
    <3>3. At(s, p) = {}
      <4>1. ASSUME NEW k \in At(s, p) PROVE FALSE
        <5>1. k \in Says(s) /\ Place(s[k]) = p
          BY <4>1 DEF At
        <5>2. Place(t[k]) = Place(t[n]) /\ k \in Says(t) /\ n \in Says(t)
          BY <1>1, <5>1
        <5>3. t[k].of = t[n].of
          BY <1>2, <5>2, ToldIs
        <5> QED
          BY <1>1, <3>2, <5>1, <5>3
      <4> QED
        BY <4>1
    <3>4. /\ DOMAIN next = DOMAIN held \cup {p} /\ (\A q \in DOMAIN held : q # p => next[q] = held[q])
          /\ next[p] = At(s, p) \cup {n}
      BY <3>1, <3>3
    <3>5. PutTo(s, Place(e), Len(s) + 1, held, next)
      BY <3>4 DEF PutTo
    <3> QED
      BY <1>0, <2>1, <3>5, PutKeepsPieces
  <2>6. CASE f = "messages" /\ e.type = "piece"
    <3>1. SaysOfCall(s, e.of) # {}
      BY <2>6 DEF MaySend
    <3>2. PICK k \in Says(s) : s[k].of = e.of
      BY <3>1, SaysIs
    <3>3. Place(t[k]) = Place(t[n])
      <4>1. k \in Says(t) /\ n \in Says(t)
        BY <1>1
      <4>2. t[k].of = s[k].of /\ t[n].of = e.of
        BY <1>1
      <4> QED
        BY <1>2, <3>2, <4>1, <4>2, ToldIs
    <3>4. Place(s[k]) = p
      BY <1>1, <3>2, <3>3
    <3>5. p \in DOMAIN held
      BY <2>1, <3>2, <3>4 DEF PiecesInv
    <3>6. next = Put(held, p, n)
      BY <2>6, <3>5 DEF Takes, MessagesTakes
    <3> QED
      BY <2>4, <3>6
  <2>7. CASE f = "chat"
    <3>1. next = Put(held, p, n)
      BY <2>7 DEF Takes, ChatTakes
    <3> QED
      BY <2>4, <3>1
  <2> QED
    BY <1>2, <2>5, <2>6, <2>7 DEF InPieces
<1>3. ASSUME ~InPieces(f) PROVE WholeInv(t, next)
  <2>1. WholeInv(s, held)
    BY <1>3 DEF HeldInv
  <2>2. next = Put(held, n, n)
    BY <1>3 DEF InPieces, Takes, WholeTakes
  <2>3. DOMAIN next = Says(t)
    BY <1>1, <2>1, <2>2 DEF Put, WholeInv
  <2>4. next[n] = {n} /\ \A k \in Says(s) : next[k] = {k}
    BY <1>1, <2>1, <2>2 DEF Put, WholeInv
  <2>5. \A k \in Says(s) : s[k].of # e.of
    <3>1. SentAs(r) \in {"native", "responses"} /\ e.type = "piece"
      BY <1>3 DEF InPieces, Forms, MaySend
    <3>2. SaysOfCall(s, e.of) = {}
      BY <3>1 DEF MaySend
    <3> QED
      BY <3>2, SaysIs
  <2>6. ASSUME NEW k \in Says(t), NEW l \in Says(t), t[k].of = t[l].of PROVE k = l
    <3>1. \A j \in Says(t) : j \in Says(s) \/ j = n
      BY <1>1
    <3>2. t[n].of = e.of /\ \A j \in Says(s) : t[j].of = s[j].of
      BY <1>1
    <3>3. k \in Says(s) /\ l \in Says(s) => k = l
      BY <2>1, <2>6, <3>2 DEF WholeInv
    <3> QED
      BY <2>5, <2>6, <3>1, <3>2, <3>3
  <2> QED
    BY <1>1, <2>3, <2>4, <2>6 DEF WholeInv
<1> QED
  BY <1>2, <1>3 DEF HeldInv

\* What was put together is what the stream says came.
LEMMA HeldIsCalls ==
  ASSUME NEW r \in Requests, events[r] \in Seq(Event), HeldInv(reads[r], events[r], blocks[r]),
         InPieces(reads[r]) => ToldApart(events[r])
  PROVE  Finished(r) = CallsOf(events[r])
<1> DEFINE s == events[r]  held == blocks[r]
<1>1. {held[q] : q \in DOMAIN held} = {SaysOfCall(s, s[k].of) : k \in Says(s)}
  <2>1. CASE InPieces(reads[r])
    <3>1. PiecesInv(s, held) /\ ToldApart(s)
      BY <2>1 DEF HeldInv
    <3>2. ASSUME NEW k \in Says(s) PROVE At(s, Place(s[k])) = SaysOfCall(s, s[k].of)
      <4>1. \A l : l \in At(s, Place(s[k])) <=> l \in SaysOfCall(s, s[k].of)
        BY <3>1, SaysIs, ToldIs DEF At
      <4> QED
        BY <4>1
    <3>3. ASSUME NEW q \in DOMAIN held PROVE \E k \in Says(s) : held[q] = SaysOfCall(s, s[k].of)
      <4>1. PICK k \in Says(s) : Place(s[k]) = q
        BY <3>1 DEF PiecesInv
      <4> QED
        BY <3>1, <3>2, <4>1 DEF PiecesInv
    <3>4. ASSUME NEW k \in Says(s) PROVE \E q \in DOMAIN held : held[q] = SaysOfCall(s, s[k].of)
      BY <3>1, <3>2 DEF PiecesInv
    <3> QED
      BY <3>3, <3>4
  <2>2. CASE ~InPieces(reads[r])
    <3>1. WholeInv(s, held)
      BY <2>2 DEF HeldInv
    <3>2. ASSUME NEW k \in Says(s) PROVE {k} = SaysOfCall(s, s[k].of)
      BY <3>1, SaysIs DEF WholeInv
    <3>3. DOMAIN held = Says(s) /\ \A k \in Says(s) : held[k] = SaysOfCall(s, s[k].of)
      BY <3>1, <3>2 DEF WholeInv
    <3> QED
      BY <3>3
  <2> QED
    BY <2>1, <2>2
<1>2. Finished(r) = {from \in {held[q] : q \in DOMAIN held} : HasName(s, from)}
  BY DEF Finished
<1> QED
  BY <1>1, <1>2, CallsAre

-----------------------------------------------------------------------------
(* The invariant.                                                          *)

\* Of a reply of which nothing came.
LEMMA NothingCame == ASSUME NEW f PROVE HeldInv(f, <<>>, <<>>)
<1>1. Says(<<>>) = {}
  BY DEF Says
<1>2. PiecesInv(<<>>, <<>>) /\ WholeInv(<<>>, <<>>)
  BY <1>1 DEF PiecesInv, WholeInv
<1> QED
  BY <1>2 DEF HeldInv

LEMMA InitInv == Init => Inv
<1> SUFFICES ASSUME Init PROVE Inv
  OBVIOUS
<1>1. RangeInv
  <2>1. dialect \in Dialects /\ dialect \in Forms
    BY DialectAssumption DEF Init, Forms
  <2> QED
    BY <2>1 DEF Init, RangeInv, Before, Answers
<1>2. ASSUME NEW r \in Requests PROVE DataInv(r) /\ PlaceInv(r) /\ CountInv(r) /\ FormInv(r)
  <2>1. /\ events[r] = <<>> /\ blocks[r] = <<>> /\ ends[r] = 0 /\ at[r] = "idle" /\ attempt[r] = 0
        /\ answer[r] = "none"
    BY DEF Init
  <2>2. DataInv(r)
    BY <2>1, NothingCame DEF DataInv
  <2>3. PlaceInv(r) /\ CountInv(r)
    BY <2>1, AttemptsAssumption DEF PlaceInv, CountInv
  <2>4. FormInv(r)
    BY <2>1, FeaturesAssumption DEF FormInv
  <2> QED
    BY <2>2, <2>3, <2>4
<1> QED
  BY <1>1, <1>2 DEF Inv

\* What is beside a request's reply says nothing of it.
LEMMA SameData ==
  ASSUME NEW r, DataInv(r), reads'[r] = reads[r],
         events'[r] = events[r], blocks'[r] = blocks[r], calls'[r] = calls[r], ends'[r] = ends[r]
  PROVE  DataInv(r)'
<1>1. /\ reads[r]' = reads[r] /\ events[r]' = events[r] /\ blocks[r]' = blocks[r]
      /\ calls[r]' = calls[r] /\ ends[r]' = ends[r]
  OBVIOUS
<1>2. /\ HeldInv(reads[r], events[r], blocks[r])' <=> HeldInv(reads[r], events[r], blocks[r])
      /\ GivenInv(reads[r], events[r], calls[r])' <=> GivenInv(reads[r], events[r], calls[r])
  BY <1>1 DEF HeldInv, GivenInv, InPieces, PiecesInv, WholeInv, Says, At, Place,
              ToldApart, CallsOf, SaysOfCall, HasName
<1> QED
  BY <1>1, <1>2 DEF DataInv

SameForm(r) ==
  at'[r] = at[r] /\ reads'[r] = reads[r] /\ body'[r] = body[r] /\ answer'[r] = answer[r]

\* What the client learns elsewhere changes nothing of how a request is read.
LEMMA SameFormInv ==
  ASSUME NEW r, FormInv(r), SameForm(r), dialect' = dialect, refuses' = refuses, dropped \subseteq dropped'
  PROVE  FormInv(r)'
<1>1. SentAs(r)' = SentAs(r)
  BY DEF SentAs, SameForm
<1> QED
  BY <1>1 DEF FormInv, SameForm

\* A step of one request before its reply is read, or when it breaks: how it stands, its attempts,
\* and what it was sent with.
Beside(r, x, n, f, b, a) ==
  /\ dialect' = dialect /\ refuses' = refuses /\ aborted' \subseteq Requests
  /\ dropped \subseteq dropped' /\ dropped' \subseteq Features /\ dropped' \subseteq refuses
  /\ events' = events /\ blocks' = blocks /\ calls' = calls /\ ends' = ends
  /\ at' = [at EXCEPT ![r] = x] /\ attempt' = [attempt EXCEPT ![r] = n]
  /\ reads' = [reads EXCEPT ![r] = f] /\ body' = [body EXCEPT ![r] = b] /\ answer' = [answer EXCEPT ![r] = a]
  /\ x \in {"sent", "refused", "sleeping", "reading", "failed", "cancelled"}
  /\ n \in 0..MaxAttempts
  /\ x \in {"sent", "refused", "sleeping"} => n >= 1
  /\ x = "sleeping" => n < MaxAttempts
  /\ at[r] \in Before \/ (at[r] = "reading" /\ f = reads[r] /\ x \in {"failed", "cancelled"})
  /\ f \in Forms /\ b \subseteq Features /\ a \in Answers
  /\ a \in Features => a \in refuses
  /\ dialect = "chat" /\ "protocol" \in Features \ b => "protocol" \in dropped'
  /\ x = "reading" => f = SentAs(r)'

LEMMA BesideTheReply ==
  ASSUME Inv, NEW r \in Requests, NEW x, NEW n, NEW f, NEW b, NEW a, Beside(r, x, n, f, b, a)
  PROVE  Inv'
<1> USE DEF Beside
<1>1. RangeInv'
  BY AttemptsAssumption DEF Inv, RangeInv, Before, Ended
<1>2. ASSUME NEW q \in Requests PROVE DataInv(q)'
  <2>1. DataInv(q) /\ PlaceInv(q)
    BY DEF Inv
  <2>2. CASE reads'[q] = reads[q]
    BY <2>1, <2>2, SameData
  <2>3. CASE reads'[q] # reads[q]
    <3>1. q = r /\ at[r] \in Before
      BY <2>3 DEF Inv, RangeInv
    <3>2. events'[q] = <<>> /\ blocks'[q] = <<>> /\ ends'[q] = 0
      BY <2>1, <3>1 DEF PlaceInv
    <3>3. \A g : HeldInv(g, <<>>, <<>>)'
      BY NothingCame DEF HeldInv, InPieces, PiecesInv, WholeInv, Says, At, Place, ToldApart
    <3> QED
      BY <3>2, <3>3 DEF DataInv, HeldInv, InPieces, PiecesInv, WholeInv, Says, At, Place, ToldApart
  <2> QED
    BY <2>2, <2>3
<1>3. ASSUME NEW q \in Requests PROVE PlaceInv(q)' /\ CountInv(q)'
  <2>1. /\ PlaceInv(q) /\ CountInv(q) /\ events' = events /\ ends' = ends /\ blocks' = blocks
        /\ at'[q] = IF q = r THEN x ELSE at[q]
        /\ attempt'[q] = IF q = r THEN n ELSE attempt[q]
    BY DEF Inv, RangeInv
  <2>2. CASE q = r
    BY <2>1, <2>2 DEF PlaceInv, CountInv, Over, Before
  <2>3. CASE q # r
    BY <2>1, <2>3 DEF PlaceInv, CountInv, Over
  <2> QED
    BY <2>2, <2>3
<1>4. ASSUME NEW q \in Requests PROVE FormInv(q)'
  <2>1. CASE q = r
    <3>1. at'[r] = x /\ reads'[r] = f /\ body'[r] = b /\ answer'[r] = a
      BY DEF Inv, RangeInv
    <3> QED
      BY <2>1, <3>1 DEF FormInv
  <2>2. CASE q # r
    <3>1. FormInv(q) /\ SameForm(q)
      BY <2>2 DEF Inv, RangeInv, SameForm
    <3> QED
      BY <3>1, SameFormInv
  <2> QED
    BY <2>1, <2>2
<1> QED
  BY <1>1, <1>2, <1>3, <1>4 DEF Inv

\* Nothing of any request changes.
LEMMA NothingOfIt ==
  ASSUME Inv, dialect' = dialect, refuses' = refuses, dropped' = dropped, aborted' \subseteq Requests, at' = at,
         netVars' = netVars, streamVars' = streamVars
  PROVE  Inv'
<1>1. RangeInv'
  BY DEF Inv, RangeInv, netVars, streamVars
<1>2. ASSUME NEW q \in Requests PROVE DataInv(q)'
  BY <1>2, SameData DEF Inv, streamVars
<1>3. ASSUME NEW q \in Requests PROVE PlaceInv(q)' /\ CountInv(q)'
  <2>1. PlaceInv(q) /\ CountInv(q) /\ events' = events /\ ends' = ends /\ blocks' = blocks /\ attempt' = attempt
    BY DEF Inv, streamVars, netVars
  <2> QED
    BY <2>1 DEF PlaceInv, CountInv, Over
<1>4. ASSUME NEW q \in Requests PROVE FormInv(q)'
  BY SameFormInv DEF Inv, netVars, streamVars, SameForm
<1> QED
  BY <1>1, <1>2, <1>3, <1>4 DEF Inv

\* How a request stands, and what it was sent with, before a step.
LEMMA Stands ==
  ASSUME Inv, NEW r \in Requests
  PROVE  /\ at[r] \in Before \cup {"reading"} \cup Ended
         /\ attempt[r] \in 0..MaxAttempts
         /\ at[r] \in {"sent", "refused", "sleeping"} => attempt[r] >= 1
         /\ attempt = [attempt EXCEPT ![r] = attempt[r]]
         /\ reads = [reads EXCEPT ![r] = reads[r]]
         /\ body = [body EXCEPT ![r] = body[r]]
         /\ answer = [answer EXCEPT ![r] = answer[r]]
         /\ reads[r] \in Forms /\ body[r] \subseteq Features /\ answer[r] \in Answers
         /\ SentAs(r) \in Forms
         /\ answer[r] \in Features => answer[r] \in refuses
         /\ at[r] # "idle" /\ dialect = "chat" /\ "protocol" \in Features \ body[r] => "protocol" \in dropped
         /\ dropped \subseteq Features /\ dropped \subseteq refuses /\ aborted \subseteq Requests
<1>1. RangeInv /\ CountInv(r) /\ FormInv(r)
  BY DEF Inv
<1>2. /\ attempt = [attempt EXCEPT ![r] = attempt[r]]
      /\ reads = [reads EXCEPT ![r] = reads[r]]
      /\ body = [body EXCEPT ![r] = body[r]]
      /\ answer = [answer EXCEPT ![r] = answer[r]]
  BY <1>1 DEF RangeInv
<1>3. SentAs(r) \in Forms
  BY <1>1, DialectAssumption DEF RangeInv, SentAs, Forms
<1> QED
  BY <1>1, <1>2, <1>3, AttemptsAssumption DEF RangeInv, CountInv, FormInv

\* A body leaves the protocol out only by what is known.
LEMMA BodyIs ==
  ASSUME NEW r, NEW known
  PROVE  /\ dialect = "chat" /\ "protocol" \in Features \ Body(r, known) => "protocol" \in known
         /\ Body(r, known) \subseteq Features
BY DEF Body, ChatBody, ResponsesBody, MessagesBody

\* Sending, and ending, say how a request stands.
LEMMA SendStands ==
  ASSUME NEW r, Send(r) PROVE \E x \in {"sent", "cancelled"} : at' = [at EXCEPT ![r] = x]
BY DEF Send, Ends

LEMMA BeginInv == ASSUME Inv, NEW r \in Requests, Begin(r) PROVE Inv'
<1>1. PICK x \in {"sent", "cancelled"} : at' = [at EXCEPT ![r] = x]
  BY SendStands DEF Begin
<1>2. /\ at[r] = "idle" /\ attempt' = [attempt EXCEPT ![r] = 1] /\ body' = [body EXCEPT ![r] = Body(r, dropped)]
      /\ dialect' = dialect /\ refuses' = refuses /\ dropped' = dropped /\ aborted' = aborted
      /\ answer' = answer /\ reads' = reads /\ UNCHANGED <<events, blocks, calls, ends>>
  BY DEF Begin, streamVars
<1>3. Beside(r, x, 1, reads[r], Body(r, dropped), answer[r])
  BY <1>1, <1>2, Stands, BodyIs, AttemptsAssumption DEF Beside, Before
<1> QED
  BY <1>3, BesideTheReply

LEMMA ResponseInv == ASSUME Inv, NEW r \in Requests, Response(r) PROVE Inv'
<1>1. PICK a \in MayAnswer(r) :
        /\ answer' = [answer EXCEPT ![r] = a]
        /\ IF a # "ok" THEN at' = [at EXCEPT ![r] = "refused"] /\ UNCHANGED <<attempt, reads>>
           ELSE /\ at' = [at EXCEPT ![r] = "reading"]
                /\ attempt' = [attempt EXCEPT ![r] = 0]
                /\ reads' = [reads EXCEPT ![r] = ReadAs(r)]
  BY DEF Response
<1>2. /\ at[r] = "sent" /\ body' = body /\ dialect' = dialect /\ refuses' = refuses
      /\ dropped' = dropped /\ aborted' = aborted /\ UNCHANGED <<events, blocks, calls, ends>>
  BY DEF Response
<1>3. (a \in Features => a \in refuses) /\ a \in Answers
  <2>1. body[r] \subseteq Features
    BY Stands
  <2> QED
    BY <2>1, FeaturesAssumption DEF MayAnswer, Answers
<1>4. SentAs(r)' = SentAs(r)
  BY <1>2 DEF SentAs
<1>5. CASE a # "ok"
  <2>1. Beside(r, "refused", attempt[r], reads[r], body[r], a)
    BY <1>1, <1>2, <1>3, <1>5, Stands DEF Beside, Before
  <2> QED
    BY <2>1, BesideTheReply
<1>6. CASE a = "ok"
  <2>1. body[r] \cap refuses = {}
    <3>1. "ok" \notin Features /\ body[r] \subseteq Features
      BY Stands, FeaturesAssumption
    <3> QED
      BY <1>6, <3>1 DEF MayAnswer
  <2>2. "protocol" \in dropped => "protocol" \in Features \ body[r]
    BY <2>1, Stands
  <2>3. dialect = "chat" /\ "protocol" \in Features \ body[r] => "protocol" \in dropped
    BY <1>2, Stands
  <2>4. ReadAs(r) = SentAs(r)
    BY <2>2, <2>3 DEF ReadAs, SentAs
  <2>5. Beside(r, "reading", 0, SentAs(r), body[r], a)
    BY <1>1, <1>2, <1>3, <1>4, <1>6, <2>4, Stands, AttemptsAssumption DEF Beside, Before
  <2> QED
    BY <2>5, BesideTheReply
<1> QED
  BY <1>5, <1>6

LEMMA NetworkFailsInv == ASSUME Inv, NEW r \in Requests, NetworkFails(r) PROVE Inv'
<1>1. PICK x \in {"sleeping", "failed"} : at' = [at EXCEPT ![r] = x] /\ (x = "sleeping" => attempt[r] < MaxAttempts)
  BY DEF NetworkFails, Ends
<1>2. /\ at[r] = "sent" /\ answer' = [answer EXCEPT ![r] = "network"] /\ attempt' = attempt /\ body' = body
      /\ dialect' = dialect /\ refuses' = refuses /\ dropped' = dropped /\ aborted' = aborted
      /\ reads' = reads /\ UNCHANGED <<events, blocks, calls, ends>>
  BY DEF NetworkFails, streamVars
<1>3. "network" \notin Features /\ "network" \in Answers
  BY FeaturesAssumption DEF Answers
<1>4. Beside(r, x, attempt[r], reads[r], body[r], "network")
  BY <1>1, <1>2, <1>3, Stands DEF Beside, Before
<1> QED
  BY <1>4, BesideTheReply

LEMMA RefusedInv == ASSUME Inv, NEW r \in Requests, Refused(r) PROVE Inv'
<1>1. /\ at[r] = "refused" /\ dialect' = dialect /\ refuses' = refuses /\ aborted' = aborted
      /\ answer' = answer /\ reads' = reads /\ UNCHANGED <<events, blocks, calls, ends>>
  BY DEF Refused, streamVars
<1>2. PICK said \in Said(r) :
       \/ /\ Again(said, attempt[r])
          /\ IF r \in aborted THEN Ends(r, "cancelled")
             ELSE at' = [at EXCEPT ![r] = "sleeping"] /\ UNCHANGED span
          /\ UNCHANGED <<dropped, body, attempt>>
       \/ /\ Learns(r, said)
          /\ dropped' = dropped \cup {said}
          /\ body' = [body EXCEPT ![r] = Body(r, dropped')]
          /\ attempt' = [attempt EXCEPT ![r] = 1]
          /\ Send(r)
       \/ /\ Ends(r, "failed")
          /\ UNCHANGED <<dropped, body, attempt>>
  BY <1>1 DEF Refused
<1>3. CASE Learns(r, said) /\ dropped' = dropped \cup {said} /\ body' = [body EXCEPT ![r] = Body(r, dropped')]
           /\ attempt' = [attempt EXCEPT ![r] = 1] /\ Send(r)
  <2>1. PICK x \in {"sent", "cancelled"} : at' = [at EXCEPT ![r] = x]
    BY <1>3, SendStands
  <2>2. said \in Features /\ said \in refuses
    <3>1. said \in Features
      BY <1>3 DEF Learns
    <3>2. said = answer[r]
      BY <3>1, FeaturesAssumption DEF Said
    <3> QED
      BY <3>1, <3>2, Stands
  <2>3. 1 \in 0..MaxAttempts
    BY AttemptsAssumption
  <2>4. dropped \subseteq dropped' /\ dropped' \subseteq Features /\ dropped' \subseteq refuses
    BY <1>3, <2>2, Stands
  <2>5. dialect = "chat" /\ "protocol" \in Features \ Body(r, dropped)' => "protocol" \in dropped'
    BY <1>1 DEF Body, ChatBody
  <2>6. Body(r, dropped') = Body(r, dropped)'
    BY <1>1 DEF Body, ChatBody, MessagesBody
  <2>7. Beside(r, x, 1, reads[r], Body(r, dropped'), answer[r])
    BY <1>1, <1>3, <2>1, <2>3, <2>4, <2>5, <2>6, Stands, BodyIs DEF Beside, Before
  <2> QED
    BY <2>7, BesideTheReply
<1>4. CASE UNCHANGED <<dropped, body, attempt>>
           /\ \E x \in {"sleeping", "failed", "cancelled"} :
                at' = [at EXCEPT ![r] = x] /\ (x = "sleeping" => attempt[r] < MaxAttempts)
  <2>1. PICK x \in {"sleeping", "failed", "cancelled"} :
          at' = [at EXCEPT ![r] = x] /\ (x = "sleeping" => attempt[r] < MaxAttempts)
    BY <1>4
  <2>2. Beside(r, x, attempt[r], reads[r], body[r], answer[r])
    BY <1>1, <1>4, <2>1, Stands DEF Beside, Before
  <2> QED
    BY <2>2, BesideTheReply
<1> QED
  BY <1>2, <1>3, <1>4 DEF Ends, Again

LEMMA WakesInv == ASSUME Inv, NEW r \in Requests, Wakes(r) PROVE Inv'
<1>1. PICK x \in {"sent", "cancelled"} : at' = [at EXCEPT ![r] = x]
  BY SendStands DEF Wakes
<1>2. /\ at[r] = "sleeping" /\ attempt' = [attempt EXCEPT ![r] = attempt[r] + 1]
      /\ dialect' = dialect /\ refuses' = refuses /\ dropped' = dropped /\ aborted' = aborted
      /\ body' = body /\ answer' = answer /\ reads' = reads /\ UNCHANGED <<events, blocks, calls, ends>>
  BY DEF Wakes, streamVars
<1>3. attempt[r] + 1 \in 0..MaxAttempts /\ attempt[r] + 1 >= 1
  BY <1>2, AttemptsAssumption DEF Inv, CountInv
<1>4. Beside(r, x, attempt[r] + 1, reads[r], body[r], answer[r])
  BY <1>1, <1>2, <1>3, Stands DEF Beside, Before
<1> QED
  BY <1>4, BesideTheReply

LEMMA AbortInv == ASSUME Inv, NEW r \in Requests, Abort(r) PROVE Inv'
<1>1. /\ dialect' = dialect /\ refuses' = refuses /\ dropped' = dropped /\ aborted' \subseteq Requests
      /\ netVars' = netVars /\ streamVars' = streamVars
  BY DEF Abort, Inv, RangeInv
<1>2. CASE at[r] \in {"sent", "sleeping"}
  <2>1. at' = [at EXCEPT ![r] = "cancelled"]
    BY <1>2 DEF Abort, Ends
  <2>2. attempt' = attempt /\ body' = body /\ answer' = answer /\ reads' = reads /\ UNCHANGED <<events, blocks, calls, ends>>
    BY <1>1 DEF netVars, streamVars
  <2>3. Beside(r, "cancelled", attempt[r], reads[r], body[r], answer[r])
    BY <1>1, <1>2, <2>1, <2>2, Stands DEF Beside, Before
  <2> QED
    BY <2>3, BesideTheReply
<1>3. CASE at[r] \notin {"sent", "sleeping"}
  <2>1. at' = at
    BY <1>3 DEF Abort
  <2> QED
    BY <1>1, <2>1, NothingOfIt
<1> QED
  BY <1>2, <1>3

LEMMA ReplyBreaksInv == ASSUME Inv, NEW r \in Requests, ReplyBreaks(r) PROVE Inv'
<1>1. PICK x \in {"cancelled", "failed"} : at' = [at EXCEPT ![r] = x]
  BY DEF ReplyBreaks, Ends
<1>2. /\ at[r] = "reading" /\ dialect' = dialect /\ refuses' = refuses /\ dropped' = dropped /\ aborted' = aborted
      /\ attempt' = attempt /\ body' = body /\ answer' = answer /\ reads' = reads /\ UNCHANGED <<events, blocks, calls, ends>>
  BY DEF ReplyBreaks, netVars, streamVars
<1>3. Beside(r, x, attempt[r], reads[r], body[r], answer[r])
  BY <1>1, <1>2, Stands DEF Beside, Before
<1> QED
  BY <1>3, BesideTheReply

-----------------------------------------------------------------------------
(* A reply read.                                                           *)

\* A step of one reply leaves the other requests as they were.
LEMMA OthersStay ==
  ASSUME Inv, NEW q \in Requests, dialect' = dialect, refuses' = refuses, dropped' = dropped,
         netVars' = netVars, reads' = reads,
         at'[q] = at[q], events'[q] = events[q], blocks'[q] = blocks[q], calls'[q] = calls[q], ends'[q] = ends[q]
  PROVE  (DataInv(q) /\ PlaceInv(q) /\ CountInv(q) /\ FormInv(q))'
<1>1. DataInv(q) /\ PlaceInv(q) /\ CountInv(q) /\ FormInv(q)
  BY DEF Inv
<1>2. DataInv(q)'
  BY <1>1, SameData
<1>3. PlaceInv(q)' /\ CountInv(q)'
  BY <1>1 DEF PlaceInv, CountInv, Over, netVars
<1>4. FormInv(q)'
  BY <1>1, SameFormInv DEF SameForm, netVars
<1> QED
  BY <1>2, <1>3, <1>4

\* The reply's own: how it stands is still reading, or ended.
LEMMA StaysRead ==
  ASSUME Inv, NEW r \in Requests, at[r] = "reading", at'[r] \in {"reading"} \cup Ended,
         dialect' = dialect, refuses' = refuses, dropped' = dropped, netVars' = netVars, reads' = reads
  PROVE  CountInv(r)' /\ FormInv(r)'
<1>1. CountInv(r) /\ FormInv(r) /\ SentAs(r)' = SentAs(r)
  BY DEF Inv, netVars, SentAs
<1> QED
  BY <1>1 DEF CountInv, FormInv, netVars, Ended

\* What the data of a request says, of what it is after a step.
LEMMA NewData ==
  ASSUME NEW r, NEW f, NEW s, NEW held, NEW given, NEW n,
         reads'[r] = f, events'[r] = s, blocks'[r] = held, calls'[r] = given, ends'[r] = n,
         HeldInv(f, s, held), n \in {0, 1}, n = 1 => GivenInv(f, s, given)
  PROVE  DataInv(r)'
<1>1. /\ reads[r]' = f /\ events[r]' = s /\ blocks[r]' = held /\ calls[r]' = given /\ ends[r]' = n
  OBVIOUS
<1>2. HeldInv(reads[r], events[r], blocks[r])'
  BY <1>1 DEF HeldInv, InPieces, PiecesInv, WholeInv, Says, At, Place, ToldApart
<1>3. ends[r]' = 1 => GivenInv(reads[r], events[r], calls[r])'
  BY <1>1 DEF GivenInv, InPieces, Place, ToldApart, CallsOf, SaysOfCall, HasName
<1> QED
  BY <1>1, <1>2, <1>3 DEF DataInv

LEMMA FormIs == ASSUME Inv, NEW r \in Requests PROVE SentAs(r) \in Forms
BY DialectAssumption DEF Inv, RangeInv, SentAs, Forms

LEMMA StreamEventInv == ASSUME Inv, NEW r \in Requests, StreamEvent(r) PROVE Inv'
<1>1. PICK e \in MaySend(r) :
       /\ events' = [events EXCEPT ![r] = Append(events[r], e)]
       /\ blocks' = IF e.type \in {"end", "error"} THEN blocks ELSE [blocks EXCEPT ![r] = Takes(r, e)]
       /\ IF e.type = "end" THEN /\ calls' = [calls EXCEPT ![r] = Finished(r)]
                                 /\ ends' = [ends EXCEPT ![r] = ends[r] + 1]
          ELSE UNCHANGED <<calls, ends>>
       /\ IF e.type = "error" THEN at' = [at EXCEPT ![r] = "failed"] ELSE at' = at
  BY DEF StreamEvent, Ends
<1>2. /\ at[r] = "reading" /\ r \in Streaming /\ dialect' = dialect /\ refuses' = refuses /\ dropped' = dropped
      /\ aborted' = aborted /\ netVars' = netVars /\ reads' = reads
  BY DEF StreamEvent
<1>3. /\ RangeInv /\ DataInv(r) /\ PlaceInv(r) /\ FormInv(r) /\ events[r] \in Seq(Event)
      /\ DOMAIN events = Requests /\ DOMAIN blocks = Requests /\ DOMAIN calls = Requests /\ DOMAIN ends = Requests
      /\ DOMAIN at = Requests
  BY DEF Inv, RangeInv
<1>4. e \in Event /\ e.type \in {"end", "error", "start", "piece"} /\ ~Over(events[r])
  BY EventShape DEF MaySend, Over
<1>5. ends[r] = 0 /\ reads[r] = SentAs(r) /\ SentAs(r) \in Forms
  BY <1>2, <1>3, <1>4, FormIs DEF DataInv, PlaceInv, FormInv
<1> DEFINE t == Append(events[r], e)
<1>6. t \in Seq(Event) /\ events'[r] = t /\ at'[r] \in {"reading", "failed"} /\ (e.type = "end" => at'[r] = "reading")
  BY <1>1, <1>2, <1>3, <1>4
<1>7. RangeInv'
  <2>1. events' \in [Requests -> Seq(Event)]
    BY <1>1, <1>3, <1>6 DEF RangeInv
  <2>2. DOMAIN blocks' = Requests /\ DOMAIN calls' = Requests /\ DOMAIN ends' = Requests
    BY <1>1, <1>3
  <2>3. at' \in [Requests -> Before \cup {"reading"} \cup Ended]
    BY <1>1, <1>3 DEF RangeInv, Ended
  <2> QED
    BY <1>2, <1>3, <2>1, <2>2, <2>3 DEF RangeInv, netVars
<1>8. ASSUME NEW q \in Requests, q # r PROVE (DataInv(q) /\ PlaceInv(q) /\ CountInv(q) /\ FormInv(q))'
  <2>1. at'[q] = at[q] /\ events'[q] = events[q] /\ blocks'[q] = blocks[q] /\ calls'[q] = calls[q] /\ ends'[q] = ends[q]
    BY <1>1, <1>3, <1>8
  <2> QED
    BY <1>2, <1>8, <2>1, OthersStay
<1>9. DataInv(r)' /\ PlaceInv(r)'
  <2>1. HeldInv(reads[r], events[r], blocks[r])
    BY <1>3 DEF DataInv
  <2>2. CASE e.type = "end"
    <3>1. blocks'[r] = blocks[r] /\ ends'[r] = 1 /\ calls'[r] = Finished(r)
      BY <1>1, <1>3, <1>5, <2>2
    <3>2. HeldInv(reads[r], t, blocks[r])
      BY <1>3, <1>4, <2>1, <2>2, EndKeepsHeld
    <3>3. Over(t) /\ CallsOf(t) = CallsOf(events[r]) /\ (ToldApart(t) <=> ToldApart(events[r]))
      BY <1>3, <1>4, <2>2, EndSaysNothing
    <3>4. GivenInv(reads[r], t, Finished(r))
      <4>1. (InPieces(reads[r]) => ToldApart(events[r])) => Finished(r) = CallsOf(events[r])
        BY <1>3, <2>1, HeldIsCalls
      <4> QED
        BY <3>3, <4>1 DEF GivenInv
    <3> HIDE DEF t
    <3>5. DataInv(r)'
      BY <1>2, <1>6, <3>1, <3>2, <3>4, NewData
    <3>6. PlaceInv(r)'
      BY <1>6, <2>2, <3>1, <3>3 DEF PlaceInv, Over, Before
    <3> QED
      BY <3>5, <3>6
  <2>3. CASE e.type # "end"
    <3>1. ends'[r] = 0 /\ calls'[r] = calls[r]
      BY <1>1, <1>3, <1>5, <2>3
    <3>2. HeldInv(reads[r], t, blocks'[r])
      <4>1. CASE e.type = "error"
        BY <1>1, <1>3, <1>4, <2>1, <4>1, EndKeepsHeld
      <4>2. CASE e.type \in {"start", "piece"}
        <5>1. blocks'[r] = Takes(r, e)
          BY <1>1, <1>3, <4>2
        <5> QED
          BY <1>3, <1>5, <2>1, <4>2, <5>1, TakesKeepsHeld
      <4> QED
        BY <1>4, <2>3, <4>1, <4>2
    <3> HIDE DEF t
    <3>3. DataInv(r)'
      BY <1>2, <1>6, <3>1, <3>2, NewData
    <3>4. PlaceInv(r)'
      BY <1>6, <3>1 DEF PlaceInv, Before
    <3> QED
      BY <3>3, <3>4
  <2> QED
    BY <2>2, <2>3
<1>10. CountInv(r)' /\ FormInv(r)'
  BY <1>2, <1>6, StaysRead DEF Ended
<1> QED
  BY <1>7, <1>8, <1>9, <1>10 DEF Inv

LEMMA ReplyClosesInv == ASSUME Inv, NEW r \in Requests, ReplyCloses(r) PROVE Inv'
<1>1. /\ IF r \in Streaming /\ ends[r] = 0
         THEN /\ calls' = [calls EXCEPT ![r] = IF reads[r] = "responses" THEN {} ELSE Finished(r)]
              /\ ends' = [ends EXCEPT ![r] = 1]
         ELSE UNCHANGED <<calls, ends>>
      /\ at' = [at EXCEPT ![r] = "done"] /\ events' = events /\ blocks' = blocks
      /\ at[r] = "reading" /\ dialect' = dialect /\ refuses' = refuses /\ dropped' = dropped
      /\ aborted' = aborted /\ netVars' = netVars /\ reads' = reads
  BY DEF ReplyCloses, Ends
<1>2. /\ RangeInv /\ DataInv(r) /\ PlaceInv(r) /\ events[r] \in Seq(Event)
      /\ DOMAIN calls = Requests /\ DOMAIN ends = Requests /\ DOMAIN at = Requests
  BY DEF Inv, RangeInv
<1>3. RangeInv'
  BY <1>1, <1>2 DEF RangeInv, Ended, netVars
<1>4. ASSUME NEW q \in Requests, q # r PROVE (DataInv(q) /\ PlaceInv(q) /\ CountInv(q) /\ FormInv(q))'
  <2>1. at'[q] = at[q] /\ events'[q] = events[q] /\ blocks'[q] = blocks[q] /\ calls'[q] = calls[q] /\ ends'[q] = ends[q]
    BY <1>1, <1>2, <1>4
  <2> QED
    BY <1>1, <1>4, <2>1, OthersStay
<1>5. at'[r] = "done" /\ events'[r] = events[r] /\ blocks'[r] = blocks[r] /\ reads'[r] = reads[r]
      /\ (r \in Streaming => ends'[r] = 1)
  BY <1>1, <1>2 DEF DataInv
<1>6. DataInv(r)'
  <2>1. CASE r \in Streaming /\ ends[r] = 0
    <3>1. calls'[r] = (IF reads[r] = "responses" THEN {} ELSE Finished(r)) /\ ends'[r] = 1
      BY <1>1, <1>2, <2>1
    <3>2. HeldInv(reads[r], events[r], blocks[r])
      BY <1>2 DEF DataInv
    <3>3. (InPieces(reads[r]) => ToldApart(events[r])) => Finished(r) = CallsOf(events[r])
      BY <1>2, <3>2, HeldIsCalls
    <3>4. GivenInv(reads[r], events[r], calls'[r])
      BY <3>1, <3>3 DEF GivenInv
    <3> QED
      BY <1>5, <3>1, <3>2, <3>4, NewData
  <2>2. CASE ~(r \in Streaming /\ ends[r] = 0)
    BY <1>1, <1>2, <2>2, SameData
  <2> QED
    BY <2>1, <2>2
<1>7. PlaceInv(r)'
  BY <1>5 DEF PlaceInv, Before
<1>8. CountInv(r)' /\ FormInv(r)'
  BY <1>1, <1>5, StaysRead DEF Ended
<1> QED
  BY <1>3, <1>4, <1>6, <1>7, <1>8 DEF Inv

LEMMA NextInv == ASSUME Inv, [Next]_vars PROVE Inv'
<1>1. ASSUME NEW r \in Requests, Step(r) PROVE Inv'
  BY <1>1, BeginInv, ResponseInv, NetworkFailsInv, RefusedInv, WakesInv, StreamEventInv, ReplyClosesInv, ReplyBreaksInv DEF Step
<1>2. ASSUME NEW r \in Requests, Abort(r) PROVE Inv'
  BY <1>2, AbortInv
<1>3. CASE UNCHANGED vars
  <2>1. aborted' \subseteq Requests
    BY <1>3 DEF vars, Inv, RangeInv
  <2> QED
    BY <1>3, <2>1, NothingOfIt DEF vars
<1> QED
  BY <1>1, <1>2, <1>3 DEF Next, Quiet

-----------------------------------------------------------------------------
(* What holds of every endpoint and every number of requests.              *)

\* The inductive invariant: what is held of a reply is what its stream says came so far, whichever
\* piece says its place or brings the name; a reply is read in the form it was asked for in and
\* given once, and attempts are counted (accumulateToolCalls in openai-compat.ts, streamChat in
\* anthropic.ts and ollama.ts; request in openai-compat.ts; fetchWithRetry in http.ts).
THEOREM Inductive == Spec => []Inv
<1>1. Init => Inv
  BY InitInv
<1>2. Inv /\ [Next]_vars => Inv'
  BY NextInv
<1> QED
  BY <1>1, <1>2, PTL DEF Spec

\* A reply is given once, in the form it was asked for in, with the calls the endpoint sent, as
\* long as their pieces tell them apart.
THEOREM GivenHolds == Spec => []GivenAsSent
<1>1. ASSUME Inv PROVE GivenAsSent
  <2>1. ASSUME NEW r \in Requests
        PROVE  /\ at[r] = "reading" => reads[r] = SentAs(r)
               /\ ends[r] <= 1
               /\ r \in Streaming /\ at[r] = "done" => ends[r] = 1
               /\ ends[r] = 1 /\ (reads[r] \in {"chat", "messages"} => ToldApart(events[r])) =>
                    calls[r] = CallsOf(events[r]) \/ (reads[r] = "responses" /\ calls[r] = {})
    BY <1>1, <2>1 DEF Inv, DataInv, PlaceInv, FormInv, GivenInv, InPieces
  <2> QED
    BY <2>1 DEF GivenAsSent
<1> QED
  BY <1>1, Inductive, PTL

Bounded == \A r \in Requests : attempt[r] <= MaxAttempts

\* Every attempt is counted against the policy's bound, those after a lesson learned anew
\* (fetchWithRetry in http.ts).
THEOREM AttemptsBounded == Spec => []Bounded
<1>1. Inv => Bounded
  BY AttemptsAssumption DEF Inv, CountInv, Bounded
<1>2. QED
  BY <1>1, Inductive, PTL

Silent == \A r \in aborted : at[r] # "sent" => at'[r] # "sent"

\* An aborted request sends nothing more, whatever it was waiting for: a delay, a refusal being read,
\* or the request again without what was refused (http.ts, openai-compat.ts, anthropic.ts).
THEOREM SilentHolds == Spec => SilentAfterAbort
<1>1. ASSUME Inv, NEW r \in Requests, Step(r) \/ Abort(r), NEW q \in aborted, at[q] # "sent" PROVE at'[q] # "sent"
  <2>1. DOMAIN at = Requests /\ q \in Requests
    BY <1>1 DEF Inv, RangeInv
  <2>2. CASE Begin(r)
    BY <1>1, <2>1, <2>2 DEF Begin, Send, Ends
  <2>3. CASE Response(r)
    BY <1>1, <2>1, <2>3 DEF Response, Ends
  <2>4. CASE NetworkFails(r)
    BY <1>1, <2>1, <2>4 DEF NetworkFails, Ends
  <2>5. CASE Refused(r)
    BY <1>1, <2>1, <2>5 DEF Refused, Send, Ends
  <2>6. CASE Wakes(r)
    BY <1>1, <2>1, <2>6 DEF Wakes, Send, Ends
  <2>7. CASE StreamEvent(r)
    BY <1>1, <2>1, <2>7 DEF StreamEvent, Ends
  <2>8. CASE ReplyCloses(r)
    BY <1>1, <2>1, <2>8 DEF ReplyCloses, Ends
  <2>9. CASE ReplyBreaks(r)
    BY <1>1, <2>1, <2>9 DEF ReplyBreaks, Ends
  <2>10. CASE Abort(r)
    BY <1>1, <2>1, <2>10 DEF Abort, Ends
  <2>11. QED
    BY <1>1, <2>2, <2>3, <2>4, <2>5, <2>6, <2>7, <2>8, <2>9, <2>10 DEF Step
<1>2. ASSUME Inv, [Next]_vars PROVE [Silent]_vars
  BY <1>1, <1>2 DEF Next, Quiet, Silent, vars
<1>3. QED
  BY <1>2, Inductive, PTL DEF Spec, SilentAfterAbort, Silent

-----------------------------------------------------------------------------
(* The session that makes the requests (Runtime): the model and the tools of  *)
(* each turn, what they go back to, and the reasoning that a request replays, *)
(* for any models, modes, switches and replies.                               *)

CONSTANTS Models, Unconfigured, Small, Modes, MaxSwitches, MaxSteps
VARIABLES phase, choice, info, asked, awaited, restore, chosen, mode, before, narrowed, offer, loaded,
          tools, agent, turn, written, since, disturbed

Run == INSTANCE Runtime WITH blocks <- written

AnyMode == Modes \cup {"default"}
AnyChoice == [ref : Models, n : Nat]
AnyTools == [mode : AnyMode, narrowed : BOOLEAN, offer : BOOLEAN, loaded : BOOLEAN, held : BOOLEAN]
AnyPrefix == [tools : AnyTools, model : Models]
AnyInfo == [of : Models, said : BOOLEAN]
AnyAgent == [prefix : AnyPrefix, model : Models, info : AnyInfo, since : Nat]
AnyTurn == [agent : AnyAgent, same : BOOLEAN, shares : BOOLEAN]

SettingsTyped ==
  /\ choice \in AnyChoice /\ info \in AnyInfo /\ restore \in AnyChoice \cup {Run!None}
  /\ mode \in AnyMode /\ before \in AnyMode \cup {"none"}
  /\ narrowed \in BOOLEAN /\ offer \in BOOLEAN /\ loaded \in BOOLEAN

BuiltTyped ==
  /\ tools \in AnyPrefix /\ agent \in AnyAgent /\ turn \in AnyTurn \cup {Run!None}
  /\ written \in Seq(AnyPrefix) /\ since \in Nat

(* The agent for later turns is built from the tools as last built.           *)
AgentInv == agent.prefix = tools /\ agent.model = choice.ref /\ agent.info = info

(* The tools are as the settings say, but for what a skill narrowed since.    *)
ToolsInv ==
  /\ tools.model = choice.ref /\ tools.tools.mode = mode
  /\ tools.tools.offer = offer /\ tools.tools.loaded = loaded /\ tools.tools.held = Run!Held
  /\ tools.tools.narrowed = narrowed \/ (narrowed /\ phase = "turn")

(* What a turn narrowed, was offered and runs on is the turn's.               *)
ChosenInv ==
  /\ restore = Run!None /\ phase # "stuck" => chosen = choice.ref
  /\ restore # Run!None => chosen = restore.ref
  /\ phase \in {"idle", "compacting", "stuck"} => ~narrowed /\ ~offer /\ restore = Run!None

TurnInv ==
  /\ turn = Run!None <=> phase # "turn"
  /\ info.of = choice.ref
  /\ turn # Run!None => turn.agent.info.of = turn.agent.model

(* Reasoning that is replayed was written under the tools as last built,      *)
(* until something changes them in a turn.                                    *)
ReasonInv ==
  ~disturbed =>
    /\ \A i \in DOMAIN written : i > since \/ i > agent.since => written[i] = tools
    /\ turn # Run!None => /\ turn.agent.prefix = tools
                          /\ \A i \in DOMAIN written : i > turn.agent.since => written[i] = tools

SessionInv == SettingsTyped /\ BuiltTyped /\ AgentInv /\ ToolsInv /\ ChosenInv /\ TurnInv /\ ReasonInv

-----------------------------------------------------------------------------

LEMMA NoneIsNone == Run!None \notin AnyChoice /\ Run!None \notin AnyTurn
<1>1. DOMAIN Run!None = {"none"}
  BY DEF Run!None
<1>2. \A c \in AnyChoice : "ref" \in DOMAIN c
  BY DEF AnyChoice
<1>3. \A t \in AnyTurn : "agent" \in DOMAIN t
  BY DEF AnyTurn
<1>4. QED
  BY <1>1, <1>2, <1>3

LEMMA SessionInit == Run!Init => SessionInv
<1> SUFFICES ASSUME Run!Init PROVE SessionInv
  OBVIOUS
<1>1. PICK ref \in Models : choice = [ref |-> ref, n |-> 0] /\ info = Run!Lookup(ref) /\ chosen = ref
  BY DEF Run!Init
<1>2. SettingsTyped
  BY <1>1 DEF Run!Init, SettingsTyped, AnyChoice, AnyInfo, AnyMode, Run!Lookup
<1>3. Run!Held = FALSE
  BY <1>1 DEF Run!Held, Run!Lookup
<1>4. tools \in AnyPrefix
  BY <1>2, <1>3 DEF Run!Init, SettingsTyped, AnyPrefix, AnyTools, AnyChoice, Run!Assembled,
       Run!Offered
<1>5. BuiltTyped
  BY <1>2, <1>4 DEF Run!Init, SettingsTyped, BuiltTyped, AnyAgent, AnyChoice, Run!Built
<1>6. AgentInv /\ ToolsInv
  BY DEF Run!Init, AgentInv, ToolsInv, Run!Built, Run!Assembled, Run!Offered
<1>7. ChosenInv /\ TurnInv
  BY <1>1 DEF Run!Init, ChosenInv, TurnInv, Run!Lookup
<1>8. ReasonInv
  BY DEF Run!Init, ReasonInv
<1>9. QED
  BY <1>2, <1>5, <1>6, <1>7, <1>8 DEF SessionInv

-----------------------------------------------------------------------------
(* Building.                                                                  *)

(* What the settings assemble, and an agent built from what was assembled.    *)
LEMMA AssembledIs ==
  ASSUME SettingsTyped', tools' = Run!Assembled'
  PROVE  /\ tools' \in AnyPrefix
         /\ tools'.model = choice'.ref /\ tools'.tools.mode = mode'
         /\ tools'.tools.offer = offer' /\ tools'.tools.loaded = loaded' /\ tools'.tools.held = Run!Held'
         /\ tools'.tools.narrowed = narrowed'
<1>1. Run!Held' \in BOOLEAN
  BY DEF SettingsTyped, AnyInfo, Run!Held
<1>2. QED
  BY <1>1 DEF SettingsTyped, AnyChoice, AnyPrefix, AnyTools, Run!Assembled, Run!Offered

LEMMA BuiltIs ==
  ASSUME SettingsTyped', tools' \in AnyPrefix, since' \in Nat, agent' = Run!Built'
  PROVE  agent' \in AnyAgent /\ AgentInv' /\ agent'.since = since'
BY DEF SettingsTyped, AnyChoice, AnyAgent, AgentInv, Run!Built

(* The turn keeps its agent when another is built.                            *)
TurnKept ==
  /\ turn' = Run!None <=> turn = Run!None
  /\ turn' \in AnyTurn \cup {Run!None}
  /\ turn # Run!None => turn'.agent = turn.agent

LEMMA KeepsTurn ==
  ASSUME SessionInv,
         \/ turn' = turn
         \/ turn' = IF turn = Run!None THEN Run!None ELSE [turn EXCEPT !.same = FALSE]
         \/ turn' = IF turn = Run!None THEN Run!None ELSE [turn EXCEPT !.same = FALSE, !.shares = FALSE]
  PROVE  TurnKept
<1>1. CASE turn = Run!None
  BY <1>1 DEF TurnKept
<1>2. CASE turn # Run!None
  <2>1. turn \in AnyTurn
    BY <1>2 DEF SessionInv, BuiltTyped
  <2>2. turn' \in AnyTurn /\ turn'.agent = turn.agent
    BY <1>2, <2>1 DEF AnyTurn
  <2>3. QED
    BY <1>2, <2>1, <2>2, NoneIsNone DEF TurnKept
<1>3. QED
  BY <1>1, <1>2

(* A rebuild, after a change of the settings that keeps the turn running or   *)
(* not.                                                                       *)
LEMMA RebuildInv ==
  ASSUME SessionInv, Run!Reassemble, SettingsTyped', ChosenInv', info'.of = choice'.ref,
         written' = written, phase' = "turn" <=> phase = "turn"
  PROVE  SessionInv'
<1>1. /\ tools' = Run!Assembled' /\ since' = Len(written) /\ agent' = Run!Built'
      /\ disturbed' = (disturbed \/ turn # Run!None)
  BY DEF Run!Reassemble
<1>2. TurnKept
  BY KeepsTurn DEF Run!Reassemble
<1>3. since' \in Nat
  BY <1>1 DEF SessionInv, BuiltTyped
<1>4. AgentInv' /\ agent' \in AnyAgent /\ agent'.since = since'
  BY <1>1, <1>3, AssembledIs, BuiltIs
<1>5. ToolsInv' /\ tools' \in AnyPrefix
  BY <1>1, AssembledIs DEF ToolsInv
<1>6. BuiltTyped'
  BY <1>2, <1>3, <1>4, <1>5 DEF SessionInv, BuiltTyped, TurnKept
<1>7. TurnInv'
  BY <1>2 DEF SessionInv, TurnInv, TurnKept
<1>8. ReasonInv'
  <2>1. \A i \in DOMAIN written' : ~(i > since')
    BY <1>1 DEF SessionInv, BuiltTyped
  <2>2. ~disturbed' => turn' = Run!None
    BY <1>1, <1>2 DEF TurnKept
  <2>3. QED
    BY <1>4, <2>1, <2>2 DEF ReasonInv
<1>9. QED
  BY <1>4, <1>5, <1>6, <1>7, <1>8 DEF SessionInv

-----------------------------------------------------------------------------
(* The settings.                                                              *)

LEMMA SwitchToIs ==
  ASSUME SettingsTyped, NEW ref \in Models, Run!SwitchTo(ref)
  PROVE  /\ choice' \in AnyChoice /\ choice'.ref = ref /\ choice' # choice
         /\ info' \in AnyInfo /\ info'.of = choice'.ref
<1>1. choice.n \in Nat /\ choice' = [ref |-> ref, n |-> choice.n + 1] /\ info' = [of |-> ref, said |-> FALSE]
  BY DEF SettingsTyped, AnyChoice, Run!SwitchTo, Run!Lookup
<1>2. choice'.n # choice.n
  BY <1>1
<1>3. QED
  BY <1>1, <1>2 DEF AnyChoice, AnyInfo

LEMMA SetModelInv == ASSUME SessionInv, NEW ref \in Models, Run!SetModel(ref) PROVE SessionInv'
<1>1. /\ Run!SwitchTo(ref) /\ Run!Reassemble /\ chosen' = IF restore = Run!None THEN ref ELSE chosen
      /\ UNCHANGED <<phase, restore, mode, before, narrowed, offer, loaded, written>>
  BY DEF Run!SetModel
<1>2. choice' \in AnyChoice /\ choice'.ref = ref /\ info' \in AnyInfo /\ info'.of = choice'.ref
  BY <1>1, SwitchToIs DEF SessionInv
<1>3. SettingsTyped'
  BY <1>1, <1>2 DEF SessionInv, SettingsTyped
<1>4. ChosenInv'
  BY <1>1, <1>2 DEF SessionInv, ChosenInv
<1>5. QED
  BY <1>1, <1>2, <1>3, <1>4, RebuildInv

LEMMA SwitchModeInv == ASSUME SessionInv, NEW m \in AnyMode, Run!SwitchMode(m) PROVE SessionInv'
<1>1. /\ Run!Reassemble /\ mode' = m /\ before' = IF m = "plan" THEN mode ELSE "none"
      /\ UNCHANGED <<phase, choice, info, restore, chosen, narrowed, offer, loaded, written>>
  BY DEF Run!SwitchMode
<1>2. SettingsTyped'
  BY <1>1 DEF SessionInv, SettingsTyped
<1>3. ChosenInv' /\ info'.of = choice'.ref
  BY <1>1 DEF SessionInv, ChosenInv, TurnInv
<1>4. QED
  BY <1>1, <1>2, <1>3, RebuildInv

(* An answer about the model in use rebuilds its agent, and its tools when it *)
(* changes which of them are held back.                                       *)
LEMMA AnsweredInv == ASSUME SessionInv, NEW c, Run!Answered(c) PROVE SessionInv'
<1>1. /\ info' = info \/ info' = Run!Taken(c)
      /\ UNCHANGED <<phase, choice, restore, chosen, mode, before, narrowed, offer, loaded, written>>
  BY DEF Run!Answered
<1>2. info' \in AnyInfo /\ info'.of = choice'.ref
  <2>1. choice.ref \in Models
    BY DEF SessionInv, SettingsTyped, AnyChoice
  <2>2. Run!Taken(c) = info \/ Run!Taken(c) = [of |-> choice.ref, said |-> TRUE]
    BY DEF Run!Taken
  <2>3. info \in AnyInfo /\ info.of = choice.ref
    BY DEF SessionInv, SettingsTyped, TurnInv
  <2>4. CASE info' = info
    BY <1>1, <2>3, <2>4
  <2>5. CASE info' = [of |-> choice.ref, said |-> TRUE]
    BY <1>1, <2>1, <2>5 DEF AnyInfo
  <2>6. QED
    BY <1>1, <2>2, <2>4, <2>5
<1>3. SettingsTyped'
  BY <1>1, <1>2 DEF SessionInv, SettingsTyped
<1>4. ChosenInv'
  BY <1>1 DEF SessionInv, ChosenInv
<1>5. CASE info' = info /\ UNCHANGED <<tools, agent, turn, since, disturbed>>
  <2>1. Run!Held' = Run!Held
    BY <1>5 DEF Run!Held
  <2>2. BuiltTyped' /\ AgentInv' /\ ToolsInv' /\ TurnInv' /\ ReasonInv'
    BY <1>1, <1>5, <2>1 DEF SessionInv, BuiltTyped, AgentInv, ToolsInv, TurnInv, ReasonInv
  <2>3. QED
    BY <1>3, <1>4, <2>2 DEF SessionInv
<1>6. CASE Run!Reassemble
  BY <1>1, <1>2, <1>3, <1>4, <1>6, RebuildInv
<1>7. CASE Run!Held' = tools.tools.held /\ UNCHANGED <<tools, since, disturbed>> /\ Run!BuildAgent
  <2>1. TurnKept
    BY <1>7, KeepsTurn DEF Run!BuildAgent
  <2>2. agent' \in AnyAgent /\ AgentInv' /\ agent'.since = since'
    BY <1>3, <1>7, BuiltIs DEF SessionInv, BuiltTyped, Run!BuildAgent
  <2>3. BuiltTyped'
    BY <1>1, <1>7, <2>1, <2>2 DEF SessionInv, BuiltTyped, TurnKept
  <2>4. ToolsInv'
    BY <1>1, <1>7 DEF SessionInv, ToolsInv
  <2>5. TurnInv'
    BY <1>1, <1>2, <2>1 DEF SessionInv, TurnInv, TurnKept
  <2>6. ReasonInv'
    BY <1>1, <1>7, <2>1, <2>2 DEF SessionInv, ReasonInv, TurnKept
  <2>7. QED
    BY <1>3, <1>4, <2>2, <2>3, <2>4, <2>5, <2>6 DEF SessionInv
<1>8. QED
  BY <1>5, <1>6, <1>7 DEF Run!Answered

-----------------------------------------------------------------------------
(* A turn.                                                                    *)

LEMMA RunsInv ==
  ASSUME SessionInv, NEW named, named = Run!None \/ named.ref \in Models,
         NEW narrows \in BOOLEAN, NEW offers \in BOOLEAN, Run!Run(named, narrows, offers)
  PROVE  SessionInv'
<1>1. /\ phase = "idle" /\ phase' = "readying" /\ narrowed' = narrows /\ offer' = offers
      /\ UNCHANGED <<chosen, mode, before, loaded, written>>
  BY DEF Run!Run
<1>2. restore = Run!None /\ chosen = choice.ref /\ ~narrowed /\ ~offer /\ turn = Run!None
  BY <1>1 DEF SessionInv, ChosenInv, TurnInv
<1>3. \/ /\ choice' \in AnyChoice /\ choice' # choice /\ info' \in AnyInfo /\ info'.of = choice'.ref /\ restore' = choice
      \/ UNCHANGED <<choice, info, restore>>
  <2>1. CASE named # Run!None /\ Run!SwitchTo(named.ref) /\ restore' = choice
    BY <2>1, SwitchToIs DEF SessionInv
  <2>2. CASE Run!NoSwitch /\ UNCHANGED restore
    BY <2>2 DEF Run!NoSwitch
  <2>3. QED
    BY <2>1, <2>2 DEF Run!Run
<1>4. SettingsTyped'
  BY <1>1, <1>3 DEF SessionInv, SettingsTyped
<1>5. ChosenInv' /\ info'.of = choice'.ref
  BY <1>1, <1>2, <1>3, NoneIsNone DEF SessionInv, SettingsTyped, ChosenInv, TurnInv
<1>6. CASE Run!Reassemble
  BY <1>1, <1>4, <1>5, <1>6, RebuildInv
<1>7. CASE choice' = choice /\ ~narrows /\ ~offers /\ UNCHANGED <<tools, agent, turn, since, disturbed>>
  <2>1. info' = info /\ narrowed' = narrowed /\ offer' = offer
    BY <1>1, <1>2, <1>3, <1>7 DEF SessionInv, SettingsTyped
  <2>2. Run!Held' = Run!Held
    BY <2>1 DEF Run!Held
  <2>3. BuiltTyped' /\ AgentInv' /\ ToolsInv' /\ TurnInv' /\ ReasonInv'
    BY <1>1, <1>2, <1>7, <2>1, <2>2 DEF SessionInv, BuiltTyped, AgentInv, ToolsInv, TurnInv,
         ReasonInv
  <2>4. QED
    BY <1>4, <1>5, <2>3 DEF SessionInv
<1>8. QED
  BY <1>6, <1>7 DEF Run!Run

(* The end of a turn takes back what was the turn's.                          *)
LEMMA FinallyInv ==
  ASSUME SessionInv, phase \in {"readying", "preparing", "turn"}, Run!Finally
  PROVE  SessionInv'
<1> DEFINE back == restore # Run!None /\ Run!Configured(restore.ref)
           throws == restore # Run!None /\ ~back
<1>1. /\ phase' = IF throws THEN "stuck" ELSE "idle"
      /\ ~narrowed' /\ narrowed' \in BOOLEAN /\ ~offer' /\ offer' \in BOOLEAN /\ restore' = Run!None /\ turn' = Run!None
      /\ IF back THEN Run!SwitchTo(restore.ref) ELSE Run!NoSwitch
      /\ UNCHANGED <<chosen, mode, before, loaded, written, disturbed>>
      /\ IF narrowed \/ offer \/ back
         THEN tools' = Run!Assembled' /\ since' = Len(written) /\ agent' = Run!Built'
         ELSE UNCHANGED <<tools, since, agent>>
  BY DEF Run!Finally, Run!LetGo
<1> HIDE DEF throws
<1>2. \/ /\ back /\ choice' \in AnyChoice /\ choice'.ref = restore.ref /\ info' \in AnyInfo /\ info'.of = choice'.ref
      \/ ~back /\ UNCHANGED <<choice, info>>
  <2>1. CASE back
    <3>1. restore \in AnyChoice /\ restore.ref \in Models
      BY <2>1 DEF SessionInv, SettingsTyped, AnyChoice
    <3>2. QED
      BY <1>1, <2>1, <3>1, SwitchToIs DEF SessionInv
  <2>2. CASE ~back
    BY <1>1, <2>2 DEF Run!NoSwitch
  <2>3. QED
    BY <2>1, <2>2
<1>3. SettingsTyped' /\ info'.of = choice'.ref
  BY <1>1, <1>2 DEF SessionInv, SettingsTyped, TurnInv
<1>4. ChosenInv'
  BY <1>1, <1>2 DEF SessionInv, ChosenInv, throws
<1>5. TurnInv'
  BY <1>1, <1>3 DEF TurnInv
<1>6. CASE narrowed \/ offer \/ back
  <2>1. tools' = Run!Assembled' /\ since' = Len(written) /\ agent' = Run!Built' /\ since' \in Nat
    BY <1>1, <1>6 DEF SessionInv, BuiltTyped
  <2>2. tools' \in AnyPrefix /\ ToolsInv'
    BY <1>3, <2>1, AssembledIs DEF ToolsInv
  <2>3. agent' \in AnyAgent /\ AgentInv' /\ agent'.since = since'
    BY <1>3, <2>1, <2>2, BuiltIs
  <2>4. BuiltTyped'
    BY <1>1, <2>1, <2>2, <2>3 DEF SessionInv, BuiltTyped
  <2>5. ReasonInv'
    BY <1>1, <2>1, <2>3 DEF SessionInv, BuiltTyped, ReasonInv
  <2>6. QED
    BY <1>3, <1>4, <1>5, <2>2, <2>3, <2>4, <2>5 DEF SessionInv
<1>7. CASE ~(narrowed \/ offer \/ back)
  <2>1. UNCHANGED <<tools, since, agent, choice, info>> /\ narrowed' = narrowed /\ offer' = offer
    BY <1>1, <1>2, <1>7 DEF SessionInv, SettingsTyped
  <2>2. Run!Held' = Run!Held
    BY <2>1 DEF Run!Held
  <2>3. BuiltTyped' /\ AgentInv' /\ ToolsInv' /\ ReasonInv'
    BY <1>1, <1>7, <2>1, <2>2 DEF SessionInv, BuiltTyped, AgentInv, ToolsInv, ReasonInv
  <2>4. QED
    BY <1>3, <1>4, <1>5, <2>3 DEF SessionInv
<1>8. QED
  BY <1>6, <1>7

(* A step that leaves the settings and what was built alone.                  *)
LEMMA LeavesSettings ==
  ASSUME SessionInv, UNCHANGED <<choice, info, restore, chosen, mode, before, narrowed, offer, loaded, tools, agent,
                                 written, since, disturbed>>, turn' = turn,
         phase' = "turn" <=> phase = "turn",
         phase' \in {"idle", "compacting", "stuck"} => phase \in {"idle", "compacting", "stuck"},
         phase = "stuck" => phase' = "stuck"
  PROVE  SessionInv'
<1>1. Run!Held' = Run!Held
  BY DEF Run!Held
<1>2. QED
  BY <1>1 DEF SessionInv, SettingsTyped, BuiltTyped, AgentInv, ToolsInv, ChosenInv, TurnInv,
       ReasonInv

LEMMA TurnBeginsInv == ASSUME SessionInv, Run!Begin PROVE SessionInv'
<1>1. /\ phase = "preparing" /\ phase' = "turn" /\ turn' = [agent |-> agent, same |-> TRUE, shares |-> TRUE]
      /\ UNCHANGED <<choice, info, restore, chosen, mode, before, narrowed, offer, loaded, tools, agent,
                     written, since, disturbed>>
  BY DEF Run!Begin
<1>2. Run!Held' = Run!Held
  BY <1>1 DEF Run!Held
<1>3. turn' \in AnyTurn /\ turn'.agent = agent
  BY <1>1 DEF SessionInv, BuiltTyped, AnyTurn
<1>4. SettingsTyped' /\ BuiltTyped' /\ AgentInv' /\ ToolsInv' /\ ChosenInv'
  BY <1>1, <1>2, <1>3 DEF SessionInv, SettingsTyped, BuiltTyped, AgentInv, ToolsInv, ChosenInv
<1>5. TurnInv'
  BY <1>1, <1>3, NoneIsNone DEF SessionInv, TurnInv, AgentInv
<1>6. ReasonInv'
  BY <1>1, <1>3 DEF SessionInv, ReasonInv, AgentInv
<1>7. QED
  BY <1>4, <1>5, <1>6 DEF SessionInv

LEMMA StepInv == ASSUME SessionInv, Run!Step PROVE SessionInv'
<1>1. /\ phase = "turn" /\ written' = Append(written, turn.agent.prefix)
      /\ UNCHANGED <<phase, choice, info, restore, chosen, mode, before, narrowed, offer, loaded, tools, agent,
                     turn, since, disturbed>>
  BY DEF Run!Step
<1>2. Run!Held' = Run!Held
  BY <1>1 DEF Run!Held
<1>3. turn \in AnyTurn /\ turn # Run!None /\ turn.agent.prefix \in AnyPrefix
  BY <1>1 DEF SessionInv, TurnInv, BuiltTyped, AnyTurn, AnyAgent
<1>4. written' \in Seq(AnyPrefix)
  BY <1>1, <1>3 DEF SessionInv, BuiltTyped
<1>5. SettingsTyped' /\ BuiltTyped' /\ AgentInv' /\ ToolsInv' /\ ChosenInv' /\ TurnInv'
  BY <1>1, <1>2, <1>4 DEF SessionInv, SettingsTyped, BuiltTyped, AgentInv, ToolsInv, ChosenInv,
       TurnInv
<1>6. \A i \in DOMAIN written' : (i \in DOMAIN written /\ written'[i] = written[i]) \/ written'[i] = turn.agent.prefix
  BY <1>1, <1>3 DEF SessionInv, BuiltTyped
<1>7. ReasonInv'
  BY <1>1, <1>3, <1>6 DEF SessionInv, ReasonInv
<1>8. QED
  BY <1>5, <1>7 DEF SessionInv

LEMMA LoadInv == ASSUME SessionInv, Run!Load PROVE SessionInv'
<1>1. /\ phase = "turn" /\ loaded' = TRUE /\ disturbed' = TRUE
      /\ tools' = [tools EXCEPT !.tools.loaded = TRUE]
      /\ agent' = [agent EXCEPT !.prefix.tools.loaded = TRUE]
      /\ turn' = IF turn.shares THEN [turn EXCEPT !.agent.prefix.tools.loaded = TRUE] ELSE turn
      /\ UNCHANGED <<phase, choice, info, restore, chosen, mode, before, narrowed, offer, written, since>>
  BY DEF Run!Load
<1>2. Run!Held' = Run!Held
  BY <1>1 DEF Run!Held
<1>3. /\ tools' \in AnyPrefix /\ tools'.model = tools.model /\ tools'.tools.loaded
      /\ tools'.tools.mode = tools.tools.mode /\ tools'.tools.offer = tools.tools.offer
      /\ tools'.tools.held = tools.tools.held /\ tools'.tools.narrowed = tools.tools.narrowed
      /\ tools'.tools.loaded = TRUE
  BY <1>1 DEF SessionInv, BuiltTyped, AnyPrefix, AnyTools
<1>4. /\ agent' \in AnyAgent /\ agent'.model = agent.model /\ agent'.info = agent.info /\ agent'.since = agent.since
      /\ agent'.prefix = tools'
  BY <1>1 DEF SessionInv, BuiltTyped, AgentInv, AnyAgent, AnyPrefix, AnyTools
<1>5. turn \in AnyTurn /\ turn # Run!None
  BY <1>1 DEF SessionInv, TurnInv, BuiltTyped
<1>6. turn' \in AnyTurn /\ turn'.agent.info = turn.agent.info /\ turn'.agent.model = turn.agent.model
  BY <1>1, <1>5 DEF AnyTurn, AnyAgent, AnyPrefix, AnyTools
<1>7. SettingsTyped' /\ BuiltTyped'
  BY <1>1, <1>3, <1>4, <1>6 DEF SessionInv, SettingsTyped, BuiltTyped
<1>8. AgentInv' /\ ToolsInv' /\ ChosenInv'
  BY <1>1, <1>2, <1>3, <1>4 DEF SessionInv, AgentInv, ToolsInv, ChosenInv
<1>9. TurnInv' /\ ReasonInv'
  BY <1>1, <1>5, <1>6, NoneIsNone DEF SessionInv, TurnInv, ReasonInv
<1>10. QED
  BY <1>7, <1>8, <1>9 DEF SessionInv

LEMMA SkillNarrowsInv == ASSUME SessionInv, Run!SkillNarrows PROVE SessionInv'
<1>1. /\ phase = "turn" /\ narrowed' = TRUE
      /\ UNCHANGED <<phase, choice, info, restore, chosen, mode, before, offer, loaded, tools, agent, turn,
                     written, since, disturbed>>
  BY DEF Run!SkillNarrows
<1>2. Run!Held' = Run!Held
  BY <1>1 DEF Run!Held
<1>3. SettingsTyped' /\ BuiltTyped' /\ AgentInv' /\ ChosenInv' /\ TurnInv' /\ ReasonInv'
  BY <1>1 DEF SessionInv, SettingsTyped, BuiltTyped, AgentInv, ChosenInv, TurnInv, ReasonInv
<1>4. ToolsInv'
  BY <1>1, <1>2 DEF SessionInv, ToolsInv
<1>5. QED
  BY <1>3, <1>4 DEF SessionInv

(* Moving the time that reasoning is replayed from to now leaves none behind. *)
LEMMA TimesInv ==
  ASSUME SessionInv,
         UNCHANGED <<choice, info, restore, chosen, mode, before, narrowed, offer, loaded, tools,
         written, disturbed>>,
         \/ phase' = phase
         \/ phase = "compacting" /\ phase' = "idle",
         since' \in {since, Len(written)},
         agent' = [agent EXCEPT !.since = Len(written)] \/ agent' = agent,
         turn' = turn \/ (turn \in AnyTurn /\ turn' = [turn EXCEPT !.agent.since = Len(written)])
  PROVE  SessionInv'
<1>1. Run!Held' = Run!Held
  BY DEF Run!Held
<1>2. Len(written) \in Nat /\ \A i \in DOMAIN written : ~(i > Len(written))
  BY DEF SessionInv, BuiltTyped
<1>3. /\ agent' \in AnyAgent /\ agent'.prefix = agent.prefix /\ agent'.model = agent.model /\ agent'.info = agent.info
      /\ agent'.since \in {agent.since, Len(written)}
  BY <1>2 DEF SessionInv, BuiltTyped, AnyAgent
<1>4. /\ turn' \in AnyTurn \cup {Run!None} /\ (turn' = Run!None <=> turn = Run!None)
      /\ turn # Run!None => /\ turn'.agent.prefix = turn.agent.prefix /\ turn'.agent.model = turn.agent.model
                            /\ turn'.agent.info = turn.agent.info
                            /\ turn'.agent.since \in {turn.agent.since, Len(written)}
  <2>1. CASE turn' = turn
    BY <2>1 DEF SessionInv, BuiltTyped
  <2>2. CASE turn \in AnyTurn /\ turn' = [turn EXCEPT !.agent.since = Len(written)]
    <3>1. /\ turn' \in AnyTurn
          /\ turn'.agent.prefix = turn.agent.prefix /\ turn'.agent.model = turn.agent.model
          /\ turn'.agent.info = turn.agent.info /\ turn'.agent.since = Len(written)
      BY <1>2, <2>2 DEF AnyTurn, AnyAgent
    <3>2. QED
      BY <2>2, <3>1, NoneIsNone
  <2>3. QED
    BY <2>1, <2>2
<1>5. SettingsTyped' /\ BuiltTyped' /\ AgentInv'
  BY <1>2, <1>3, <1>4 DEF SessionInv, SettingsTyped, BuiltTyped, AgentInv
<1>6. ToolsInv' /\ ChosenInv' /\ TurnInv'
  BY <1>1, <1>4 DEF SessionInv, ToolsInv, ChosenInv, TurnInv
<1>7. ReasonInv'
  BY <1>2, <1>3, <1>4 DEF SessionInv, ReasonInv
<1>8. QED
  BY <1>5, <1>6, <1>7 DEF SessionInv

LEMMA SessionStep == ASSUME SessionInv, [Run!Next]_(Run!vars) PROVE SessionInv'
<1>1. ASSUME NEW ref \in Models, Run!SetModel(ref) PROVE SessionInv'
  BY <1>1, SetModelInv
<1>2. ASSUME NEW c \in asked, Run!Answered(c) PROVE SessionInv'
  BY <1>2, AnsweredInv
<1>3. ASSUME NEW m \in Modes, Run!SwitchMode(m) PROVE SessionInv'
  BY <1>3, SwitchModeInv DEF AnyMode
<1>4. CASE Run!ExitPlanMode
  <2>1. (IF before = "none" THEN "default" ELSE before) \in AnyMode
    BY DEF SessionInv, SettingsTyped, AnyMode
  <2>2. QED
    BY <1>4, <2>1, SwitchModeInv DEF Run!ExitPlanMode
<1>5. ASSUME NEW named \in {Run!None} \cup [ref : Models], NEW narrows \in BOOLEAN, NEW offers \in BOOLEAN,
             Run!Run(named, narrows, offers)
      PROVE  SessionInv'
  BY <1>5, RunsInv
<1>6. CASE Run!Ready
  BY <1>6, FinallyInv, LeavesSettings DEF Run!Ready
<1>7. CASE Run!Begin
  BY <1>7, TurnBeginsInv
<1>8. CASE Run!End
  BY <1>8, FinallyInv DEF Run!End
<1>9. CASE Run!Step \/ Run!Load \/ Run!SkillNarrows
  BY <1>9, StepInv, LoadInv, SkillNarrowsInv
<1>10. CASE Run!Elide
  <2>1. turn \in AnyTurn
    BY <1>10 DEF Run!Elide, SessionInv, TurnInv, BuiltTyped
  <2>2. QED
    BY <1>10, <2>1, TimesInv DEF Run!Elide
<1>11. CASE Run!Compact
  BY <1>11, LeavesSettings DEF Run!Compact
<1>12. CASE Run!Compacted
  <2>1. agent' = [agent EXCEPT !.since = Len(written)] \/ agent' = agent
    BY <1>12 DEF Run!Compacted, SessionInv, BuiltTyped, AnyAgent
  <2>2. QED
    BY <1>12, <2>1, TimesInv DEF Run!Compacted
<1>13. CASE UNCHANGED Run!vars
  BY <1>13, LeavesSettings DEF Run!vars, SessionInv
<1>14. QED
  BY <1>1, <1>2, <1>3, <1>4, <1>5, <1>6, <1>7, <1>8, <1>9, <1>10, <1>11, <1>12, <1>13 DEF Run!Next

(* The session's invariant holds throughout, whatever changes while it runs.  *)
THEOREM SessionInvariant == Run!Spec => []SessionInv
BY SessionInit, SessionStep, PTL DEF Run!Spec

LEMMA SessionMeans == SessionInv => Run!SettlesBack /\ Run!SizedForItsModel /\ Run!ReasoningHoldsBetweenTurns
<1> SUFFICES ASSUME SessionInv PROVE Run!SettlesBack /\ Run!SizedForItsModel /\ Run!ReasoningHoldsBetweenTurns
  OBVIOUS
<1>1. ASSUME phase = "idle" PROVE tools = Run!Assembled /\ agent = [Run!Built EXCEPT !.since = agent.since] /\ choice.ref = chosen
  <2>1. tools.tools.narrowed = narrowed /\ choice.ref = chosen
    BY <1>1 DEF SessionInv, ToolsInv, ChosenInv
  <2>2. tools.tools = Run!Offered
    BY <2>1 DEF SessionInv, BuiltTyped, AnyPrefix, AnyTools, ToolsInv, Run!Offered
  <2>3. tools = Run!Assembled
    BY <2>2 DEF SessionInv, BuiltTyped, AnyPrefix, ToolsInv, Run!Assembled
  <2>4. agent = [Run!Built EXCEPT !.since = agent.since]
    BY DEF SessionInv, BuiltTyped, AnyAgent, AgentInv, Run!Built
  <2>5. QED
    BY <2>1, <2>3, <2>4
<1>2. Run!SettlesBack
  BY <1>1 DEF Run!SettlesBack, SessionInv, ChosenInv
<1>3. Run!SizedForItsModel
  BY DEF Run!SizedForItsModel, SessionInv, AgentInv, TurnInv
<1>4. Run!ReasoningHoldsBetweenTurns
  BY DEF Run!ReasoningHoldsBetweenTurns, Run!ReasoningHolds, SessionInv, ReasonInv
<1>5. QED
  BY <1>2, <1>3, <1>4

(* Between turns the session is as its settings say, requests are sized by    *)
(* what is known of their model, and reasoning is replayed only under what it *)
(* was written under: for any models, modes, switches and replies.            *)
THEOREM SettlesAlways ==
  Run!Spec => [](Run!SettlesBack /\ Run!SizedForItsModel /\ Run!ReasoningHoldsBetweenTurns)
BY SessionInvariant, SessionMeans, PTL

-----------------------------------------------------------------------------
(* What a session spent, and its handoff (Lifetime): for any sessions, totals *)
(* come back as they were, and the file says what the last one left.          *)

CONSTANTS Sessions, MaxSpent
VARIABLES stage, opened, spent, log, writing, raced, file, note

Life == INSTANCE Lifetime WITH mode <- opened

(* The handoff in the file is of a session that began, and the last it left.  *)
FileIsLast ==
  \A s \in Sessions : \A r \in Life!Reasons :
    file = [session |-> s, reason |-> r] => stage[s] # "none" /\ log[s].last = r
SessionLogs == [Sessions -> [spent : [own : Nat, delegated : Nat], any : BOOLEAN, last : {"none"} \cup Life!Reasons, since : BOOLEAN]]
LifetimeInv ==
  /\ DOMAIN stage = Sessions /\ DOMAIN writing = Sessions /\ DOMAIN raced = Sessions
  /\ spent \in [Sessions -> [own : Nat, delegated : Nat]] /\ log \in SessionLogs
  /\ \A s \in Sessions : spent[s] = log[s].spent
  /\ FileIsLast /\ Life!ResetIsKept

(* A session that writes or runs has begun.                                   *)
BegunBefore ==
  /\ DOMAIN stage = Sessions /\ DOMAIN writing = Sessions /\ DOMAIN opened = Sessions
  /\ \A s \in Sessions : writing[s] # {} \/ opened[s] # "none" => stage[s] # "none"

(* A session that writes a handoff, or was opened, has begun.                 *)
LEMMA BegunAlways == Life!Spec => []BegunBefore
<1>1. Life!Init => BegunBefore
  BY DEF Life!Init, BegunBefore
<1>2. BegunBefore /\ [Life!Next]_(Life!ltVars) => BegunBefore'
  <2> SUFFICES ASSUME BegunBefore, [Life!Next]_(Life!ltVars) PROVE BegunBefore'
    OBVIOUS
  <2> USE DEF BegunBefore, Life!kept, Life!lives, Life!told
  <2>1. CASE UNCHANGED Life!ltVars
    BY <2>1 DEF Life!ltVars
  <2>2. ASSUME NEW s \in Sessions, Life!OpensNew(s) \/ Life!Continues(s) \/ \E source \in Sessions : Life!Forks(s, source)
        PROVE  BegunBefore'
    BY <2>2 DEF Life!OpensNew, Life!Continues, Life!Forks, Life!Opens
  <2>3. ASSUME NEW s \in Sessions, Life!StartTurn(s) \/ Life!Says(s) \/ Life!StartCompact(s) \/ Life!Ends(s)
        PROVE  BegunBefore'
    BY <2>3 DEF Life!StartTurn, Life!Says, Life!StartCompact, Life!Ends
  <2>4. ASSUME NEW s \in Sessions, Life!Usage(s) \/ Life!CompleteOnce(s) \/ Life!ChildUsage(s)
        PROVE  BegunBefore'
    BY <2>4 DEF Life!Usage, Life!CompleteOnce, Life!ChildUsage
  <2>5. ASSUME NEW s \in Sessions, Life!Handoff(s) \/ Life!Drops(s) \/ Life!Close(s) PROVE BegunBefore'
    BY <2>5 DEF Life!Handoff, Life!Drops, Life!Close, Life!Begins
  <2>6. ASSUME NEW s \in Sessions, NEW reason, Life!Writes(s, reason) \/ Life!WriteFails(s, reason)
        PROVE  BegunBefore'
    BY <2>6 DEF Life!Writes, Life!WriteFails
  <2>7. ASSUME NEW s \in Sessions, Life!Closed(s) \/ Life!Crash(s) PROVE BegunBefore'
    BY <2>7 DEF Life!Closed, Life!Crash, Life!Gone
  <2> QED BY <2>1, <2>2, <2>3, <2>4, <2>5, <2>6, <2>7 DEF Life!Next
<1> QED BY <1>1, <1>2, PTL DEF Life!Spec

(* No session has begun, and there is no file.                                *)
LEMMA NoSessionInv == Life!Init => LifetimeInv
BY DEF Life!Init, LifetimeInv, SessionLogs, Life!Empty, Life!NewLog, FileIsLast, Life!SpendIsKept,
     Life!ResetIsKept, Life!None, Life!Reasons

(* Nothing of the handoff changes, and no session's stage but one that opens. *)
LEMMA SameHandoff ==
  ASSUME LifetimeInv, UNCHANGED <<writing, raced, file>>, log' \in SessionLogs,
         \A s \in Sessions : /\ stage[s] # "none" => stage'[s] # "none" /\ log'[s].last = log[s].last
                             /\ ~ log'[s].since /\ stage[s] # "none" => ~ log[s].since
                             /\ log'[s].any /\ ~ log'[s].since /\ stage[s] # "none" => log[s].any
  PROVE  FileIsLast' /\ Life!ResetIsKept'
BY DEF LifetimeInv, FileIsLast, Life!ResetIsKept, Life!Reasons

(* Whatever a session, its children, its end or a crash does next.            *)
LEMMA LifetimeNextInv == BegunBefore /\ LifetimeInv /\ [Life!Next]_(Life!ltVars) => LifetimeInv'
<1> SUFFICES ASSUME BegunBefore, LifetimeInv, [Life!Next]_(Life!ltVars) PROVE LifetimeInv'
  OBVIOUS
<1> DEFINE Spends == [own : Nat, delegated : Nat]
<1>0. \A s \in Sessions : spent[s] \in Spends /\ spent[s] = log[s].spent
           /\ log[s] \in [spent : Spends, any : BOOLEAN, last : {"none"} \cup Life!Reasons, since : BOOLEAN]
  BY DEF LifetimeInv, SessionLogs
<1>a. ASSUME UNCHANGED <<spent, log, writing, raced, file>>, DOMAIN stage' = Sessions,
             \A s \in Sessions : stage[s] # "none" => stage'[s] # "none"
      PROVE  LifetimeInv'
  <2>1. FileIsLast' /\ Life!ResetIsKept'
    BY <1>a, SameHandoff DEF LifetimeInv
  <2> QED BY <1>a, <2>1 DEF LifetimeInv
<1>1. ASSUME NEW s \in Sessions, Life!OpensNew(s) PROVE LifetimeInv'
  BY <1>a, <1>1 DEF Life!OpensNew, Life!Opens, Life!told, LifetimeInv
<1>2. ASSUME NEW s \in Sessions, Life!Continues(s) PROVE LifetimeInv'
  <2>1. stage' = [stage EXCEPT ![s] = "open"] /\ UNCHANGED <<log, writing, raced, file>>
        /\ spent' = [spent EXCEPT ![s] = log[s].spent]
    BY <1>2 DEF Life!Continues, Life!Opens, Life!kept
  <2>2. spent' = spent
    BY <1>0, <2>1 DEF LifetimeInv
  <2> QED BY <1>a, <2>1, <2>2 DEF LifetimeInv
<1>3. ASSUME NEW s \in Sessions, NEW source \in Sessions, Life!Forks(s, source) PROVE LifetimeInv'
  <2>1. /\ stage' = [stage EXCEPT ![s] = "open"] /\ UNCHANGED <<writing, raced, file>>
             /\ stage[s] = "none"
        /\ spent' = [spent EXCEPT ![s] = log[source].spent] /\ log' = [log EXCEPT ![s] = log[source]]
    BY <1>3 DEF Life!Forks, Life!Opens, Life!kept
  <2>2. spent' \in [Sessions -> Spends] /\ log' \in SessionLogs
             /\ \A t \in Sessions : spent'[t] = log'[t].spent
    BY <1>0, <2>1 DEF LifetimeInv, SessionLogs
  <2>3. FileIsLast' /\ Life!ResetIsKept'
    BY <2>1, <2>2, SameHandoff DEF LifetimeInv, SessionLogs
  <2> QED BY <2>1, <2>2, <2>3 DEF LifetimeInv
<1>4. ASSUME NEW s \in Sessions, UNCHANGED <<spent, writing, raced, file>>, DOMAIN stage' = Sessions,
             \A t \in Sessions : stage[t] # "none" => stage'[t] # "none",
             log' = [log EXCEPT ![s].any = TRUE, ![s].since = TRUE] \/ log' = [log EXCEPT ![s].since = TRUE]
      PROVE  LifetimeInv'
  <2>1. log' \in SessionLogs /\ \A t \in Sessions : log'[t].spent = log[t].spent
             /\ log'[t].last = log[t].last
    <3>1. CASE log' = [log EXCEPT ![s].any = TRUE, ![s].since = TRUE]
      BY <1>0, <3>1 DEF LifetimeInv, SessionLogs
    <3>2. CASE log' = [log EXCEPT ![s].since = TRUE]
      BY <1>0, <3>2 DEF LifetimeInv, SessionLogs
    <3> QED BY <1>4, <3>1, <3>2
  <2>2. \A t \in Sessions : ~ log'[t].since => log'[t] = log[t]
    BY <1>0, <1>4 DEF LifetimeInv, SessionLogs
  <2>3. FileIsLast' /\ Life!ResetIsKept'
    BY <1>4, <2>1, <2>2, SameHandoff DEF LifetimeInv
  <2> QED BY <1>4, <2>1, <2>3 DEF LifetimeInv
<1>5. ASSUME NEW s \in Sessions, NEW kind \in {"own", "delegated"}, Life!Account(s, kind),
             Life!Records(s, kind),
             UNCHANGED <<stage, writing, raced, file>>
      PROVE  LifetimeInv'
  <2>1. spent' = [spent EXCEPT ![s][kind] = @ + 1] /\ log' = [log EXCEPT ![s].spent[kind] = @ + 1]
    BY <1>5 DEF Life!Account, Life!Records
  <2>2. spent' \in [Sessions -> Spends]
    BY <1>0, <2>1 DEF LifetimeInv
  <2>3. log' \in SessionLogs
    <3> DEFINE l == log[s]
               m == [l EXCEPT !.spent[kind] = @ + 1]
    <3>1. [l.spent EXCEPT ![kind] = @ + 1] \in Spends
      BY <1>0
    <3>2. m \in [spent : Spends, any : BOOLEAN, last : {"none"} \cup Life!Reasons, since : BOOLEAN]
      BY <1>0, <3>1
    <3>3. log' = [log EXCEPT ![s] = m]
      BY <2>1
    <3> QED BY <3>2, <3>3 DEF LifetimeInv, SessionLogs
  <2>4. \A t \in Sessions : spent'[t] = log'[t].spent /\ log'[t].any = log[t].any
             /\ log'[t].since = log[t].since
                            /\ log'[t].last = log[t].last
    BY <1>0, <2>1 DEF LifetimeInv, SessionLogs
  <2>5. FileIsLast' /\ Life!ResetIsKept'
    BY <1>5, <2>3, <2>4, SameHandoff DEF LifetimeInv
  <2> QED BY <1>5, <2>2, <2>3, <2>4, <2>5 DEF LifetimeInv
<1>6. ASSUME NEW s \in Sessions, Life!StartTurn(s) \/ Life!Says(s) PROVE LifetimeInv'
  BY <1>4, <1>6 DEF Life!StartTurn, Life!Says, Life!lives, Life!kept, LifetimeInv
<1>7. ASSUME NEW s \in Sessions, Life!Usage(s) \/ Life!CompleteOnce(s) \/ Life!ChildUsage(s)
      PROVE  LifetimeInv'
  BY <1>5, <1>7 DEF Life!Usage, Life!CompleteOnce, Life!ChildUsage, Life!lives, Life!kept
<1>8. ASSUME NEW s \in Sessions, Life!StartCompact(s) \/ Life!Ends(s) PROVE LifetimeInv'
  BY <1>a, <1>8 DEF Life!StartCompact, Life!Ends, Life!told, Life!kept, LifetimeInv
<1>9. ASSUME NEW s \in Sessions, NEW reason \in Life!Reasons, Life!Begins(s, reason),
             UNCHANGED <<spent, log, raced, file>>,
             DOMAIN stage' = Sessions, \A t \in Sessions : stage[t] # "none" => stage'[t] # "none"
      PROVE  LifetimeInv'
  <2>1. FileIsLast'
    BY <1>9 DEF LifetimeInv, FileIsLast
  <2>2. DOMAIN writing' = Sessions /\ \A t \in Sessions : "end" \in writing'[t] =>
          "end" \in writing[t] \/ (t = s /\ reason = "end" /\ Life!Due(s, "end"))
    BY <1>9 DEF Life!Begins, LifetimeInv
  <2>3. Life!ResetIsKept'
    BY <1>9, <2>2 DEF LifetimeInv, Life!ResetIsKept, FileIsLast, Life!Due, Life!Reasons
  <2> QED BY <1>9, <2>1, <2>2, <2>3 DEF LifetimeInv
<1>10. ASSUME NEW s \in Sessions, Life!Handoff(s) \/ Life!Drops(s) \/ Life!Close(s) PROVE LifetimeInv'
  BY <1>9, <1>10 DEF Life!Handoff, Life!Drops, Life!Close, Life!lives, Life!told, LifetimeInv, Life!Reasons
<1>11. ASSUME NEW s \in Sessions, NEW reason \in Life!Reasons, Life!Writes(s, reason) PROVE LifetimeInv'
  <2>1. /\ reason \in writing[s] /\ writing' = [writing EXCEPT ![s] = @ \ {reason}]
        /\ file' = [session |-> s, reason |-> reason]
        /\ log' = [log EXCEPT ![s].last = reason, ![s].since = FALSE]
        /\ raced' = [raced EXCEPT ![s] = @ \/ (reason = "reset" /\ "end" \in writing[s])]
        /\ UNCHANGED <<stage, spent>>
    BY <1>11 DEF Life!Writes, Life!lives
  <2>2. log' \in SessionLogs /\ log'[s].last = reason
             /\ \A t \in Sessions : log'[t].spent = log[t].spent
    BY <1>0, <2>1 DEF LifetimeInv, SessionLogs
  <2>3. ASSUME NEW t \in Sessions, NEW r \in Life!Reasons, file' = [session |-> t, reason |-> r]
        PROVE  t = s /\ r = reason
    <3>1. file'.session = t /\ file'.reason = r
      BY <2>3
    <3> QED BY <2>1, <3>1
  <2>4. stage[s] # "none"
    BY <2>1 DEF BegunBefore
  <2>5. FileIsLast'
    BY <2>1, <2>2, <2>3, <2>4 DEF FileIsLast
  <2>6. Life!ResetIsKept'
    BY <2>1, <2>3 DEF LifetimeInv, Life!ResetIsKept, Life!Reasons
  <2> QED BY <2>1, <2>2, <2>5, <2>6 DEF LifetimeInv
<1>12. ASSUME NEW s \in Sessions, NEW reason \in Life!Reasons, Life!WriteFails(s, reason)
       PROVE  LifetimeInv'
  BY <1>12 DEF Life!WriteFails, Life!lives, Life!told, LifetimeInv, FileIsLast, Life!ResetIsKept
<1>13. ASSUME NEW s \in Sessions, Life!Closed(s) \/ Life!Crash(s) PROVE LifetimeInv'
  BY <1>13 DEF Life!Closed, Life!Crash, Life!Gone, Life!told, LifetimeInv, FileIsLast, Life!ResetIsKept
<1>14. CASE UNCHANGED Life!ltVars
  BY <1>14 DEF Life!ltVars, LifetimeInv, FileIsLast, Life!ResetIsKept
<1> QED BY <1>1, <1>2, <1>3, <1>6, <1>7, <1>8, <1>10, <1>11, <1>12, <1>13, <1>14 DEF Life!Next

(* What an open session says it has spent is what its log holds, however it   *)
(* was opened and whatever spent it; and a reset the person asked for is      *)
(* never about to be written over by the end of its session, unless it was    *)
(* still being written when the session closed (catalog/cost.ts,              *)
(* verify/handoff.ts).                                                        *)
THEOREM LifetimesHold == Life!Spec => []Life!LifetimeHolds
<1>1. LifetimeInv => Life!LifetimeHolds
  BY DEF LifetimeInv, Life!LifetimeHolds, Life!SpendIsKept
<1> QED BY <1>1, NoSessionInv, LifetimeNextInv, BegunAlways, PTL DEF Life!Spec
===============================================================================
