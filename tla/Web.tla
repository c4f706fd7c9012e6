--------------------------------- MODULE Web ---------------------------------
(* web_fetch (core/tools/web/index.ts).  A page is asked for, and its         *)
(* redirects are followed by hand: on the same host, and not for ever.  What  *)
(* a page said is kept in memory under the URL it was read from, for a time   *)
(* and within a number of bytes.  The calls of all sessions of the process    *)
(* share the cache, and several of them may fetch at once.                    *)
(*                                                                            *)
(* A site answers a URL with a page, with a redirect, or with something that  *)
(* is not text; what it says changes with time, so a text is named by its URL *)
(* and the time it was read.  What refinement takes out of it is left out.    *)
EXTENDS Naturals, Sequences, SequencesExt, FiniteSetsExt

CONSTANTS
  Fetches,       \* calls of web_fetch
  Urls,
  Host,          \* the host of each URL
  Size,          \* how long a URL's text is
  Redirects,     \* where a URL may send the client, by URL
  Lifetime, MaxBytes, MaxRedirects,
  MaxTime        \* a bound on the clock

VARIABLES
  stage,    \* where each call is
  asked,    \* the URL each call was given
  at,       \* the URL it reads now
  hops,     \* how many redirects it followed
  given,    \* what the call gave
  cache,    \* the entries, the least recently used first
  bytes,    \* what the cache counts as its size
  now

weVars == <<stage, asked, at, hops, given, cache, bytes, now>>
kept == <<cache, bytes>>

Nothing == [url |-> "none"]
Text(url, time) == [url |-> url, time |-> time, told |-> now]
Places(url) == {i \in DOMAIN cache : cache[i].url = url}
Place(url) == CHOOSE i \in Places(url) : TRUE
Fresh(entry) == now - entry.at <= Lifetime

TypeOK ==
  /\ stage \in [Fetches -> {"none", "looking", "asking", "reading", "done"}]
  /\ \A f \in Fetches : hops[f] \in 0..MaxRedirects
  /\ bytes \in Nat /\ now \in 0..MaxTime

Init ==
  /\ stage = [f \in Fetches |-> "none"]
  /\ asked = [f \in Fetches |-> "none"] /\ at = [f \in Fetches |-> "none"]
  /\ hops = [f \in Fetches |-> 0]
  /\ given = [f \in Fetches |-> Nothing]
  /\ cache = <<>> /\ bytes = 0 /\ now = 0

Tick ==
  /\ now < MaxTime /\ now' = now + 1
  /\ UNCHANGED <<stage, asked, at, hops, given, kept>>

Begins(f, url) ==
  /\ stage[f] = "none"
  /\ stage' = [stage EXCEPT ![f] = "looking"]
  /\ asked' = [asked EXCEPT ![f] = url] /\ at' = [at EXCEPT ![f] = url]
  /\ UNCHANGED <<hops, given, kept, now>>

(* ResponseCache.get: an entry found is the most recently used one, an old    *)
(* one goes.                                                                  *)
Get(url) ==
  IF Fresh(cache[Place(url)])
  THEN cache' = Append(RemoveAt(cache, Place(url)), cache[Place(url)]) /\ UNCHANGED bytes
  ELSE cache' = RemoveAt(cache, Place(url)) /\ bytes' = bytes - cache[Place(url)].bytes

(* The loop's look into the cache; what is not there is asked for.            *)
Looks(f) ==
  /\ stage[f] = "looking"
  /\ IF Places(at[f]) = {} THEN UNCHANGED kept ELSE Get(at[f])
  /\ LET hit == \E i \in DOMAIN cache' : cache'[i].url = at[f]
     IN /\ stage' = [stage EXCEPT ![f] = IF hit THEN "done" ELSE "asking"]
        /\ given' = IF hit THEN [given EXCEPT ![f] = Text(at[f], Last(cache').at)] ELSE given
  /\ UNCHANGED <<asked, at, hops, now>>

Ends(f) == stage' = [stage EXCEPT ![f] = "done"] /\ UNCHANGED given

(* A redirect: to another host it is only told, and so is one too many.       *)
Leaves(f, url) == Host[url] # Host[asked[f]]
Redirected(f, url) ==
  /\ stage[f] = "asking" /\ url \in Redirects[at[f]]
  /\ IF Leaves(f, url) \/ hops[f] + 1 >= MaxRedirects
     THEN Ends(f) /\ UNCHANGED <<at, hops>>
     ELSE /\ stage' = [stage EXCEPT ![f] = "looking"]
          /\ at' = [at EXCEPT ![f] = url] /\ hops' = [hops EXCEPT ![f] = @ + 1]
          /\ UNCHANGED given
  /\ UNCHANGED <<asked, kept, now>>

(* The site answers with a text, or with what is not one.                     *)
Answers(f) ==
  /\ stage[f] = "asking"
  /\ stage' = [stage EXCEPT ![f] = "reading"]
  /\ UNCHANGED <<asked, at, hops, given, kept, now>>
(* It did not come in time, was cancelled, broke off, or was not text.        *)
Fails(f) ==
  /\ stage[f] \in {"asking", "reading"}
  /\ Ends(f)
  /\ UNCHANGED <<asked, at, hops, kept, now>>

(* ResponseCache.set: an entry put again keeps its place, and what it held    *)
(* stays counted; the least recently used go until the count fits.            *)
Counted(entries) == FoldLeft(LAMBDA sum, e : sum + e.bytes, 0, entries)
Put(entry) ==
  IF Places(entry.url) = {} THEN Append(cache, entry) ELSE [cache EXCEPT ![Place(entry.url)] = entry]
Set(entry) ==
  IF entry.bytes > MaxBytes THEN UNCHANGED kept
  ELSE LET all == Put(entry)
           count == bytes + entry.bytes
           fits == {n \in 0..Len(all) : n = Len(all) \/ count - Counted(SubSeq(all, 1, n)) <= MaxBytes}
           gone == CHOOSE n \in fits : \A m \in fits : n <= m
       IN /\ cache' = SubSeq(all, gone + 1, Len(all))
          /\ bytes' = count - Counted(SubSeq(all, 1, gone))

Reads(f) ==
  /\ stage[f] = "reading"
  /\ stage' = [stage EXCEPT ![f] = "done"]
  /\ Set([url |-> at[f], bytes |-> Size[at[f]], at |-> now])
  /\ given' = [given EXCEPT ![f] = Text(at[f], now)]
  /\ UNCHANGED <<asked, at, hops, now>>

Next ==
  \/ Tick
  \/ \E f \in Fetches :
       \/ \E url \in Urls : Begins(f, url)
       \/ \E url \in Urls : Redirected(f, url)
       \/ Looks(f) \/ Answers(f) \/ Fails(f) \/ Reads(f)
Spec == Init /\ [][Next]_weVars

-----------------------------------------------------------------------------
(* What a call gives is a page of the host it was given, read no longer ago   *)
(* than a cached text may live; and the cache never holds more than its bytes,*)
(* nor a URL twice, however the calls that fill it overlap.                   *)
GivenInTime ==
  \A f \in Fetches : given[f] # Nothing =>
    given[f].told - given[f].time <= Lifetime /\ Host[given[f].url] = Host[asked[f]]
KeptOnce == \A i, j \in DOMAIN cache : cache[i].url = cache[j].url => i = j
CacheFits == Counted(cache) <= MaxBytes /\ KeptOnce
FetchesHold == GivenInTime /\ CacheFits

=============================================================================
