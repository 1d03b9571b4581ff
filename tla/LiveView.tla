------------------------------ MODULE LiveView ------------------------------
(***************************************************************************)
(* How a snapshot gets onto the page: runCollector stores and broadcasts   *)
(* it, the hub and handleLive pass it on over a web socket, handleHistory  *)
(* answers the page's requests from the database, and App.jsx makes one    *)
(* history of both while the user pans and zooms.                          *)
(*                                                                         *)
(* A snapshot is its timestamp.  Time is in collection intervals; the      *)
(* clock is not set back here.  There is one page; the hub's loop treats   *)
(* the clients alike and waits for none.                                   *)
(***************************************************************************)
EXTENDS Integers, Sequences, SequencesExt, FiniteSets

CONSTANTS Start, MaxTime,     \* bounds of the clock
          BufferSize,         \* snapshots a client's channel and its socket hold
          MaxRequests,        \* bound: requests for history in flight
          MaxChanges,         \* bound: how often the user changes the view
          retention,          \* in the server's config
          COLLECT_INTERVAL, TARGET_POINTS, MIN_SPAN,
          FirstSpan, FirstMaxSpan, \* span and maxSpan of a page that was just loaded
          Spans               \* the spans a user asks for

ASSUME TimeAssumption == Start \in Nat \ {0} /\ MaxTime \in Nat /\ Start <= MaxTime

ASSUME BoundAssumption == {BufferSize, MaxRequests, MaxChanges} \subseteq Nat

ASSUME ChartAssumption ==
  /\ {retention, COLLECT_INTERVAL, TARGET_POINTS, MIN_SPAN} \subseteq Nat \ {0}
  /\ FirstMaxSpan \in Nat /\ FirstSpan \in MIN_SPAN .. FirstMaxSpan
  /\ Spans \subseteq Int

VARIABLES clock,
          stored,    \* the snapshots table
          collected, \* runCollector has a snapshot it has not broadcast yet
          handler,   \* handleLive for this page
          send,      \* its channel, and what it has written and the page not yet received
          ws,        \* the web socket as the page sees it
          history, loaded, span, end, maxSpan,  \* App's variables
          timer,     \* fetchTimer is armed
          requests,  \* requests for history in flight
          asked,     \* the view the newest request was for, and
          why,       \* why the page does not have a snapshot: kept for the properties
          changes    \* how often the user has changed the view

collecting == <<stored, collected>>
handling   == <<handler, send, ws>>
shown      == <<history, loaded>>
view       == <<span, end, maxSpan>>
fetching   == <<timer, requests, asked>>
vars       == <<clock, collecting, handling, shown, view, fetching, why, changes>>

Live == -1     \* end is null
Times  == Start - 1 .. MaxTime
NoView == [span |-> 0, end |-> Live]
NothingLoaded == [from |-> 0, to |-> 0, step |-> 0, fetchedAt |-> 0]
Unanswered == << Live >>

Larger(a, b)  == IF a > b THEN a ELSE b
Smaller(a, b) == IF a < b THEN a ELSE b

-----------------------------------------------------------------------------
(* storage.go *)

\* Mutant: the last second is not part of the range.
RowsBefore(from, to) == {ts \in stored : from <= ts /\ ts < to}

RowsBetween(from, to) == {ts \in stored : from <= ts /\ ts <= to}

\* ORDER BY: a set of integers as an ascending sequence.  (Not with SetToSortSeq,
\* of which nothing can be proved here.)
Ascending(S) ==
  [n \in 1 .. Cardinality(S) |-> CHOOSE e \in S : Cardinality({t \in S : t < e}) = n - 1]

Query(from, to) == Ascending(RowsBetween(from, to))

\* The first row of each bucket that has rows; its gauges become averages.
QueryDownsampled(from, to, step) ==
  IF step <= 1 THEN Query(from, to)
  ELSE LET rows == RowsBetween(from, to)
       IN  Ascending({ts \in rows : \A t \in rows : t \div step = ts \div step => ts <= t})

-----------------------------------------------------------------------------
Init ==
  /\ clock = Start
  /\ stored = {Start - 1, Start} /\ collected = FALSE
  /\ handler = "upgraded" /\ send = << >> /\ ws = "connecting"
  /\ history = << >> /\ loaded = NothingLoaded
  /\ span = FirstSpan /\ end = Live /\ maxSpan = FirstMaxSpan
  /\ timer = FALSE /\ requests = {} /\ asked = NoView
  /\ why = [ts \in Times |-> IF ts <= Start THEN "not sent" ELSE "not yet"] /\ changes = 0

-----------------------------------------------------------------------------
(* runCollector and runPruner *)

\* The next tick: Collect may fail, and nothing more happens, a failed Insert is
\* only logged.
Collect ==
  /\ ~collected /\ clock < MaxTime
  /\ clock' = clock + 1
  /\ \/ collected' = TRUE /\ stored' \in {stored, stored \cup {clock'}}
     \/ UNCHANGED <<collected, stored>>
  /\ UNCHANGED <<handling, shown, view, fetching, why, changes>>

\* Hub.Broadcast drops the snapshot for a client whose channel is full.
Broadcast ==
  /\ collected /\ collected' = FALSE
  /\ IF handler = "serving" /\ Len(send) < BufferSize
     THEN send' = Append(send, clock) /\ UNCHANGED why
     ELSE why' = [why EXCEPT ![clock] = "not sent"] /\ UNCHANGED send
  /\ UNCHANGED <<clock, stored, handler, ws, shown, view, fetching, changes>>

Prune ==
  /\ stored' = {ts \in stored : ts >= clock - retention}
  /\ UNCHANGED <<clock, collected, handling, shown, view, fetching, why, changes>>

-----------------------------------------------------------------------------
(* handleLive *)

AddClient ==
  /\ handler = "upgraded" /\ handler' = "serving"
  /\ UNCHANGED <<clock, collecting, send, ws, shown, view, fetching, why, changes>>

\* The reading goroutine notices and cancels the context, or a write fails.
Leave ==
  /\ handler = "serving" /\ ws = "closed"
  /\ handler' = "gone" /\ send' = << >>
  /\ UNCHANGED <<clock, collecting, ws, shown, view, fetching, why, changes>>

-----------------------------------------------------------------------------
(* App *)

\* Bucket size for a visible span; 0 means raw samples.
stepFor(s) ==
  LET step == (s + TARGET_POINTS - 1) \div TARGET_POINTS
  IN  IF step <= COLLECT_INTERVAL THEN 0 ELSE step

viewTo(e) == IF e = Live THEN clock ELSE e

\* The visible range and half a span on each side.
Requested ==
  [from     |-> viewTo(end) - span - span \div 2,
   to       |-> Smaller(viewTo(end) + span \div 2, clock),
   step     |-> stepFor(span),
   isNewest |-> TRUE,    \* seq is fetchSeq
   answer   |-> Unanswered]

fetchHistory ==
  /\ Cardinality(requests) < MaxRequests
  /\ requests' = {[r EXCEPT !.isNewest = FALSE] : r \in requests} \cup {Requested}
  /\ timer' = FALSE
  /\ asked' = [span |-> span, end |-> end]

OnOpen ==
  /\ ws = "connecting"
  /\ ws' = "open"
  /\ fetchHistory
  /\ UNCHANGED <<clock, collecting, handler, send, shown, view, why, changes>>

\* Mutant: a span may be as wide as one likes.
SpanAtLeast(s, most) == Larger(MIN_SPAN, s)

ClampSpan(s, most) == Smaller(most, Larger(MIN_SPAN, s))

Covers(range, s, e) ==
  /\ stepFor(s) = range.step
  /\ viewTo(e) - s >= range.from
  /\ e = Live \/ e <= range.to

setView(newSpan, newEnd, most) ==
  /\ maxSpan' = most
  /\ span' = ClampSpan(newSpan, most)
  /\ end' = IF newEnd = Live \/ newEnd >= clock THEN Live ELSE Larger(newEnd, clock - most + span')
  /\ timer' = (timer \/ ~Covers(loaded, span', end'))
  /\ UNCHANGED <<clock, collecting, handling, shown, requests, asked, why>>

\* The user pans, zooms or resets the chart.
ChangeView ==
  /\ ws = "open" /\ changes < MaxChanges /\ changes' = changes + 1
  /\ \E s \in Spans, e \in {Live} \cup (Start - 1 .. clock - 1) : setView(s, e, maxSpan)

\* The answer to /api/config; what it changes it changes once.
ConfigArrives ==
  /\ ws = "open" /\ maxSpan # Larger(MIN_SPAN, retention)
  /\ setView(span, end, Larger(MIN_SPAN, retention))
  /\ UNCHANGED changes

TimerFires ==
  /\ timer /\ fetchHistory
  /\ UNCHANGED <<clock, collecting, handling, shown, view, why, changes>>

HandleHistory(r) ==
  /\ r.isNewest /\ r.answer = Unanswered
  /\ requests' = (requests \ {r})
                   \cup {[r EXCEPT !.answer = QueryDownsampled(r.from, r.to, r.step)]}
  /\ UNCHANGED <<clock, collecting, handling, shown, view, timer, asked, why, changes>>

\* What the answer has is on the page now; what the page had and is later than
\* the answer's end is not any more.
Show(r) ==
  /\ history' = r.answer
  /\ loaded' = [from |-> r.from, to |-> r.to, step |-> r.step, fetchedAt |-> clock]
  /\ why' = [ts \in Times |-> IF Contains(r.answer, ts) THEN "has it"
                              ELSE IF why[ts] = "has it" /\ ts > r.to THEN "cut off"
                              ELSE why[ts]]

\* Mutant: whatever arrives last is shown.
ArriveAnyway(r) ==
  /\ (r.isNewest => r.answer # Unanswered) /\ requests' = requests \ {r}
  /\ Show(r)
  /\ UNCHANGED <<clock, collecting, handling, view, timer, asked, changes>>

\* Only the answer to the newest request is used.
Arrive(r) ==
  /\ (r.isNewest => r.answer # Unanswered) /\ requests' = requests \ {r}
  /\ IF r.isNewest THEN Show(r) ELSE UNCHANGED <<shown, why>>
  /\ UNCHANGED <<clock, collecting, handling, view, timer, asked, changes>>

\* The newest request fails, on the network or in the server; nothing comes of
\* it.  (That an older one fails makes no difference.)
FetchFails(r) ==
  /\ r.isNewest /\ requests' = requests \ {r} /\ asked' = NoView
  /\ UNCHANGED <<clock, collecting, handling, shown, view, timer, why, changes>>

\* filter
KeptFrom(s, from) ==
  LET at == Ascending({i \in DOMAIN s : s[i] >= from})
  IN  [n \in DOMAIN at |-> s[at[n]]]

\* Mutant: snapshots the history already has are appended again.
AppendedAlways(ts, keepFrom) == KeptFrom(Append(history, ts), keepFrom)

Appended(ts, keepFrom) ==
  IF history = << >> \/ ts > history[Len(history)]
  THEN KeptFrom(Append(history, ts), keepFrom)
  ELSE history

\* Why the page may not have a snapshot that it received.
Reception ==
  CASE end # Live -> "paused"
    [] end = Live /\ loaded.step > 0 -> "downsampled"
    [] end = Live /\ loaded.step = 0 /\ (\E r \in requests : r.isNewest) -> "overtaken"
    [] OTHER -> "has it"

\* Live and raw: append, and drop what scrolled out.  Live and downsampled: fetch
\* again once a new bucket's worth of data exists.
OnMessage ==
  LET ts       == Head(send)
      keepFrom == ts - span - span \div 2
      isRaw    == loaded.step = 0
  IN  /\ ws = "open" /\ send # << >>
      /\ send' = Tail(send)
      /\ why' = [why EXCEPT ![ts] = Reception]
      /\ IF end = Live /\ isRaw
         THEN /\ history' = Appended(ts, keepFrom)
              /\ loaded' = [loaded EXCEPT !.from = Larger(@, keepFrom), !.to = ts]
         ELSE UNCHANGED shown
      /\ IF end = Live /\ ~isRaw /\ ts - loaded.fetchedAt >= loaded.step
         THEN fetchHistory
         ELSE UNCHANGED fetching
      /\ UNCHANGED <<clock, collecting, handler, ws, view, changes>>

\* The page is closed, or its connection ends.  A page without a connection does
\* not open another and goes on like one for which nothing is collected, so that
\* it is not followed further.
Close ==
  /\ ws # "closed" /\ ws' = "closed"
  /\ history' = << >> /\ loaded' = NothingLoaded
  /\ span' = FirstSpan /\ end' = Live /\ maxSpan' = FirstMaxSpan
  /\ timer' = FALSE /\ requests' = {} /\ asked' = NoView
  /\ why' = [ts \in Times |-> "not yet"] /\ changes' = 0
  /\ UNCHANGED <<clock, collecting, handler, send>>

-----------------------------------------------------------------------------
Server == Collect \/ Broadcast \/ Prune \/ AddClient \/ Leave

App ==
  \/ OnOpen \/ ConfigArrives \/ ChangeView \/ TimerFires \/ OnMessage \/ Close
  \/ \E r \in requests : HandleHistory(r) \/ Arrive(r) \/ FetchFails(r)

Next == Server \/ App

Spec == Init /\ [][Next]_vars

-----------------------------------------------------------------------------
TypeOK ==
  /\ clock \in Times /\ stored \subseteq Times
  /\ collected \in BOOLEAN
  /\ handler \in {"upgraded", "serving", "gone"}
  /\ send \in Seq(Times) /\ Len(send) <= BufferSize
  /\ ws \in {"connecting", "open", "closed"}
  /\ history \in Seq(Times)
  /\ end \in {Live} \cup Times
  /\ maxSpan \in {FirstMaxSpan, Larger(MIN_SPAN, retention)} /\ span \in MIN_SPAN .. maxSpan
  /\ timer \in BOOLEAN
  /\ \A r \in requests : r.from <= r.to /\ r.to <= clock
  /\ DOMAIN why = Times /\ changes \in 0 .. MaxChanges

\* Charts and rates take the history to be in strict order of time: no snapshot
\* is in it twice although it comes both in answers and over the socket.
HistoryInOrder == \A i, j \in 1 .. Len(history) : i < j => history[i] < history[j]

InFlight == timer \/ \E r \in requests : r.isNewest

\* "Fetches the visible range": when the newest request has been answered and
\* the view is still, or again, the one it was made for, the history covers that
\* view at its resolution -- whatever older answers arrive late, the user did
\* meanwhile and live snapshots changed.  (fetchHistory, setView, onmessage)
FetchedViewIsLoaded ==
  ~InFlight /\ asked = [span |-> span, end |-> end] => Covers(loaded, span, end)

Missing == {ts \in stored : /\ history # << >> /\ loaded.step = 0
                            /\ loaded.from <= ts /\ ts <= history[Len(history)]
                            /\ ~Contains(history, ts)}

\* A raw history misses a snapshot of its range only because it was not sent to
\* the page, the view was not live or not raw when it came, an answer that was
\* under way overwrote it, or an answer for an earlier view, which ends before
\* it, took the place of the history that had it.  (onmessage, fetchHistory,
\* setView, handleHistory, Broadcast)
HolesAreExplained ==
  \A ts \in Missing : why[ts] \in {"not sent", "paused", "downsampled", "overtaken", "cut off"}

\* "let history = []; // snapshots covering `loaded`", "short ranges use raw
\* samples and append live snapshots": in a live view for which nothing is being
\* fetched the history misses only what the page was not sent and what an answer
\* that was under way overwrote.
LiveHistoryIsComplete ==
  end = Live /\ ~InFlight => \A ts \in Missing : why[ts] \in {"not sent", "overtaken"}
=============================================================================
