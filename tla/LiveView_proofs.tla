--------------------------- MODULE LiveView_proofs ---------------------------
(***************************************************************************)
(* Proofs about LiveView: for every clock, buffer, retention and bucket    *)
(* size, the page's history is in order, a view that was fetched is        *)
(* covered, and a hole in a raw history has a reason.                      *)
(***************************************************************************)
EXTENDS LiveView, FiniteSetTheorems, TLAPS

-----------------------------------------------------------------------------
(* The inductive invariant *)

Ordered(s) == \A i, j \in 1 .. Len(s) : i < j => s[i] < s[j]

Explained == {"not sent", "paused", "downsampled", "overtaken", "cut off"}

Requests == [from : Int, to : Int, step : Nat, isNewest : BOOLEAN,
             answer : Seq(Times) \cup {Unanswered}]

\* Records and functions have their types as well.
Records ==
  /\ requests \subseteq Requests
  /\ loaded \in [from : Int, to : Int, step : Nat, fetchedAt : Int]
  /\ asked \in [span : Int, end : Int]
  /\ why \in [Times -> Explained \cup {"has it", "not yet"}]

\* Nothing is later than the clock; what was collected last is not sent yet.
NothingFromTheFuture ==
  /\ end <= clock
  /\ \A ts \in stored \cup Range(send) \cup Range(history) : ts <= clock
  /\ collected => \A ts \in Range(send) : ts < clock

\* A page without a connection shows nothing and asks for nothing.
NothingUnconnected == ws # "open" => history = << >> /\ requests = {} /\ ~timer

\* An answer has what is stored of the range that was asked for, in order.
AnswersAreComplete ==
  \A r \in requests : r.answer # Unanswered =>
    /\ Ordered(r.answer)
    /\ Range(r.answer) \subseteq r.from .. r.to
    /\ r.step = 0 => stored \cap (r.from .. r.to) \subseteq Range(r.answer)

\* The newest request covers the view it was made for.
NewestCovers ==
  asked # NoView => \A r \in requests : r.isNewest => Covers(r, asked.span, asked.end)

\* Snapshots on their way to the page
Pending == Range(send) \cup (IF collected THEN {clock} ELSE {})

NotYetIsPending == ws # "closed" => \A ts \in stored : why[ts] = "not yet" => ts \in Pending

\* Each snapshot of a raw history's range, up to now, is in the history, or still
\* to come behind all of it, or will not come for a reason.
Accounted ==
  ws # "closed" /\ loaded.step = 0 =>
    \A ts \in stored : ts >= loaded.from =>
      \/ ts \in Range(history)
      \/ ts \in Pending /\ \A t \in Range(history) : t < ts
      \/ ts \notin Pending /\ why[ts] \in Explained

IInv ==
  /\ TypeOK /\ Records /\ NothingFromTheFuture /\ NothingUnconnected
  /\ Ordered(send) /\ HistoryInOrder
  /\ AnswersAreComplete /\ NewestCovers /\ FetchedViewIsLoaded
  /\ NotYetIsPending /\ Accounted

-----------------------------------------------------------------------------
(* Sequences in ascending order *)

\* How many elements of a finite set of integers are less tells them apart, and
\* takes every value there is.
LEMMA Ranks ==
  ASSUME NEW S, S \subseteq Int, IsFiniteSet(S)
  PROVE  /\ Cardinality(S) \in Nat
         /\ \A a, b \in S : a < b => Cardinality({t \in S : t < a}) < Cardinality({t \in S : t < b})
         /\ \A n \in 1 .. Cardinality(S) : \E e \in S : Cardinality({t \in S : t < e}) = n - 1
         /\ \A e \in S : Cardinality({t \in S : t < e}) + 1 \in 1 .. Cardinality(S)
<1> DEFINE below(e) == {t \in S : t < e}
           card == Cardinality(S)
           rank == [e \in S |-> Cardinality(below(e))]
<1>1. card \in Nat
  BY FS_CardinalityType
<1>2. \A e \in S : /\ IsFiniteSet(below(e)) /\ Cardinality(below(e)) \in Nat
                   /\ Cardinality(below(e)) <= card /\ Cardinality(below(e)) # card
  <2> TAKE e \in S
  <2>1. below(e) \in SUBSET S
    OBVIOUS
  <2>0. e \in Int
    OBVIOUS
  <2>3. e \notin below(e)
    BY <2>0
  <2>2. /\ IsFiniteSet(below(e)) /\ Cardinality(below(e)) <= card
        /\ Cardinality(S) = Cardinality(below(e)) => S = below(e)
    BY <2>1, FS_Subset
  <2> QED
    BY <2>1, <2>2, <2>3, FS_CardinalityType
<1>3. \A a, b \in S : a < b => Cardinality(below(a)) < Cardinality(below(b))
  <2> SUFFICES ASSUME NEW a \in S, NEW b \in S, a < b
               PROVE  Cardinality(below(a)) < Cardinality(below(b))
    OBVIOUS
  <2>0. a \in Int /\ b \in Int
    OBVIOUS
  <2>1. below(a) \in SUBSET below(b)
    <3>1. \A t \in S : t < a => t < b
      BY <2>0
    <3> QED
      BY <3>1
  <2>3. a \in below(b) /\ a \notin below(a)
    BY <2>0
  <2>2. /\ Cardinality(below(a)) <= Cardinality(below(b))
        /\ Cardinality(below(b)) = Cardinality(below(a)) => below(b) = below(a)
    BY <1>2, <2>1, FS_Subset
  <2> QED
    BY <1>2, <2>2, <2>3
<1>4. rank \in [S -> 0 .. card - 1]
  BY <1>1, <1>2
<1>5. rank \in Injection(S, 0 .. card - 1)
  <2>1. \A a, b \in S : rank[a] = rank[b] => a = b
    BY <1>2, <1>3
  <2> QED
    BY <1>4, <2>1 DEF Injection, IsInjective
<1>6. IsFiniteSet(0 .. card - 1) /\ Cardinality(0 .. card - 1) = card
  BY <1>1, FS_Interval
<1>7. rank \in Surjection(S, 0 .. card - 1)
  BY <1>5, <1>6, FS_Injection
<1>8. \A n \in 1 .. card : \E e \in S : Cardinality(below(e)) = n - 1
  <2> TAKE n \in 1 .. card
  <2>1. n - 1 \in 0 .. card - 1
    BY <1>1
  <2>2. \E e \in S : rank[e] = n - 1
    BY <1>7, <2>1 DEF Surjection
  <2> QED
    BY <2>2
<1>9. \A e \in S : Cardinality(below(e)) + 1 \in 1 .. card
  BY <1>1, <1>2
<1> HIDE DEF card
<1> QED
  BY <1>1, <1>3, <1>8, <1>9 DEF card

\* ORDER BY gives the elements of the set, each once, in ascending order.
LEMMA AscendingIs ==
  ASSUME NEW S, S \subseteq Int, IsFiniteSet(S)
  PROVE  /\ Ascending(S) \in Seq(S)
         /\ Ordered(Ascending(S))
         /\ Range(Ascending(S)) = S
<1> DEFINE rank(e) == Cardinality({t \in S : t < e})
           card == Cardinality(S)
           seq == Ascending(S)
<1>1. /\ card \in Nat
      /\ \A a, b \in S : a < b => rank(a) < rank(b)
      /\ \A n \in 1 .. card : \E e \in S : rank(e) = n - 1
      /\ \A e \in S : rank(e) + 1 \in 1 .. card
  BY Ranks
<1>2. \A e \in S : rank(e) \in Nat
  <2> TAKE e \in S
  <2>1. {t \in S : t < e} \in SUBSET S
    OBVIOUS
  <2> QED
    BY <2>1, FS_Subset, FS_CardinalityType
<1>3. seq = [n \in 1 .. card |-> CHOOSE e \in S : rank(e) = n - 1]
  BY DEF Ascending
<1> HIDE DEF rank, card, seq
<1>4. \A n \in 1 .. card : seq[n] \in S /\ rank(seq[n]) = n - 1
  BY <1>1, <1>3
<1>5. seq \in Seq(S) /\ Len(seq) = card /\ DOMAIN seq = 1 .. card
  BY <1>1, <1>3, <1>4
<1>6. Ordered(seq)
  <2> SUFFICES ASSUME NEW i \in 1 .. card, NEW j \in 1 .. card, i < j
               PROVE  seq[i] < seq[j]
    BY <1>5 DEF Ordered
  <2>1. /\ seq[i] \in S /\ rank(seq[i]) = i - 1
        /\ seq[j] \in S /\ rank(seq[j]) = j - 1
    BY <1>4
  <2>2. seq[j] < seq[i] => rank(seq[j]) < rank(seq[i])
    BY <1>1, <2>1
  <2>3. i \in Int /\ j \in Int
    BY <1>1
  <2>4. seq[i] \in Int /\ seq[j] \in Int
    BY <2>1
  <2> QED
    BY <2>1, <2>2, <2>3, <2>4
<1>7. Range(seq) = S
  <2>1. ASSUME NEW e \in S
        PROVE  e \in Range(seq)
    <3>1. rank(e) + 1 \in 1 .. card
      BY <1>1
    <3>2. PICK n \in 1 .. card : n = rank(e) + 1
      BY <3>1
    <3>3. seq[n] \in S /\ rank(seq[n]) = n - 1
      BY <1>4
    <3>4. rank(seq[n]) = rank(e)
      BY <1>1, <1>2, <3>2, <3>3
    <3>5. seq[n] < e => rank(seq[n]) < rank(e)
      BY <1>1, <3>3
    <3>6. e < seq[n] => rank(e) < rank(seq[n])
      BY <1>1, <3>3
    <3>7. e \in Int /\ seq[n] \in Int /\ rank(e) \in Nat
      BY <1>2, <3>3
    <3>8. seq[n] = e
      BY <3>4, <3>5, <3>6, <3>7
    <3> QED
      BY <1>5, <3>8 DEF Range
  <2>2. ASSUME NEW e \in Range(seq)
        PROVE  e \in S
    BY <1>4, <1>5 DEF Range
  <2> QED
    BY <2>1, <2>2
<1> QED
  BY <1>5, <1>6, <1>7 DEF seq

\* filter keeps the order.
LEMMA KeptFromIs ==
  ASSUME NEW s \in Seq(Int), Ordered(s), NEW from \in Int
  PROVE  /\ KeptFrom(s, from) \in Seq(Int)
         /\ Ordered(KeptFrom(s, from))
         /\ Range(KeptFrom(s, from)) = {x \in Range(s) : x >= from}
<1> DEFINE places == {i \in DOMAIN s : s[i] >= from}
           at == Ascending(places)
           kept == KeptFrom(s, from)
<1>1. kept = [n \in DOMAIN at |-> s[at[n]]]
  BY DEF KeptFrom
<1>2. DOMAIN s = 1 .. Len(s) /\ Len(s) \in Nat /\ \A i \in 1 .. Len(s) : s[i] \in Int
  OBVIOUS
<1>3. /\ at \in Seq(places) /\ Ordered(at) /\ Range(at) = places
  <2>1. IsFiniteSet(1 .. Len(s))
    BY <1>2, FS_Interval
  <2>2. places \in SUBSET (1 .. Len(s)) /\ places \subseteq Int
    BY <1>2
  <2>3. IsFiniteSet(places)
    BY <2>1, <2>2, FS_Subset
  <2> QED
    BY <2>2, <2>3, AscendingIs
<1>4. \A i \in places : i \in 1 .. Len(s) /\ s[i] \in Int /\ s[i] >= from
  BY <1>2
<1> HIDE DEF places, at, kept
<1>5. /\ DOMAIN at = 1 .. Len(at) /\ Len(at) \in Nat
      /\ \A n \in 1 .. Len(at) : at[n] \in places
  BY <1>3
<1>6. kept \in Seq(Int) /\ DOMAIN kept = 1 .. Len(at) /\ Len(kept) = Len(at)
  BY <1>1, <1>4, <1>5
<1>7. Ordered(kept)
  <2> SUFFICES ASSUME NEW i \in 1 .. Len(at), NEW j \in 1 .. Len(at), i < j
               PROVE  kept[i] < kept[j]
    BY <1>6 DEF Ordered
  <2>1. at[i] < at[j]
    BY <1>3 DEF Ordered
  <2>2. at[i] \in 1 .. Len(s) /\ at[j] \in 1 .. Len(s)
    BY <1>4, <1>5
  <2>3. s[at[i]] < s[at[j]]
    BY <2>1, <2>2 DEF Ordered
  <2> QED
    BY <1>1, <1>5, <2>3
<1>8. Range(kept) = {x \in Range(s) : x >= from}
  <2>1. ASSUME NEW x \in Range(kept)
        PROVE  x \in Range(s) /\ x >= from
    <3>1. PICK n \in 1 .. Len(at) : x = s[at[n]]
      BY <1>1, <1>5, <1>6 DEF Range
    <3> QED
      BY <1>2, <1>4, <1>5, <3>1 DEF Range
  <2>2. ASSUME NEW x \in Range(s), x >= from
        PROVE  x \in Range(kept)
    <3>1. PICK i \in DOMAIN s : x = s[i]
      BY DEF Range
    <3>2. i \in places
      BY <2>2, <3>1 DEF places
    <3>3. PICK n \in DOMAIN at : at[n] = i
      BY <1>3, <3>2 DEF Range
    <3> QED
      BY <1>1, <1>5, <1>6, <3>1, <3>3 DEF Range
  <2> QED
    BY <2>1, <2>2
<1> QED
  BY <1>6, <1>7, <1>8 DEF kept

\* The last element of an ascending sequence is the largest one.
LEMMA LastIsLargest ==
  ASSUME NEW s \in Seq(Int), Ordered(s), s # << >>
  PROVE  /\ s[Len(s)] \in Range(s) /\ s[Len(s)] \in Int
         /\ \A x \in Range(s) : x \in Int /\ x <= s[Len(s)]
<1>1. /\ Len(s) \in Nat /\ Len(s) # 0 /\ DOMAIN s = 1 .. Len(s)
      /\ \A i \in 1 .. Len(s) : s[i] \in Int
  OBVIOUS
<1>2. Len(s) \in 1 .. Len(s)
  BY <1>1
<1>3. \A i \in 1 .. Len(s) : s[i] <= s[Len(s)]
  <2> TAKE i \in 1 .. Len(s)
  <2>1. i \in Int /\ Len(s) \in Int /\ i <= Len(s) /\ s[i] \in Int /\ s[Len(s)] \in Int
    BY <1>1, <1>2
  <2>2. CASE i < Len(s)
    BY <1>1, <1>2, <2>1, <2>2 DEF Ordered
  <2>3. CASE ~(i < Len(s))
    <3>1. \A a, b \in Int : a <= b /\ ~(a < b) => a = b
      OBVIOUS
    <3>2. i = Len(s)
      BY <2>1, <2>3, <3>1, Zenon
    <3> QED
      BY <2>1, <3>2
  <2> QED
    BY <2>2, <2>3
<1> QED
  BY <1>1, <1>2, <1>3 DEF Range

\* An element is appended behind the others: the sequence stays in order.
LEMMA AppendKeepsOrder ==
  ASSUME NEW s \in Seq(Int), Ordered(s), NEW e \in Int, \A x \in Range(s) : x < e
  PROVE  /\ Append(s, e) \in Seq(Int)
         /\ Ordered(Append(s, e))
         /\ Range(Append(s, e)) = Range(s) \cup {e}
<1> DEFINE longer == Append(s, e)
<1>1. /\ Len(s) \in Nat /\ DOMAIN s = 1 .. Len(s)
      /\ \A i \in 1 .. Len(s) : s[i] \in Int /\ s[i] < e
  BY DEF Range
<1>2. /\ longer \in Seq(Int) /\ Len(longer) = Len(s) + 1
      /\ \A i \in 1 .. Len(s) : longer[i] = s[i]
      /\ longer[Len(s) + 1] = e
      /\ DOMAIN longer = 1 .. Len(s) + 1
  BY <1>1
<1> HIDE DEF longer
<1>3. \A i \in 1 .. Len(s) + 1 : i \in 1 .. Len(s) \/ i = Len(s) + 1
  BY <1>1
<1>4. Ordered(longer)
  <2> SUFFICES ASSUME NEW i \in 1 .. Len(s) + 1, NEW j \in 1 .. Len(s) + 1, i < j
               PROVE  longer[i] < longer[j]
    BY <1>2 DEF Ordered
  <2>1. i \in 1 .. Len(s)
    BY <1>1
  <2>2. CASE j \in 1 .. Len(s)
    BY <1>2, <2>1, <2>2 DEF Ordered
  <2>3. CASE j = Len(s) + 1
    BY <1>1, <1>2, <2>1, <2>3
  <2> QED
    BY <1>3, <2>2, <2>3
<1>5. Range(longer) = Range(s) \cup {e}
  <2>1. ASSUME NEW x \in Range(longer)
        PROVE  x \in Range(s) \cup {e}
    BY <1>1, <1>2, <1>3 DEF Range
  <2>2. Len(s) + 1 \in 1 .. Len(s) + 1 /\ \A i \in 1 .. Len(s) : i \in 1 .. Len(s) + 1
    BY <1>1
  <2>3. ASSUME NEW x \in Range(s) \cup {e}
        PROVE  x \in Range(longer)
    BY <1>1, <1>2, <2>2 DEF Range
  <2> QED
    BY <2>1, <2>3
<1> QED
  BY <1>2, <1>4, <1>5 DEF longer

\* The same of a sequence whose first element is taken.
LEMMA TailKeepsOrder ==
  ASSUME NEW T, NEW s \in Seq(T), T \subseteq Int, Ordered(s), s # << >>
  PROVE  /\ Tail(s) \in Seq(T) /\ Len(Tail(s)) = Len(s) - 1
         /\ Ordered(Tail(s))
         /\ Head(s) \in T /\ Head(s) \in Range(s)
         /\ Range(Tail(s)) = Range(s) \ {Head(s)}
         /\ \A x \in Range(Tail(s)) : Head(s) < x
<1> DEFINE rest == Tail(s)
<1>1. /\ Len(s) \in Nat /\ Len(s) # 0 /\ DOMAIN s = 1 .. Len(s)
      /\ \A i \in 1 .. Len(s) : s[i] \in T
      /\ Head(s) = s[1]
  OBVIOUS
<1>2. /\ rest \in Seq(T) /\ Len(rest) = Len(s) - 1 /\ DOMAIN rest = 1 .. Len(s) - 1
      /\ \A i \in 1 .. Len(s) - 1 : rest[i] = s[i + 1]
  BY <1>1
<1> HIDE DEF rest
<1>3. /\ 1 \in 1 .. Len(s)
      /\ \A i \in 1 .. Len(s) - 1 : i + 1 \in 1 .. Len(s) /\ 1 < i + 1
      /\ \A i \in 1 .. Len(s) : i = 1 \/ (i - 1 \in 1 .. Len(s) - 1 /\ i = (i - 1) + 1)
  BY <1>1
<1>4. Ordered(rest)
  <2> SUFFICES ASSUME NEW i \in 1 .. Len(s) - 1, NEW j \in 1 .. Len(s) - 1, i < j
               PROVE  rest[i] < rest[j]
    BY <1>2 DEF Ordered
  <2>1. i + 1 \in 1 .. Len(s) /\ j + 1 \in 1 .. Len(s) /\ i + 1 < j + 1
    BY <1>1
  <2>2. s[i + 1] < s[j + 1]
    BY <2>1 DEF Ordered
  <2> QED
    BY <1>2, <2>2
<1>5. \A x \in Range(rest) : x \in Range(s) /\ s[1] < x
  <2> TAKE x \in Range(rest)
  <2>1. PICK i \in 1 .. Len(s) - 1 : x = s[i + 1]
    BY <1>2 DEF Range
  <2>2. i + 1 \in 1 .. Len(s) /\ 1 < i + 1
    BY <1>3
  <2>3. s[1] < s[i + 1]
    BY <1>3, <2>2 DEF Ordered
  <2> QED
    BY <1>1, <2>1, <2>2, <2>3 DEF Range
<1>6. \A x \in Range(s) : x = s[1] \/ x \in Range(rest)
  <2> TAKE x \in Range(s)
  <2>1. PICK i \in 1 .. Len(s) : x = s[i]
    BY <1>1 DEF Range
  <2>2. CASE i = 1
    BY <2>1, <2>2
  <2>3. CASE i - 1 \in 1 .. Len(s) - 1
    <3>1. rest[i - 1] = s[(i - 1) + 1] /\ (i - 1) + 1 = i
      BY <1>2, <2>3
    <3> QED
      BY <1>2, <2>1, <2>3, <3>1 DEF Range
  <2> QED
    BY <1>3, <2>2, <2>3
<1>7. Head(s) \in T /\ Head(s) \in Range(s)
  BY <1>1, <1>3 DEF Range
<1>8. Range(rest) = Range(s) \ {Head(s)}
  <2>1. \A x \in Range(rest) : x # s[1]
    <3> TAKE x \in Range(rest)
    <3>1. s[1] < x /\ s[1] \in Int
      BY <1>1, <1>3, <1>5
    <3> QED
      BY <3>1
  <2> QED
    BY <1>1, <1>5, <1>6, <2>1
<1> QED
  BY <1>1, <1>2, <1>4, <1>5, <1>7, <1>8 DEF rest

-----------------------------------------------------------------------------
(* What the server answers and the page makes of it *)

LEMMA TimesAre == Times \subseteq Nat /\ Live \notin Times /\ Start \in Times /\ Start - 1 \in Times
BY TimeAssumption DEF Times, Live

LEMMA Constants ==
  /\ Start \in Nat /\ Start > 0 /\ MaxTime \in Nat /\ Start <= MaxTime
  /\ BufferSize \in Nat /\ MaxRequests \in Nat /\ MaxChanges \in Nat
  /\ retention \in Nat /\ retention > 0
  /\ COLLECT_INTERVAL \in Nat /\ COLLECT_INTERVAL > 0
  /\ TARGET_POINTS \in Nat /\ TARGET_POINTS > 0
  /\ MIN_SPAN \in Nat /\ MIN_SPAN > 0
  /\ FirstMaxSpan \in Nat /\ FirstSpan \in MIN_SPAN .. FirstMaxSpan
  /\ Spans \subseteq Int
BY TimeAssumption, BoundAssumption, ChartAssumption

\* The answer to a request, raw or not.  (handleHistory)
LEMMA AnswerIs ==
  ASSUME stored \subseteq Times, NEW from \in Int, NEW to \in Int, NEW step \in Nat
  PROVE  /\ QueryDownsampled(from, to, step) \in Seq(Times)
         /\ Ordered(QueryDownsampled(from, to, step))
         /\ Range(QueryDownsampled(from, to, step)) \subseteq from .. to
         /\ step = 0 => stored \cap (from .. to) \subseteq Range(QueryDownsampled(from, to, step))
<1> DEFINE rows == RowsBetween(from, to)
           first == {ts \in rows : \A t \in rows : t \div step = ts \div step => ts <= t}
<1>1. Times \subseteq Int /\ IsFiniteSet(Times)
  BY TimesAre, Constants, FS_Interval DEF Times
<1>2. rows \in SUBSET Times /\ first \in SUBSET Times
  BY DEF RowsBetween
<1>3. rows \subseteq from .. to /\ first \subseteq from .. to /\ stored \cap (from .. to) \subseteq rows
  <2>1. \A ts \in stored : ts \in from .. to <=> from <= ts /\ ts <= to
    BY <1>1
  <2> QED
    BY <2>1 DEF RowsBetween
<1>4. ASSUME NEW S \in SUBSET Times
      PROVE  /\ Ascending(S) \in Seq(Times)
             /\ Ordered(Ascending(S)) /\ Range(Ascending(S)) = S
  <2>1. S \subseteq Int /\ IsFiniteSet(S)
    BY <1>1, FS_Subset
  <2>2. Ascending(S) \in Seq(S) /\ Ordered(Ascending(S)) /\ Range(Ascending(S)) = S
    BY <2>1, AscendingIs
  <2> QED
    BY <2>2
<1>5. CASE step <= 1
  <2>1. QueryDownsampled(from, to, step) = Ascending(rows)
    BY <1>5 DEF QueryDownsampled, Query
  <2> QED
    BY <1>2, <1>3, <1>4, <2>1
<1>6. CASE ~(step <= 1)
  <2>1. QueryDownsampled(from, to, step) = Ascending(first)
    BY <1>6 DEF QueryDownsampled
  <2>2. step # 0
    BY <1>6
  <2> QED
    BY <1>2, <1>3, <1>4, <2>1, <2>2
<1> QED
  BY <1>5, <1>6

\* A live snapshot is appended when it is later than the history, and what has
\* scrolled out is dropped.  (ws.onmessage)
LEMMA AppendedIs ==
  ASSUME history \in Seq(Times), Ordered(history),
         NEW ts \in Times, NEW keepFrom \in Int, keepFrom <= ts
  PROVE  /\ Appended(ts, keepFrom) \in Seq(Times) /\ Ordered(Appended(ts, keepFrom))
         /\ (\A x \in Range(history) : x < ts) =>
              Range(Appended(ts, keepFrom)) = {x \in Range(history) \cup {ts} : x >= keepFrom}
         /\ (\E x \in Range(history) : x >= ts) => Appended(ts, keepFrom) = history
<1>0. Times \subseteq Int /\ ts \in Int
  BY TimesAre
<1>1. /\ Times \subseteq Int /\ ts \in Int
      /\ history \in Seq(Int) /\ Range(history) \subseteq Times
  <2>1. history \in Seq(Int)
    <3>1. \A i \in 1 .. Len(history) : history[i] \in Times
      OBVIOUS
    <3>2. \A i \in 1 .. Len(history) : history[i] \in Int
      BY <1>0, <3>1, Zenon
    <3> QED
      BY <3>2
  <2>2. Range(history) \subseteq Times
    BY DEF Range
  <2> QED
    BY <1>0, <2>1, <2>2
<1>2. history # << >> => /\ history[Len(history)] \in Range(history)
                         /\ history[Len(history)] \in Int
                         /\ \A x \in Range(history) : x \in Int /\ x <= history[Len(history)]
  BY <1>1, LastIsLargest
<1>3. history = << >> => Range(history) = {}
  BY DEF Range
<1>4. CASE history = << >> \/ ts > history[Len(history)]
  <2>1. \A x \in Range(history) : x < ts
    BY <1>1, <1>2, <1>3, <1>4
  <2>2. /\ Append(history, ts) \in Seq(Int) /\ Ordered(Append(history, ts))
        /\ Range(Append(history, ts)) = Range(history) \cup {ts}
    BY <1>1, <2>1, AppendKeepsOrder
  <2>3. /\ KeptFrom(Append(history, ts), keepFrom) \in Seq(Int)
        /\ Ordered(KeptFrom(Append(history, ts), keepFrom))
        /\ Range(KeptFrom(Append(history, ts), keepFrom))
             = {x \in Range(history) \cup {ts} : x >= keepFrom}
    BY <2>2, KeptFromIs
  <2>4. Appended(ts, keepFrom) = KeptFrom(Append(history, ts), keepFrom)
    BY <1>4 DEF Appended
  <2>5. \A s \in Seq(Int) : Range(s) \subseteq Times => s \in Seq(Times)
    BY DEF Range
  <2>6. Range(KeptFrom(Append(history, ts), keepFrom)) \subseteq Times
    BY <1>1, <2>3
  <2>7. ~(\E x \in Range(history) : x >= ts)
    <3>1. \A x \in Range(history) : x \in Int /\ x < ts
      BY <1>1, <2>1
    <3> QED
      BY <1>0, <3>1
  <2> QED
    BY <2>3, <2>4, <2>5, <2>6, <2>7
<1>5. CASE ~(history = << >> \/ ts > history[Len(history)])
  <2>1. Appended(ts, keepFrom) = history
    BY <1>5 DEF Appended
  <2>2. ~(\A x \in Range(history) : x < ts)
    BY <1>1, <1>2, <1>5
  <2> QED
    BY <2>1, <2>2
<1> QED
  BY <1>4, <1>5

\* Bucket sizes are numbers.  (stepFor)
LEMMA StepIs == \A s \in Nat : stepFor(s) \in Nat
<1> SUFFICES ASSUME NEW s \in Nat PROVE stepFor(s) \in Nat
  OBVIOUS
<1> DEFINE step == (s + TARGET_POINTS - 1) \div TARGET_POINTS
<1>1. step \in Int
  BY Constants
<1>2. stepFor(s) = IF step <= COLLECT_INTERVAL THEN 0 ELSE step
  BY DEF stepFor
<1> HIDE DEF step
<1> QED
  BY <1>1, <1>2, Constants

\* The types of what a request is made of.
ViewOK ==
  /\ clock \in Nat /\ span \in Nat /\ span > 0
  /\ end \in {Live} \cup Nat /\ end <= clock

LEMMA TypeImpliesView == TypeOK /\ NothingFromTheFuture => ViewOK
<1> SUFFICES ASSUME TypeOK, NothingFromTheFuture PROVE ViewOK
  OBVIOUS
<1>1. clock \in Nat /\ end \in {Live} \cup Nat /\ end <= clock
  BY TimesAre, Zenon DEF TypeOK, NothingFromTheFuture
<1>2. maxSpan \in Int
  BY Constants DEF TypeOK, Larger
<1>3. span \in MIN_SPAN .. maxSpan
  BY DEF TypeOK
<1>4. span \in Nat /\ span > 0
  BY <1>2, <1>3, Constants
<1> QED
  BY <1>1, <1>4 DEF ViewOK

\* The request for a view covers it.  (fetchHistory)
LEMMA RequestedIs ==
  ASSUME ViewOK
  PROVE  /\ Requested \in Requests
         /\ Requested.isNewest /\ Requested.answer = Unanswered
         /\ Requested.from <= Requested.to /\ Requested.to <= clock
         /\ Covers(Requested, span, end)
<1> DEFINE to == viewTo(end)
<1>1. to \in Nat /\ to <= clock /\ (end # Live => to = end)
  BY DEF ViewOK, viewTo, Live
<1>2. clock \in Nat /\ span \in Nat /\ span > 0 /\ span \div 2 \in Nat
  BY DEF ViewOK
<1>3. stepFor(span) \in Nat
  BY <1>2, StepIs
<1>4. /\ Requested.from = to - span - span \div 2
      /\ Requested.to = Smaller(to + span \div 2, clock)
      /\ Requested.step = stepFor(span)
      /\ Requested.isNewest = TRUE /\ Requested.answer = Unanswered
  BY DEF Requested
<1> HIDE DEF to
<1>5. /\ to - span - span \div 2 \in Int
      /\ to - span - span \div 2 <= to - span /\ to - span <= to
  BY <1>1, <1>2
<1>6. /\ Smaller(to + span \div 2, clock) \in Int
      /\ Smaller(to + span \div 2, clock) <= clock
      /\ to <= Smaller(to + span \div 2, clock)
  BY <1>1, <1>2 DEF Smaller
<1>7. Requested.from <= Requested.to
  BY <1>1, <1>2, <1>4, <1>5, <1>6
<1>8. Covers(Requested, span, end)
  <2>1. to - span >= Requested.from
    BY <1>1, <1>2, <1>4, <1>5
  <2>2. end = Live \/ end <= Requested.to
    BY <1>1, <1>4, <1>6
  <2> QED
    BY <1>4, <2>1, <2>2 DEF Covers, to
<1>9. Requested \in Requests
  <2>1. Requested.from \in Int /\ Requested.to \in Int /\ Requested.step \in Nat
    BY <1>3, <1>4, <1>5, <1>6
  <2>2. Requested = [from |-> Requested.from, to |-> Requested.to, step |-> Requested.step,
                     isNewest |-> TRUE, answer |-> Unanswered]
    BY DEF Requested
  <2>3. \A a, b \in Int, c \in Nat :
          [from |-> a, to |-> b, step |-> c, isNewest |-> TRUE, answer |-> Unanswered] \in Requests
    BY DEF Requests
  <2> QED
    BY <2>1, <2>2, <2>3, Zenon
<1> QED
  BY <1>4, <1>6, <1>7, <1>8, <1>9

\* What a fetch does to the requests.
LEMMA FetchIs ==
  ASSUME ViewOK, requests \subseteq Requests, fetchHistory
  PROVE  /\ requests' \subseteq Requests
         /\ ~timer' /\ asked' = [span |-> span, end |-> end] /\ asked' \in [span : Int, end : Int]
         /\ \E r \in requests' : r.isNewest
         /\ \A q \in requests' :
              \/ /\ q.answer = Unanswered /\ q.from <= q.to /\ q.to <= clock
                 /\ Covers(q, span, end)
              \/ \E r \in requests : /\ q.from = r.from /\ q.to = r.to /\ q.step = r.step
                                     /\ q.answer = r.answer /\ ~q.isNewest
<1>1. /\ Requested \in Requests
      /\ Requested.isNewest /\ Requested.answer = Unanswered
      /\ Requested.from <= Requested.to /\ Requested.to <= clock
      /\ Covers(Requested, span, end)
  BY RequestedIs
<1>2. /\ requests' = {[r EXCEPT !.isNewest = FALSE] : r \in requests} \cup {Requested}
      /\ timer' = FALSE /\ asked' = [span |-> span, end |-> end]
  BY DEF fetchHistory
<1>3. \A r \in Requests :
        /\ [r EXCEPT !.isNewest = FALSE] \in Requests
        /\ [r EXCEPT !.isNewest = FALSE].from = r.from
        /\ [r EXCEPT !.isNewest = FALSE].to = r.to
        /\ [r EXCEPT !.isNewest = FALSE].step = r.step
        /\ [r EXCEPT !.isNewest = FALSE].answer = r.answer
        /\ [r EXCEPT !.isNewest = FALSE].isNewest = FALSE
  BY DEF Requests
<1>4. requests' \subseteq Requests
  BY <1>1, <1>2, <1>3
<1>5. \E r \in requests' : r.isNewest
  BY <1>1, <1>2
<1>6. asked' \in [span : Int, end : Int]
  BY <1>2 DEF ViewOK, Live
<1>7. ASSUME NEW q \in requests'
      PROVE  \/ /\ q.answer = Unanswered /\ q.from <= q.to /\ q.to <= clock
                /\ Covers(q, span, end)
             \/ \E r \in requests : /\ q.from = r.from /\ q.to = r.to /\ q.step = r.step
                                    /\ q.answer = r.answer /\ ~q.isNewest
  <2>1. CASE q = Requested
    BY <1>1, <2>1
  <2>2. CASE \E r \in requests : q = [r EXCEPT !.isNewest = FALSE]
    <3>1. PICK r \in requests : q = [r EXCEPT !.isNewest = FALSE]
      BY <2>2
    <3> QED
      BY <1>3, <3>1
  <2> QED
    BY <1>2, <2>1, <2>2
<1> QED
  BY <1>2, <1>4, <1>5, <1>6, <1>7

\* What panning and zooming do to the view.  (setView)
LEMMA SetViewIs ==
  ASSUME clock \in Times,
         NEW s \in Int, NEW e \in {Live} \cup Times, NEW most \in Int, MIN_SPAN <= most,
         setView(s, e, most)
  PROVE  /\ maxSpan' = most /\ span' \in MIN_SPAN .. most
         /\ end' \in {Live} \cup Times /\ end' <= clock
         /\ timer' = (timer \/ ~Covers(loaded, span', end'))
<1>1. /\ maxSpan' = most /\ span' = ClampSpan(s, most)
      /\ end' = IF e = Live \/ e >= clock THEN Live ELSE Larger(e, clock - most + span')
      /\ timer' = (timer \/ ~Covers(loaded, span', end'))
  BY DEF setView
<1>2. span' \in MIN_SPAN .. most
  <2>1. ClampSpan(s, most) \in MIN_SPAN .. most
    BY Constants DEF ClampSpan, Larger, Smaller
  <2> QED
    BY <1>1, <2>1
<1>3. clock \in Nat /\ clock <= MaxTime /\ Start - 1 <= clock
  BY Constants DEF Times
<1>4. CASE e = Live \/ e >= clock
  <2>1. end' = Live
    BY <1>1, <1>4
  <2> QED
    BY <1>1, <1>2, <1>3, <2>1 DEF Live
<1>5. CASE ~(e = Live \/ e >= clock)
  <2>1. e \in Times /\ e \in Int /\ Start - 1 <= e /\ e < clock
    BY <1>3, <1>5, Constants DEF Times
  <2>2. span' \in Int /\ span' <= most
    BY <1>2, Constants
  <2>3. end' = Larger(e, clock - most + span')
    BY <1>1, <1>5
  <2>6. clock - most + span' \in Int /\ clock - most + span' <= clock
    <3>1. \A a, b, c \in Int : c <= b => a - b + c \in Int /\ a - b + c <= a
      OBVIOUS
    <3>2. clock \in Int /\ most \in Int
      BY <1>3
    <3> QED
      BY <2>2, <3>1, <3>2
  <2>4. end' \in Int /\ e <= end' /\ end' <= clock
    BY <1>3, <2>1, <2>3, <2>6 DEF Larger
  <2>5. end' \in Times
    BY <1>3, <2>1, <2>4, Constants DEF Times
  <2> QED
    BY <1>1, <1>2, <2>4, <2>5
<1> QED
  BY <1>4, <1>5

\* The snapshot that the page receives.  (ws.onmessage)
LEMMA MessageIs ==
  ASSUME TypeOK, NothingFromTheFuture, Ordered(send), send # << >>
  PROVE  LET m == Head(send)
             keepFrom == m - span - span \div 2
         IN  /\ m \in Times /\ m \in Int /\ m \in Range(send) /\ m <= clock
             /\ collected => m < clock
             /\ Tail(send) \in Seq(Times) /\ Len(Tail(send)) <= BufferSize /\ Ordered(Tail(send))
             /\ Range(Tail(send)) = Range(send) \ {m}
             /\ \A x \in Range(Tail(send)) : m < x
             /\ keepFrom \in Int /\ keepFrom <= m /\ keepFrom <= clock - span
<1> DEFINE m == Head(send)
<1>1. Times \subseteq Int /\ send \in Seq(Times)
  BY TimesAre DEF TypeOK
<1>2. /\ Tail(send) \in Seq(Times) /\ Len(Tail(send)) = Len(send) - 1
      /\ Ordered(Tail(send))
      /\ m \in Times /\ m \in Range(send)
      /\ Range(Tail(send)) = Range(send) \ {m}
      /\ \A x \in Range(Tail(send)) : m < x
  BY <1>1, TailKeepsOrder
<1> HIDE DEF m
<1>3. m \in Int /\ m <= clock /\ (collected => m < clock)
  BY <1>1, <1>2, Zenon DEF NothingFromTheFuture
<1>4. Len(Tail(send)) <= BufferSize
  <2>1. Len(send) \in Nat /\ Len(send) <= BufferSize
    BY <1>1 DEF TypeOK
  <2> QED
    BY <1>2, <2>1, Constants
<1>5. clock \in Nat /\ span \in Nat /\ span > 0
  BY TypeImpliesView DEF ViewOK
<1>6. /\ m - span - span \div 2 \in Int /\ m - span - span \div 2 <= m
      /\ m - span - span \div 2 <= clock - span
  BY <1>3, <1>5
<1> QED
  BY <1>2, <1>3, <1>4, <1>6 DEF m

-----------------------------------------------------------------------------
(* The invariant holds at first, *)

LEMMA InitInv == Init => IInv
<1> SUFFICES ASSUME Init PROVE IInv
  OBVIOUS
<1>1. /\ Times \subseteq Nat /\ Start \in Times /\ Start - 1 \in Times
      /\ Start \in Nat /\ Start - 1 \in Nat /\ Start - 1 <= Start
  BY TimesAre, Constants
<1>2. /\ Range(<< >>) = {} /\ << >> \in Seq(Times) /\ Len(<< >>) = 0
      /\ \A i, j \in 1 .. Len(<< >>) : << >>[i] < << >>[j]
  BY DEF Range
<1>3. /\ clock = Start /\ stored = {Start - 1, Start} /\ collected = FALSE
      /\ send = << >> /\ history = << >> /\ end = Live /\ requests = {} /\ ~timer
      /\ span = FirstSpan /\ maxSpan = FirstMaxSpan /\ changes = 0
      /\ loaded = NothingLoaded /\ asked = NoView
  BY DEF Init
<1>4. /\ why \in [Times -> {"not sent", "not yet"}]
      /\ \A ts \in stored : why[ts] = "not sent"
  <2>1. Start <= Start /\ Start - 1 <= Start
    BY <1>1
  <2>2. why = [ts \in Times |-> IF ts <= Start THEN "not sent" ELSE "not yet"]
    BY DEF Init
  <2> QED
    BY <1>1, <1>3, <2>1, <2>2
<1>5. TypeOK
  <2>1. /\ clock \in Times /\ stored \subseteq Times /\ end \in {Live} \cup Times
        /\ Len(send) <= BufferSize /\ send \in Seq(Times) /\ history \in Seq(Times)
    BY <1>1, <1>2, <1>3, Constants
  <2>2. maxSpan = FirstMaxSpan /\ span \in MIN_SPAN .. maxSpan
    BY <1>3, Constants
  <2>3. changes \in 0 .. MaxChanges
    BY <1>3, Constants
  <2> QED
    BY <1>3, <1>4, <2>1, <2>2, <2>3 DEF Init, TypeOK
<1>6. Records
  <2>1. loaded \in [from : Int, to : Int, step : Nat, fetchedAt : Int]
    BY <1>3 DEF NothingLoaded
  <2>2. asked \in [span : Int, end : Int]
    BY <1>3 DEF NoView, Live
  <2>3. why \in [Times -> Explained \cup {"has it", "not yet"}]
    BY <1>4 DEF Explained
  <2> QED
    BY <1>3, <2>1, <2>2, <2>3 DEF Records
<1>7. NothingFromTheFuture
  <2>1. end <= clock
    BY <1>1, <1>3 DEF Live
  <2>2. stored \cup Range(send) \cup Range(history) = {Start - 1, Start}
    BY <1>2, <1>3
  <2>3. Start <= Start
    BY <1>1
  <2> QED
    BY <1>1, <1>3, <2>1, <2>2, <2>3 DEF NothingFromTheFuture
<1>8. NothingUnconnected /\ AnswersAreComplete
  BY <1>3 DEF NothingUnconnected, AnswersAreComplete
<1>9. Ordered(send) /\ HistoryInOrder
  BY <1>2, <1>3, Zenon DEF Ordered, HistoryInOrder
<1>10. NewestCovers
  BY <1>3 DEF NewestCovers
<1>11. FetchedViewIsLoaded
  <2>1. asked.span = 0 /\ span # 0
    BY <1>3, Constants DEF NoView
  <2> QED
    BY <2>1 DEF FetchedViewIsLoaded
<1>12. NotYetIsPending /\ Accounted
  <2>1. Pending = {}
    BY <1>2, <1>3 DEF Pending
  <2> QED
    BY <1>4, <2>1 DEF NotYetIsPending, Accounted, Explained
<1> QED
  BY <1>5, <1>6, <1>7, <1>8, <1>9, <1>10, <1>11, <1>12 DEF IInv

-----------------------------------------------------------------------------
(* and every step keeps it: the types, *)

LEMMA TypeStep == IInv /\ Next => TypeOK' /\ NothingFromTheFuture'
<1> SUFFICES ASSUME IInv, Next PROVE TypeOK' /\ NothingFromTheFuture'
  OBVIOUS
<1> USE DEF collecting, handling, shown, view, fetching
<1>a. TypeOK /\ Records /\ NothingFromTheFuture /\ NothingUnconnected /\ AnswersAreComplete /\ Ordered(send)
  BY DEF IInv
<1>b. Times \subseteq Nat /\ clock \in Times /\ clock \in Nat /\ clock <= MaxTime
  BY <1>a, TimesAre, Constants DEF TypeOK, Times
<1>c. ViewOK
  BY <1>a, TypeImpliesView
<1>d. Range(<< >>) = {}
  BY DEF Range
<1>e. requests \subseteq Requests
  BY <1>a DEF Records
<1>f. \A ts \in stored \cup Range(send) \cup Range(history) : ts \in Nat /\ ts <= clock
  <2>1. \A s \in Seq(Times) : \A ts \in Range(s) : ts \in Times
    BY DEF Range
  <2>2. stored \subseteq Times /\ send \in Seq(Times) /\ history \in Seq(Times)
    BY <1>a DEF TypeOK
  <2>3. \A ts \in stored \cup Range(send) \cup Range(history) : ts \in Times
    BY <2>1, <2>2
  <2> QED
    BY <1>a, <1>b, <2>3, Zenon DEF NothingFromTheFuture
<1>g. \A r \in requests : r.from <= r.to /\ r.to <= clock
  BY <1>a DEF TypeOK
<1>1. ASSUME Collect PROVE TypeOK' /\ NothingFromTheFuture'
  <2>1. clock' \in Times /\ clock' = clock + 1
    BY <1>1, <1>b, Constants DEF Collect, Times
  <2>2. \A r \in requests : r.from <= r.to /\ r.to <= clock'
    BY <1>b, <1>e, <1>g, <2>1 DEF Requests
  <2>3. TypeOK'
    BY <1>1, <1>a, <2>1, <2>2 DEF Collect, TypeOK
  <2>4. end <= clock'
    BY <1>c, <2>1 DEF ViewOK, Live
  <2>5. /\ \A ts \in stored \cup Range(send) \cup Range(history) : ts <= clock'
        /\ \A ts \in Range(send) : ts < clock'
    BY <1>b, <1>f, <2>1
  <2>6. clock' <= clock' /\ stored' \subseteq stored \cup {clock'}
    BY <1>1, <1>b, <2>1 DEF Collect
  <2>7. NothingFromTheFuture'
    BY <1>1, <2>4, <2>5, <2>6 DEF Collect, NothingFromTheFuture
  <2> QED
    BY <2>3, <2>7
<1>2. ASSUME Broadcast PROVE TypeOK' /\ NothingFromTheFuture'
  <2>1. CASE handler = "serving" /\ Len(send) < BufferSize
    <3>1. send' = Append(send, clock) /\ why' = why
      BY <1>2, <2>1 DEF Broadcast
    <3>2. send' \in Seq(Times) /\ Len(send') <= BufferSize
      BY <1>a, <1>b, <2>1, <3>1, Constants DEF TypeOK
    <3>3. TypeOK'
      BY <1>2, <1>a, <3>1, <3>2 DEF Broadcast, TypeOK
    <3>4. Range(send') = Range(send) \cup {clock}
      <4>1. send \in Seq(Times)
        BY <1>a DEF TypeOK
      <4> QED
        BY <1>b, <3>1, <4>1 DEF Range
    <3>5. \A ts \in stored \cup Range(send') \cup Range(history) : ts <= clock
      BY <1>b, <1>f, <3>4
    <3>6. NothingFromTheFuture'
      BY <1>2, <1>a, <3>5 DEF Broadcast, NothingFromTheFuture
    <3> QED
      BY <3>3, <3>6
  <2>2. CASE ~(handler = "serving" /\ Len(send) < BufferSize)
    <3>1. send' = send /\ DOMAIN why' = Times
      BY <1>2, <1>a, <2>2 DEF Broadcast, TypeOK
    <3>2. TypeOK'
      BY <1>2, <1>a, <3>1 DEF Broadcast, TypeOK
    <3>3. NothingFromTheFuture'
      BY <1>2, <1>a, <3>1 DEF Broadcast, NothingFromTheFuture
    <3> QED
      BY <3>2, <3>3
  <2> QED
    BY <2>1, <2>2
<1>3. ASSUME Prune PROVE TypeOK' /\ NothingFromTheFuture'
  <2>1. TypeOK'
    BY <1>3, <1>a DEF Prune, TypeOK
  <2>2. NothingFromTheFuture'
    BY <1>3, <1>a DEF Prune, NothingFromTheFuture
  <2> QED
    BY <2>1, <2>2
<1>4. ASSUME AddClient PROVE TypeOK' /\ NothingFromTheFuture'
  BY <1>4, <1>a DEF AddClient, TypeOK, NothingFromTheFuture
<1>5. ASSUME Leave PROVE TypeOK' /\ NothingFromTheFuture'
  <2>1. TypeOK'
    BY <1>5, <1>a, Constants DEF Leave, TypeOK
  <2>2. NothingFromTheFuture'
    BY <1>5, <1>a, <1>d DEF Leave, NothingFromTheFuture
  <2> QED
    BY <2>1, <2>2
<1>6. ASSUME fetchHistory
      PROVE  timer' \in BOOLEAN /\ \A r \in requests' : r.from <= r.to /\ r.to <= clock
  <2>1. timer' = FALSE
    BY <1>6 DEF fetchHistory
  <2>2. \A q \in requests' :
          \/ q.from <= q.to /\ q.to <= clock
          \/ \E r \in requests : q.from = r.from /\ q.to = r.to
    BY <1>6, <1>c, <1>e, FetchIs
  <2> QED
    BY <1>g, <2>1, <2>2
<1>7. ASSUME OnOpen PROVE TypeOK' /\ NothingFromTheFuture'
  <2>1. fetchHistory
    BY <1>7 DEF OnOpen
  <2>2. TypeOK'
    BY <1>7, <1>a, <1>6, <2>1 DEF OnOpen, TypeOK
  <2>3. NothingFromTheFuture'
    BY <1>7, <1>a DEF OnOpen, NothingFromTheFuture
  <2> QED
    BY <2>2, <2>3
<1>8. ASSUME NEW s \in Int, NEW e \in {Live} \cup Times,
             NEW most \in {FirstMaxSpan, Larger(MIN_SPAN, retention)}, MIN_SPAN <= most,
             setView(s, e, most), changes' \in 0 .. MaxChanges
      PROVE  TypeOK' /\ NothingFromTheFuture'
  <2>1. most \in Int
    BY Constants DEF Larger
  <2>2. /\ maxSpan' = most /\ span' \in MIN_SPAN .. most
        /\ end' \in {Live} \cup Times /\ end' <= clock
        /\ timer' = (timer \/ ~Covers(loaded, span', end'))
    BY <1>8, <1>b, <2>1, SetViewIs
  <2>3. TypeOK'
    BY <1>8, <1>a, <2>2 DEF setView, TypeOK
  <2>4. NothingFromTheFuture'
    BY <1>8, <1>a, <2>2 DEF setView, NothingFromTheFuture
  <2> QED
    BY <2>3, <2>4
<1>9. maxSpan \in {FirstMaxSpan, Larger(MIN_SPAN, retention)} /\ MIN_SPAN <= maxSpan /\ span \in Int
  <2>1. maxSpan \in {FirstMaxSpan, Larger(MIN_SPAN, retention)}
    BY <1>a DEF TypeOK
  <2> QED
    BY <1>c, <2>1, Constants DEF ViewOK, Larger
<1>10. ASSUME ConfigArrives PROVE TypeOK' /\ NothingFromTheFuture'
  <2>1. /\ setView(span, end, Larger(MIN_SPAN, retention)) /\ changes' \in 0 .. MaxChanges
        /\ end \in {Live} \cup Times
    BY <1>10, <1>a DEF ConfigArrives, TypeOK
  <2>2. MIN_SPAN <= Larger(MIN_SPAN, retention)
    BY Constants DEF Larger
  <2> QED
    BY <1>8, <1>9, <2>1, <2>2
<1>11. ASSUME ChangeView PROVE TypeOK' /\ NothingFromTheFuture'
  <2>1. PICK s \in Spans, e \in {Live} \cup (Start - 1 .. clock - 1) : setView(s, e, maxSpan)
    BY <1>11 DEF ChangeView
  <2>2. changes' \in 0 .. MaxChanges
    <3>1. changes \in 0 .. MaxChanges /\ changes < MaxChanges /\ changes' = changes + 1
      BY <1>11, <1>a DEF ChangeView, TypeOK
    <3> QED
      BY <3>1, Constants
  <2>3. e \in {Live} \cup Times /\ s \in Int
    BY <1>b, Constants DEF Times
  <2> QED
    BY <1>8, <1>9, <2>1, <2>2, <2>3
<1>12. ASSUME TimerFires PROVE TypeOK' /\ NothingFromTheFuture'
  <2>1. fetchHistory
    BY <1>12 DEF TimerFires
  <2>2. TypeOK'
    BY <1>12, <1>a, <1>6, <2>1 DEF TimerFires, TypeOK
  <2>3. NothingFromTheFuture'
    BY <1>12, <1>a DEF TimerFires, NothingFromTheFuture
  <2> QED
    BY <2>2, <2>3
<1>13. ASSUME OnMessage PROVE TypeOK' /\ NothingFromTheFuture'
  <2> DEFINE m == Head(send)
             keepFrom == m - span - span \div 2
  <2>1. /\ m \in Times /\ m \in Int /\ m <= clock /\ keepFrom \in Int /\ keepFrom <= m
        /\ Tail(send) \in Seq(Times) /\ Len(Tail(send)) <= BufferSize
        /\ Range(Tail(send)) \subseteq Range(send)
    BY <1>13, <1>a, MessageIs DEF OnMessage
  <2>2. /\ history' = Appended(m, keepFrom) \/ history' = history
        /\ send' = Tail(send)
        /\ fetchHistory \/ UNCHANGED <<timer, requests>>
        /\ UNCHANGED <<clock, stored, collected, handler, ws, span, end, maxSpan, changes>>
        /\ DOMAIN why' = DOMAIN why
    BY <1>13 DEF OnMessage
  <2>3. history' \in Seq(Times) /\ \A ts \in Range(history') : ts <= clock
    <3>1. CASE history' = history
      BY <1>a, <3>1 DEF TypeOK, NothingFromTheFuture
    <3>2. CASE history' = Appended(m, keepFrom)
      <4>1. Ordered(history) /\ history \in Seq(Times)
        BY <1>a DEF IInv, TypeOK, HistoryInOrder, Ordered
      <4>2. /\ history' \in Seq(Times)
            /\ (\A x \in Range(history) : x < m) =>
                 Range(history') = {x \in Range(history) \cup {m} : x >= keepFrom}
            /\ (\E x \in Range(history) : x >= m) => history' = history
        BY <2>1, <3>2, <4>1, AppendedIs
      <4>3. (\A x \in Range(history) : x < m) \/ (\E x \in Range(history) : x >= m)
        BY <1>f, <2>1
      <4> QED
        BY <1>a, <2>1, <4>2, <4>3 DEF NothingFromTheFuture
    <3> QED
      BY <2>2, <3>1, <3>2
  <2>4. timer' \in BOOLEAN /\ \A r \in requests' : r.from <= r.to /\ r.to <= clock
    BY <1>6, <1>a, <1>g, <2>2 DEF TypeOK
  <2> HIDE DEF m, keepFrom
  <2>5. TypeOK'
    BY <1>a, <2>1, <2>2, <2>3, <2>4 DEF TypeOK
  <2>6. NothingFromTheFuture'
    BY <1>a, <2>1, <2>2, <2>3 DEF NothingFromTheFuture
  <2> QED
    BY <2>5, <2>6
<1>14. ASSUME Close PROVE TypeOK' /\ NothingFromTheFuture'
  <2>4. /\ history' = << >> /\ end' = Live /\ span' = FirstSpan /\ maxSpan' = FirstMaxSpan
        /\ changes' = 0 /\ timer' = FALSE /\ requests' = {} /\ DOMAIN why' = Times
        /\ ws' = "closed"
        /\ UNCHANGED <<clock, stored, collected, handler, send>>
    BY <1>14 DEF Close
  <2>5. changes' \in 0 .. MaxChanges /\ span' \in MIN_SPAN .. maxSpan' /\ history' \in Seq(Times)
    BY <2>4, Constants
  <2>1. TypeOK'
    BY <1>a, <2>4, <2>5 DEF TypeOK
  <2>2. end' <= clock
    BY <2>4, <1>b DEF Live
  <2>3. NothingFromTheFuture'
    BY <1>14, <1>a, <1>d, <2>2 DEF Close, NothingFromTheFuture
  <2> QED
    BY <2>1, <2>3
<1>15. ASSUME NEW r \in requests, HandleHistory(r) \/ Arrive(r) \/ FetchFails(r)
       PROVE  TypeOK' /\ NothingFromTheFuture'
  <2>1. r \in Requests
    BY <1>e
  <2>2. CASE HandleHistory(r)
    <3> DEFINE answered == [r EXCEPT !.answer = QueryDownsampled(r.from, r.to, r.step)]
    <3>1. requests' = (requests \ {r}) \cup {answered} /\ UNCHANGED timer
      BY <2>2 DEF HandleHistory
    <3>2. answered.from = r.from /\ answered.to = r.to
      BY <2>1 DEF Requests
    <3> HIDE DEF answered
    <3>3. \A q \in requests' : q.from <= q.to /\ q.to <= clock
      BY <1>g, <3>1, <3>2
    <3>4. TypeOK'
      BY <1>a, <2>2, <3>1, <3>3 DEF HandleHistory, TypeOK
    <3>5. NothingFromTheFuture'
      BY <1>a, <2>2 DEF HandleHistory, NothingFromTheFuture
    <3> QED
      BY <3>4, <3>5
  <2>3. CASE Arrive(r)
    <3>1. history' \in Seq(Times) /\ DOMAIN why' = Times /\ \A ts \in Range(history') : ts <= clock
      <4>1. CASE r.isNewest
        <5>1. /\ history' = r.answer /\ r.answer # Unanswered
              /\ DOMAIN why' = Times
          BY <2>3, <4>1 DEF Arrive, Show
        <5>2. r.answer \in Seq(Times)
          BY <2>1, <5>1 DEF Requests
        <5>3. Range(r.answer) \subseteq r.from .. r.to /\ r.to <= clock /\ r.from \in Int /\ r.to \in Int
          BY <1>a, <1>g, <2>1, <5>1 DEF AnswersAreComplete, Requests
        <5> QED
          BY <1>b, <5>1, <5>2, <5>3
      <4>2. CASE ~r.isNewest
        BY <1>a, <2>3, <4>2 DEF Arrive, TypeOK, NothingFromTheFuture
      <4> QED
        BY <4>1, <4>2
    <3>2. TypeOK'
      BY <1>a, <2>3, <3>1 DEF Arrive, TypeOK
    <3>3. NothingFromTheFuture'
      BY <1>a, <2>3, <3>1 DEF Arrive, NothingFromTheFuture
    <3> QED
      BY <3>2, <3>3
  <2>4. CASE FetchFails(r)
    BY <1>a, <2>4 DEF FetchFails, TypeOK, NothingFromTheFuture
  <2> QED
    BY <1>15, <2>2, <2>3, <2>4
<1> QED
  BY <1>1, <1>2, <1>3, <1>4, <1>5, <1>7, <1>10, <1>11, <1>12, <1>13, <1>14, <1>15
  DEF Next, Server, App

\* the types of the records, and that a page without a connection does nothing,
LEMMA RecordsStep == IInv /\ Next => Records' /\ NothingUnconnected'
<1> SUFFICES ASSUME IInv, Next PROVE Records' /\ NothingUnconnected'
  OBVIOUS
<1> DEFINE Loadings == [from : Int, to : Int, step : Nat, fetchedAt : Int]
           Views == [span : Int, end : Int]
           Reasons == Explained \cup {"has it", "not yet"}
<1> USE DEF collecting, handling, shown, view, fetching
<1>a. TypeOK /\ Records /\ NothingFromTheFuture /\ NothingUnconnected /\ Ordered(send)
  BY DEF IInv
<1>b. /\ requests \subseteq Requests /\ loaded \in Loadings /\ asked \in Views
      /\ why \in [Times -> Reasons]
  BY <1>a DEF Records
<1>c. ViewOK /\ clock \in Times /\ clock \in Int /\ stored \subseteq Times
  <2>1. ViewOK /\ clock \in Times /\ stored \subseteq Times
    BY <1>a, TypeImpliesView DEF TypeOK
  <2> QED
    BY <2>1 DEF ViewOK
<1>d. NothingLoaded \in Loadings /\ NoView \in Views
  BY DEF NothingLoaded, NoView, Live
<1>e. "has it" \in Reasons /\ "not yet" \in Reasons /\ "not sent" \in Reasons /\ "cut off" \in Reasons
  BY DEF Explained
<1>f. Reception \in Reasons
  BY DEF Reception, Explained
<1> HIDE DEF Loadings, Views, Reasons
<1>g. ASSUME requests' \subseteq Requests, loaded' \in Loadings, asked' \in Views,
             why' \in [Times -> Reasons]
      PROVE  Records'
  BY <1>g DEF Records, Loadings, Views, Reasons
<1>h. ASSUME UNCHANGED <<requests, loaded, asked, why>> PROVE Records'
  BY <1>a, <1>h DEF Records
<1>i. ASSUME fetchHistory
      PROVE  requests' \subseteq Requests /\ asked' \in Views
  BY <1>b, <1>c, <1>i, FetchIs DEF Views
<1>1. ASSUME Collect \/ Prune \/ AddClient \/ Leave
      PROVE  Records' /\ NothingUnconnected'
  BY <1>1, <1>a, <1>h DEF Collect, Prune, AddClient, Leave, NothingUnconnected
<1>2. ASSUME Broadcast PROVE Records' /\ NothingUnconnected'
  <2>1. why' \in [Times -> Reasons]
    BY <1>2, <1>b, <1>e DEF Broadcast
  <2>2. UNCHANGED <<requests, loaded, asked, ws, history, timer>>
    BY <1>2 DEF Broadcast
  <2>3. Records'
    BY <1>b, <1>g, <2>1, <2>2
  <2> QED
    BY <1>a, <2>2, <2>3 DEF NothingUnconnected
<1>3. ASSUME OnOpen PROVE Records' /\ NothingUnconnected'
  <2>1. fetchHistory /\ UNCHANGED <<loaded, why>> /\ ws' = "open"
    BY <1>3 DEF OnOpen
  <2> QED
    BY <1>b, <1>g, <1>i, <2>1 DEF NothingUnconnected
<1>4. ASSUME ws = "open", UNCHANGED <<ws, requests, loaded, asked, why>>
      PROVE  Records' /\ NothingUnconnected'
  BY <1>4, <1>h DEF NothingUnconnected
<1>5. ASSUME ConfigArrives \/ ChangeView PROVE Records' /\ NothingUnconnected'
  BY <1>4, <1>5 DEF ConfigArrives, ChangeView, setView
<1>6. ASSUME TimerFires PROVE Records' /\ NothingUnconnected'
  <2>1. fetchHistory /\ timer /\ UNCHANGED <<loaded, why, ws>>
    BY <1>6 DEF TimerFires
  <2> QED
    BY <1>a, <1>b, <1>g, <1>i, <2>1 DEF NothingUnconnected
<1>7. ASSUME OnMessage PROVE Records' /\ NothingUnconnected'
  <2> DEFINE m == Head(send)
             keepFrom == m - span - span \div 2
  <2>1. m \in Times /\ m \in Int /\ keepFrom \in Int
    BY <1>7, <1>a, MessageIs DEF OnMessage
  <2> HIDE DEF m, keepFrom
  <2>2. /\ ws' = "open" /\ why' = [why EXCEPT ![m] = Reception]
        /\ loaded' = [loaded EXCEPT !.from = Larger(@, keepFrom), !.to = m] \/ loaded' = loaded
        /\ fetchHistory \/ UNCHANGED <<requests, asked>>
    BY <1>7 DEF OnMessage, m, keepFrom
  <2>3. why' \in [Times -> Reasons]
    BY <1>b, <1>f, <2>2
  <2>4. loaded' \in Loadings
    <3>1. CASE loaded' = loaded
      BY <1>b, <3>1
    <3>2. CASE loaded' = [loaded EXCEPT !.from = Larger(@, keepFrom), !.to = m]
      <4>1. loaded.from \in Int /\ loaded.step \in Nat /\ loaded.fetchedAt \in Int
        BY <1>b DEF Loadings
      <4>2. Larger(loaded.from, keepFrom) \in Int
        BY <2>1, <4>1 DEF Larger
      <4>3. loaded' = [from |-> Larger(loaded.from, keepFrom), to |-> m,
                       step |-> loaded.step, fetchedAt |-> loaded.fetchedAt]
        BY <1>b, <3>2 DEF Loadings
      <4> QED
        BY <2>1, <4>1, <4>2, <4>3 DEF Loadings
    <3> QED
      BY <2>2, <3>1, <3>2
  <2>5. requests' \subseteq Requests /\ asked' \in Views
    BY <1>b, <1>i, <2>2
  <2> QED
    BY <1>g, <2>2, <2>3, <2>4, <2>5 DEF NothingUnconnected
<1>8. ASSUME Close PROVE Records' /\ NothingUnconnected'
  <2>1. /\ requests' = {} /\ loaded' = NothingLoaded /\ asked' = NoView
        /\ why' = [ts \in Times |-> "not yet"] /\ history' = << >> /\ timer' = FALSE
    BY <1>8 DEF Close
  <2>2. why' \in [Times -> Reasons]
    BY <1>e, <2>1
  <2> QED
    BY <1>d, <1>g, <2>1, <2>2 DEF NothingUnconnected
<1>9. ASSUME NEW r \in requests, HandleHistory(r) \/ Arrive(r) \/ FetchFails(r)
      PROVE  Records' /\ NothingUnconnected'
  <2>1. r \in Requests /\ ws = "open" /\ ws' = ws
    BY <1>9, <1>a, <1>b DEF NothingUnconnected, HandleHistory, Arrive, FetchFails
  <2>2. NothingUnconnected'
    BY <2>1 DEF NothingUnconnected
  <2>3. CASE HandleHistory(r)
    <3> DEFINE answer == QueryDownsampled(r.from, r.to, r.step)
               answered == [r EXCEPT !.answer = answer]
    <3>1. /\ requests' = (requests \ {r}) \cup {answered}
          /\ UNCHANGED <<loaded, asked, why>>
      BY <2>3 DEF HandleHistory
    <3>2. answer \in Seq(Times)
      BY <1>c, <2>1, AnswerIs DEF Requests
    <3> HIDE DEF answer
    <3>3. answered \in Requests
      BY <2>1, <3>2 DEF Requests
    <3> QED
      BY <1>b, <1>g, <2>2, <3>1, <3>3
  <2>4. CASE Arrive(r)
    <3>1. requests' \subseteq Requests /\ asked' \in Views
      BY <1>b, <2>4 DEF Arrive
    <3>2. CASE r.isNewest
      <4>1. /\ loaded' = [from |-> r.from, to |-> r.to, step |-> r.step, fetchedAt |-> clock]
            /\ why' = [ts \in Times |-> IF Contains(r.answer, ts) THEN "has it"
                                        ELSE IF why[ts] = "has it" /\ ts > r.to THEN "cut off"
                                        ELSE why[ts]]
        BY <2>4, <3>2 DEF Arrive, Show
      <4>2. loaded' \in Loadings
        BY <1>c, <2>1, <4>1 DEF Requests, Loadings
      <4>3. why' \in [Times -> Reasons]
        BY <1>b, <1>e, <4>1
      <4> QED
        BY <1>g, <2>2, <3>1, <4>2, <4>3
    <3>3. CASE ~r.isNewest
      <4>1. UNCHANGED <<loaded, why>>
        BY <2>4, <3>3 DEF Arrive
      <4> QED
        BY <1>b, <1>g, <2>2, <3>1, <4>1
    <3> QED
      BY <3>2, <3>3
  <2>5. CASE FetchFails(r)
    BY <1>b, <1>d, <1>g, <2>2, <2>5 DEF FetchFails
  <2> QED
    BY <1>9, <2>3, <2>4, <2>5
<1> QED
  BY <1>1, <1>2, <1>3, <1>5, <1>6, <1>7, <1>8, <1>9 DEF Next, Server, App

\* the order of snapshots on their way and on the page, and what answers have,
LEMMA OrderStep ==
  IInv /\ Next => Ordered(send)' /\ HistoryInOrder' /\ AnswersAreComplete'
<1> SUFFICES ASSUME IInv, Next
             PROVE  Ordered(send)' /\ Ordered(history)' /\ AnswersAreComplete'
  BY DEF Ordered, HistoryInOrder
<1> USE DEF collecting, handling, shown, view, fetching
<1>a. /\ TypeOK /\ Records /\ NothingFromTheFuture /\ AnswersAreComplete
      /\ Ordered(send) /\ Ordered(history)
  BY DEF IInv, Ordered, HistoryInOrder
<1>b. /\ requests \subseteq Requests /\ ViewOK /\ stored \subseteq Times /\ clock \in Nat
      /\ send \in Seq(Times) /\ history \in Seq(Times)
  BY <1>a, TypeImpliesView DEF Records, TypeOK, ViewOK
<1>c. Times \subseteq Nat
  BY TimesAre
<1>d. ASSUME UNCHANGED <<send, history>> PROVE Ordered(send)' /\ Ordered(history)'
  BY <1>a, <1>d DEF Ordered
<1>e. ASSUME NEW q, NEW S, q.answer # Unanswered,
             \E r \in requests : /\ q.from = r.from /\ q.to = r.to /\ q.step = r.step
                                /\ q.answer = r.answer,
             \A ts \in S : ts \in stored \/ ts > clock
      PROVE  /\ Ordered(q.answer)
             /\ Range(q.answer) \subseteq q.from .. q.to
             /\ q.step = 0 => S \cap (q.from .. q.to) \subseteq Range(q.answer)
  <2>1. PICK r \in requests : /\ q.from = r.from /\ q.to = r.to /\ q.step = r.step
                             /\ q.answer = r.answer
    BY <1>e
  <2>2. /\ Ordered(r.answer)
        /\ Range(r.answer) \subseteq r.from .. r.to
        /\ r.step = 0 => stored \cap (r.from .. r.to) \subseteq Range(r.answer)
    BY <1>a, <1>e, <2>1 DEF AnswersAreComplete
  <2>3. \A ts \in S \cap (r.from .. r.to) : ts \in stored
    <3>1. r.to \in Int /\ r.from \in Int /\ r.to <= clock
      BY <1>a, <1>b DEF Requests, TypeOK
    <3>2. \A ts \in r.from .. r.to : ~(ts > clock)
      BY <1>b, <3>1
    <3> QED
      BY <1>e, <3>2
  <2> QED
    BY <2>1, <2>2, <2>3
<1>f. ASSUME \A q \in requests' : q.answer # Unanswered =>
               \E r \in requests : /\ q.from = r.from /\ q.to = r.to /\ q.step = r.step
                                  /\ q.answer = r.answer,
             \A ts \in stored' : ts \in stored \/ ts > clock
      PROVE  AnswersAreComplete'
  BY <1>e, <1>f DEF AnswersAreComplete
<1>g. ASSUME UNCHANGED requests, \A ts \in stored' : ts \in stored \/ ts > clock
      PROVE  AnswersAreComplete'
  BY <1>f, <1>g
<1>h. ASSUME fetchHistory, UNCHANGED stored
      PROVE  AnswersAreComplete'
  BY <1>b, <1>f, <1>h, FetchIs
<1>1. ASSUME Collect
      PROVE  Ordered(send)' /\ Ordered(history)' /\ AnswersAreComplete'
  <2>1. stored' \subseteq stored \cup {clock + 1} /\ UNCHANGED <<send, history, requests>>
    BY <1>1 DEF Collect
  <2>2. clock + 1 > clock
    BY <1>b
  <2> QED
    BY <1>d, <1>g, <2>1, <2>2
<1>2. ASSUME Broadcast
      PROVE  Ordered(send)' /\ Ordered(history)' /\ AnswersAreComplete'
  <2>1. UNCHANGED <<history, requests, stored>> /\ collected
    BY <1>2 DEF Broadcast
  <2>2. Ordered(send)'
    <3>1. CASE send' = send
      BY <1>a, <3>1 DEF Ordered
    <3>2. CASE send' = Append(send, clock)
      <4>1. \A i \in 1 .. Len(send) : send[i] \in Times
        BY <1>b
      <4>2. \A i \in 1 .. Len(send) : send[i] \in Int
        <5>1. \A i \in 1 .. Len(send) : send[i] \in Nat
          BY <1>c, <4>1, Zenon
        <5> QED
          BY <5>1
      <4>3. send \in Seq(Int)
        BY <1>b, <4>2
      <4>4. \A x \in Range(send) : x < clock
        BY <1>a, <2>1 DEF NothingFromTheFuture
      <4>5. Ordered(Append(send, clock))
        BY <1>a, <1>b, <4>3, <4>4, AppendKeepsOrder
      <4> QED
        BY <3>2, <4>5 DEF Ordered
    <3> QED
      BY <1>2, <3>1, <3>2 DEF Broadcast
  <2>3. Ordered(history)'
    BY <1>a, <2>1 DEF Ordered
  <2> QED
    BY <1>g, <2>1, <2>2, <2>3
<1>3. ASSUME Prune \/ AddClient
      PROVE  Ordered(send)' /\ Ordered(history)' /\ AnswersAreComplete'
  <2>1. UNCHANGED <<send, history, requests>> /\ stored' \subseteq stored
    BY <1>3 DEF Prune, AddClient
  <2> QED
    BY <1>d, <1>g, <2>1
<1>4. \A i, j \in 1 .. Len(<< >>) : << >>[i] < << >>[j]
  OBVIOUS
<1>5. ASSUME Leave
      PROVE  Ordered(send)' /\ Ordered(history)' /\ AnswersAreComplete'
  <2>1. send' = << >> /\ UNCHANGED <<history, requests, stored>>
    BY <1>5 DEF Leave
  <2>2. Ordered(send)'
    BY <1>4, <2>1, Zenon DEF Ordered
  <2>3. Ordered(history)'
    BY <1>a, <2>1 DEF Ordered
  <2> QED
    BY <1>g, <2>1, <2>2, <2>3
<1>6. ASSUME OnOpen \/ TimerFires
      PROVE  Ordered(send)' /\ Ordered(history)' /\ AnswersAreComplete'
  <2>1. fetchHistory /\ UNCHANGED <<send, history, stored>>
    BY <1>6 DEF OnOpen, TimerFires
  <2> QED
    BY <1>d, <1>h, <2>1
<1>7. ASSUME ConfigArrives \/ ChangeView
      PROVE  Ordered(send)' /\ Ordered(history)' /\ AnswersAreComplete'
  <2>1. UNCHANGED <<send, history, stored, requests>>
    BY <1>7 DEF ConfigArrives, ChangeView, setView
  <2> QED
    BY <1>d, <1>g, <2>1
<1>8. ASSUME OnMessage
      PROVE  Ordered(send)' /\ Ordered(history)' /\ AnswersAreComplete'
  <2> DEFINE m == Head(send)
             keepFrom == m - span - span \div 2
  <2>1. m \in Times /\ keepFrom \in Int /\ keepFrom <= m /\ Ordered(Tail(send))
    BY <1>8, <1>a, MessageIs DEF OnMessage
  <2>2. Ordered(Appended(m, keepFrom))
    BY <1>a, <1>b, <2>1, AppendedIs
  <2>3. /\ history' = Appended(m, keepFrom) \/ history' = history
        /\ send' = Tail(send) /\ UNCHANGED stored
        /\ fetchHistory \/ UNCHANGED requests
    BY <1>8 DEF OnMessage
  <2>4. Ordered(send)' /\ Ordered(history)'
    BY <1>a, <2>1, <2>2, <2>3 DEF Ordered
  <2>5. AnswersAreComplete'
    BY <1>g, <1>h, <2>3
  <2> QED
    BY <2>4, <2>5
<1>9. ASSUME Close
      PROVE  Ordered(send)' /\ Ordered(history)' /\ AnswersAreComplete'
  <2>1. history' = << >> /\ requests' = {} /\ UNCHANGED send
    BY <1>9 DEF Close
  <2>2. Ordered(history)'
    BY <1>4, <2>1, Zenon DEF Ordered
  <2>3. Ordered(send)'
    BY <1>a, <2>1 DEF Ordered
  <2> QED
    BY <2>1, <2>2, <2>3 DEF AnswersAreComplete
<1>10. ASSUME NEW r \in requests, HandleHistory(r)
       PROVE  Ordered(send)' /\ Ordered(history)' /\ AnswersAreComplete'
  <2> DEFINE answer == QueryDownsampled(r.from, r.to, r.step)
             answered == [r EXCEPT !.answer = answer]
  <2>1. /\ requests' = (requests \ {r}) \cup {answered}
        /\ UNCHANGED <<send, history, stored>>
    BY <1>10 DEF HandleHistory
  <2>2. r.from \in Int /\ r.to \in Int /\ r.step \in Nat
    BY <1>b DEF Requests
  <2>3. /\ Ordered(answer) /\ Range(answer) \subseteq r.from .. r.to
        /\ r.step = 0 => stored \cap (r.from .. r.to) \subseteq Range(answer)
    BY <1>b, <2>2, AnswerIs
  <2> HIDE DEF answer
  <2>4. /\ answered.from = r.from /\ answered.to = r.to /\ answered.step = r.step
        /\ answered.answer = answer
    BY <1>b DEF Requests
  <2> HIDE DEF answered
  <2>5. ASSUME NEW q \in requests', q.answer # Unanswered
        PROVE  /\ Ordered(q.answer)
               /\ Range(q.answer) \subseteq q.from .. q.to
               /\ q.step = 0 => stored \cap (q.from .. q.to) \subseteq Range(q.answer)
    <3>1. CASE q = answered
      BY <2>3, <2>4, <3>1
    <3>2. CASE q \in requests
      BY <1>a, <2>5, <3>2 DEF AnswersAreComplete
    <3> QED
      BY <2>1, <3>1, <3>2
  <2>6. AnswersAreComplete'
    BY <2>1, <2>5 DEF AnswersAreComplete
  <2> QED
    BY <1>d, <2>1, <2>6
<1>11. ASSUME NEW r \in requests, Arrive(r)
       PROVE  Ordered(send)' /\ Ordered(history)' /\ AnswersAreComplete'
  <2>1. requests' \subseteq requests /\ UNCHANGED <<send, stored>>
    BY <1>11 DEF Arrive
  <2>2. Ordered(history)'
    <3>1. CASE r.isNewest
      <4>1. history' = r.answer /\ r.answer # Unanswered
        BY <1>11, <3>1 DEF Arrive, Show
      <4>2. Ordered(r.answer)
        BY <1>a, <4>1 DEF AnswersAreComplete
      <4> QED
        BY <4>1, <4>2 DEF Ordered
    <3>2. CASE ~r.isNewest
      BY <1>11, <1>a, <3>2 DEF Arrive, Ordered
    <3> QED
      BY <3>1, <3>2
  <2>3. Ordered(send)'
    BY <1>a, <2>1 DEF Ordered
  <2> QED
    BY <1>f, <2>1, <2>2, <2>3
<1>12. ASSUME NEW r \in requests, FetchFails(r)
       PROVE  Ordered(send)' /\ Ordered(history)' /\ AnswersAreComplete'
  <2>1. requests' \subseteq requests /\ UNCHANGED <<send, history, stored>>
    BY <1>12 DEF FetchFails
  <2> QED
    BY <1>d, <1>f, <2>1
<1> QED
  BY <1>1, <1>2, <1>3, <1>5, <1>6, <1>7, <1>8, <1>9, <1>10, <1>11, <1>12
  DEF Next, Server, App

\* that what was fetched for a view covers it,
LEMMA ViewStep == IInv /\ Next => NewestCovers' /\ FetchedViewIsLoaded'
<1> SUFFICES ASSUME IInv, Next PROVE NewestCovers' /\ FetchedViewIsLoaded'
  OBVIOUS
<1> USE DEF collecting, handling, shown, view, fetching
<1>a. /\ TypeOK /\ Records /\ NothingFromTheFuture /\ NothingUnconnected
      /\ NewestCovers /\ FetchedViewIsLoaded /\ Ordered(send)
  BY DEF IInv
<1>b. requests \subseteq Requests /\ ViewOK /\ clock \in Nat /\ span \in Nat /\ span > 0
  BY <1>a, TypeImpliesView DEF Records, ViewOK
<1>c. asked = [span |-> span, end |-> end] => asked # NoView /\ asked.span = span /\ asked.end = end
  BY <1>b DEF NoView
<1>d. ASSUME UNCHANGED <<clock, loaded, span, end, timer, requests, asked>>
      PROVE  NewestCovers' /\ FetchedViewIsLoaded'
  BY <1>a, <1>d DEF NewestCovers, FetchedViewIsLoaded, InFlight, Covers, viewTo
<1>e. ASSUME fetchHistory, UNCHANGED <<clock, span, end>>
      PROVE  NewestCovers' /\ FetchedViewIsLoaded'
  <2>1. /\ asked'.span = span /\ asked'.end = end
        /\ \E r \in requests' : r.isNewest
        /\ \A q \in requests' : q.isNewest => Covers(q, span, end)
    BY <1>b, <1>e, FetchIs
  <2>2. FetchedViewIsLoaded'
    BY <2>1 DEF FetchedViewIsLoaded, InFlight
  <2>3. NewestCovers'
    BY <1>e, <2>1 DEF NewestCovers, Covers, viewTo
  <2> QED
    BY <2>2, <2>3
<1>1. ASSUME Collect PROVE NewestCovers' /\ FetchedViewIsLoaded'
  <2>1. clock' = clock + 1 /\ UNCHANGED <<loaded, span, end, timer, requests, asked>>
    BY <1>1 DEF Collect
  <2>2. ASSUME NEW range, range.from \in Int, NEW s \in Int, NEW e \in Int, Covers(range, s, e)
        PROVE  /\ stepFor(s) = range.step
               /\ (IF e = Live THEN clock' ELSE e) - s >= range.from
               /\ e = Live \/ e <= range.to
    BY <1>b, <2>1, <2>2 DEF Covers, viewTo
  <2>3. /\ loaded.from \in Int /\ asked.span \in Int /\ asked.end \in Int
        /\ end \in Int /\ span \in Int /\ \A r \in requests : r.from \in Int
    <3>1. loaded.from \in Int /\ asked.span \in Int /\ asked.end \in Int
      BY <1>a DEF Records
    <3>2. end \in Int /\ span \in Int
      BY <1>b DEF ViewOK, Live
    <3>3. \A r \in requests : r.from \in Int
      BY <1>b DEF Requests
    <3> QED
      BY <3>1, <3>2, <3>3
  <2>4. NewestCovers'
    BY <1>a, <2>1, <2>2, <2>3 DEF NewestCovers, Covers, viewTo
  <2>5. FetchedViewIsLoaded'
    BY <1>a, <2>1, <2>2, <2>3 DEF FetchedViewIsLoaded, InFlight, Covers, viewTo
  <2> QED
    BY <2>4, <2>5
<1>2. ASSUME Broadcast \/ Prune \/ AddClient \/ Leave
      PROVE  NewestCovers' /\ FetchedViewIsLoaded'
  BY <1>2, <1>d DEF Broadcast, Prune, AddClient, Leave
<1>3. ASSUME OnOpen \/ TimerFires PROVE NewestCovers' /\ FetchedViewIsLoaded'
  BY <1>3, <1>e DEF OnOpen, TimerFires
<1>4. ASSUME ConfigArrives \/ ChangeView PROVE NewestCovers' /\ FetchedViewIsLoaded'
  <2>1. /\ timer' = (timer \/ ~Covers(loaded, span', end'))
        /\ UNCHANGED <<clock, loaded, requests, asked>>
    BY <1>4 DEF ConfigArrives, ChangeView, setView
  <2>2. NewestCovers'
    BY <1>a, <2>1 DEF NewestCovers, Covers, viewTo
  <2>3. FetchedViewIsLoaded'
    BY <2>1 DEF FetchedViewIsLoaded, InFlight, Covers, viewTo
  <2> QED
    BY <2>2, <2>3
<1>5. ASSUME OnMessage PROVE NewestCovers' /\ FetchedViewIsLoaded'
  <2> DEFINE m == Head(send)
             keepFrom == m - span - span \div 2
  <2>1. m \in Int /\ keepFrom \in Int /\ keepFrom <= clock - span
    BY <1>5, <1>a, MessageIs DEF OnMessage
  <2> HIDE DEF m, keepFrom
  <2>2. CASE fetchHistory
    BY <1>5, <1>e, <2>2 DEF OnMessage
  <2>3. CASE ~fetchHistory /\ loaded' = loaded
    BY <1>5, <1>d, <2>3 DEF OnMessage
  <2>4. CASE ~fetchHistory /\ loaded' # loaded
    <3>1. /\ end = Live /\ loaded' = [loaded EXCEPT !.from = Larger(@, keepFrom), !.to = m]
          /\ UNCHANGED <<clock, span, end, timer, requests, asked>>
      BY <1>5, <2>4 DEF OnMessage, m, keepFrom
    <3>2. loaded.from \in Int /\ loaded'.from = Larger(loaded.from, keepFrom) /\ loaded'.step = loaded.step
      BY <1>a, <3>1 DEF Records
    <3>3. NewestCovers'
      BY <1>a, <3>1 DEF NewestCovers, Covers, viewTo
    <3>4. Covers(loaded, span, end) => clock - span >= loaded'.from /\ stepFor(span) = loaded'.step
      <4> SUFFICES ASSUME Covers(loaded, span, end)
                   PROVE  clock - span >= loaded'.from /\ stepFor(span) = loaded'.step
        OBVIOUS
      <4>1. clock - span >= loaded.from /\ stepFor(span) = loaded.step
        BY <3>1 DEF Covers, viewTo
      <4>2. clock - span >= Larger(loaded.from, keepFrom)
        BY <1>b, <2>1, <3>2, <4>1 DEF Larger
      <4> QED
        BY <3>2, <4>1, <4>2
    <3>5. FetchedViewIsLoaded'
      BY <1>a, <3>1, <3>4 DEF FetchedViewIsLoaded, InFlight, Covers, viewTo
    <3> QED
      BY <3>3, <3>5
  <2> QED
    BY <2>2, <2>3, <2>4
<1>6. ASSUME Close PROVE NewestCovers' /\ FetchedViewIsLoaded'
  <2>1. requests' = {} /\ asked' = NoView /\ span' = FirstSpan
    BY <1>6 DEF Close
  <2>2. FirstSpan # 0
    BY Constants
  <2> QED
    BY <2>1, <2>2 DEF NewestCovers, FetchedViewIsLoaded, NoView
<1>7. ASSUME NEW r \in requests, HandleHistory(r)
      PROVE  NewestCovers' /\ FetchedViewIsLoaded'
  <2> DEFINE answered == [r EXCEPT !.answer = QueryDownsampled(r.from, r.to, r.step)]
  <2>1. /\ requests' = (requests \ {r}) \cup {answered} /\ r.isNewest
        /\ UNCHANGED <<clock, loaded, span, end, timer, asked>>
    BY <1>7 DEF HandleHistory
  <2>2. /\ answered.from = r.from /\ answered.to = r.to /\ answered.step = r.step
        /\ answered.isNewest = r.isNewest
    BY <1>b DEF Requests
  <2> HIDE DEF answered
  <2>3. NewestCovers'
    BY <1>a, <2>1, <2>2 DEF NewestCovers, Covers, viewTo
  <2>4. FetchedViewIsLoaded'
    BY <2>1, <2>2 DEF FetchedViewIsLoaded, InFlight
  <2> QED
    BY <2>3, <2>4
<1>8. ASSUME NEW r \in requests, Arrive(r)
      PROVE  NewestCovers' /\ FetchedViewIsLoaded'
  <2>1. requests' = requests \ {r} /\ UNCHANGED <<clock, span, end, timer, asked>>
    BY <1>8 DEF Arrive
  <2>2. NewestCovers'
    BY <1>a, <2>1 DEF NewestCovers, Covers, viewTo
  <2>3. CASE r.isNewest
    <3>1. loaded'.from = r.from /\ loaded'.to = r.to /\ loaded'.step = r.step
      <4>1. loaded' = [from |-> r.from, to |-> r.to, step |-> r.step, fetchedAt |-> clock]
        BY <1>8, <2>3 DEF Arrive, Show
      <4> QED
        BY <4>1
    <3>2. asked # NoView => Covers(r, asked.span, asked.end)
      BY <1>a, <2>3 DEF NewestCovers
    <3>3. asked = [span |-> span, end |-> end] => Covers(r, span, end)
      BY <1>c, <3>2
    <3>4. FetchedViewIsLoaded'
      BY <2>1, <3>1, <3>3 DEF FetchedViewIsLoaded, Covers, viewTo
    <3> QED
      BY <2>2, <3>4
  <2>4. CASE ~r.isNewest
    <3>1. loaded' = loaded
      BY <1>8, <2>4 DEF Arrive
    <3>2. FetchedViewIsLoaded'
      BY <1>a, <2>1, <2>4, <3>1 DEF FetchedViewIsLoaded, InFlight, Covers, viewTo
    <3> QED
      BY <2>2, <3>2
  <2> QED
    BY <2>3, <2>4
<1>9. ASSUME NEW r \in requests, FetchFails(r)
      PROVE  NewestCovers' /\ FetchedViewIsLoaded'
  <2>1. asked' = NoView /\ UNCHANGED span
    BY <1>9 DEF FetchFails
  <2>2. NoView.span = 0 /\ span # 0
    BY <1>b DEF NoView
  <2> QED
    BY <2>1, <2>2 DEF NewestCovers, FetchedViewIsLoaded
<1> QED
  BY <1>1, <1>2, <1>3, <1>4, <1>5, <1>6, <1>7, <1>8, <1>9 DEF Next, Server, App

\* and that each snapshot of the history's range is accounted for.
LEMMA AccountedStep == IInv /\ Next => NotYetIsPending' /\ Accounted'
<1> SUFFICES ASSUME IInv, Next PROVE NotYetIsPending' /\ Accounted'
  OBVIOUS
<1> USE DEF collecting, handling, shown, view, fetching
<1>a. /\ TypeOK /\ Records /\ NothingFromTheFuture /\ AnswersAreComplete
      /\ Ordered(send) /\ Ordered(history) /\ NotYetIsPending /\ Accounted
  BY DEF IInv, Ordered, HistoryInOrder
<1>b. /\ requests \subseteq Requests /\ stored \subseteq Times /\ clock \in Nat /\ clock \in Times
      /\ send \in Seq(Times) /\ history \in Seq(Times)
      /\ why \in [Times -> Explained \cup {"has it", "not yet"}]
      /\ loaded \in [from : Int, to : Int, step : Nat, fetchedAt : Int]
  BY <1>a, TypeImpliesView DEF Records, TypeOK, ViewOK
<1>c. /\ \A ts \in stored : ts \in Nat /\ ts <= clock
      /\ \A ts \in Range(history) : ts \in Nat /\ ts <= clock
      /\ \A ts \in Range(send) : ts \in Nat /\ ts <= clock /\ (collected => ts < clock)
  <2>1. /\ \A ts \in stored : ts \in Times
        /\ \A ts \in Range(history) : ts \in Times
        /\ \A ts \in Range(send) : ts \in Times
    <3>1. \A s \in Seq(Times) : \A ts \in Range(s) : ts \in Times
      BY DEF Range
    <3> QED
      BY <1>b, <3>1
  <2>2. \A ts \in Times : ts \in Nat
    BY TimesAre
  <2>3. /\ \A ts \in stored \cup Range(send) \cup Range(history) : ts <= clock
        /\ collected => \A ts \in Range(send) : ts < clock
    BY <1>a DEF NothingFromTheFuture
  <2> QED
    BY <2>1, <2>2, <2>3, Zenon
<1>n. clock \in Nat
  BY <1>b
<1>d. \A ts : ts \in Pending <=> ts \in Range(send) \/ (collected /\ ts = clock)
  BY DEF Pending
<1>e. /\ "paused" \in Explained /\ "not sent" \in Explained /\ "cut off" \in Explained
      /\ "not yet" \notin Explained /\ "has it" # "not yet"
  BY DEF Explained
<1>f. ASSUME ws' # "closed" => ws # "closed", stored' \subseteq stored,
             UNCHANGED <<history, loaded, why, clock, send, collected>>
      PROVE  NotYetIsPending' /\ Accounted'
  <2>1. Pending' = Pending
    BY <1>f DEF Pending
  <2> QED
    BY <1>a, <1>f, <2>1 DEF NotYetIsPending, Accounted
<1>1. ASSUME Collect PROVE NotYetIsPending' /\ Accounted'
  <2>1. /\ ~collected /\ clock' = clock + 1
        /\ (collected' = TRUE /\ stored' \subseteq stored \cup {clock'}) \/ UNCHANGED <<collected, stored>>
        /\ UNCHANGED <<history, loaded, why, send, ws>>
    BY <1>1 DEF Collect
  <2>2. Pending = Range(send) /\ Range(send) \subseteq Pending'
    BY <2>1 DEF Pending
  <2>0. clock' = clock + 1
    BY <1>1 DEF Collect
  <2>3. \A ts \in stored : ts # clock'
    BY <1>n, <1>c, <2>0
  <2>4. \A ts \in stored : ts \in Pending' <=> ts \in Pending
    BY <2>1, <2>2, <2>3 DEF Pending
  <2>5. \A ts \in stored' : ts \in stored \/ (ts = clock' /\ ts \in Pending')
    BY <2>1 DEF Pending
  <2>6. \A t \in Range(history) : t < clock'
    BY <1>n, <1>c, <2>0
  <2>7. NotYetIsPending'
    BY <1>a, <2>1, <2>4, <2>5 DEF NotYetIsPending
  <2>8. Accounted'
    BY <1>a, <2>1, <2>4, <2>5, <2>6 DEF Accounted
  <2> QED
    BY <2>7, <2>8
<1>2. ASSUME Broadcast PROVE NotYetIsPending' /\ Accounted'
  <2>1. /\ collected /\ ~collected'
        /\ UNCHANGED <<clock, stored, ws, history, loaded>>
    BY <1>2 DEF Broadcast
  <2>2. CASE send' = Append(send, clock) /\ why' = why
    <3>1. Range(send') = Range(send) \cup {clock}
      <4>1. send \in Seq(Times) /\ clock \in Times
        BY <1>b
      <4> QED
        BY <2>2, <4>1 DEF Range
    <3>2. Pending' = Pending
      BY <2>1, <3>1 DEF Pending
    <3> QED
      BY <1>a, <2>1, <2>2, <3>2 DEF NotYetIsPending, Accounted
  <2>3. CASE why' = [why EXCEPT ![clock] = "not sent"] /\ send' = send
    <3>1. \A ts \in stored : ts # clock => (ts \in Pending' <=> ts \in Pending) /\ why'[ts] = why[ts]
      BY <1>b, <2>1, <2>3 DEF Pending
    <3>2. clock \notin Pending' /\ why'[clock] = "not sent"
      <4>1. clock \notin Range(send)
        BY <1>n, <1>c, <2>1
      <4> QED
        BY <1>b, <2>1, <2>3, <4>1 DEF Pending
    <3>3. NotYetIsPending'
      BY <1>a, <2>1, <3>1, <3>2 DEF NotYetIsPending
    <3>4. Accounted'
      BY <1>a, <1>e, <2>1, <3>1, <3>2 DEF Accounted
    <3> QED
      BY <3>3, <3>4
  <2> QED
    BY <1>2, <2>2, <2>3 DEF Broadcast
<1>3. ASSUME Prune \/ AddClient PROVE NotYetIsPending' /\ Accounted'
  BY <1>3, <1>f DEF Prune, AddClient
<1>4. ASSUME Leave \/ Close PROVE NotYetIsPending' /\ Accounted'
  <2>1. ws' = "closed"
    BY <1>4 DEF Leave, Close
  <2> QED
    BY <2>1 DEF NotYetIsPending, Accounted
<1>5. ASSUME OnOpen \/ TimerFires \/ ConfigArrives \/ ChangeView
      PROVE  NotYetIsPending' /\ Accounted'
  BY <1>5, <1>f DEF OnOpen, TimerFires, ConfigArrives, ChangeView, setView
<1>6. ASSUME NEW r \in requests, HandleHistory(r) \/ FetchFails(r)
      PROVE  NotYetIsPending' /\ Accounted'
  BY <1>6, <1>f DEF HandleHistory, FetchFails
<1>7. ASSUME NEW r \in requests, Arrive(r) PROVE NotYetIsPending' /\ Accounted'
  <2>1. CASE ~r.isNewest
    BY <1>7, <1>f, <2>1 DEF Arrive
  <2>2. CASE r.isNewest
    <3>1. /\ r.answer # Unanswered /\ history' = r.answer
          /\ loaded' = [from |-> r.from, to |-> r.to, step |-> r.step, fetchedAt |-> clock]
          /\ UNCHANGED <<clock, stored, collected, send, ws>>
      BY <1>7, <2>2 DEF Arrive, Show
    <3>2. why' = [ts \in Times |-> IF Contains(r.answer, ts) THEN "has it"
                                  ELSE IF why[ts] = "has it" /\ ts > r.to THEN "cut off"
                                  ELSE why[ts]]
      BY <1>7, <2>2 DEF Arrive, Show
    <3>3. Pending' = Pending
      BY <3>1 DEF Pending
    <3>4. \A ts \in stored : why'[ts] = "not yet" => why[ts] = "not yet"
      BY <1>b, <1>e, <3>2
    <3>5. NotYetIsPending'
      BY <1>a, <3>1, <3>3, <3>4 DEF NotYetIsPending
    <3>6. /\ r.answer \in Seq(Times) /\ r.from \in Int /\ r.to \in Int
          /\ loaded'.from = r.from /\ loaded'.step = r.step
      BY <1>b, <3>1 DEF Requests
    <3>7. /\ \A t \in Range(history') : t \in Int /\ t <= r.to
          /\ r.step = 0 => stored \cap (r.from .. r.to) \subseteq Range(history')
      <4>1. /\ Range(r.answer) \subseteq r.from .. r.to
            /\ r.step = 0 => stored \cap (r.from .. r.to) \subseteq Range(r.answer)
        BY <1>a, <3>1 DEF AnswersAreComplete
      <4>2. \A t \in r.from .. r.to : t \in Int /\ t <= r.to
        BY <3>6
      <4> QED
        BY <3>1, <4>1, <4>2
    <3>8. ASSUME ws # "closed", r.step = 0, NEW ts \in stored, ts >= r.from
          PROVE  \/ ts \in Range(history')
                 \/ ts \in Pending /\ \A t \in Range(history') : t < ts
                 \/ ts \notin Pending /\ why'[ts] \in Explained
      <4>1. CASE ts <= r.to
        <5>1. ts \in r.from .. r.to
          BY <1>c, <3>6, <3>8, <4>1
        <5> QED
          BY <3>7, <3>8, <5>1
      <4>2. CASE ts > r.to
        <5>1. \A t \in Range(history') : t < ts
          BY <1>c, <3>6, <3>7, <4>2
        <5>2. ts \notin Pending => why[ts] # "not yet"
          BY <1>a, <3>8 DEF NotYetIsPending
        <5>3. ts \notin Range(history')
          BY <1>c, <5>1
        <5>4. ~Contains(r.answer, ts)
          BY <3>1, <3>6, <5>3 DEF Contains, Range
        <5>5. why'[ts] = IF why[ts] = "has it" THEN "cut off" ELSE why[ts]
          BY <1>b, <3>2, <4>2, <5>4
        <5>6. why[ts] \in Explained \cup {"has it", "not yet"}
          BY <1>b
        <5> QED
          BY <1>e, <5>1, <5>2, <5>5, <5>6
      <4> QED
        BY <1>c, <3>6, <4>1, <4>2
    <3>9. Accounted'
      BY <3>1, <3>3, <3>6, <3>8 DEF Accounted
    <3> QED
      BY <3>5, <3>9
  <2> QED
    BY <2>1, <2>2
<1>8. ASSUME OnMessage PROVE NotYetIsPending' /\ Accounted'
  <2> DEFINE m == Head(send)
             keepFrom == m - span - span \div 2
  <2>1. /\ m \in Times /\ m \in Int /\ m \in Range(send) /\ m <= clock
        /\ collected => m < clock
        /\ Range(Tail(send)) = Range(send) \ {m}
        /\ \A x \in Range(Tail(send)) : m < x
        /\ keepFrom \in Int /\ keepFrom <= m
    BY <1>8, <1>a, MessageIs DEF OnMessage
  <2>2. /\ send' = Tail(send) /\ why' = [why EXCEPT ![m] = Reception]
        /\ UNCHANGED <<clock, stored, collected, ws>>
    BY <1>8 DEF OnMessage
  <2>3. \/ /\ end = Live /\ loaded.step = 0 /\ history' = Appended(m, keepFrom)
           /\ loaded' = [loaded EXCEPT !.from = Larger(@, keepFrom), !.to = m]
        \/ ~(end = Live /\ loaded.step = 0) /\ UNCHANGED <<history, loaded>>
    BY <1>8 DEF OnMessage
  <2>4. /\ (\A x \in Range(history) : x < m) =>
             Range(Appended(m, keepFrom)) = {x \in Range(history) \cup {m} : x >= keepFrom}
        /\ (\E x \in Range(history) : x >= m) => Appended(m, keepFrom) = history
    BY <1>a, <1>b, <2>1, AppendedIs
  <2> HIDE DEF m, keepFrom
  <2>5. \A ts : ts \in Pending' <=> ts \in Pending /\ ts # m
    <3>1. \A ts : ts \in Pending' <=> ts \in Range(Tail(send)) \/ (collected /\ ts = clock)
      BY <2>2 DEF Pending
    <3>2. collected => clock # m
      BY <1>n, <2>1
    <3> QED
      BY <1>d, <2>1, <3>1, <3>2
  <2>6. m \in Pending
    BY <1>d, <2>1
  <2>7. \A ts \in stored : ts # m => why'[ts] = why[ts]
    BY <1>b, <2>2
  <2>8. why'[m] = Reception /\ Reception # "not yet"
    <3>1. Reception # "not yet"
      BY DEF Reception
    <3> QED
      BY <1>b, <2>1, <2>2, <3>1
  <2>9. NotYetIsPending'
    BY <1>a, <2>2, <2>5, <2>7, <2>8 DEF NotYetIsPending
  <2>10. CASE ~(end = Live /\ loaded.step = 0)
    <3>1. UNCHANGED <<history, loaded>>
      BY <2>3, <2>10
    <3>2. loaded.step = 0 => Reception = "paused"
      BY <2>10 DEF Reception
    <3>3. Accounted'
      BY <1>a, <1>e, <2>2, <2>5, <2>7, <2>8, <3>1, <3>2 DEF Accounted
    <3> QED
      BY <2>9, <3>3
  <2>11. CASE end = Live /\ loaded.step = 0
    <3>1. /\ history' = Appended(m, keepFrom)
          /\ loaded' = [loaded EXCEPT !.from = Larger(@, keepFrom), !.to = m]
      BY <2>3, <2>11
    <3>2. loaded.from \in Int /\ loaded'.from = Larger(loaded.from, keepFrom)
      BY <1>b, <3>1
    <3>3. \A ts \in Int : ts >= loaded'.from => ts >= loaded.from /\ ts >= keepFrom
      BY <2>1, <3>2 DEF Larger
    <3>4. ASSUME ws # "closed", NEW ts \in stored, ts >= loaded'.from
          PROVE  \/ ts \in Range(history')
                 \/ ts \in Pending' /\ \A t \in Range(history') : t < ts
                 \/ ts \notin Pending' /\ why'[ts] \in Explained
      <4>1. ts \in Int /\ ts >= loaded.from /\ ts >= keepFrom
        BY <1>c, <3>3, <3>4
      <4>2. \/ ts \in Range(history)
            \/ ts \in Pending /\ \A t \in Range(history) : t < ts
            \/ ts \notin Pending /\ why[ts] \in Explained
        BY <1>a, <2>11, <3>4, <4>1 DEF Accounted
      <4>3. CASE \A x \in Range(history) : x < m
        <5>1. Range(history') = {x \in Range(history) \cup {m} : x >= keepFrom}
          BY <2>4, <3>1, <4>3
        <5>2. CASE ts \in Range(history) \/ ts = m
          BY <4>1, <5>1, <5>2
        <5>3. CASE ts # m /\ ts \in Pending /\ \A t \in Range(history) : t < ts
          <6>1. m < ts
            BY <1>b, <1>d, <2>1, <5>3
          <6>2. \A t \in Range(history') : t < ts
            BY <5>1, <5>3, <6>1
          <6> QED
            BY <2>5, <5>3, <6>2
        <5>4. CASE ts # m /\ ts \notin Pending /\ why[ts] \in Explained
          BY <2>5, <2>7, <5>4
        <5> QED
          BY <4>2, <5>2, <5>3, <5>4
      <4>4. CASE \E x \in Range(history) : x >= m
        <5>1. history' = history
          BY <2>4, <3>1, <4>4
        <5>2. CASE ts # m
          BY <2>5, <2>7, <4>2, <5>1, <5>2
        <5>3. CASE ts = m
          <6>1. ~(\A t \in Range(history) : t < m)
            BY <1>c, <2>1, <4>4
          <6> QED
            BY <2>6, <4>2, <5>1, <5>3, <6>1
        <5> QED
          BY <5>2, <5>3
      <4>5. (\A x \in Range(history) : x < m) \/ \E x \in Range(history) : x >= m
        BY <1>c, <2>1
      <4> QED
        BY <4>3, <4>4, <4>5
    <3>5. Accounted'
      BY <2>2, <3>4 DEF Accounted
    <3> QED
      BY <2>9, <3>5
  <2> QED
    BY <2>10, <2>11
<1> QED
  BY <1>1, <1>2, <1>3, <1>4, <1>5, <1>6, <1>7, <1>8 DEF Next, Server, App

-----------------------------------------------------------------------------
(* Together *)

LEMMA Inductive == Spec => []IInv
<1>1. IInv /\ [Next]_vars => IInv'
  <2> SUFFICES ASSUME IInv, [Next]_vars PROVE IInv'
    OBVIOUS
  <2>1. CASE Next
    BY <2>1, TypeStep, RecordsStep, OrderStep, ViewStep, AccountedStep DEF IInv
  <2>2. CASE UNCHANGED vars
    <3> USE <2>2 DEF vars, collecting, handling, shown, view, fetching
    <3>1. TypeOK' /\ Records' /\ NothingFromTheFuture' /\ NothingUnconnected'
      BY DEF IInv, TypeOK, Records, NothingFromTheFuture, NothingUnconnected
    <3>2. Ordered(send)' /\ HistoryInOrder' /\ AnswersAreComplete'
      BY DEF IInv, Ordered, HistoryInOrder, AnswersAreComplete
    <3>3. NewestCovers' /\ FetchedViewIsLoaded'
      BY DEF IInv, NewestCovers, FetchedViewIsLoaded, InFlight, Covers, viewTo
    <3>4. NotYetIsPending' /\ Accounted'
      BY DEF IInv, NotYetIsPending, Accounted, Pending
    <3> QED
      BY <3>1, <3>2, <3>3, <3>4 DEF IInv
  <2> QED
    BY <2>1, <2>2
<1> QED
  BY InitInv, <1>1, PTL DEF Spec

\* The variables keep their types, and the view and the requests their ranges.
\* (setView, fetchHistory)
THEOREM TypeCorrect == Spec => []TypeOK
<1>1. IInv => TypeOK
  BY DEF IInv
<1> QED
  BY Inductive, <1>1, PTL

\* No snapshot is twice in the history, or out of order, though it comes both in
\* answers and over the socket.  (ws.onmessage, fetchHistory)
THEOREM InOrder == Spec => []HistoryInOrder
<1>1. IInv => HistoryInOrder
  BY DEF IInv
<1> QED
  BY Inductive, <1>1, PTL

\* A view that the newest request was answered for is covered by the history,
\* whatever was answered late and received meanwhile.  (fetchHistory, setView)
THEOREM FetchedIsCovered == Spec => []FetchedViewIsLoaded
<1>1. IInv => FetchedViewIsLoaded
  BY DEF IInv
<1> QED
  BY Inductive, <1>1, PTL

\* Nothing that the server stored and that belongs between two snapshots of a
\* raw history is missing from it without a reason.  (ws.onmessage, Query)
THEOREM NoUnexplainedHole == Spec => []HolesAreExplained
<1>1. IInv => HolesAreExplained
  <2> SUFFICES ASSUME IInv, NEW ts \in Missing PROVE why[ts] \in Explained
    BY DEF HolesAreExplained, Explained
  <2>1. /\ ts \in stored /\ history # << >> /\ loaded.step = 0
        /\ loaded.from <= ts /\ ts <= history[Len(history)] /\ ~Contains(history, ts)
    BY DEF Missing
  <2>2. history \in Seq(Times) /\ stored \subseteq Times /\ loaded.from \in Int /\ ws = "open"
    BY <2>1 DEF IInv, TypeOK, Records, NothingUnconnected
  <2>3. ts \in Nat /\ history[Len(history)] \in Range(history) /\ history[Len(history)] \in Nat
    <3>1. Len(history) \in DOMAIN history /\ history[Len(history)] \in Times
      BY <2>1, <2>2
    <3>2. ts \in Nat /\ history[Len(history)] \in Nat
      BY <2>1, <2>2, <3>1, TimesAre, Zenon
    <3> QED
      BY <3>1, <3>2 DEF Range
  <2>4. ts \notin Range(history)
    BY <2>1, <2>2 DEF Contains, Range
  <2>5. ~(\A t \in Range(history) : t < ts)
    BY <2>1, <2>3
  <2>6. ts >= loaded.from
    BY <2>1, <2>2, <2>3
  <2> QED
    BY <2>1, <2>2, <2>4, <2>5, <2>6 DEF IInv, Accounted
<1> QED
  BY Inductive, <1>1, PTL
=============================================================================
