----------------------------- MODULE FeedProofs -----------------------------
(***************************************************************************)
(* The feed's theorems, for any histories, any slots of the policies, any  *)
(* number of connections and of polls that fail.                           *)
(***************************************************************************)
EXTENDS Feed, Sums

USE FeedAssumption DEF Numbered, Kinds, Conns

-----------------------------------------------------------------------------
(* Marks. *)

Marks == [number : [Numbered -> Int], slot : Int, keys : SUBSET Int]

\* What the marks say has been handed out.
Behind(k, n, m) ==
    IF k = "policy"
    THEN PolicySlot[n] < m.slot \/ (PolicySlot[n] = m.slot /\ n \in m.keys)
    ELSE n <= m.number[k]

TablesTyped ==
    /\ most \in Histories
    /\ taken \in [Kinds -> Nat] /\ \A k \in Kinds : taken[k] <= most[k]
    /\ table \in [Kinds -> SUBSET Int]
    /\ \A k \in Kinds : table[k] \subseteq 1 .. most[k]

\* Record numbers and policy slots are naturals.
LEMMA MostTyped ==
    ASSUME TablesTyped
    PROVE  /\ \A k \in Kinds : most[k] \in Nat
           /\ \A n \in 1 .. most["policy"] : PolicySlot[n] \in Nat
  BY DEF TablesTyped

\* The highest of a set of record numbers bounds it.
LEMMA HighestTyped ==
    ASSUME NEW b \in Nat, NEW S, S \subseteq 1 .. b
    PROVE  Highest(S) \in Int /\ \A n \in S : n <= Highest(S)
<1> DEFINE T == S \cup {0}
<1>1. T \subseteq Int /\ T # {} /\ b \in Int /\ \A x \in T : x <= b
  OBVIOUS
<1> HIDE DEF T
<1>2. Max(T) \in T /\ \A y \in T : y <= Max(T)
  BY <1>1, IntMaximum
<1>3. QED
  BY <1>1, <1>2 DEF Highest, T

\* The number a poll's mark moves to.
LEMMA NumberMoves ==
    ASSUME NEW b \in Nat, NEW S, S \subseteq 1 .. b, NEW n \in Int
    PROVE  /\ Max(S \cup {n}) \in Int /\ n <= Max(S \cup {n})
           /\ \A x \in S : x <= Max(S \cup {n})
<1> DEFINE T == S \cup {n}
<1>1. PICK d \in Int : b <= d /\ n <= d
  <2>1. CASE b <= n
    BY <2>1
  <2>2. CASE n <= b
    BY <2>2
  <2>3. QED
    BY <2>1, <2>2
<1>2. T \subseteq Int /\ T # {} /\ n \in T /\ S \subseteq T
  OBVIOUS
<1>3. \A x \in T : x <= d
  BY <1>1
<1> HIDE DEF T
<1>4. Max(T) \in T /\ \A y \in T : y <= Max(T)
  BY <1>2, <1>3, IntMaximum
<1>5. QED
  BY <1>2, <1>4 DEF T

\* The slot a poll's mark moves to.
LEMMA SlotMoves ==
    ASSUME TablesTyped, NEW S, S \subseteq table["policy"], NEW slot \in Int
    PROVE  /\ Max(SlotsOf(S) \cup {slot}) \in Int
           /\ slot <= Max(SlotsOf(S) \cup {slot})
           /\ \A n \in S : /\ PolicySlot[n] \in Int
                           /\ PolicySlot[n] <= Max(SlotsOf(S) \cup {slot})
<1> DEFINE N == most["policy"]
           T == SlotsOf(S) \cup {slot}
<1>1. N \in Nat /\ S \subseteq 1 .. N /\ \A n \in 1 .. N : PolicySlot[n] \in Int
  BY MostTyped DEF TablesTyped
<1> HIDE DEF N
<1>2. PICK b \in Int : \A n \in 1 .. N : PolicySlot[n] <= b
  BY <1>1, FirstOnesBounded
<1>3. PICK d \in Int : b <= d /\ slot <= d
  <2>1. CASE b <= slot
    BY <2>1
  <2>2. CASE slot <= b
    BY <2>2
  <2>3. QED
    BY <2>1, <2>2
<1>4. \A n \in S : /\ PolicySlot[n] \in Int /\ PolicySlot[n] <= b
                   /\ PolicySlot[n] \in T
  BY <1>1, <1>2 DEF SlotsOf
<1>5. slot \in T /\ T # {}
  OBVIOUS
<1>6. \A x \in T : x = slot \/ \E n \in S : x = PolicySlot[n]
  BY DEF SlotsOf
<1> HIDE DEF T
<1>7. T \subseteq Int /\ \A x \in T : x <= d
  <2>1. ASSUME NEW x \in T PROVE x \in Int /\ x <= d
    <3>1. CASE x = slot
      BY <1>3, <3>1
    <3>2. ASSUME NEW n \in S, x = PolicySlot[n] PROVE x \in Int /\ x <= d
      <4>1. x \in Int /\ x <= b
        BY <1>4, <3>2
      <4>2. QED
        BY <1>2, <1>3, <4>1
    <3>3. QED
      BY <1>6, <3>1, <3>2
  <2>2. QED
    BY <2>1
<1>8. Max(T) \in T /\ \A y \in T : y <= Max(T)
  BY <1>5, <1>7, IntMaximum
<1>9. QED
  BY <1>4, <1>5, <1>7, <1>8 DEF T

\* The first poll's marks are marks.
LEMMA FirstMarksTyped ==
    ASSUME TablesTyped
    PROVE  FirstMarks \in Marks
<1> DEFINE number == [k \in Numbered |-> Highest(table[k])]
           slot == Highest(SlotsOf(table["policy"]))
           keys == AtSlot(table["policy"], slot)
<1>1. number \in [Numbered -> Int]
  <2>1. \A k \in Numbered : Highest(table[k]) \in Int
    BY MostTyped, HighestTyped DEF TablesTyped
  <2>2. QED
    BY <2>1
<1>2. slot \in Int
  BY SlotMoves DEF Highest
<1>3. keys \subseteq Int
  BY DEF AtSlot, TablesTyped
<1>4. FirstMarks = [number |-> number, slot |-> slot, keys |-> keys]
  BY DEF FirstMarks
<1> HIDE DEF number, slot, keys
<1>5. QED
  BY <1>1, <1>2, <1>3, <1>4 DEF Marks

\* A poll reads only what lies ahead of its marks, the marks it comes back with
\* cover what it read, and what was behind stays behind.
LEMMA MarksMove ==
    ASSUME TablesTyped, NEW m \in Marks
    PROVE  /\ NextMarks(m) \in Marks
           /\ \A k \in Kinds : \A n \in New(k, m) :
                 /\ n \in 1 .. most[k]
                 /\ ~ Behind(k, n, m) /\ Behind(k, n, NextMarks(m))
           /\ \A k \in Kinds : \A n \in 1 .. most[k] :
                 Behind(k, n, m) => Behind(k, n, NextMarks(m))
<1> DEFINE news == NewPolicies(m)
           slot == Max(SlotsOf(news) \cup {m.slot})
           number == [k \in Numbered |-> Max(New(k, m) \cup {m.number[k]})]
           keys == (IF slot = m.slot THEN m.keys ELSE {}) \cup AtSlot(news, slot)
<1>1. /\ m.slot \in Int /\ m.keys \subseteq Int
      /\ \A k \in Numbered : m.number[k] \in Int
  BY DEF Marks
<1>2. \A k \in Kinds : most[k] \in Nat
  BY MostTyped
<1>3. \A k \in Kinds : New(k, m) \subseteq table[k] /\ table[k] \subseteq 1 .. most[k]
  BY DEF New, NewPolicies, TablesTyped
<1>4. news \subseteq table["policy"]
  BY DEF NewPolicies
<1> HIDE DEF news
<1>5. /\ slot \in Int /\ m.slot <= slot
      /\ \A n \in news : PolicySlot[n] \in Int /\ PolicySlot[n] <= slot
  BY <1>1, <1>4, SlotMoves
<1>6. \A k \in Numbered :
         /\ number[k] \in Int /\ m.number[k] <= number[k]
         /\ \A n \in New(k, m) : n <= number[k]
  <2>1. SUFFICES ASSUME NEW k \in Numbered
                 PROVE  /\ Max(New(k, m) \cup {m.number[k]}) \in Int
                        /\ m.number[k] <= Max(New(k, m) \cup {m.number[k]})
                        /\ \A n \in New(k, m) :
                              n <= Max(New(k, m) \cup {m.number[k]})
    OBVIOUS
  <2>2. most[k] \in Nat /\ New(k, m) \subseteq 1 .. most[k] /\ m.number[k] \in Int
    BY <1>1, <1>2, <1>3
  <2>3. QED
    BY <2>2, NumberMoves
<1>7. keys \subseteq Int
  <2>1. news \subseteq Int
    BY <1>4 DEF TablesTyped
  <2>2. QED
    BY <1>1, <2>1 DEF AtSlot
<1>8. NextMarks(m) = [number |-> number, slot |-> slot, keys |-> keys]
  BY DEF NextMarks, news
<1>9. \A n \in news : PolicySlot[n] >= m.slot /\ n \notin m.keys
  BY DEF news, NewPolicies
<1>10. New("policy", m) = news
  BY DEF New, news
<1>11. \A k \in Numbered : \A n \in New(k, m) : n > m.number[k]
  BY DEF New
<1>12. \A n \in news : PolicySlot[n] = slot => n \in keys
  BY DEF AtSlot
<1>13. slot = m.slot => m.keys \subseteq keys
  OBVIOUS
<1>14. \A n \in 1 .. most["policy"] : PolicySlot[n] \in Int
  BY MostTyped
<1> HIDE DEF slot, number, keys
<1>15. number \in [Numbered -> Int]
  <2>1. DOMAIN number = Numbered /\ number = [k \in Numbered |-> number[k]]
    BY DEF number
  <2>2. QED
    BY <1>6, <2>1
<1>16. NextMarks(m) \in Marks
  BY <1>5, <1>7, <1>8, <1>15 DEF Marks
<1>17. /\ NextMarks(m).number = number /\ NextMarks(m).slot = slot
       /\ NextMarks(m).keys = keys
  BY <1>8
<1>18. ASSUME NEW k \in Kinds, NEW n \in New(k, m)
       PROVE  /\ n \in 1 .. most[k]
              /\ ~ Behind(k, n, m) /\ Behind(k, n, NextMarks(m))
  <2>1. n \in 1 .. most[k]
    BY <1>3
  <2>2. CASE k = "policy"
    <3>1. n \in news /\ PolicySlot[n] \in Int
      BY <1>10, <1>14, <2>1, <2>2
    <3>2. QED
      BY <1>1, <1>5, <1>9, <1>12, <1>17, <2>1, <2>2, <3>1 DEF Behind
  <2>3. CASE k # "policy"
    <3>1. k \in Numbered
      BY <2>3
    <3>2. n \in Int /\ n > m.number[k] /\ n <= number[k] /\ m.number[k] \in Int
      BY <1>1, <1>6, <1>11, <2>1, <3>1
    <3>3. QED
      BY <1>17, <2>1, <2>3, <3>2 DEF Behind
  <2>4. QED
    BY <2>2, <2>3
<1>19. ASSUME NEW k \in Kinds, NEW n \in 1 .. most[k], Behind(k, n, m)
       PROVE  Behind(k, n, NextMarks(m))
  <2>1. CASE k = "policy"
    <3>1. PolicySlot[n] \in Int
      BY <1>14, <2>1
    <3>2. QED
      BY <1>1, <1>5, <1>13, <1>17, <1>19, <2>1, <3>1 DEF Behind
  <2>2. CASE k # "policy"
    <3>1. k \in Numbered /\ n \in Int
      BY <2>2
    <3>2. m.number[k] <= number[k] /\ m.number[k] \in Int /\ number[k] \in Int
      BY <1>1, <1>6, <3>1
    <3>3. QED
      BY <1>17, <1>19, <2>2, <3>1, <3>2 DEF Behind
  <2>3. QED
    BY <2>1, <2>2
<1>20. QED
  BY <1>16, <1>18, <1>19
-----------------------------------------------------------------------------
(* What was handed out lies behind the marks. *)

FeedEvent == [kind : Kinds, n : Int, shows : SUBSET Int]
Poll == [step : {"idle", "reading", "read"}, events : SUBSET FeedEvent, marks : Marks]
Watch == [on : BOOLEAN, marks : Marks, poll : Poll]
Fetch == [step : {"none", "asked", "answered"}, answer : SUBSET Int]

StreamTyped ==
    /\ watch \in Watch
    /\ conn \in 0 .. MaxConns /\ link \in {"off", "opening", "open"}
    /\ listeners \subseteq 1 .. conn /\ (watch.on <=> listeners # {})
    /\ fetch \in [Kinds -> Fetch]

\* Records handed to a connection that still listens are behind the marks, and
\* a connection that is yet to come has been handed none.
SentBehind ==
    /\ sent \in [Conns -> SUBSET [kind : Kinds, n : Int]]
    /\ \A c \in Conns : \A r \in sent[c] : r.n \in 1 .. most[r.kind]
    /\ \A c \in listeners : \A r \in sent[c] : Behind(r.kind, r.n, watch.marks)
    /\ \A c \in Conns : c > conn => sent[c] = {}

\* What a poll has read is not behind the marks it started from, and with what
\* was behind those it is behind the marks it will leave.
ReadAhead ==
    watch.poll.step = "read" =>
        /\ \A e \in watch.poll.events :
              /\ e.n \in 1 .. most[e.kind]
              /\ ~ Behind(e.kind, e.n, watch.marks)
              /\ Behind(e.kind, e.n, watch.poll.marks)
        /\ \A k \in Kinds : \A n \in 1 .. most[k] :
              Behind(k, n, watch.marks) => Behind(k, n, watch.poll.marks)

FeedInv == TablesTyped /\ StreamTyped /\ SentBehind /\ ReadAhead

\* Nothing lies behind the marks of a stream that has none.
LEMMA NoMarksTyped ==
    /\ NoMarks \in Marks
    /\ Silent \in Poll /\ NoWatch \in Watch
    /\ \A k \in Kinds : \A n \in 1 .. most[k] :
          TablesTyped => ~ Behind(k, n, NoMarks)
<1>1. NoMarks \in Marks
  BY DEF NoMarks, Marks
<1>2. Silent \in Poll /\ NoWatch \in Watch
  BY <1>1 DEF Silent, Poll, NoWatch, Watch
<1>3. ASSUME NEW k \in Kinds, NEW n \in 1 .. most[k], TablesTyped
      PROVE  ~ Behind(k, n, NoMarks)
  <2>1. /\ NoMarks.slot = -1 /\ NoMarks.keys = {}
        /\ \A j \in Numbered : NoMarks.number[j] = -1
    BY DEF NoMarks
  <2>2. CASE k = "policy"
    <3>1. PolicySlot[n] \in Nat
      BY <1>3, <2>2, MostTyped
    <3>2. QED
      BY <2>1, <2>2, <3>1 DEF Behind
  <2>3. CASE k # "policy"
    <3>1. k \in Numbered /\ most[k] \in Nat /\ n \in Nat
      BY <1>3, <2>3, MostTyped
    <3>2. n >= 1
      BY <3>1
    <3>3. QED
      BY <2>1, <2>3, <3>1, <3>2 DEF Behind
  <2>4. QED
    BY <2>2, <2>3
<1>4. QED
  BY <1>1, <1>2, <1>3

\* The feed's inductive invariant holds at first.
LEMMA InitFeed == FeedInit => FeedInv
<1> SUFFICES ASSUME FeedInit PROVE FeedInv
  OBVIOUS
<1> USE DEF FeedInit
<1>1. TablesTyped
  <2>1. most \in [Kinds -> Nat] /\ most \in Histories
    OBVIOUS
  <2>2. QED
    BY <2>1 DEF TablesTyped
<1>2. StreamTyped
  <2>1. fetch \in [Kinds -> Fetch]
    BY DEF Fetch, Asked, NoFetch
  <2>2. NoWatch.on = FALSE
    BY DEF NoWatch
  <2>3. QED
    BY <2>1, <2>2, NoMarksTyped DEF StreamTyped
<1>3. SentBehind
  BY DEF SentBehind
<1>4. NoWatch.poll.step = "idle"
  BY DEF NoWatch, Silent
<1>5. QED
  BY <1>1, <1>2, <1>3, <1>4 DEF FeedInv, ReadAhead

\* Every step keeps the tables' types and the highest numbers.
LEMMA TablesStep ==
    ASSUME TablesTyped, [FeedNext]_feedVars
    PROVE  TablesTyped' /\ most' = most
<1>1. CASE UNCHANGED tableVars
  BY <1>1 DEF TablesTyped, tableVars
<1>2. ASSUME NEW k \in Kinds, Draw(k) PROVE TablesTyped' /\ most' = most
  <2>1. most[k] \in Nat /\ taken[k] \in Nat /\ taken[k] + 1 <= most[k]
    BY <1>2, MostTyped DEF Draw, TablesTyped
  <2>2. QED
    BY <1>2, <2>1 DEF Draw, TablesTyped
<1>3. ASSUME NEW k \in Kinds, NEW n \in Numbers, Commit(k, n)
      PROVE  TablesTyped' /\ most' = most
  <2>1. n \in 1 .. most[k]
    <3>1. most[k] \in Nat /\ taken[k] \in Nat /\ taken[k] <= most[k]
      BY MostTyped DEF TablesTyped
    <3>2. n \in 1 .. taken[k] \/ n \in 1 .. most[k]
      BY <1>3 DEF Commit
    <3>3. QED
      BY <3>1, <3>2
  <2>2. Committed(k, n)
    BY <1>3 DEF Commit
  <2>3. /\ table' = [table EXCEPT ![k] = @ \cup {n}]
        /\ UNCHANGED <<most, taken>>
    BY <2>2 DEF Committed
  <2>4. table' \in [Kinds -> SUBSET Int]
    BY <2>1, <2>3 DEF TablesTyped
  <2>5. \A j \in Kinds : table'[j] \subseteq 1 .. most[j]
    BY <2>1, <2>3 DEF TablesTyped
  <2>6. QED
    BY <2>3, <2>4, <2>5 DEF TablesTyped
<1>4. CASE UNCHANGED feedVars
  BY <1>1, <1>4 DEF feedVars
<1>5. ASSUME NEW k \in Kinds, Fetching(k) PROVE UNCHANGED tableVars
  BY <1>5 DEF Fetching, FetchAnswered, FetchLands
<1>6. CASE PollStep \/ PollFails
  BY <1>1, <1>6 DEF PollStep, PollStart, PollRead, Deliver, PollFails
<1>7. CASE Connect \/ Open \/ Drop
  BY <1>1, <1>7 DEF Connect, Open, Drop
<1>8. ASSUME NEW c \in Conns, Abort(c) PROVE UNCHANGED tableVars
  BY <1>8 DEF Abort
<1>9. CASE Frames
  BY <1>1, <1>9 DEF Frames, Frame
<1>10. QED
  BY <1>1, <1>2, <1>3, <1>4, <1>5, <1>6, <1>7, <1>8, <1>9 DEF FeedNext
\* What a read returns are record numbers.
LEMMA ReadingTyped ==
    ASSUME TablesTyped
    PROVE  \A k \in Kinds : Reading(k) \subseteq Int
  BY DEF Reading, TablesTyped

\* What a poll emits are events of records new to its marks.
LEMMA EventsTyped ==
    ASSUME TablesTyped, NEW m \in Marks
    PROVE  /\ Events(m) \subseteq FeedEvent
           /\ \A e \in Events(m) : e.kind \in Kinds /\ e.n \in New(e.kind, m)
<1> SUFFICES ASSUME NEW e \in Events(m)
             PROVE  e \in FeedEvent /\ e.kind \in Kinds /\ e.n \in New(e.kind, m)
  OBVIOUS
<1>1. PICK k \in Kinds : \E n \in New(k, m) : e = Event(k, n)
  BY DEF Events
<1>2. PICK n \in New(k, m) : e = Event(k, n)
  BY <1>1
<1>3. e.kind = k /\ e.n = n
  BY <1>2 DEF Event
<1>4. n \in Int
  BY MarksMove
<1>5. Shows(k, n) \subseteq Int
  BY <1>4, ReadingTyped DEF Shows
<1>6. e \in FeedEvent
  BY <1>2, <1>4, <1>5 DEF Event, FeedEvent
<1>7. QED
  BY <1>3, <1>6

\* A step of the panel alone, or of the tables, leaves the server as it is.
LEMMA PanelStep ==
    ASSUME FeedInv, most' = most,
           UNCHANGED <<watch, listeners, sent, conn>>,
           link' \in {"off", "opening", "open"}, fetch' \in [Kinds -> Fetch]
    PROVE  StreamTyped' /\ SentBehind' /\ ReadAhead'
<1>1. StreamTyped'
  BY DEF FeedInv, StreamTyped
<1>2. SentBehind'
  BY DEF FeedInv, SentBehind, Behind
<1>3. ReadAhead'
  BY DEF FeedInv, ReadAhead, Behind
<1>4. QED
  BY <1>1, <1>2, <1>3

\* A poll that starts, reads or fails.
LEMMA PollingStep ==
    ASSUME FeedInv, most' = most, PollStart \/ PollRead \/ PollFails
    PROVE  StreamTyped' /\ SentBehind' /\ ReadAhead'
<1>1. /\ UNCHANGED <<listeners, sent, conn, link, fetch>>
      /\ watch \in Watch /\ watch.marks \in Marks /\ watch.poll \in Poll
  BY DEF FeedInv, StreamTyped, Watch, PollStart, PollRead, PollFails, panelVars
<1>2. ASSUME NEW poll \in Poll, watch' = [watch EXCEPT !.poll = poll]
      PROVE  /\ StreamTyped' /\ SentBehind'
             /\ watch'.poll = poll /\ watch'.marks = watch.marks
  <2>1. /\ watch' \in Watch /\ watch'.on = watch.on
        /\ watch'.marks = watch.marks /\ watch'.poll = poll
    BY <1>1, <1>2 DEF Watch
  <2>2. StreamTyped'
    BY <1>1, <2>1 DEF FeedInv, StreamTyped
  <2>3. SentBehind'
    BY <1>1, <2>1 DEF FeedInv, SentBehind, Behind
  <2>4. QED
    BY <2>1, <2>2, <2>3
<1>3. CASE PollStart
  <2> DEFINE poll == [watch.poll EXCEPT !.step = "reading"]
  <2>1. watch' = [watch EXCEPT !.poll = poll]
    BY <1>3 DEF PollStart
  <2>2. poll \in Poll /\ poll.step = "reading"
    BY <1>1 DEF Poll
  <2> HIDE DEF poll
  <2>3. QED
    BY <1>2, <2>1, <2>2 DEF ReadAhead
<1>4. CASE PollFails
  <2>1. watch' = [watch EXCEPT !.poll = Silent]
    BY <1>4 DEF PollFails
  <2>2. Silent \in Poll /\ Silent.step = "idle"
    BY NoMarksTyped DEF Silent
  <2>3. QED
    BY <1>2, <2>1, <2>2 DEF ReadAhead
<1>5. CASE PollRead
  <2>1. CASE watch.marks = NoMarks
    <3> DEFINE poll == [step |-> "read", events |-> {}, marks |-> FirstMarks]
    <3>1. watch' = [watch EXCEPT !.poll = poll]
      BY <1>5, <2>1 DEF PollRead
    <3>2. poll \in Poll /\ poll.events = {} /\ poll.marks = FirstMarks
      BY FirstMarksTyped DEF FeedInv, Poll
    <3> HIDE DEF poll
    <3>3. /\ StreamTyped' /\ SentBehind'
          /\ watch'.poll = poll /\ watch'.marks = NoMarks
      BY <1>2, <2>1, <3>1, <3>2
    <3>4. \A k \in Kinds : \A n \in 1 .. most[k] : ~ Behind(k, n, NoMarks)
      BY NoMarksTyped DEF FeedInv
    <3>5. ReadAhead'
      BY <3>2, <3>3, <3>4 DEF ReadAhead, Behind
    <3>6. QED
      BY <3>3, <3>5
  <2>2. CASE watch.marks # NoMarks
    <3> DEFINE m == watch.marks
               poll == [step |-> "read", events |-> Events(m), marks |-> NextMarks(m)]
    <3>1. watch' = [watch EXCEPT !.poll = poll]
      BY <1>5, <2>2 DEF PollRead
    <3>2. TablesTyped /\ m \in Marks
      BY <1>1 DEF FeedInv
    <3>3. poll \in Poll /\ poll.events = Events(m) /\ poll.marks = NextMarks(m)
      BY <3>2, MarksMove, EventsTyped DEF Poll
    <3> HIDE DEF poll
    <3>4. /\ StreamTyped' /\ SentBehind'
          /\ watch'.poll = poll /\ watch'.marks = m
      BY <1>2, <3>1, <3>3
    <3> HIDE DEF m
    <3>5. \A e \in Events(m) : /\ e.n \in 1 .. most[e.kind]
                               /\ ~ Behind(e.kind, e.n, m)
                               /\ Behind(e.kind, e.n, NextMarks(m))
      BY <3>2, EventsTyped, MarksMove
    <3>6. \A k \in Kinds : \A n \in 1 .. most[k] :
             Behind(k, n, m) => Behind(k, n, NextMarks(m))
      BY <3>2, MarksMove
    <3>7. ReadAhead'
      BY <3>3, <3>4, <3>5, <3>6 DEF ReadAhead, Behind
    <3>8. QED
      BY <3>4, <3>7
  <2>3. QED
    BY <2>1, <2>2
<1>6. QED
  BY <1>3, <1>4, <1>5

\* Delivering a poll's answer keeps the marks ahead of what was sent.
LEMMA DeliverStep ==
    ASSUME FeedInv, most' = most, Deliver
    PROVE  StreamTyped' /\ SentBehind' /\ ReadAhead'
<1> DEFINE events == watch.poll.events
           handed == {Record(e.kind, e.n) : e \in events}
           marks == watch.poll.marks
<1>1. /\ watch.poll.step = "read" /\ UNCHANGED <<listeners, conn, link, fetch>>
      /\ sent' = [c \in Conns |-> IF c \in listeners THEN sent[c] \cup handed ELSE sent[c]]
      /\ watch' = [watch EXCEPT !.marks = marks, !.poll = Silent]
  BY DEF Deliver, panelVars
<1>2. /\ watch \in Watch /\ watch.marks \in Marks /\ marks \in Marks
      /\ events \subseteq FeedEvent
  BY DEF FeedInv, StreamTyped, Watch, Poll
<1>3. /\ watch' \in Watch /\ watch'.on = watch.on
      /\ watch'.marks = marks /\ watch'.poll = Silent
  BY <1>1, <1>2, NoMarksTyped DEF Watch
<1>4. /\ \A e \in events : /\ e.n \in 1 .. most[e.kind]
                           /\ Behind(e.kind, e.n, marks)
      /\ \A k \in Kinds : \A n \in 1 .. most[k] :
            Behind(k, n, watch.marks) => Behind(k, n, marks)
  BY <1>1 DEF FeedInv, ReadAhead
<1>5. \A e \in events : e.kind \in Kinds /\ e.n \in Int
  BY <1>2 DEF FeedEvent
<1> HIDE DEF events, marks
<1>6. /\ handed \subseteq [kind : Kinds, n : Int]
      /\ \A r \in handed : r.n \in 1 .. most[r.kind] /\ Behind(r.kind, r.n, marks)
  <2>1. ASSUME NEW e \in events
        PROVE  /\ Record(e.kind, e.n) \in [kind : Kinds, n : Int]
               /\ Record(e.kind, e.n).n \in 1 .. most[Record(e.kind, e.n).kind]
               /\ Behind(Record(e.kind, e.n).kind, Record(e.kind, e.n).n, marks)
    <3>1. Record(e.kind, e.n).kind = e.kind /\ Record(e.kind, e.n).n = e.n
      BY DEF Record
    <3>2. Record(e.kind, e.n) \in [kind : Kinds, n : Int]
      BY <1>5 DEF Record
    <3>3. QED
      BY <1>4, <3>1, <3>2
  <2>2. QED
    BY <2>1
<1> HIDE DEF handed
<1>7. StreamTyped'
  BY <1>1, <1>3 DEF FeedInv, StreamTyped
<1>8. SentBehind'
  <2>1. sent \in [Conns -> SUBSET [kind : Kinds, n : Int]]
    BY DEF FeedInv, SentBehind
  <2>2. sent' \in [Conns -> SUBSET [kind : Kinds, n : Int]]
    BY <1>1, <1>6, <2>1
  <2>3. ASSUME NEW c \in Conns, NEW r \in sent'[c] PROVE r.n \in 1 .. most[r.kind]
    BY <1>1, <1>6, <2>3 DEF FeedInv, SentBehind
  <2>4. ASSUME NEW c \in listeners, NEW r \in sent'[c]
        PROVE  Behind(r.kind, r.n, marks)
    <3>1. c \in Conns
      BY DEF FeedInv, StreamTyped
    <3>2. CASE r \in handed
      BY <1>6, <3>2
    <3>3. CASE r \in sent[c]
      <4>1. /\ r.kind \in Kinds /\ r.n \in 1 .. most[r.kind]
            /\ Behind(r.kind, r.n, watch.marks)
        BY <2>1, <3>1, <3>3 DEF FeedInv, SentBehind
      <4>2. QED
        BY <1>4, <4>1
    <3>4. QED
      BY <1>1, <2>4, <3>1, <3>2, <3>3
  <2>5. ASSUME NEW c \in Conns, c > conn PROVE sent'[c] = {}
    <3>1. c \notin listeners
      BY <2>5 DEF FeedInv, StreamTyped
    <3>2. QED
      BY <1>1, <2>5, <3>1 DEF FeedInv, SentBehind
  <2>6. QED
    BY <1>1, <1>3, <2>2, <2>3, <2>4, <2>5 DEF SentBehind, Behind
<1>9. ReadAhead'
  BY <1>3 DEF ReadAhead, Silent
<1>10. QED
  BY <1>7, <1>8, <1>9

\* So does opening a stream.
LEMMA ConnectStep ==
    ASSUME FeedInv, most' = most, Connect
    PROVE  StreamTyped' /\ SentBehind' /\ ReadAhead'
<1>1. /\ conn \in 0 .. MaxConns /\ conn < MaxConns /\ conn' = conn + 1
      /\ link' = "opening" /\ listeners' = listeners \cup {conn + 1}
      /\ UNCHANGED <<sent, fetch>>
      /\ listeners \subseteq 1 .. conn /\ (watch.on <=> listeners # {})
      /\ fetch \in [Kinds -> Fetch]
      /\ watch \in Watch
  BY DEF Connect, FeedInv, StreamTyped
<1>2. conn + 1 \in Conns /\ sent[conn + 1] = {}
  BY <1>1 DEF FeedInv, SentBehind
<1>3. CASE watch.on
  <2>1. watch' = watch
    BY <1>3 DEF Connect
  <2>2. StreamTyped'
    BY <1>1, <1>3, <2>1 DEF StreamTyped
  <2>3. SentBehind'
    BY <1>1, <1>2, <2>1 DEF FeedInv, SentBehind, Behind
  <2>4. ReadAhead'
    BY <2>1 DEF FeedInv, ReadAhead, Behind
  <2>5. QED
    BY <2>2, <2>3, <2>4
<1>4. CASE ~ watch.on
  <2>1. watch' = [NoWatch EXCEPT !.on = TRUE, !.poll.step = "reading"]
    BY <1>4 DEF Connect
  <2>2. watch' \in Watch /\ watch'.on = TRUE /\ watch'.poll.step = "reading"
    BY <2>1, NoMarksTyped DEF NoWatch, Watch, Silent, Poll
  <2>3. listeners' = {conn + 1}
    BY <1>1, <1>4
  <2>4. StreamTyped'
    BY <1>1, <2>2, <2>3 DEF StreamTyped
  <2>5. SentBehind'
    BY <1>1, <1>2, <2>3 DEF FeedInv, SentBehind
  <2>6. ReadAhead'
    BY <2>2 DEF ReadAhead
  <2>7. QED
    BY <2>4, <2>5, <2>6
<1>5. QED
  BY <1>3, <1>4

\* So does closing one.
LEMMA AbortStep ==
    ASSUME FeedInv, most' = most, NEW c \in Conns, Abort(c)
    PROVE  StreamTyped' /\ SentBehind' /\ ReadAhead'
<1>1. /\ c \in listeners /\ listeners' = listeners \ {c}
      /\ UNCHANGED <<sent, conn, link, fetch>>
      /\ (watch.on <=> listeners # {})
      /\ watch' = IF listeners = {c} THEN NoWatch ELSE watch
  BY DEF Abort, panelVars, FeedInv, StreamTyped
<1>2. CASE listeners = {c}
  <2>1. listeners' = {} /\ watch' = NoWatch
    BY <1>1, <1>2
  <2>2. watch' \in Watch /\ watch'.on = FALSE /\ watch'.poll.step = "idle"
    BY <2>1, NoMarksTyped DEF NoWatch, Silent
  <2>3. StreamTyped'
    BY <1>1, <2>1, <2>2 DEF FeedInv, StreamTyped
  <2>4. SentBehind'
    BY <1>1, <2>1 DEF FeedInv, SentBehind
  <2>5. ReadAhead'
    BY <2>2 DEF ReadAhead
  <2>6. QED
    BY <2>3, <2>4, <2>5
<1>3. CASE listeners # {c}
  <2>1. watch' = watch /\ listeners' # {}
    BY <1>1, <1>3
  <2>2. StreamTyped'
    BY <1>1, <2>1 DEF FeedInv, StreamTyped
  <2>3. SentBehind'
    BY <1>1, <2>1 DEF FeedInv, SentBehind, Behind
  <2>4. ReadAhead'
    BY <2>1 DEF FeedInv, ReadAhead, Behind
  <2>5. QED
    BY <2>2, <2>3, <2>4
<1>4. QED
  BY <1>2, <1>3

\* Every step keeps the inductive invariant.
LEMMA StepFeed == FeedInv /\ [FeedNext]_feedVars => FeedInv'
<1> SUFFICES ASSUME FeedInv, [FeedNext]_feedVars PROVE FeedInv'
  OBVIOUS
<1>1. TablesTyped' /\ most' = most
  BY TablesStep DEF FeedInv
<1>2. /\ fetch \in [Kinds -> Fetch] /\ link \in {"off", "opening", "open"}
      /\ \A k \in Kinds : Reading(k) \subseteq Int
  BY ReadingTyped DEF FeedInv, StreamTyped
<1> DEFINE Rest == StreamTyped' /\ SentBehind' /\ ReadAhead'
           Apart == /\ UNCHANGED <<watch, listeners, sent, conn>>
                    /\ link' \in {"off", "opening", "open"}
                    /\ fetch' \in [Kinds -> Fetch]
<1>3. Apart => Rest
  BY <1>1, PanelStep
<1>4. \A ks : Refetched(ks) \in [Kinds -> Fetch]
  BY <1>2 DEF Refetched, Asked, Fetch
<1> HIDE DEF Rest
<1>5. ASSUME NEW k \in Kinds, Draw(k) PROVE Rest
  BY <1>2, <1>3, <1>5 DEF Draw, serverVars, panelVars
<1>6. ASSUME NEW k \in Kinds, NEW n \in Numbers, Commit(k, n) PROVE Rest
  BY <1>2, <1>3, <1>6 DEF Commit, Committed, serverVars, panelVars
<1>7. ASSUME NEW k \in Kinds, Fetching(k) PROVE Rest
  <2>1. CASE FetchAnswered(k)
    <3>1. fetch' = [fetch EXCEPT ![k] = [step |-> "answered", answer |-> Reading(k)]]
      BY <2>1 DEF FetchAnswered
    <3>2. [step |-> "answered", answer |-> Reading(k)] \in Fetch
      BY <1>2 DEF Fetch
    <3>3. fetch' \in [Kinds -> Fetch]
      BY <1>2, <3>1, <3>2
    <3>4. QED
      BY <1>2, <1>3, <2>1, <3>3 DEF FetchAnswered, serverVars
  <2>2. CASE FetchLands(k)
    <3>1. fetch' = [fetch EXCEPT ![k] = NoFetch] /\ NoFetch \in Fetch
      BY <2>2 DEF FetchLands, NoFetch, Fetch
    <3>2. fetch' \in [Kinds -> Fetch]
      BY <1>2, <3>1
    <3>3. QED
      BY <1>2, <1>3, <2>2, <3>2 DEF FetchLands, serverVars
  <2>3. QED
    BY <1>7, <2>1, <2>2 DEF Fetching
<1>8. ASSUME PollStep \/ PollFails PROVE Rest
  BY <1>1, <1>8, PollingStep, DeliverStep DEF PollStep, Rest
<1>9. ASSUME Connect PROVE Rest
  BY <1>1, <1>9, ConnectStep DEF Rest
<1>10. ASSUME Open PROVE Rest
  BY <1>2, <1>3, <1>4, <1>10 DEF Open, OnOpen, serverVars
<1>11. ASSUME Drop PROVE Rest
  BY <1>2, <1>3, <1>11 DEF Drop, serverVars
<1>12. ASSUME NEW c \in Conns, Abort(c) PROVE Rest
  BY <1>1, <1>12, AbortStep DEF Rest
<1>13. ASSUME Frames PROVE Rest
  BY <1>2, <1>3, <1>4, <1>13 DEF Frames, Frame
<1>14. ASSUME UNCHANGED feedVars PROVE Rest
  BY <1>2, <1>3, <1>14 DEF feedVars, serverVars, panelVars
<1>15. Rest
  BY <1>5, <1>6, <1>7, <1>8, <1>9, <1>10, <1>11, <1>12, <1>13, <1>14 DEF FeedNext
<1>16. QED
  BY <1>1, <1>15 DEF Rest, FeedInv

\* So it holds throughout.
LEMMA AlwaysFeedInv == FeedSpec => []FeedInv
  BY InitFeed, StepFeed, PTL DEF FeedSpec

\* What lies behind the marks is never sent again.
LEMMA MarksTellApart == FeedInv => HandedOnce
<1> SUFFICES ASSUME FeedInv, watch.poll.step = "read",
                    NEW e \in watch.poll.events, NEW c \in listeners
             PROVE  Record(e.kind, e.n) \notin sent[c]
  BY DEF HandedOnce
<1>1. ~ Behind(e.kind, e.n, watch.marks)
  BY DEF FeedInv, ReadAhead
<1>2. \A r \in sent[c] : Behind(r.kind, r.n, watch.marks)
  BY DEF FeedInv, SentBehind
<1>3. Record(e.kind, e.n).kind = e.kind /\ Record(e.kind, e.n).n = e.n
  BY DEF Record
<1>4. QED
  BY <1>1, <1>2, <1>3

\* No connection of the stream is handed a record twice, whatever the slots of
\* the policies, the order of commits, failed polls, and connections that come
\* and go (apps/api/src/index/feed.ts:31-35, reader.ts:519-600).
THEOREM StreamHandsOnce == FeedSpec => []HandedOnce
<1>1. FeedInv => HandedOnce
  BY MarksTellApart
<1>2. QED
  BY <1>1, AlwaysFeedInv, PTL

\* The inductive invariant contains the types.
LEMMA FeedTypes == FeedInv => FeedTypeOK
<1> SUFFICES ASSUME FeedInv PROVE FeedTypeOK
  OBVIOUS
<1>1. \A k \in Kinds : most[k] \in Nat /\ 1 .. most[k] \subseteq Numbers
  <2>1. most \in Histories /\ \A k \in Kinds : most[k] \in Nat
    BY MostTyped DEF FeedInv, TablesTyped
  <2>2. ASSUME NEW k \in Kinds, NEW n \in 1 .. most[k] PROVE n \in Numbers
    <3> DEFINE Upto(m) == 1 .. m
    <3>1. Numbers = UNION {Upto(h[j]) : h \in Histories, j \in Kinds}
      BY DEF Numbers
    <3>2. n \in Upto(most[k])
      BY <2>2
    <3> HIDE DEF Upto
    <3> HIDE DEF Kinds
    <3>3. \E h \in Histories, j \in Kinds : Upto(most[k]) = Upto(h[j])
      BY <2>1, Zenon
    <3>4. Upto(most[k]) \in {Upto(h[j]) : h \in Histories, j \in Kinds}
      BY <3>3
    <3>5. QED
      BY <3>1, <3>2, <3>4
  <2>3. QED
    BY <2>1, <2>2
<1>2. table \in [Kinds -> SUBSET Numbers]
  BY <1>1 DEF FeedInv, TablesTyped
<1>3. taken \in [Kinds -> Numbers \cup {0}]
  <2>1. ASSUME NEW k \in Kinds PROVE taken[k] \in Numbers \cup {0}
    <3>1. taken[k] \in Nat /\ taken[k] <= most[k] /\ most[k] \in Nat
      BY <1>1 DEF FeedInv, TablesTyped
    <3>2. taken[k] = 0 \/ taken[k] \in 1 .. most[k]
      BY <3>1
    <3>3. QED
      BY <1>1, <3>2
  <2>2. QED
    BY <2>1 DEF FeedInv, TablesTyped
<1>4. /\ watch.poll.step \in {"idle", "reading", "read"}
      /\ \A k \in Kinds : fetch[k].step \in {"none", "asked", "answered"}
  BY DEF FeedInv, StreamTyped, Watch, Poll, Fetch
<1>5. QED
  BY <1>2, <1>3, <1>4 DEF FeedInv, StreamTyped, FeedTypeOK

\* The poller runs exactly while somebody listens, in every state the feed
\* can reach (routes/events.ts with feed.ts:61-88).
THEOREM FeedTyped == FeedSpec => []FeedTypeOK
<1>1. FeedInv => FeedTypeOK
  BY FeedTypes
<1>2. QED
  BY <1>1, AlwaysFeedInv, PTL
=============================================================================
