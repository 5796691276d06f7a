-------------------------------- MODULE Feed --------------------------------
(***************************************************************************)
(* How a record the worker or the API has written reaches an open panel:   *)
(* one poller per company reads what is new since its marks                *)
(* (apps/api/src/index/{feed,reader}.ts), every stream of the company      *)
(* queues it (routes/events.ts), and the panel patches its cache with it   *)
(* or reads again (apps/web/src/{api/sse,company/feed}.ts).                *)
(*                                                                         *)
(* A record is a number of a kind.  Attempts, statuses and offers are      *)
(* marked by a number drawn before the transaction that uses it commits;   *)
(* policies by their slot.                                                 *)
(***************************************************************************)
EXTENDS Integers, FiniteSets, FiniteSetsExt

CONSTANTS
    Histories,    \* how many records of each kind may come: one is chosen
    PolicySlot,   \* slot of each policy version
    MaxConns,     \* bound: connections of the panel
    MaxFailures   \* bound: polls that fail

Numbered == {"attempt", "status", "offer"}
Kinds == Numbered \cup {"policy"}
Conns == 1 .. MaxConns

ASSUME FeedAssumption ==
    /\ \A h \in Histories : h \in [Kinds -> Nat]
    /\ \A h \in Histories : 1 .. h["policy"] \subseteq DOMAIN PolicySlot
    /\ \A n \in DOMAIN PolicySlot : PolicySlot[n] \in Nat
    /\ MaxConns \in Nat /\ MaxFailures \in Nat

VARIABLES
    most,       \* the history chosen
    taken,      \* numbers drawn, by kind
    table,      \* database: records committed, by kind
    watch,      \* the company's poller
    listeners,  \* connections it hands events to
    queue,      \* what each connection is still to be sent
    conn,       \* the panel's latest connection ...
    link,       \* ... and how far it is
    fetch,      \* the panel's reads under way, by kind
    cache,      \* what the panel shows of each kind
    sent,       \* events each connection has been handed (history)
    excused,    \* records nobody owes the panel (history)
    failures

tableVars == <<most, taken, table>>
serverVars == <<watch, listeners, queue, sent, failures>>
panelVars == <<conn, link, fetch, cache>>
feedVars == <<tableVars, serverVars, panelVars, excused>>

-----------------------------------------------------------------------------
Highest(S) == Max(S \cup {0})

Record(k, n) == [kind |-> k, n |-> n]

\* A read of the panel: the journal and the book list every row, the registry
\* and the company's view hold the latest state.
Reading(k) == IF k \in {"status", "policy"} THEN 1 .. Highest(table[k])
                                            ELSE table[k]

NoMarks == [number |-> [k \in Numbered |-> -1], slot |-> -1, keys |-> {}]

SlotsOf(S) == {PolicySlot[n] : n \in S}
AtSlot(S, slot) == {n \in S : PolicySlot[n] = slot}

\* reader.feed with since === null: a fresh stream starts from now.
FirstMarks ==
    LET slot == Highest(SlotsOf(table["policy"]))
    IN  [number |-> [k \in Numbered |-> Highest(table[k])],
         slot |-> slot, keys |-> AtSlot(table["policy"], slot)]

\* More may come of the slot read last, but not what was read of it.
NewPolicies(m) == {n \in table["policy"] : PolicySlot[n] >= m.slot} \ m.keys

New(k, m) == IF k = "policy" THEN NewPolicies(m)
                             ELSE {n \in table[k] : n > m.number[k]}

\* A slip: the keys of a slot are those of the last poll alone.
NextMarksForget(m) ==
    LET news == NewPolicies(m)
        slot == Max(SlotsOf(news) \cup {m.slot})
    IN  [number |-> [k \in Numbered |-> Max(New(k, m) \cup {m.number[k]})],
         slot |-> slot, keys |-> AtSlot(news, slot)]

NextMarks(m) ==
    LET news == NewPolicies(m)
        slot == Max(SlotsOf(news) \cup {m.slot})
    IN  [number |-> [k \in Numbered |-> Max(New(k, m) \cup {m.number[k]})],
         slot |-> slot,
         keys |-> (IF slot = m.slot THEN m.keys ELSE {}) \cup AtSlot(news, slot)]

\* An event comes with what it lets the panel show: the entry or the policy
\* itself, the investor's row as it is by now, and nothing of an offer.
Shows(k, n) == CASE k = "attempt" -> {n}
                 [] k = "status" -> Reading("status")
                 [] k = "policy" -> 1 .. n
                 [] k = "offer" -> {}

Event(k, n) == [kind |-> k, n |-> n, shows |-> Shows(k, n)]
Events(m) == UNION {{Event(k, n) : n \in New(k, m)} : k \in Kinds}

-----------------------------------------------------------------------------
Silent == [step |-> "idle", events |-> {}, marks |-> NoMarks]
NoWatch == [on |-> FALSE, marks |-> NoMarks, poll |-> Silent]
NoFetch == [step |-> "none", answer |-> {}]
Asked == [step |-> "asked", answer |-> {}]
NotLoaded == [loaded |-> FALSE, shown |-> {}]

Used == {k \in Kinds : most[k] > 0}

FeedInit ==
    /\ most \in Histories
    /\ taken = [k \in Kinds |-> 0] /\ table = [k \in Kinds |-> {}]
    /\ watch = NoWatch /\ listeners = {}
    /\ queue = [c \in Conns |-> {}] /\ sent = [c \in Conns |-> {}]
    /\ conn = 0 /\ link = "off"
    /\ fetch = [k \in Kinds |-> IF k \in Used THEN Asked ELSE NoFetch]
    /\ cache = [k \in Kinds |-> NotLoaded]
    /\ excused = {} /\ failures = 0

(***************************************************************************)
(* The tables.  Attempts and offers have two writers each, the worker and  *)
(* the API or the sweep, so a number may be drawn before another one and   *)
(* commit after it.  Policies come as the worker replays them.             *)
(***************************************************************************)
Draw(k) ==
    /\ k \in Numbered /\ taken[k] < most[k]
    /\ taken' = [taken EXCEPT ![k] = @ + 1]
    /\ UNCHANGED <<most, table, serverVars, panelVars, excused>>

\* The marks the next poll starts from.
Horizon == IF watch.poll.step = "read" THEN watch.poll.marks ELSE watch.marks

\* What is committed before the poller has its first marks, or below them, is
\* passed over.
PassedOver(k, n) ==
    watch.on /\ (\/ Horizon = NoMarks
                 \/ k \in Numbered /\ n <= Horizon.number[k]
                 \/ k = "policy" /\ PolicySlot[n] < Horizon.slot)

Committed(k, n) ==
    /\ n \notin table[k]
    /\ table' = [table EXCEPT ![k] = @ \cup {n}]
    /\ excused' = excused \cup (IF PassedOver(k, n) THEN {Record(k, n)} ELSE {})
    /\ UNCHANGED <<most, taken, serverVars, panelVars>>

Commit(k, n) ==
    \/ k \in {"attempt", "offer"} /\ n \in 1 .. taken[k] /\ Committed(k, n)
    \/ k = "status" /\ n \in 1 .. taken[k] /\ 1 .. n - 1 \subseteq table[k]
       /\ Committed(k, n)
    \/ k = "policy" /\ n \in 1 .. most[k] /\ Committed(k, n)

-----------------------------------------------------------------------------
(* The poller.                                                             *)

PollStart ==
    /\ watch.on /\ watch.poll.step = "idle"
    /\ watch' = [watch EXCEPT !.poll.step = "reading"]
    /\ UNCHANGED <<tableVars, listeners, queue, sent, failures, panelVars, excused>>

PollRead ==
    /\ watch.poll.step = "reading"
    /\ watch' = [watch EXCEPT !.poll =
                    IF watch.marks = NoMarks
                    THEN [step |-> "read", events |-> {}, marks |-> FirstMarks]
                    ELSE [step |-> "read", events |-> Events(watch.marks),
                          marks |-> NextMarks(watch.marks)]]
    /\ UNCHANGED <<tableVars, listeners, queue, sent, failures, panelVars, excused>>

PollFails ==
    /\ watch.poll.step = "reading"
    /\ failures < MaxFailures /\ failures' = failures + 1
    /\ watch' = [watch EXCEPT !.poll = Silent]
    /\ UNCHANGED <<tableVars, listeners, queue, sent, panelVars, excused>>

Deliver ==
    LET events == watch.poll.events IN
    /\ watch.poll.step = "read"
    /\ queue' = [c \in Conns |-> IF c \in listeners THEN queue[c] \cup events
                                                   ELSE queue[c]]
    /\ sent' = [c \in Conns |-> IF c \in listeners
                                THEN sent[c] \cup {Record(e.kind, e.n) : e \in events}
                                ELSE sent[c]]
    /\ watch' = [watch EXCEPT !.marks = watch.poll.marks, !.poll = Silent]
    /\ UNCHANGED <<tableVars, listeners, failures, panelVars, excused>>

-----------------------------------------------------------------------------
(* The stream, and what opening it does to the panel's reads.              *)

\* Subscribing creates the poller and starts its first poll.
Connect ==
    /\ link = "off" /\ conn < MaxConns
    /\ conn' = conn + 1 /\ link' = "opening"
    /\ listeners' = listeners \cup {conn + 1}
    /\ watch' = IF watch.on THEN watch
                ELSE [NoWatch EXCEPT !.on = TRUE, !.poll.step = "reading"]
    /\ UNCHANGED <<tableVars, queue, sent, failures, fetch, cache, excused>>

\* A read is started again when it is invalidated, unless nothing is loaded
\* yet: then the one under way is waited for, however old its answer.
Joins(k) == fetch[k].step # "none" /\ ~ cache[k].loaded

Refetched(ks) ==
    [k \in Kinds |-> IF k \in ks /\ ~ Joins(k) THEN Asked ELSE fetch[k]]

\* Records the panel is told of, or told to read again for, while an answer
\* without them is on its way to replace what it shows.
Raced(k, S) == IF fetch[k].step = "answered"
               THEN {Record(k, n) : n \in S \ fetch[k].answer} ELSE {}

\* A slip: the page's own reads are taken to be enough.
OpenQuietly == fetch' = fetch /\ excused' = excused

OnOpen ==
    /\ fetch' = Refetched(Used)
    /\ excused' = excused \cup UNION {Raced(k, Reading(k)) : k \in {j \in Used : Joins(j)}}

Open ==
    /\ link = "opening" /\ link' = "open"
    /\ OnOpen
    /\ UNCHANGED <<tableVars, serverVars, conn, cache>>

Drop ==
    /\ link # "off" /\ link' = "off"
    /\ conn < MaxConns
    /\ UNCHANGED <<tableVars, serverVars, conn, fetch, cache, excused>>

\* A slip: the last one to leave does not stop the poller.
AbortLeavesPoller(c) ==
    /\ c \in listeners /\ (c # conn \/ link = "off")
    /\ listeners' = listeners \ {c}
    /\ queue' = [queue EXCEPT ![c] = {}]
    /\ UNCHANGED <<tableVars, watch, sent, failures, panelVars, excused>>

\* The server notices that a connection is gone; with the last one the poller
\* goes, and a poll still under way speaks to nobody.
Abort(c) ==
    /\ c \in listeners /\ (c # conn \/ link = "off")
    /\ listeners' = listeners \ {c}
    /\ queue' = [queue EXCEPT ![c] = {}]
    /\ watch' = IF listeners = {c} THEN NoWatch ELSE watch
    /\ UNCHANGED <<tableVars, sent, failures, panelVars, excused>>

\* A frame comes in: applyFeedEvent.
Frame(e) ==
    /\ link = "open" /\ e \in queue[conn]
    /\ queue' = [queue EXCEPT ![conn] = @ \ {e}]
    /\ IF e.kind = "offer"
       THEN /\ fetch' = Refetched({"offer"})
            /\ excused' = excused \cup (IF Joins("offer") THEN Raced("offer", {e.n}) ELSE {})
            /\ UNCHANGED cache
       ELSE /\ cache' = [cache EXCEPT ![e.kind].shown =
                             IF cache[e.kind].loaded THEN @ \cup e.shows ELSE @]
            /\ excused' = excused \cup Raced(e.kind, {e.n})
            /\ UNCHANGED fetch
    /\ UNCHANGED <<tableVars, watch, listeners, sent, failures, conn, link>>

FetchAnswered(k) ==
    /\ fetch[k].step = "asked"
    /\ fetch' = [fetch EXCEPT ![k] = [step |-> "answered", answer |-> Reading(k)]]
    /\ UNCHANGED <<tableVars, serverVars, conn, link, cache, excused>>

\* The answer replaces what was there.
FetchLands(k) ==
    /\ fetch[k].step = "answered"
    /\ cache' = [cache EXCEPT ![k] = [loaded |-> TRUE, shown |-> fetch[k].answer]]
    /\ fetch' = [fetch EXCEPT ![k] = NoFetch]
    /\ UNCHANGED <<tableVars, serverVars, conn, link, excused>>

-----------------------------------------------------------------------------
Numbers == UNION {1 .. h[k] : h \in Histories, k \in Kinds}

PollStep == PollStart \/ PollRead \/ Deliver
Frames == \E e \in queue[IF conn = 0 THEN 1 ELSE conn] : Frame(e)
Fetching(k) == FetchAnswered(k) \/ FetchLands(k)

FeedNext ==
    \/ \E k \in Kinds : Draw(k) \/ Fetching(k) \/ \E n \in Numbers : Commit(k, n)
    \/ PollStep \/ PollFails
    \/ Connect \/ Open \/ Drop \/ \E c \in Conns : Abort(c)
    \/ Frames

FeedSpec == FeedInit /\ [][FeedNext]_feedVars

\* The interval timer polls for ever, a stream that broke is tried again, and
\* what has arrived is handled.  Nobody has to commit or to disconnect.
FairFeedSpec ==
    /\ FeedSpec
    /\ WF_feedVars(PollStep)
    /\ WF_feedVars(Connect) /\ WF_feedVars(Open) /\ WF_feedVars(Frames)
    /\ \A k \in Kinds : WF_feedVars(Fetching(k))

-----------------------------------------------------------------------------
FeedTypeOK ==
    /\ table \in [Kinds -> SUBSET Numbers] /\ taken \in [Kinds -> Numbers \cup {0}]
    /\ watch.poll.step \in {"idle", "reading", "read"}
    /\ listeners \subseteq Conns /\ (watch.on <=> listeners # {})
    /\ link \in {"off", "opening", "open"} /\ conn \in 0 .. MaxConns
    /\ \A k \in Kinds : fetch[k].step \in {"none", "asked", "answered"}

\* A connection is handed each record once, whatever polls failed and however
\* many records of one slot or below the highest number came late: marks and
\* keys move with what was handed out (feed.ts:31-35).
HandedOnce ==
    watch.poll.step = "read" =>
        \A e \in watch.poll.events, c \in listeners :
            Record(e.kind, e.n) \notin sent[c]

\* Committed, not on the screen, and not given up on.
Missed == {r \in [kind : Kinds, n : Numbers] :
              /\ r.n \in table[r.kind] \ cache[r.kind].shown
              /\ r \notin excused}

\* Again and again the panel shows everything committed, through broken
\* streams, failed polls and reads that cross the events, but for what was
\* committed before the poller's first marks or below them, and for what an
\* older answer then replaced (company/feed.ts:14-19).
PanelCatchesUp == []<>(Missed = {})
=============================================================================
