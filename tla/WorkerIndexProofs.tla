------------------------- MODULE WorkerIndexProofs -------------------------
(***************************************************************************)
(* The worker's theorems, for any number of transactions, any slots and    *)
(* parents, any number of endpoints, any capacity of the recent set and    *)
(* any number of failures and restarts.                                    *)
(***************************************************************************)
EXTENDS WorkerIndex, SequenceTheorems, Sums

-----------------------------------------------------------------------------
(* Sequences. *)

\* A sequence without its head.
LEMMA ListTaken ==
    ASSUME NEW S, NEW list \in Seq(S), list # <<>>
    PROVE  /\ Head(list) = list[1] /\ 1 \in DOMAIN list /\ list[1] \in S
           /\ Tail(list) \in Seq(S) /\ Len(Tail(list)) = Len(list) - 1
           /\ \A i \in DOMAIN Tail(list) :
                 /\ i + 1 \in DOMAIN list /\ i + 1 # 1
                 /\ Tail(list)[i] = list[i + 1]
<1>1. /\ Tail(list) \in Seq(S) /\ Len(Tail(list)) = Len(list) - 1
      /\ \A i \in 1 .. Len(Tail(list)) : Tail(list)[i] = list[i + 1]
  BY HeadTailProperties
<1>2. Len(list) \in Nat \ {0}
  OBVIOUS
<1>3. QED
  BY <1>1, <1>2

\* A sequence without the element at k.
LEMMA ElementTaken ==
    ASSUME NEW S, NEW list \in Seq(S), NEW k \in DOMAIN list
    PROVE  /\ RemoveAt(list, k) \in Seq(S)
           /\ Len(RemoveAt(list, k)) = Len(list) - 1
           /\ \A i \in DOMAIN RemoveAt(list, k) :
                 \E j \in DOMAIN list \ {k} : RemoveAt(list, k)[i] = list[j]
<1> DEFINE a == SubSeq(list, 1, k - 1)
           b == SubSeq(list, k + 1, Len(list))
<1>1. Len(list) \in Nat /\ k \in 1 .. Len(list)
  OBVIOUS
<1>2. /\ a \in Seq(S) /\ Len(a) = k - 1
      /\ \A j \in 1 .. k - 1 : a[j] = list[j]
  BY <1>1, SubSeqProperties
<1>3. /\ b \in Seq(S) /\ Len(b) = Len(list) - k
      /\ \A j \in 1 .. Len(list) - k : b[j] = list[k + j]
  BY <1>1, SubSeqProperties
<1> HIDE DEF a, b
<1> DEFINE out == RemoveAt(list, k)
<1>4. /\ out \in Seq(S) /\ Len(out) = Len(a) + Len(b)
      /\ \A j \in 1 .. Len(a) + Len(b) :
            out[j] = IF j <= Len(a) THEN a[j] ELSE b[j - Len(a)]
  <2>1. out = a \o b
    BY DEF RemoveAt, a, b
  <2> HIDE DEF out
  <2>2. QED
    BY <1>2, <1>3, <2>1, ConcatProperties
<1> HIDE DEF out
<1>5. Len(out) = Len(list) - 1 /\ DOMAIN out = 1 .. Len(list) - 1
  BY <1>1, <1>2, <1>3, <1>4
<1>6. ASSUME NEW j \in DOMAIN out
      PROVE  \E i \in DOMAIN list \ {k} : out[j] = list[i]
  <2>1. /\ j \in 1 .. Len(list) - 1 /\ DOMAIN list = 1 .. Len(list)
        /\ out[j] = IF j <= k - 1 THEN a[j] ELSE b[j - (k - 1)]
    BY <1>1, <1>2, <1>3, <1>4, <1>5
  <2>2. CASE j <= k - 1
    <3>1. out[j] = list[j] /\ j \in DOMAIN list \ {k}
      BY <1>1, <1>2, <2>1, <2>2
    <3>2. QED
      BY <3>1
  <2>3. CASE ~ (j <= k - 1)
    <3>1. j - (k - 1) \in 1 .. Len(list) - k /\ k + (j - (k - 1)) = j + 1
      BY <1>1, <2>1, <2>3
    <3>2. out[j] = list[j + 1] /\ j + 1 \in DOMAIN list \ {k}
      BY <1>1, <1>3, <2>1, <2>3, <3>1
    <3>3. QED
      BY <3>2
  <2>4. QED
    BY <2>2, <2>3
<1>7. QED
  BY <1>4, <1>5, <1>6 DEF out

\* Numbers one after the other, the last of them c.
IsRun(list, c) == \A i \in DOMAIN list : list[i] = c - Len(list) + i

\* A run goes on with the next number,
LEMMA RunAppended ==
    ASSUME NEW list \in Seq(Int), NEW c \in Int, IsRun(list, c - 1)
    PROVE  /\ Append(list, c) \in Seq(Int) /\ Append(list, c) # <<>>
           /\ Len(Append(list, c)) = Len(list) + 1
           /\ IsRun(Append(list, c), c)
<1> DEFINE long == Append(list, c)
<1>1. /\ long \in Seq(Int) /\ long # <<>> /\ Len(long) = Len(list) + 1
      /\ DOMAIN long = 1 .. Len(list) + 1 /\ Len(list) \in Nat
      /\ long[Len(list) + 1] = c
      /\ \A i \in 1 .. Len(list) : i \in DOMAIN list /\ long[i] = list[i]
  OBVIOUS
<1> HIDE DEF long
<1>2. ASSUME NEW i \in DOMAIN long PROVE long[i] = c - Len(long) + i
  <2>1. i \in Int /\ (i \in 1 .. Len(list) \/ i = Len(list) + 1)
    BY <1>1
  <2>2. CASE i \in 1 .. Len(list)
    BY <1>1, <2>1, <2>2 DEF IsRun
  <2>3. CASE i = Len(list) + 1
    BY <1>1, <2>1, <2>3
  <2>4. QED
    BY <2>1, <2>2, <2>3
<1>3. QED
  BY <1>1, <1>2 DEF IsRun, long

\* is one still without its first,
LEMMA RunTail ==
    ASSUME NEW list \in Seq(Int), list # <<>>, NEW c \in Int, IsRun(list, c)
    PROVE  /\ Tail(list) \in Seq(Int) /\ Len(Tail(list)) = Len(list) - 1
           /\ IsRun(Tail(list), c)
<1> DEFINE rest == Tail(list)
<1>1. /\ rest \in Seq(Int) /\ Len(rest) = Len(list) - 1
      /\ \A i \in DOMAIN rest : i + 1 \in DOMAIN list /\ rest[i] = list[i + 1]
  BY ListTaken
<1> HIDE DEF rest
<1>2. ASSUME NEW i \in DOMAIN rest PROVE rest[i] = c - Len(rest) + i
  <2>1. i \in Int /\ Len(rest) \in Int /\ Len(list) \in Int
    BY <1>1
  <2>2. rest[i] = c - Len(list) + (i + 1)
    BY <1>1 DEF IsRun
  <2>3. QED
    BY <1>1, <2>1, <2>2
<1>3. QED
  BY <1>1, <1>2 DEF IsRun, rest

\* and ends one earlier without its last.
LEMMA RunWithoutLast ==
    ASSUME NEW list \in Seq(Int), list # <<>>, NEW c \in Int, IsRun(list, c),
           NEW less, less = RemoveAt(list, CHOOSE i \in DOMAIN list : list[i] = c)
    PROVE  Len(less) = Len(list) - 1 /\ IsRun(less, c - 1)
<1> DEFINE k == Len(list)
           a == SubSeq(list, 1, k - 1)
           b == SubSeq(list, k + 1, k)
<1>1. k \in Nat \ {0} /\ k = Len(list) /\ DOMAIN list = 1 .. k
  OBVIOUS
<1> HIDE DEF k
<1>2. /\ a \in Seq(Int) /\ Len(a) = k - 1
      /\ \A j \in 1 .. k - 1 : a[j] = list[j]
  <2>1. \A j \in 1 .. k - 1 : j \in 1 .. Len(list) /\ list[j] \in Int
    BY <1>1
  <2>2. a = [j \in 1 .. k - 1 |-> list[j]]
    BY <1>1
  <2>3. QED
    BY <1>1, <2>1, <2>2
<1>3. b = <<>>
  BY <1>1
<1>4. (CHOOSE i \in DOMAIN list : list[i] = c) = k
  <2>1. k \in DOMAIN list /\ list[k] = c
    BY <1>1 DEF IsRun
  <2>2. \A i \in DOMAIN list : list[i] = c => i = k
    BY <1>1 DEF IsRun
  <2>3. QED
    BY <2>1, <2>2
<1>5. less = a \o b
  BY <1>1, <1>4 DEF RemoveAt
<1> HIDE DEF a, b
<1>6. less = a
  BY <1>2, <1>3, <1>5
<1>7. ASSUME NEW i \in DOMAIN less PROVE less[i] = (c - 1) - Len(less) + i
  <2>1. DOMAIN less = 1 .. k - 1 /\ Len(less) = k - 1
    BY <1>1, <1>2, <1>6
  <2>2. i \in Int /\ i \in 1 .. k - 1 /\ i \in 1 .. k
    BY <1>1, <2>1
  <2>3. less[i] = c - k + i
    BY <1>1, <1>2, <1>6, <2>2 DEF IsRun
  <2>4. (c - 1) - (k - 1) + i = c - k + i
    BY <1>1, <2>2
  <2>5. QED
    BY <2>1, <2>3, <2>4
<1>8. QED
  BY <1>1, <1>2, <1>6, <1>7 DEF IsRun

USE PipelineAssumption DEF Txs, None

-----------------------------------------------------------------------------
(* The inductive invariant of the pipeline. *)

\* What waits has landed.
LandedFirst ==
    /\ wire \subseteq 1 .. landed
    /\ \A i \in DOMAIN queue : queue[i].tx <= landed
    /\ \A i \in DOMAIN pass.todo : pass.todo[i] <= landed

\* One chained promise at most is the pass's, and it is the next of its list.
OnePassEntry ==
    /\ \A i, j \in DOMAIN queue :
            queue[i].from = "pass" /\ queue[j].from = "pass" => i = j
    /\ \A i \in DOMAIN queue : queue[i].from = "pass" =>
            pass.state = "await" /\ queue[i].tx = pass.todo[1]
    /\ pass.state = "await" => pass.todo # <<>>

\* A cursor that is being saved is the head's, and what is saved is not ahead
\* of what is in memory.
SavedBehind ==
    /\ saving => queue # <<>> /\ cursor = Head(queue).tx
    /\ saved # None => cursor # None /\ Slot[saved] <= Slot[cursor]

\* Only what is applied is remembered, and it took effect once.
RememberedApplied ==
    /\ \A i \in DOMAIN recent : recent[i] \in applied
    /\ \A t \in Txs : effects[t] = IF t \in applied THEN 1 ELSE 0

\* The chain of promises and the pass ...
ChainInv ==
    /\ queue \in Seq(Entry) /\ subscribed \in BOOLEAN
    /\ pass \in [state : {"idle", "fetch", "await"}, rpc : 1 .. Rpcs,
                 since : 0 .. landed, todo : Seq(Txs)]
    /\ LandedFirst /\ OnePassEntry

\* ... and the rest.
StoreInv ==
    /\ landed \in 0 .. NTx /\ saving \in BOOLEAN
    /\ recent \in Seq(Txs) /\ Len(recent) <= RecentCapacity
    /\ cursor \in 0 .. landed /\ saved \in 0 .. landed
    /\ applied \subseteq 1 .. landed /\ effects \in [Txs -> Nat]
    /\ crashes \in 0 .. MaxCrashes /\ failures \in 0 .. MaxFailures
    /\ SavedBehind /\ RememberedApplied

PipelineInv == ChainInv /\ StoreInv

\* What holds besides when the subscription delivers nothing: the chain holds
\* nothing but the pass's transaction, and the pass's list goes on, without a
\* gap, from what is indexed.
ListInOrder ==
    /\ \A i \in DOMAIN pass.todo : pass.todo[i] = pass.todo[1] + i - 1
    /\ pass.todo # <<>> => \A t \in Txs : t < pass.todo[1] => t \in applied
    /\ \A t \in Txs : t <= pass.since => t \in applied

PassInOrder ==
    /\ wire = {} /\ \A i \in DOMAIN queue : queue[i].from = "pass"
    /\ ListInOrder

BackfillInv == PipelineInv /\ PassInOrder /\ NothingBehindTheCursor

-----------------------------------------------------------------------------
(* Lemmas about the steps the actions share. *)

\* What a pass lists has landed and comes in the order of the chain.
LEMMA SinceListed ==
    ASSUME landed \in 0 .. NTx, NEW c \in 0 .. landed
    PROVE  /\ Since(c) \in Seq(Txs)
           /\ \A i \in DOMAIN Since(c) : Since(c)[i] = c + i /\ c + i <= landed
<1>1. landed - c \in Nat /\ NTx \in Nat
  OBVIOUS
<1>2. \A i \in 1 .. landed - c : c + i \in Txs /\ c + i <= landed
  BY <1>1
<1>3. QED
  BY <1>1, <1>2 DEF Since

\* The chain without its head.
LEMMA HeadTaken ==
    ASSUME queue \in Seq(Entry), queue # <<>>
    PROVE  /\ Head(queue) = queue[1] /\ 1 \in DOMAIN queue /\ queue[1] \in Entry
           /\ tx = queue[1].tx /\ tx \in Txs /\ queue[1].from \in {"live", "pass"}
           /\ Tail(queue) \in Seq(Entry)
           /\ \A i \in DOMAIN Tail(queue) :
                 /\ i + 1 \in DOMAIN queue /\ i + 1 # 1
                 /\ Tail(queue)[i] = queue[i + 1]
<1>1. /\ Head(queue) = queue[1] /\ 1 \in DOMAIN queue /\ queue[1] \in Entry
      /\ Tail(queue) \in Seq(Entry)
      /\ \A i \in DOMAIN Tail(queue) :
            /\ i + 1 \in DOMAIN queue /\ i + 1 # 1
            /\ Tail(queue)[i] = queue[i + 1]
  BY ListTaken
<1>2. QED
  BY <1>1 DEF tx, Entry

\* Remembering stays within the capacity, and adds the transaction only.
LEMMA RememberTyped ==
    ASSUME recent \in Seq(Txs), Len(recent) <= RecentCapacity, NEW t \in Txs
    PROVE  /\ Remember(t) \in Seq(Txs)
           /\ Len(Remember(t)) \in 1 .. RecentCapacity
           /\ Remember(t)[Len(Remember(t))] = t
           /\ \A i \in DOMAIN Remember(t) :
                 i = Len(Remember(t)) \/ Remember(t)[i] \in Remembered
<1> DEFINE all == Append(recent, t)
<1>1. /\ all \in Seq(Txs) /\ Len(all) = Len(recent) + 1
      /\ all[Len(all)] = t
      /\ \A i \in 1 .. Len(recent) : all[i] = recent[i]
  OBVIOUS
<1>2. \A i \in DOMAIN all : i = Len(all) \/ all[i] \in Remembered
  BY <1>1 DEF Remembered
<1> HIDE DEF all
<1>3. CASE Len(all) > RecentCapacity
  <2>1. Remember(t) = Tail(all)
    BY <1>3 DEF Remember, all
  <2>2. all # <<>> /\ Len(all) >= 2
    BY <1>1, <1>3
  <2>3. /\ Tail(all) \in Seq(Txs) /\ Len(Tail(all)) = Len(all) - 1
        /\ \A i \in DOMAIN Tail(all) :
              i + 1 \in DOMAIN all /\ Tail(all)[i] = all[i + 1]
    BY <1>1, <2>2, ListTaken
  <2>4. Len(all) = RecentCapacity + 1 /\ Len(all) \in Nat
    BY <1>1, <1>3
  <2>5. Tail(all)[Len(all) - 1] = t
    <3>1. Len(all) - 1 \in DOMAIN Tail(all)
      BY <2>2, <2>3, <2>4
    <3>2. QED
      BY <1>1, <2>3, <2>4, <3>1
  <2>6. QED
    BY <1>2, <2>1, <2>2, <2>3, <2>4, <2>5
<1>4. CASE ~ (Len(all) > RecentCapacity)
  <2>1. Remember(t) = all
    BY <1>4 DEF Remember, all
  <2>2. QED
    BY <1>1, <1>2, <1>4, <2>1
<1>5. QED
  BY <1>3, <1>4

\* Forgetting takes one signature out, and adds none.
LEMMA ForgetTyped ==
    ASSUME NEW sigs \in Seq(Txs), NEW k \in DOMAIN sigs
    PROVE  /\ Forget(sigs, sigs[k]) \in Seq(Txs)
           /\ Len(Forget(sigs, sigs[k])) = Len(sigs) - 1
           /\ (\A i \in DOMAIN sigs : sigs[i] = sigs[k] => i = k) =>
                 \A i \in DOMAIN Forget(sigs, sigs[k]) :
                    \E j \in DOMAIN sigs \ {k} : Forget(sigs, sigs[k])[i] = sigs[j]
<1> DEFINE t == sigs[k]
<1> HIDE DEF t
<1> DEFINE i == CHOOSE i \in DOMAIN sigs : sigs[i] = t
<1>1. i \in DOMAIN sigs /\ sigs[i] = t
  BY DEF t
<1> HIDE DEF i
<1>2. Forget(sigs, t) = RemoveAt(sigs, i)
  BY DEF Forget, i
<1>3. QED
  BY <1>1, <1>2, ElementTaken DEF t

\* The pass ends, or starts again at its own cursor.
LEMMA NextRpcKeeps ==
    ASSUME ChainInv, landed \in 0 .. NTx, landed' = landed, NextRpc \/ PassOver
    PROVE  /\ subscribed' \in BOOLEAN /\ pass'.state # "await"
           /\ pass' \in [state : {"idle", "fetch", "await"}, rpc : 1 .. Rpcs,
                         since : 0 .. landed', todo : Seq(Txs)]
           /\ \A i \in DOMAIN pass'.todo : pass'.todo[i] <= landed'
<1>1. CASE PassOver
  BY <1>1 DEF PassOver, NoPass, ChainInv
<1>2. CASE NextRpc /\ pass.rpc < Rpcs
  <2>1. pass.since \in 0 .. landed
    BY DEF ChainInv
  <2>2. /\ Since(pass.since) \in Seq(Txs)
        /\ \A i \in DOMAIN Since(pass.since) : Since(pass.since)[i] <= landed
    BY <2>1, SinceListed
  <2>3. QED
    BY <1>2, <2>1, <2>2 DEF NextRpc, ChainInv
<1>3. QED
  BY <1>1, <1>2 DEF NextRpc

\* The head leaves the chain, and it was nobody's.
LEMMA TailKeeps ==
    ASSUME ChainInv, queue # <<>>, queue' = Tail(queue),
           UNCHANGED <<pass, subscribed, landed, wire>>
    PROVE  ChainInv'
<1>1. /\ queue' \in Seq(Entry)
      /\ \A i \in DOMAIN queue' :
            i + 1 \in DOMAIN queue /\ queue'[i] = queue[i + 1] /\ i \in Int
  BY HeadTaken DEF ChainInv
<1>2. LandedFirst'
  BY <1>1 DEF ChainInv, LandedFirst
<1>3. OnePassEntry'
  <2>1. ASSUME NEW i \in DOMAIN queue', NEW j \in DOMAIN queue',
               queue'[i].from = "pass", queue'[j].from = "pass"
        PROVE  i = j
    <3>1. i + 1 = j + 1
      BY <1>1, <2>1 DEF ChainInv, OnePassEntry
    <3>2. QED
      BY <1>1, <3>1
  <2>2. QED
    BY <1>1, <2>1 DEF ChainInv, OnePassEntry
<1>4. QED
  BY <1>1, <1>2, <1>3 DEF ChainInv

\* The head leaves the chain; its pass, if it came from one, goes on.
LEMMA HandledKeeps ==
    ASSUME ChainInv, queue # <<>>, Handled, landed' = landed, wire' = wire
    PROVE  ChainInv'
<1>1. CASE queue[1].from = "pass"
  <2>1. pass' = [pass EXCEPT !.state = "fetch", !.todo = Tail(@)]
    BY <1>1, HeadTaken DEF Handled, ChainInv
  <2>2. pass.todo \in Seq(Txs) /\ pass.todo # <<>>
    BY <1>1, HeadTaken DEF ChainInv, OnePassEntry
  <2>3. \A i \in DOMAIN queue' : queue'[i].from # "pass"
    BY <1>1, HeadTaken DEF Handled, ChainInv, OnePassEntry
  <2>4. OnePassEntry'
    BY <2>1, <2>2, <2>3 DEF OnePassEntry, ChainInv
  <2>5. LandedFirst'
    BY <2>1, <2>2, HeadTaken, ListTaken DEF Handled, ChainInv, LandedFirst
  <2>6. QED
    BY <1>1, <2>1, <2>2, <2>4, <2>5, HeadTaken, ListTaken DEF Handled, ChainInv
<1>2. CASE queue[1].from # "pass"
  <2>1. UNCHANGED <<pass, subscribed>> /\ queue' = Tail(queue)
    BY <1>2, HeadTaken DEF Handled, ChainInv
  <2>2. QED
    BY <2>1, TailKeeps
<1>3. QED
  BY <1>1, <1>2

\* The head leaves the chain; its pass, if it came from one, gives up.
LEMMA RejectedKeeps ==
    ASSUME ChainInv, landed \in 0 .. NTx,
           queue # <<>>, Rejected, landed' = landed, wire' = wire
    PROVE  ChainInv'
<1>1. CASE queue[1].from = "pass"
  <2>1. NextRpc
    BY <1>1, HeadTaken DEF Rejected, ChainInv
  <2>2. \A i \in DOMAIN queue' : queue'[i].from # "pass"
    BY <1>1, HeadTaken DEF Rejected, ChainInv, OnePassEntry
  <2>3. /\ subscribed' \in BOOLEAN /\ pass'.state # "await"
        /\ pass' \in [state : {"idle", "fetch", "await"}, rpc : 1 .. Rpcs,
                      since : 0 .. landed', todo : Seq(Txs)]
        /\ \A i \in DOMAIN pass'.todo : pass'.todo[i] <= landed'
    BY <2>1, NextRpcKeeps
  <2>4. OnePassEntry'
    BY <2>2, <2>3 DEF OnePassEntry
  <2>5. LandedFirst'
    BY <2>3, HeadTaken DEF Rejected, ChainInv, LandedFirst
  <2>6. QED
    BY <2>3, <2>4, <2>5, HeadTaken DEF Rejected, ChainInv
<1>2. CASE queue[1].from # "pass"
  <2>1. UNCHANGED <<pass, subscribed>> /\ queue' = Tail(queue)
    BY <1>2, HeadTaken DEF Rejected, ChainInv
  <2>2. QED
    BY <2>1, TailKeeps
<1>3. QED
  BY <1>1, <1>2

\* An entry joins the chain, from the subscription or as the pass's next one.
LEMMA AppendKeeps ==
    ASSUME ChainInv, NEW e \in Entry, queue' = Append(queue, e), e.tx <= landed,
           landed' = landed, subscribed' = subscribed, wire' \subseteq wire,
           \/ e.from = "live" /\ pass' = pass
           \/ /\ e.from = "pass" /\ e.tx = pass.todo[1]
              /\ pass.state # "await" /\ pass.todo # <<>>
              /\ pass' = [pass EXCEPT !.state = "await"]
    PROVE  ChainInv'
<1>1. /\ queue' \in Seq(Entry)
      /\ \A i \in DOMAIN queue' :
            \/ i \in DOMAIN queue /\ queue'[i] = queue[i]
            \/ i = Len(queue) + 1 /\ queue'[i] = e
  BY AppendProperties DEF ChainInv
<1>2. LandedFirst'
  BY <1>1 DEF ChainInv, LandedFirst
<1>3. OnePassEntry'
  <2>1. CASE e.from = "live" /\ pass' = pass
    <3>1. \A i \in DOMAIN queue' : queue'[i].from = "pass" =>
             i \in DOMAIN queue /\ queue'[i] = queue[i]
      BY <1>1, <2>1
    <3>2. /\ \A i, j \in DOMAIN queue' :
                queue'[i].from = "pass" /\ queue'[j].from = "pass" => i = j
          /\ \A i \in DOMAIN queue' : queue'[i].from = "pass" =>
                pass.state = "await" /\ queue'[i].tx = pass.todo[1]
      <4>1. /\ \A i, j \in DOMAIN queue :
                  queue[i].from = "pass" /\ queue[j].from = "pass" => i = j
            /\ \A i \in DOMAIN queue : queue[i].from = "pass" =>
                  pass.state = "await" /\ queue[i].tx = pass.todo[1]
        BY DEF ChainInv, OnePassEntry
      <4>2. QED
        BY <3>1, <4>1
    <3>3. QED
      BY <2>1, <3>2 DEF ChainInv, OnePassEntry
  <2>2. CASE /\ e.from = "pass" /\ e.tx = pass.todo[1]
             /\ pass.state # "await" /\ pass.todo # <<>>
             /\ pass' = [pass EXCEPT !.state = "await"]
    <3>1. \A i \in DOMAIN queue' : queue'[i].from = "pass" =>
             i = Len(queue) + 1 /\ queue'[i] = e
      BY <1>1, <2>2 DEF ChainInv, OnePassEntry
    <3>2. pass'.state = "await" /\ pass'.todo = pass.todo
      BY <2>2 DEF ChainInv
    <3>3. QED
      BY <2>2, <3>1, <3>2 DEF OnePassEntry
  <2>3. QED
    BY <2>1, <2>2
<1>4. QED
  BY <1>1, <1>2, <1>3 DEF ChainInv

-----------------------------------------------------------------------------
(* The step. *)

\* Committing a transaction that has landed, whether it was in or not.
LEMMA CommitKeeps ==
    ASSUME PipelineInv, queue # <<>>, Commit
    PROVE  /\ tx \in 1 .. landed /\ tx \in Txs
           /\ applied' = applied \cup {tx} /\ applied' \subseteq 1 .. landed
           /\ effects' \in [Txs -> Nat]
           /\ \A t \in Txs : effects'[t] = IF t \in applied' THEN 1 ELSE 0
<1>1. tx \in Txs /\ tx \in 1 .. landed
  BY HeadTaken DEF PipelineInv, ChainInv, StoreInv, LandedFirst, Entry
<1>2. /\ applied \subseteq 1 .. landed /\ effects \in [Txs -> Nat]
      /\ \A t \in Txs : effects[t] = IF t \in applied THEN 1 ELSE 0
  BY DEF PipelineInv, ChainInv, StoreInv, RememberedApplied
<1>3. effects' \in [Txs -> Nat]
  BY <1>1, <1>2 DEF Commit
<1>4. ASSUME NEW t \in Txs
      PROVE  effects'[t] = IF t \in applied' THEN 1 ELSE 0
  BY <1>1, <1>2 DEF Commit
<1>5. QED
  BY <1>1, <1>2, <1>3, <1>4 DEF Commit

\* What is remembered once a transaction failed was remembered before.
LEMMA GivenUpRecent ==
    ASSUME PipelineInv, queue # <<>>, tx \notin Remembered, GivenUp
    PROVE  /\ recent' \in Seq(Txs) /\ Len(recent') <= RecentCapacity
           /\ \A i \in DOMAIN recent' : recent'[i] \in Remembered
<1> DEFINE sigs == Remember(tx)
           last == Len(sigs)
<1>1. tx \in Txs
  BY HeadTaken DEF PipelineInv, ChainInv, StoreInv
<1>2. /\ sigs \in Seq(Txs) /\ last \in 1 .. RecentCapacity
      /\ sigs[last] = tx
      /\ \A i \in DOMAIN sigs : i = last \/ sigs[i] \in Remembered
  BY <1>1, RememberTyped DEF PipelineInv, ChainInv, StoreInv
<1>3. last \in DOMAIN sigs
  BY <1>2
<1>4. \A i \in DOMAIN sigs : sigs[i] = sigs[last] => i = last
  BY <1>2
<1>5. recent' = Forget(sigs, sigs[last])
  BY <1>2 DEF GivenUp
<1> HIDE DEF sigs, last
<1>6. /\ recent' \in Seq(Txs) /\ Len(recent') = Len(sigs) - 1
      /\ \A i \in DOMAIN recent' :
            \E j \in DOMAIN sigs \ {last} : recent'[i] = sigs[j]
  <2>1. sigs \in Seq(Txs)
    BY <1>2
  <2>2. /\ Forget(sigs, sigs[last]) \in Seq(Txs)
        /\ Len(Forget(sigs, sigs[last])) = Len(sigs) - 1
        /\ (\A i \in DOMAIN sigs : sigs[i] = sigs[last] => i = last) =>
              \A i \in DOMAIN Forget(sigs, sigs[last]) :
                 \E j \in DOMAIN sigs \ {last} : Forget(sigs, sigs[last])[i] = sigs[j]
    BY <1>3, <2>1, ForgetTyped, Zenon
  <2>3. QED
    BY <1>4, <1>5, <2>2, Zenon
<1>7. QED
  BY <1>2, <1>6 DEF last

\* A step that leaves the database, the cursor and the recent set alone.
LEMMA StoreUntouched ==
    ASSUME StoreInv, UNCHANGED <<landed, saving, recent, cursor, databaseVars>>,
           saving => queue' # <<>> /\ Head(queue') = Head(queue),
           crashes' \in 0 .. MaxCrashes, failures' \in 0 .. MaxFailures
    PROVE  StoreInv'
  BY DEF StoreInv, SavedBehind, RememberedApplied, databaseVars

\* Failures stay within their bound.
LEMMA FailCounted ==
    ASSUME StoreInv, Fail
    PROVE  failures' \in 0 .. MaxFailures
  BY DEF StoreInv, Fail

\* The pipeline's inductive invariant holds at first.
LEMMA PipelineInvInit == Init => PipelineInv
<1> SUFFICES ASSUME Init PROVE PipelineInv
  OBVIOUS
<1>1. /\ <<>> \in Seq(Entry) /\ <<>> \in Seq(Txs) /\ Len(<<>>) = 0
      /\ DOMAIN <<>> = {}
  OBVIOUS
<1>2. ChainInv
  <2>1. queue = <<>> /\ wire = {} /\ landed = 0 /\ subscribed = FALSE
    BY DEF Init
  <2>2. /\ pass \in [state : {"idle", "fetch", "await"}, rpc : 1 .. Rpcs,
                     since : 0 .. landed, todo : Seq(Txs)]
        /\ pass.todo = <<>> /\ pass.state = "idle"
    BY <1>1, <2>1 DEF Init, NoPass
  <2>3. LandedFirst /\ OnePassEntry
    BY <1>1, <2>1, <2>2 DEF LandedFirst, OnePassEntry
  <2>4. QED
    BY <1>1, <2>1, <2>2, <2>3 DEF ChainInv
<1>3. SavedBehind /\ RememberedApplied
  BY <1>1 DEF Init, SavedBehind, RememberedApplied
<1>4. StoreInv
  <2>1. /\ landed \in 0 .. NTx /\ cursor \in 0 .. landed /\ saved \in 0 .. landed
        /\ crashes \in 0 .. MaxCrashes /\ failures \in 0 .. MaxFailures
    BY DEF Init
  <2>2. recent \in Seq(Txs) /\ Len(recent) <= RecentCapacity
    BY <1>1 DEF Init
  <2>3. applied \subseteq 1 .. landed /\ effects \in [Txs -> Nat]
        /\ saving \in BOOLEAN
    BY DEF Init
  <2>4. QED
    BY <1>3, <2>1, <2>2, <2>3 DEF StoreInv
<1>5. QED
  BY <1>2, <1>4 DEF PipelineInv

\* The subscription and the pass.
LEMMA FeedStep ==
    ASSUME PipelineInv, Land \/ (\E t \in Txs : Notify(t)) \/ PassStep
    PROVE  PipelineInv'
<1> USE DEF PipelineInv
<1>1. CASE Land
  <2>1. landed' = landed + 1 /\ landed' \in 0 .. NTx
    BY <1>1 DEF Land, StoreInv
  <2>2. UNCHANGED <<subscribed, queue, saving, recent, cursor, pass, saved,
                    applied, effects, crashes, failures>>
    BY <1>1 DEF Land, memoryVars, databaseVars, boundVars
  <2>3. wire' \subseteq 1 .. landed'
    <3>1. wire' \subseteq wire \cup {landed + 1}
      BY <1>1 DEF Land
    <3>2. wire \subseteq 1 .. landed /\ landed \in Nat
      BY DEF ChainInv, LandedFirst, StoreInv
    <3>3. QED
      BY <2>1, <3>1, <3>2
  <2>4. LandedFirst'
    <3>1. /\ \A i \in DOMAIN queue : queue[i].tx \in Int /\ queue[i].tx <= landed
          /\ \A i \in DOMAIN pass.todo :
                pass.todo[i] \in Int /\ pass.todo[i] <= landed
      <4>1. /\ \A i \in DOMAIN queue : queue[i] \in Entry
            /\ \A i \in DOMAIN pass.todo : pass.todo[i] \in Txs
        BY DEF ChainInv
      <4>2. QED
        BY <4>1 DEF ChainInv, LandedFirst, Entry
    <3>2. landed \in Int
      BY DEF StoreInv
    <3>3. QED
      BY <2>1, <2>2, <2>3, <3>1, <3>2 DEF LandedFirst
  <2>5. pass.since \in 0 .. landed'
    BY <2>1 DEF ChainInv, StoreInv
  <2>6. ChainInv'
    BY <2>2, <2>4, <2>5 DEF ChainInv, OnePassEntry
  <2>7. StoreInv'
    <3>1. SavedBehind' /\ RememberedApplied'
      BY <2>2 DEF StoreInv, SavedBehind, RememberedApplied
    <3>2. /\ cursor \in 0 .. landed' /\ saved \in 0 .. landed'
          /\ applied \subseteq 1 .. landed'
      BY <2>1 DEF StoreInv
    <3>3. QED
      BY <2>1, <2>2, <3>1, <3>2 DEF StoreInv
  <2>8. QED
    BY <2>6, <2>7
<1>2. ASSUME NEW t \in Txs, Notify(t) PROVE PipelineInv'
  <2> DEFINE e == [tx |-> t, from |-> "live"]
  <2>1. e \in Entry /\ e.tx <= landed /\ queue' = Append(queue, e)
    BY <1>2 DEF Notify, Entry, ChainInv, LandedFirst
  <2>2. UNCHANGED <<landed, subscribed, saving, recent, cursor, pass,
                    databaseVars, crashes, failures>> /\ wire' \subseteq wire
    BY <1>2 DEF Notify, boundVars
  <2>3. ChainInv'
    BY <2>1, <2>2, AppendKeeps
  <2>4. saving => queue' # <<>> /\ Head(queue') = Head(queue)
    <3>1. queue \in Seq(Entry) /\ (saving => queue # <<>>)
      BY DEF ChainInv, StoreInv, SavedBehind
    <3>2. QED
      BY <2>1, <3>1, HeadTailAppend, AppendProperties
  <2>5. StoreInv'
    BY <2>2, <2>4, StoreUntouched DEF StoreInv
  <2>6. QED
    BY <2>3, <2>5
<1>3. CASE StartPass
  <2>1. /\ pass' = [state |-> "fetch", rpc |-> 1, since |-> cursor,
                    todo |-> Since(cursor)]
        /\ pass.state = "idle"
        /\ UNCHANGED <<landed, wire, subscribed, queue, saving, recent, cursor,
                       databaseVars, crashes, failures>>
    BY <1>3 DEF StartPass, chainVars, boundVars
  <2>2. /\ Since(cursor) \in Seq(Txs)
        /\ \A i \in DOMAIN Since(cursor) : Since(cursor)[i] <= landed
    BY SinceListed DEF StoreInv
  <2>3. ChainInv'
    <3>1. \A i \in DOMAIN queue : queue[i].from # "pass"
      BY <2>1 DEF ChainInv, OnePassEntry
    <3>2. OnePassEntry'
      BY <2>1, <3>1 DEF OnePassEntry
    <3>3. LandedFirst'
      BY <2>1, <2>2 DEF ChainInv, LandedFirst
    <3>4. cursor \in 0 .. landed /\ Rpcs \in Nat \ {0}
      BY DEF StoreInv
    <3>5. QED
      BY <2>1, <2>2, <3>2, <3>3, <3>4 DEF ChainInv
  <2>4. StoreInv'
    BY <2>1, StoreUntouched DEF StoreInv, SavedBehind
  <2>5. QED
    BY <2>3, <2>4
<1>4. CASE FetchNext
  <2> DEFINE e == [tx |-> Head(pass.todo), from |-> "pass"]
  <2>1. /\ pass.state # "await" /\ pass.todo # <<>> /\ queue' = Append(queue, e)
        /\ pass' = [pass EXCEPT !.state = "await"]
        /\ UNCHANGED <<landed, wire, subscribed, saving, recent, cursor,
                       databaseVars, crashes, failures>>
    BY <1>4 DEF FetchNext, chainVars, boundVars
  <2>2. e \in Entry /\ e.tx <= landed /\ e.tx = pass.todo[1] /\ e.from = "pass"
    BY <2>1, ListTaken DEF Entry, ChainInv, LandedFirst
  <2>3. ChainInv'
    BY <2>1, <2>2, AppendKeeps
  <2>4. saving => queue' # <<>> /\ Head(queue') = Head(queue)
    <3>1. queue \in Seq(Entry) /\ (saving => queue # <<>>)
      BY DEF ChainInv, StoreInv, SavedBehind
    <3>2. QED
      BY <2>1, <2>2, <3>1, HeadTailAppend, AppendProperties
  <2>5. StoreInv'
    BY <2>1, <2>4, StoreUntouched DEF StoreInv
  <2>6. QED
    BY <2>3, <2>5
<1>5. CASE NotServed \/ FetchThrows \/ EndPass
  <2>1. /\ pass.state = "fetch" /\ (NextRpc \/ PassOver)
        /\ UNCHANGED <<landed, wire, queue, saving, recent, cursor,
                       databaseVars, crashes>>
    BY <1>5 DEF NotServed, FetchThrows, EndPass, chainVars, boundVars
  <2>2. /\ subscribed' \in BOOLEAN /\ pass'.state # "await"
        /\ pass' \in [state : {"idle", "fetch", "await"}, rpc : 1 .. Rpcs,
                      since : 0 .. landed', todo : Seq(Txs)]
        /\ \A i \in DOMAIN pass'.todo : pass'.todo[i] <= landed'
    BY <2>1, NextRpcKeeps DEF StoreInv
  <2>3. ChainInv'
    BY <2>1, <2>2 DEF ChainInv, LandedFirst, OnePassEntry
  <2>4. failures' \in 0 .. MaxFailures
    BY <1>5, FailCounted DEF NotServed, FetchThrows, EndPass, boundVars, StoreInv
  <2>5. StoreInv'
    BY <2>1, <2>4, StoreUntouched DEF StoreInv, SavedBehind
  <2>6. QED
    BY <2>3, <2>5
<1>6. QED
  BY <1>1, <1>2, <1>3, <1>4, <1>5 DEF PassStep

\* A transaction is applied, and the cursor may advance to it.
LEMMA ApplyStep ==
    ASSUME PipelineInv, Apply
    PROVE  PipelineInv'
<1>1. /\ queue # <<>> /\ ~ saving /\ recent' = Remember(tx) /\ Commit
      /\ UNCHANGED <<landed, wire, saved, crashes, failures>>
  BY DEF Apply, InHand, chainVars, boundVars
<1>2. /\ tx \in 1 .. landed /\ tx \in Txs
      /\ applied' = applied \cup {tx} /\ applied' \subseteq 1 .. landed
      /\ effects' \in [Txs -> Nat]
      /\ \A t \in Txs : effects'[t] = IF t \in applied' THEN 1 ELSE 0
  BY <1>1, CommitKeeps
<1>3. /\ recent' \in Seq(Txs) /\ Len(recent') <= RecentCapacity
      /\ \A i \in DOMAIN recent' : recent'[i] \in applied'
  <2>1. /\ recent' \in Seq(Txs) /\ Len(recent') \in 1 .. RecentCapacity
        /\ recent'[Len(recent')] = tx
        /\ \A i \in DOMAIN recent' :
              i = Len(recent') \/ recent'[i] \in Remembered
    BY <1>1, <1>2, RememberTyped DEF PipelineInv, StoreInv
  <2>2. Remembered \subseteq applied
    BY DEF Remembered, PipelineInv, StoreInv, RememberedApplied
  <2>3. QED
    BY <1>2, <2>1, <2>2
<1>4. RememberedApplied'
  BY <1>2, <1>3 DEF RememberedApplied
<1>5. CASE Advances
  <2>1. cursor' = tx /\ saving' = TRUE /\ UNCHANGED <<queue, pass, subscribed>>
    BY <1>5 DEF Apply
  <2>2. ChainInv'
    BY <1>1, <2>1 DEF PipelineInv, ChainInv, LandedFirst, OnePassEntry
  <2>3. SavedBehind'
    <3>1. cursor' = Head(queue').tx /\ queue' # <<>>
      BY <1>1, <2>1 DEF tx
    <3>2. cursor' # None
      BY <1>2, <2>1
    <3>3. /\ cursor \in 0 .. landed /\ saved \in 0 .. landed /\ landed \in 0 .. NTx
          /\ saved # None => cursor # None /\ Slot[saved] <= Slot[cursor]
      BY DEF PipelineInv, StoreInv, SavedBehind
    <3>4. saved # None => Slot[saved] <= Slot[tx]
      <4>1. SUFFICES ASSUME saved # None PROVE Slot[saved] <= Slot[tx]
        OBVIOUS
      <4>2. cursor \in Txs /\ saved \in Txs
        BY <3>3, <4>1
      <4>3. Slot[cursor] \in Nat /\ Slot[saved] \in Nat /\ Slot[tx] \in Nat
        BY <1>2, <4>2
      <4>4. QED
        BY <1>5, <3>3, <4>1, <4>3 DEF Advances
    <3>5. QED
      BY <1>1, <2>1, <3>1, <3>2, <3>4 DEF SavedBehind
  <2>4. StoreInv'
    BY <1>1, <1>2, <1>3, <1>4, <2>1, <2>3 DEF PipelineInv, StoreInv
  <2>5. QED
    BY <2>2, <2>4 DEF PipelineInv
<1>6. CASE ~ Advances
  <2>1. Handled /\ UNCHANGED <<cursor, saving>>
    BY <1>6 DEF Apply
  <2>2. ChainInv'
    BY <1>1, <2>1, HandledKeeps DEF PipelineInv
  <2>3. SavedBehind'
    BY <1>1, <2>1 DEF PipelineInv, StoreInv, SavedBehind
  <2>4. StoreInv'
    BY <1>1, <1>2, <1>3, <1>4, <2>1, <2>3 DEF PipelineInv, StoreInv
  <2>5. QED
    BY <2>2, <2>4 DEF PipelineInv
<1>7. QED
  BY <1>5, <1>6

\* A transaction fails, with its records written or not.
LEMMA ApplyThrowsStep ==
    ASSUME PipelineInv, ApplyThrows \/ ApplyThrowsAfterCommit
    PROVE  PipelineInv'
<1>1. /\ queue # <<>> /\ ~ saving /\ tx \notin Remembered /\ GivenUp
      /\ failures' \in 0 .. MaxFailures
      /\ Commit \/ UNCHANGED <<applied, effects>>
  BY FailCounted
     DEF ApplyThrows, ApplyThrowsAfterCommit, InHand, PipelineInv, StoreInv
<1>2. Rejected /\ UNCHANGED <<landed, wire, saving, cursor, saved, crashes>>
  BY <1>1 DEF GivenUp, chainVars
<1>3. ChainInv'
  BY <1>1, <1>2, RejectedKeeps DEF PipelineInv, StoreInv
<1>4. /\ applied \subseteq applied' /\ applied' \subseteq 1 .. landed
      /\ effects' \in [Txs -> Nat]
      /\ \A t \in Txs : effects'[t] = IF t \in applied' THEN 1 ELSE 0
  BY <1>1, CommitKeeps DEF PipelineInv, StoreInv, RememberedApplied
<1>5. /\ recent' \in Seq(Txs) /\ Len(recent') <= RecentCapacity
      /\ \A i \in DOMAIN recent' : recent'[i] \in Remembered
  BY <1>1, GivenUpRecent
<1>6. RememberedApplied'
  <2>1. Remembered \subseteq applied
    BY DEF Remembered, PipelineInv, StoreInv, RememberedApplied
  <2>2. QED
    BY <1>4, <1>5, <2>1 DEF RememberedApplied
<1>7. SavedBehind'
  BY <1>1, <1>2 DEF PipelineInv, StoreInv, SavedBehind
<1>8. StoreInv'
  BY <1>1, <1>2, <1>4, <1>5, <1>6, <1>7 DEF PipelineInv, StoreInv
<1>9. QED
  BY <1>3, <1>8 DEF PipelineInv

\* The cursor reaches the database, or does not.
LEMMA SaveStep ==
    ASSUME PipelineInv, Save \/ SaveThrows
    PROVE  PipelineInv'
<1>1. /\ saving /\ queue # <<>> /\ saving' = FALSE
      /\ saved' \in {saved, cursor} /\ failures' \in 0 .. MaxFailures
      /\ UNCHANGED <<landed, wire, recent, cursor, applied, effects, crashes>>
  BY FailCounted DEF Save, SaveThrows, PipelineInv, StoreInv, SavedBehind,
                     chainVars, boundVars, databaseVars
<1>2. ChainInv'
  BY <1>1, HandledKeeps, RejectedKeeps DEF Save, SaveThrows, PipelineInv, StoreInv
<1>3. SavedBehind'
  <2>1. /\ cursor \in 0 .. landed /\ landed \in 0 .. NTx
        /\ saved # None => cursor # None /\ Slot[saved] <= Slot[cursor]
    BY DEF PipelineInv, StoreInv, SavedBehind
  <2>2. cursor # None => Slot[cursor] \in Nat
    BY <2>1
  <2>3. QED
    BY <1>1, <2>1, <2>2 DEF SavedBehind
<1>4. StoreInv'
  BY <1>1, <1>3 DEF PipelineInv, StoreInv, RememberedApplied
<1>5. QED
  BY <1>2, <1>4 DEF PipelineInv

\* A restart forgets everything but the database.
LEMMA RestartStep ==
    ASSUME PipelineInv, Restart
    PROVE  PipelineInv'
<1>1. /\ wire' = {} /\ subscribed' = FALSE /\ queue' = <<>> /\ saving' = FALSE
      /\ recent' = <<>> /\ cursor' = saved /\ pass' = NoPass
      /\ crashes' \in 0 .. MaxCrashes
      /\ UNCHANGED <<landed, saved, applied, effects, failures>>
  BY DEF Restart, databaseVars, PipelineInv, StoreInv
<1>2. /\ <<>> \in Seq(Entry) /\ <<>> \in Seq(Txs) /\ Len(<<>>) = 0
      /\ DOMAIN <<>> = {}
  OBVIOUS
<1>3. landed \in 0 .. NTx /\ landed' = landed
  BY <1>1 DEF PipelineInv, StoreInv
<1>4. /\ pass' \in [state : {"idle", "fetch", "await"}, rpc : 1 .. Rpcs,
                    since : 0 .. landed', todo : Seq(Txs)]
      /\ pass'.todo = <<>> /\ pass'.state = "idle"
  BY <1>1, <1>2, <1>3 DEF NoPass
<1>5. ChainInv'
  BY <1>1, <1>2, <1>4 DEF ChainInv, LandedFirst, OnePassEntry
<1>6. SavedBehind'
  <2>1. saved # None => saved \in Txs
    BY DEF PipelineInv, StoreInv
  <2>2. saved # None => Slot[saved] \in Nat
    BY <2>1
  <2>3. QED
    BY <1>1, <2>2 DEF SavedBehind
<1>7. RememberedApplied'
  BY <1>1, <1>2 DEF RememberedApplied, PipelineInv, StoreInv
<1>8. StoreInv'
  <2>1. recent' \in Seq(Txs) /\ Len(recent') <= RecentCapacity
    BY <1>1, <1>2
  <2>2. QED
    BY <1>1, <1>6, <1>7, <2>1 DEF PipelineInv, StoreInv
<1>9. QED
  BY <1>5, <1>8 DEF PipelineInv

\* Every step keeps it.
LEMMA PipelineInvStep == PipelineInv /\ [Next]_vars => PipelineInv'
<1> SUFFICES ASSUME PipelineInv, [Next]_vars PROVE PipelineInv'
  OBVIOUS
<1>1. CASE UNCHANGED vars
  BY <1>1 DEF vars, chainVars, memoryVars, databaseVars, boundVars, PipelineInv,
              ChainInv, StoreInv, LandedFirst, OnePassEntry, SavedBehind,
              RememberedApplied
<1>2. CASE Skip
  <2>1. /\ queue # <<>> /\ ~ saving /\ Handled
        /\ UNCHANGED <<landed, wire, saving, recent, cursor, databaseVars,
                       crashes, failures>>
    BY <1>2 DEF Skip, InHand, chainVars, boundVars
  <2>2. ChainInv'
    BY <2>1, HandledKeeps DEF PipelineInv
  <2>3. StoreInv'
    BY <2>1, StoreUntouched DEF PipelineInv, StoreInv
  <2>4. QED
    BY <2>2, <2>3 DEF PipelineInv
<1>3. QED
  BY <1>1, <1>2, FeedStep, ApplyStep, ApplyThrowsStep, SaveStep, RestartStep
     DEF Next, PipelineStep

-----------------------------------------------------------------------------
(* The theorems of the pipeline. *)

\* So it holds throughout.
LEMMA PipelineInvHolds == Spec => []PipelineInv
  BY PipelineInvInit, PipelineInvStep, PTL DEF Spec

\* It contains the types.
LEMMA InvTyped == PipelineInv => TypeOK
<1>1. landed \in 0 .. NTx => 1 .. landed \subseteq Txs
  OBVIOUS
<1>2. QED
  BY <1>1 DEF PipelineInv, TypeOK, ChainInv, StoreInv, LandedFirst

\* The pipeline's state is what the code takes it for: a cursor within the
\* chain, a recent set within its capacity, records of landed transactions only.
THEOREM PipelineTyped == Spec => []TypeOK
  BY PipelineInvHolds, InvTyped, PTL

\* However often a transaction comes, through the subscription, a pass, the
\* fallback's pass or after a restart, it takes effect once: the recent set
\* forgets it, but what is remembered is applied, and what is applied counted.
THEOREM EffectsAreUnique == Spec => []TakesEffectOnce
<1>1. PipelineInv => TakesEffectOnce
  <2> SUFFICES ASSUME PipelineInv, NEW t \in Txs PROVE effects[t] <= 1
    BY DEF TakesEffectOnce
  <2>1. effects[t] = IF t \in applied THEN 1 ELSE 0
    BY DEF PipelineInv, StoreInv, RememberedApplied
  <2>2. QED
    BY <2>1
<1>2. QED
  BY <1>1, PipelineInvHolds, PTL

\* No run of live, replayed, failed and restarted work takes the saved cursor
\* back to an earlier slot.
THEOREM SavedCursorAdvances == Spec => CursorOnlyForward
<1> DEFINE Forward ==
        saved # None => saved' # None /\ Slot[saved'] >= Slot[saved]
<1>1. PipelineInv /\ [Next]_vars => [Forward]_vars
  <2> SUFFICES ASSUME PipelineInv, [Next]_vars PROVE Forward
    OBVIOUS
  <2>1. saved' = saved \/ saved' = cursor
    BY DEF Next, PassStep, PipelineStep, Land, Notify, StartPass, FetchNext,
           NotServed, FetchThrows, EndPass, Skip, Apply, ApplyThrows,
           ApplyThrowsAfterCommit, GivenUp, Save, SaveThrows, Restart,
           vars, databaseVars
  <2>2. /\ cursor \in 0 .. landed /\ saved \in 0 .. landed /\ landed \in 0 .. NTx
        /\ saved # None => cursor # None /\ Slot[saved] <= Slot[cursor]
    BY DEF PipelineInv, StoreInv, SavedBehind
  <2>3. saved # None => Slot[saved] \in Nat /\ Slot[cursor] \in Nat
    BY <2>2
  <2>4. QED
    BY <2>1, <2>2, <2>3
<1>2. QED
  BY <1>1, PipelineInvHolds, PTL DEF Spec, CursorOnlyForward

-----------------------------------------------------------------------------
(* The backfill by itself. *)

\* A pass that starts at c, with all up to c indexed, is in order.
LEMMA StartInOrder ==
    ASSUME landed \in 0 .. NTx, NEW c \in 0 .. landed,
           \A t \in Txs : t <= c => t \in applied',
           pass'.todo = Since(c), pass'.since = c
    PROVE  ListInOrder'
<1>1. /\ Since(c) \in Seq(Txs)
      /\ \A i \in DOMAIN Since(c) : Since(c)[i] = c + i
  BY SinceListed
<1>2. Since(c) # <<>> => 1 \in DOMAIN Since(c) /\ Since(c)[1] = c + 1
  BY <1>1
<1>3. \A i \in DOMAIN Since(c) : Since(c) # <<>>
  BY <1>1
<1>4. \A i \in DOMAIN Since(c) : Since(c)[i] = Since(c)[1] + i - 1
  BY <1>1, <1>2, <1>3
<1>5. QED
  BY <1>2, <1>4 DEF ListInOrder

\* The next endpoint, or the end of a pass, leaves an ordered listing.
LEMMA NextRpcInOrder ==
    ASSUME BackfillInv, NextRpc \/ PassOver, applied \subseteq applied'
    PROVE  ListInOrder'
<1>1. CASE PassOver
  <2>1. pass'.todo = <<>> /\ pass'.since = 0 /\ DOMAIN pass'.todo = {}
    BY <1>1 DEF PassOver, NoPass
  <2>2. QED
    BY <2>1 DEF ListInOrder
<1>2. CASE NextRpc /\ pass.rpc < Rpcs
  <2>1. pass'.todo = Since(pass.since) /\ pass'.since = pass.since
    BY <1>2 DEF NextRpc
  <2>2. landed \in 0 .. NTx /\ pass.since \in 0 .. landed
    BY DEF BackfillInv, PipelineInv, ChainInv, StoreInv
  <2>3. \A t \in Txs : t <= pass.since => t \in applied'
    BY DEF BackfillInv, PassInOrder, ListInOrder
  <2>4. QED
    BY <2>1, <2>2, <2>3, StartInOrder
<1>3. QED
  BY <1>1, <1>2 DEF NextRpc

\* The head is the pass's next, and whatever comes before it is indexed.
LEMMA HeadInOrder ==
    ASSUME BackfillInv, queue # <<>>
    PROVE  /\ queue[1].from = "pass" /\ Head(queue).from = "pass"
           /\ tx = pass.todo[1] /\ tx \in Txs
           /\ pass.todo \in Seq(Txs) /\ pass.todo # <<>>
           /\ Tail(queue) \in Seq(Entry)
           /\ \A i \in DOMAIN Tail(queue) : Tail(queue)[i].from = "pass"
           /\ \A t \in Txs : t < tx => t \in applied
<1>1. queue \in Seq(Entry)
  BY DEF BackfillInv, PipelineInv, ChainInv
<1>2. queue[1].from = "pass" /\ Head(queue).from = "pass"
  BY <1>1, HeadTaken DEF BackfillInv, PassInOrder
<1>3. /\ tx = pass.todo[1] /\ tx \in Txs
      /\ pass.todo \in Seq(Txs) /\ pass.todo # <<>>
  BY <1>1, <1>2, HeadTaken DEF BackfillInv, PipelineInv, ChainInv, OnePassEntry
<1>4. /\ Tail(queue) \in Seq(Entry)
      /\ \A i \in DOMAIN Tail(queue) : Tail(queue)[i].from = "pass"
  BY <1>1, HeadTaken DEF BackfillInv, PassInOrder
<1>5. QED
  BY <1>2, <1>3, <1>4 DEF BackfillInv, PassInOrder, ListInOrder

\* A transaction handled leaves the pass at the next of its list.
LEMMA HandledInOrder ==
    ASSUME BackfillInv, queue # <<>>, Handled, wire' = wire,
           applied \subseteq applied', tx \in applied'
    PROVE  PassInOrder'
<1>1. /\ queue' = Tail(queue)
      /\ pass' = [pass EXCEPT !.state = "fetch", !.todo = Tail(@)]
  BY HeadInOrder DEF Handled
<1>2. pass'.todo = Tail(pass.todo) /\ pass'.since = pass.since
  BY <1>1 DEF BackfillInv, PipelineInv, ChainInv
<1>3. /\ Tail(pass.todo) \in Seq(Txs) /\ 1 \in DOMAIN pass.todo
      /\ \A i \in DOMAIN Tail(pass.todo) :
            i + 1 \in DOMAIN pass.todo /\ Tail(pass.todo)[i] = pass.todo[i + 1]
  BY HeadInOrder, ListTaken
<1>4. /\ \A i \in DOMAIN pass.todo : pass.todo[i] = tx + i - 1
      /\ tx \in Txs
  BY HeadInOrder DEF BackfillInv, PassInOrder, ListInOrder
<1>5. \A i \in DOMAIN Tail(pass.todo) : Tail(pass.todo)[i] = tx + i
  <2>1. DOMAIN Tail(pass.todo) \subseteq Int
    BY <1>3
  <2>2. QED
    BY <1>3, <1>4, <2>1
<1>6. /\ Tail(pass.todo) # <<>> => 1 \in DOMAIN Tail(pass.todo)
      /\ \A i \in DOMAIN Tail(pass.todo) :
            Tail(pass.todo) # <<>> /\ i \in Int
  BY <1>3
<1>7. \A t \in Txs : t < tx + 1 => t \in applied'
  BY <1>4, HeadInOrder
<1>8. ListInOrder'
  <2> DEFINE rest == Tail(pass.todo)
  <2>1. rest # <<>> => 1 \in DOMAIN rest /\ rest[1] = tx + 1
    BY <1>5, <1>6
  <2>2. \A i \in DOMAIN rest : rest # <<>> /\ rest[i] = tx + i /\ i \in Int
    BY <1>5, <1>6
  <2> HIDE DEF rest
  <2>3. \A i \in DOMAIN rest : rest[i] = rest[1] + i - 1
    BY <1>4, <2>1, <2>2
  <2>4. rest # <<>> => \A t \in Txs : t < rest[1] => t \in applied'
    BY <1>7, <2>1
  <2>5. \A t \in Txs : t <= pass.since => t \in applied'
    BY DEF ListInOrder, BackfillInv, PassInOrder
  <2>6. pass'.todo = rest /\ pass'.since = pass.since
    BY <1>2 DEF rest
  <2>7. QED
    BY <2>3, <2>4, <2>5, <2>6 DEF ListInOrder
<1>9. PassInOrder'
  BY <1>1, <1>8, HeadInOrder DEF PassInOrder, BackfillInv
<1>10. QED
  BY <1>9

\* One that failed ends the pass before anything later.
LEMMA RejectedInOrder ==
    ASSUME BackfillInv, queue # <<>>, Rejected, wire' = wire,
           applied \subseteq applied'
    PROVE  PassInOrder'
<1>1. queue' = Tail(queue) /\ NextRpc
  BY HeadInOrder DEF Rejected
<1>2. QED
  BY <1>1, HeadInOrder, NextRpcInOrder DEF PassInOrder, BackfillInv

\* The backfill's invariant holds at first.
LEMMA BackfillInvInit == Init => BackfillInv
<1> SUFFICES ASSUME Init PROVE BackfillInv
  OBVIOUS
<1>1. DOMAIN <<>> = {}
  OBVIOUS
<1>2. PassInOrder
  BY <1>1 DEF Init, NoPass, PassInOrder, ListInOrder
<1>3. NothingBehindTheCursor
  BY DEF Init, NothingBehindTheCursor
<1>4. QED
  BY <1>2, <1>3, PipelineInvInit DEF BackfillInv

\* Steps that index something, or give up.
LEMMA PipelineInOrder ==
    ASSUME BackfillInv, PipelineStep
    PROVE  PassInOrder' /\ NothingBehindTheCursor'
<1> USE DEF BackfillInv
<1>1. queue # <<>> /\ tx \in Txs
  <2>1. queue # <<>>
    BY DEF PipelineStep, Skip, Apply, ApplyThrows, ApplyThrowsAfterCommit, Save,
           SaveThrows, InHand, PipelineInv, StoreInv, SavedBehind
  <2>2. QED
    BY <2>1, HeadInOrder
<1>2. CASE Skip
  <2>1. /\ Handled /\ UNCHANGED <<wire, cursor, saved, applied>>
    BY <1>2 DEF Skip, chainVars, databaseVars
  <2>2. tx \in applied
    BY <1>2 DEF Skip, Remembered, PipelineInv, StoreInv, RememberedApplied
  <2>3. QED
    BY <1>1, <2>1, <2>2, HandledInOrder DEF NothingBehindTheCursor
<1>3. CASE Apply
  <2>1. /\ UNCHANGED <<wire, saved>> /\ applied' = applied \cup {tx}
    BY <1>3 DEF Apply, Commit, chainVars
  <2>2. CASE Advances
    <3>1. cursor' = tx /\ UNCHANGED <<queue, pass>>
      BY <1>3, <2>2 DEF Apply
    <3>2. NothingBehindTheCursor'
      BY <1>1, <2>1, <3>1, HeadInOrder DEF NothingBehindTheCursor
    <3>3. QED
      BY <2>1, <3>1, <3>2 DEF PassInOrder, ListInOrder
  <2>3. CASE ~ Advances
    <3>1. Handled /\ cursor' = cursor
      BY <1>3, <2>3 DEF Apply
    <3>2. QED
      BY <1>1, <2>1, <3>1, HandledInOrder DEF NothingBehindTheCursor
  <2>4. QED
    BY <2>2, <2>3
<1>4. CASE ApplyThrows \/ ApplyThrowsAfterCommit
  <2>1. /\ Rejected /\ UNCHANGED <<wire, cursor, saved>>
        /\ applied \subseteq applied'
    BY <1>4 DEF ApplyThrows, ApplyThrowsAfterCommit, GivenUp, Commit, chainVars
  <2>2. QED
    BY <1>1, <2>1, RejectedInOrder DEF NothingBehindTheCursor
<1>5. CASE Save \/ SaveThrows
  <2>1. /\ saving /\ (Handled \/ Rejected)
        /\ saved' \in {saved, cursor}
        /\ UNCHANGED <<wire, cursor, applied>>
    BY <1>5 DEF Save, SaveThrows, chainVars, databaseVars
  <2>2. tx \in applied
    <3>1. cursor = tx
      BY <2>1 DEF PipelineInv, StoreInv, SavedBehind, tx
    <3>2. QED
      BY <1>1, <3>1 DEF NothingBehindTheCursor
  <2>3. PassInOrder'
    BY <1>1, <2>1, <2>2, HandledInOrder, RejectedInOrder
  <2>4. NothingBehindTheCursor'
    BY <2>1 DEF NothingBehindTheCursor
  <2>5. QED
    BY <2>3, <2>4
<1>6. QED
  BY <1>2, <1>3, <1>4, <1>5 DEF PipelineStep

\* Steps that leave the index and the cursors alone.
LEMMA FeedInOrder ==
    ASSUME ~ Live, BackfillInv, Land \/ (\E t \in Txs : Notify(t)) \/ PassStep
    PROVE  PassInOrder' /\ NothingBehindTheCursor'
<1> USE DEF BackfillInv
<1>1. UNCHANGED <<cursor, saved, applied>>
  BY DEF Land, Notify, PassStep, StartPass, FetchNext, NotServed, FetchThrows,
         EndPass, memoryVars, databaseVars
<1>2. NothingBehindTheCursor'
  BY <1>1 DEF NothingBehindTheCursor
<1>3. wire = {} /\ ~ \E t \in Txs : Notify(t)
  BY DEF PassInOrder, Notify
<1>4. CASE Land
  <2>1. wire' = {} /\ UNCHANGED <<queue, pass>>
    BY <1>3, <1>4 DEF Land, memoryVars
  <2>2. QED
    BY <1>1, <1>2, <2>1 DEF PassInOrder, ListInOrder
<1>5. CASE StartPass
  <2>1. /\ pass'.todo = Since(cursor) /\ pass'.since = cursor
        /\ UNCHANGED <<wire, queue>>
    BY <1>5 DEF StartPass, chainVars
  <2>2. landed \in 0 .. NTx /\ cursor \in 0 .. landed
    BY DEF PipelineInv, StoreInv
  <2>3. \A t \in Txs : t <= cursor => t \in applied'
    BY <1>1 DEF NothingBehindTheCursor
  <2>4. ListInOrder'
    BY <2>1, <2>2, <2>3, StartInOrder
  <2>5. QED
    BY <1>2, <2>1, <2>4 DEF PassInOrder
<1>6. CASE FetchNext
  <2> DEFINE e == [tx |-> Head(pass.todo), from |-> "pass"]
  <2>1. /\ queue' = Append(queue, e) /\ pass.todo # <<>> /\ wire' = wire
        /\ pass'.todo = pass.todo /\ pass'.since = pass.since
    BY <1>6 DEF FetchNext, chainVars, PipelineInv, ChainInv
  <2>2. e \in Entry /\ e.from = "pass" /\ queue \in Seq(Entry)
    BY <2>1, ListTaken DEF Entry, PipelineInv, ChainInv
  <2>3. \A i \in DOMAIN queue' :
           (i \in DOMAIN queue /\ queue'[i] = queue[i]) \/ queue'[i] = e
    <3> HIDE DEF e
    <3>1. QED
      BY <2>1, <2>2, AppendProperties
  <2>4. \A i \in DOMAIN queue' : queue'[i].from = "pass"
    BY <2>2, <2>3 DEF PassInOrder
  <2>5. QED
    BY <1>1, <1>2, <2>1, <2>4 DEF PassInOrder, ListInOrder
<1>7. CASE NotServed \/ FetchThrows \/ EndPass
  <2>1. (NextRpc \/ PassOver) /\ UNCHANGED <<wire, queue>>
    BY <1>7 DEF NotServed, FetchThrows, EndPass, chainVars
  <2>2. ListInOrder'
    BY <1>1, <2>1, NextRpcInOrder
  <2>3. QED
    BY <1>2, <2>1, <2>2 DEF PassInOrder
<1>8. QED
  BY <1>3, <1>4, <1>5, <1>6, <1>7 DEF PassStep

\* Without the subscription every step keeps it.
LEMMA BackfillInvStep ==
    ASSUME ~ Live
    PROVE  BackfillInv /\ [Next]_vars => BackfillInv'
<1> SUFFICES ASSUME BackfillInv, [Next]_vars PROVE BackfillInv'
  OBVIOUS
<1>1. PipelineInv'
  BY PipelineInvStep DEF BackfillInv
<1>2. CASE UNCHANGED vars
  BY <1>1, <1>2 DEF vars, chainVars, memoryVars, databaseVars, BackfillInv,
                    PassInOrder, ListInOrder, NothingBehindTheCursor
<1>3. CASE Restart
  <2>1. /\ wire' = {} /\ queue' = <<>> /\ cursor' = saved /\ pass' = NoPass
        /\ UNCHANGED <<saved, applied>>
    BY <1>3 DEF Restart, databaseVars
  <2>2. DOMAIN <<>> = {}
    OBVIOUS
  <2>3. PassInOrder'
    BY <2>1, <2>2 DEF NoPass, PassInOrder, ListInOrder
  <2>4. NothingBehindTheCursor'
    BY <2>1 DEF BackfillInv, NothingBehindTheCursor
  <2>5. QED
    BY <1>1, <2>3, <2>4 DEF BackfillInv
<1>4. QED
  BY <1>1, <1>2, <1>3, PipelineInOrder, FeedInOrder DEF Next, BackfillInv

\* So it holds throughout.
LEMMA BackfillInvHolds ==
    ASSUME ~ Live
    PROVE  Spec => []BackfillInv
  BY BackfillInvInit, BackfillInvStep, PTL DEF Spec

\* The backfill alone loses nothing: as long as the subscription delivers
\* nothing, whatever the cursor has passed, in memory or on disk, is in the
\* index, through failures, fallbacks, lost answers and restarts.  With the
\* subscription it is not so: MCPipelineLoss shows the record that is lost.
THEOREM BackfillMissesNothing ==
    ASSUME ~ Live
    PROVE  Spec => []NothingBehindTheCursor
<1>1. BackfillInv => NothingBehindTheCursor
  BY DEF BackfillInv
<1>2. QED
  BY <1>1, BackfillInvHolds, PTL

-----------------------------------------------------------------------------
(* The order of the backfill's work. *)

\* There is no second endpoint to list from the start of a pass again, or no
\* pass lists more than the recent set holds.
WithinRecent == Rpcs = 1 \/ Len(pass.todo) <= RecentCapacity

\* Remembered is the run of transactions that ends at the cursor.
RecentRun ==
    Len(recent) <= cursor /\ IsRun(recent, cursor)

\* The pass goes on with one that is remembered or with the first that is not;
\* so would the next endpoint.
PassRun ==
    /\ pass.state = "idle" => pass.todo = <<>>
    /\ pass.todo # <<>> =>
            cursor - Len(recent) < pass.todo[1] /\ pass.todo[1] <= cursor + 1
    /\ pass.state # "idle" => pass.since <= cursor
    /\ pass.state # "idle" /\ pass.rpc < Rpcs =>
            /\ cursor - Len(recent) <= pass.since
            /\ \A i \in DOMAIN pass.todo :
                    pass.todo[i] <= pass.since + RecentCapacity

RunInv == RecentRun /\ PassRun /\ saved <= cursor

\* Remembering the next transaction continues the run, and forgetting it takes
\* only that back.
LEMMA RunContinues ==
    ASSUME recent \in Seq(Txs), Len(recent) <= RecentCapacity, RecentRun,
           cursor \in Nat, NEW t \in Txs, t = cursor + 1,
           NEW all, all = Remember(t), NEW less, less = Forget(all, t)
    PROVE  /\ Len(all) = IF Len(recent) < RecentCapacity THEN Len(recent) + 1
                         ELSE RecentCapacity
           /\ IsRun(all, t)
           /\ Len(less) = Len(all) - 1
           /\ IsRun(less, cursor)
<1>1. /\ t \in Int /\ cursor \in Int /\ RecentCapacity \in Nat \ {0}
      /\ recent \in Seq(Int) /\ IsRun(recent, cursor) /\ Len(recent) \in Nat
      /\ t - 1 = cursor
  BY DEF RecentRun, IsRun
<1> DEFINE long == Append(recent, t)
<1>2. /\ long \in Seq(Int) /\ long # <<>> /\ Len(long) = Len(recent) + 1
      /\ IsRun(long, t)
  BY <1>1, RunAppended
<1> HIDE DEF long
<1>3. /\ all \in Seq(Int) /\ all # <<>> /\ IsRun(all, t)
      /\ Len(all) = IF Len(recent) < RecentCapacity THEN Len(recent) + 1
                    ELSE RecentCapacity
  <2>1. CASE Len(long) > RecentCapacity
    <3>1. all = Tail(long)
      BY <2>1 DEF Remember, long
    <3>2. Len(recent) = RecentCapacity
      BY <1>1, <1>2, <2>1
    <3>3. all \in Seq(Int) /\ Len(all) = Len(recent) /\ IsRun(all, t)
      <4>1. all \in Seq(Int) /\ Len(all) = Len(long) - 1 /\ IsRun(all, t)
        BY <1>1, <1>2, <3>1, RunTail
      <4>2. QED
        BY <1>1, <1>2, <4>1
    <3>4. all # <<>>
      BY <1>1, <3>2, <3>3
    <3>5. QED
      BY <1>1, <3>2, <3>3, <3>4
  <2>2. CASE ~ (Len(long) > RecentCapacity)
    <3>1. all = long
      BY <2>2 DEF Remember, long
    <3>2. Len(recent) < RecentCapacity
      BY <1>1, <1>2, <2>2
    <3>3. QED
      BY <1>2, <3>1, <3>2
  <2>3. QED
    BY <2>1, <2>2
<1>4. less = RemoveAt(all, CHOOSE i \in DOMAIN all : all[i] = t)
  BY DEF Forget
<1>5. Len(less) = Len(all) - 1 /\ IsRun(less, cursor)
  BY <1>1, <1>3, <1>4, RunWithoutLast
<1>6. QED
  BY <1>3, <1>5

\* The numbers the run is about.
LEMMA RunTyped ==
    ASSUME BackfillInv, RunInv
    PROVE  /\ cursor \in Nat /\ Len(recent) \in Nat /\ landed \in 0 .. NTx
           /\ pass.since \in 0 .. landed /\ pass.todo \in Seq(Txs)
           /\ cursor \in 0 .. landed /\ saved \in Nat /\ pass.rpc \in 1 .. Rpcs
           /\ pass.state \in {"idle", "fetch", "await"} /\ queue \in Seq(Entry)
           /\ recent \in Seq(Txs) /\ Len(recent) <= RecentCapacity
           /\ pass = [state |-> pass.state, rpc |-> pass.rpc,
                      since |-> pass.since, todo |-> pass.todo]
  BY DEF BackfillInv, PipelineInv, ChainInv, StoreInv

\* The one in hand is remembered, or it is the first behind the cursor.
LEMMA NewIsNext ==
    ASSUME BackfillInv, RunInv, queue # <<>>
    PROVE  /\ tx = pass.todo[1] /\ tx \in Txs /\ pass.todo # <<>>
           /\ pass.state # "idle"
           /\ cursor - Len(recent) < tx /\ tx <= cursor + 1
           /\ tx \notin Remembered => tx = cursor + 1 /\ Advances
<1>1. tx = pass.todo[1] /\ tx \in Txs /\ pass.todo # <<>>
  BY HeadInOrder
<1>2. pass.state # "idle"
  BY <1>1 DEF RunInv, PassRun
<1>3. cursor - Len(recent) < tx /\ tx <= cursor + 1
  BY <1>1 DEF RunInv, PassRun
<1>4. ASSUME tx \notin Remembered PROVE tx = cursor + 1 /\ Advances
  <2>1. /\ cursor \in Nat /\ Len(recent) \in Nat /\ tx \in Int
        /\ DOMAIN recent = 1 .. Len(recent)
    BY <1>1, RunTyped
  <2>2. ~ (tx <= cursor)
    <3>1. SUFFICES ASSUME tx <= cursor PROVE FALSE
      OBVIOUS
    <3> DEFINE i == tx - cursor + Len(recent)
    <3>2. i \in DOMAIN recent
      BY <1>3, <2>1, <3>1
    <3>3. recent[i] = cursor - Len(recent) + i
      BY <3>2 DEF RunInv, RecentRun, IsRun
    <3>4. recent[i] = tx
      BY <2>1, <3>3
    <3> HIDE DEF i
    <3>5. QED
      BY <1>4, <3>2, <3>4 DEF Remembered
  <2>3. tx = cursor + 1
    BY <1>3, <2>1, <2>2
  <2>4. Advances
    <3>1. SUFFICES ASSUME cursor # None PROVE Slot[tx] >= Slot[cursor]
      BY DEF Advances
    <3>2. cursor \in Txs /\ cursor < tx
      BY <1>1, <2>1, <2>3, <3>1
    <3>3. Slot[cursor] \in Nat /\ Slot[tx] \in Nat /\ Slot[cursor] <= Slot[tx]
      BY <1>1, <3>2
    <3>4. QED
      BY <3>3
  <2>5. QED
    BY <2>3, <2>4
<1>5. QED
  BY <1>1, <1>2, <1>3, <1>4

\* A listing starts behind the cursor it was made for, and what the next
\* endpoint could be asked for again stays within the recent set.
LEMMA ListingRuns ==
    ASSUME landed \in 0 .. NTx, NEW c \in 0 .. landed, WithinRecent',
           pass'.todo = Since(c)
    PROVE  /\ pass'.todo # <<>> => pass'.todo[1] = c + 1
           /\ Rpcs # 1 => \A i \in DOMAIN pass'.todo :
                             pass'.todo[i] <= c + RecentCapacity
<1>1. /\ Since(c) \in Seq(Txs)
      /\ \A i \in DOMAIN Since(c) : Since(c)[i] = c + i
  BY SinceListed
<1>2. Since(c) # <<>> => Since(c)[1] = c + 1
  <2>1. Since(c) # <<>> => 1 \in DOMAIN Since(c)
    BY <1>1
  <2>2. QED
    BY <1>1, <2>1
<1>3. ASSUME Rpcs # 1, NEW i \in DOMAIN Since(c)
      PROVE  Since(c)[i] <= c + RecentCapacity
  <2>1. Len(Since(c)) <= RecentCapacity
    BY <1>3 DEF WithinRecent
  <2>2. i \in 1 .. Len(Since(c)) /\ Len(Since(c)) \in Nat /\ c \in Int
    BY <1>1
  <2>3. QED
    BY <1>1, <2>1, <2>2
<1>4. QED
  BY <1>2, <1>3

\* The next endpoint goes over it again, or the pass ends.
LEMMA NextRpcRuns ==
    ASSUME BackfillInv, RunInv, WithinRecent', NextRpc \/ PassOver,
           pass.state # "idle", cursor' = cursor, Len(recent') \in Nat,
           pass.rpc < Rpcs => cursor - Len(recent') <= pass.since
    PROVE  PassRun'
<1>1. CASE PassOver
  <2>1. pass'.state = "idle" /\ pass'.todo = <<>>
    BY <1>1 DEF PassOver, NoPass
  <2>2. QED
    BY <2>1 DEF PassRun
<1>2. CASE NextRpc /\ pass.rpc < Rpcs
  <2>1. /\ pass'.todo = Since(pass.since) /\ pass'.since = pass.since
        /\ pass'.state = "fetch"
    BY <1>2 DEF NextRpc
  <2>2. /\ landed \in 0 .. NTx /\ pass.since \in 0 .. landed
        /\ pass.since \in Int /\ cursor \in Int
    BY RunTyped
  <2>3. pass.since <= cursor
    BY DEF RunInv, PassRun
  <2>4. Rpcs # 1
    BY <1>2, RunTyped
  <2>5. /\ pass'.todo # <<>> => pass'.todo[1] = pass.since + 1
        /\ \A i \in DOMAIN pass'.todo : pass'.todo[i] <= pass.since + RecentCapacity
    BY <2>1, <2>2, <2>4, ListingRuns
  <2>6. cursor - Len(recent') <= pass.since
    BY <1>2
  <2>7. pass'.todo # <<>> =>
           cursor - Len(recent') < pass'.todo[1] /\ pass'.todo[1] <= cursor + 1
    BY <2>2, <2>3, <2>5, <2>6
  <2>8. QED
    BY <2>1, <2>3, <2>5, <2>6, <2>7 DEF PassRun
<1>3. QED
  BY <1>1, <1>2 DEF NextRpc

\* The pass goes on from the one that was in hand.
LEMMA HandledRuns ==
    ASSUME BackfillInv, RunInv, queue # <<>>, Handled, tx <= cursor,
           UNCHANGED <<cursor, recent>>
    PROVE  PassRun'
<1>1. pass' = [pass EXCEPT !.state = "fetch", !.todo = Tail(@)]
  BY HeadInOrder DEF Handled
<1>2. /\ pass'.todo = Tail(pass.todo) /\ pass'.since = pass.since
      /\ pass'.rpc = pass.rpc /\ pass'.state = "fetch"
  BY <1>1, RunTyped
<1>3. /\ Tail(pass.todo) \in Seq(Txs)
      /\ \A i \in DOMAIN Tail(pass.todo) :
            i + 1 \in DOMAIN pass.todo /\ Tail(pass.todo)[i] = pass.todo[i + 1]
  BY HeadInOrder, ListTaken
<1>4. ASSUME Tail(pass.todo) # <<>> PROVE Tail(pass.todo)[1] = tx + 1
  <2>1. 1 \in DOMAIN Tail(pass.todo)
    BY <1>3, <1>4
  <2>2. Tail(pass.todo)[1] = pass.todo[1 + 1] /\ 1 + 1 \in DOMAIN pass.todo
    BY <1>3, <2>1
  <2>3. pass.todo[1 + 1] = pass.todo[1] + (1 + 1) - 1
    BY <2>2 DEF BackfillInv, PassInOrder, ListInOrder
  <2>4. tx = pass.todo[1] /\ tx \in Int
    BY NewIsNext
  <2>5. QED
    BY <2>2, <2>3, <2>4
<1>5. /\ cursor \in Int /\ tx \in Int /\ Len(recent) \in Int
      /\ cursor - Len(recent) < tx /\ pass.state # "idle"
  BY NewIsNext, RunTyped
<1>6. pass'.todo # <<>> =>
         cursor - Len(recent) < pass'.todo[1] /\ pass'.todo[1] <= cursor + 1
  BY <1>2, <1>4, <1>5
<1>7. /\ pass.since <= cursor
      /\ pass.rpc < Rpcs =>
            /\ cursor - Len(recent) <= pass.since
            /\ \A i \in DOMAIN pass.todo : pass.todo[i] <= pass.since + RecentCapacity
  BY <1>5 DEF RunInv, PassRun
<1>8. QED
  BY <1>2, <1>3, <1>6, <1>7 DEF PassRun

\* What is remembered, and what remembering or losing one more leaves, reaches
\* back to where the next endpoint would start.
LEMMA RecentReaches ==
    ASSUME BackfillInv, RunInv, queue # <<>>, tx \notin Remembered,
           NEW all, all = Remember(tx), NEW less, less = Forget(all, tx)
    PROVE  /\ Len(all) \in Nat \ {0} /\ Len(all) <= tx /\ IsRun(all, tx)
           /\ Len(less) \in Nat /\ Len(less) <= cursor /\ IsRun(less, cursor)
           /\ pass.rpc < Rpcs => tx - Len(all) <= pass.since
           /\ pass.rpc < Rpcs => cursor - Len(less) <= pass.since
<1>1. /\ tx \in Txs /\ tx \in Int /\ tx = cursor + 1 /\ tx = pass.todo[1]
      /\ pass.todo # <<>> /\ pass.state # "idle"
  BY NewIsNext
<1>2. /\ cursor \in Nat /\ Len(recent) \in Nat /\ pass.since \in Int
      /\ recent \in Seq(Txs) /\ Len(recent) <= RecentCapacity
      /\ RecentCapacity \in Nat \ {0}
  BY RunTyped
<1>3. RecentRun /\ Len(recent) <= cursor
  BY DEF RunInv, RecentRun
<1>4. /\ Len(all) = IF Len(recent) < RecentCapacity THEN Len(recent) + 1
                    ELSE RecentCapacity
      /\ IsRun(all, tx) /\ Len(less) = Len(all) - 1 /\ IsRun(less, cursor)
  BY <1>1, <1>2, <1>3, RunContinues
<1>5. /\ Len(all) \in Nat \ {0} /\ Len(all) <= tx
      /\ Len(less) \in Nat /\ Len(less) <= cursor
      /\ cursor - Len(less) = tx - Len(all)
  <2>1. Len(all) \in Nat \ {0} /\ Len(all) <= Len(recent) + 1
    <3>1. CASE Len(recent) < RecentCapacity
      <4>1. Len(all) = Len(recent) + 1
        BY <1>4, <3>1
      <4>2. QED
        BY <1>2, <4>1
    <3>2. CASE ~ (Len(recent) < RecentCapacity)
      <4>1. Len(all) = RecentCapacity
        BY <1>4, <3>2
      <4>2. QED
        BY <1>2, <3>2, <4>1
    <3>3. QED
      BY <3>1, <3>2
  <2>2. Len(less) = Len(all) - 1 /\ tx = cursor + 1
    BY <1>1, <1>4
  <2>3. QED
    BY <1>2, <1>3, <2>1, <2>2
<1>6. ASSUME pass.rpc < Rpcs PROVE tx - Len(all) <= pass.since
  <2>1. /\ cursor - Len(recent) <= pass.since
        /\ pass.todo[1] <= pass.since + RecentCapacity
    <3>1. 1 \in DOMAIN pass.todo
      BY <1>1, RunTyped
    <3>2. QED
      BY <1>1, <1>6, <3>1 DEF RunInv, PassRun
  <2>2. CASE Len(recent) < RecentCapacity
    <3>1. Len(all) = Len(recent) + 1
      BY <1>4, <2>2
    <3>2. QED
      BY <1>1, <1>2, <2>1, <3>1
  <2>3. CASE ~ (Len(recent) < RecentCapacity)
    <3>1. Len(all) = RecentCapacity
      BY <1>4, <2>3
    <3>2. QED
      BY <1>1, <1>2, <2>1, <3>1
  <2>4. QED
    BY <2>2, <2>3
<1>7. QED
  BY <1>4, <1>5, <1>6

\* A transaction applied for the first time takes the cursor to itself.
LEMMA ApplyRuns ==
    ASSUME BackfillInv, RunInv, Apply
    PROVE  RunInv' /\ tx = cursor + 1 /\ cursor' = tx
<1>1. queue # <<>> /\ tx \notin Remembered /\ recent' = Remember(tx)
  BY DEF Apply, InHand
<1>2. /\ tx = cursor + 1 /\ tx = pass.todo[1] /\ pass.todo # <<>>
      /\ pass.state # "idle" /\ Advances
  BY <1>1, NewIsNext
<1>3. cursor' = tx /\ UNCHANGED <<pass, saved>>
  BY <1>2 DEF Apply
<1>4. /\ Len(recent') \in Nat \ {0} /\ Len(recent') <= tx /\ IsRun(recent', tx)
      /\ pass.rpc < Rpcs => tx - Len(recent') <= pass.since
  BY <1>1, RecentReaches
<1>5. cursor \in Nat /\ saved \in Nat /\ saved <= cursor /\ pass.since \in Int
  BY RunTyped DEF RunInv
<1>6. RecentRun' /\ saved' <= cursor'
  BY <1>2, <1>3, <1>4, <1>5 DEF RecentRun
<1>7. PassRun'
  <2>1. tx - Len(recent') < tx /\ tx <= tx + 1 /\ pass.since <= tx
    <3>1. pass.since <= cursor
      BY <1>2 DEF RunInv, PassRun
    <3>2. QED
      BY <1>2, <1>4, <1>5, <3>1
  <2>2. pass.rpc < Rpcs =>
           \A i \in DOMAIN pass.todo : pass.todo[i] <= pass.since + RecentCapacity
    BY <1>2 DEF RunInv, PassRun
  <2>3. QED
    BY <1>2, <1>3, <1>4, <2>1, <2>2 DEF PassRun
<1>8. QED
  BY <1>2, <1>3, <1>6, <1>7 DEF RunInv

\* The other steps of the promise chain.
LEMMA PipelineRuns ==
    ASSUME BackfillInv, RunInv, WithinRecent',
           Skip \/ ApplyThrows \/ ApplyThrowsAfterCommit \/ Save \/ SaveThrows
    PROVE  RunInv' /\ cursor' = cursor
<1>1. /\ queue # <<>> /\ cursor' = cursor
      /\ saved' \in {saved, cursor}
  BY DEF Skip, ApplyThrows, ApplyThrowsAfterCommit, Save, SaveThrows, GivenUp,
         InHand, databaseVars, BackfillInv, PipelineInv, StoreInv, SavedBehind
<1>2. /\ tx \in Int /\ cursor \in Nat /\ Len(recent) \in Nat
      /\ pass.state # "idle" /\ pass.since \in Int
  BY <1>1, NewIsNext, RunTyped
<1>3. saved' <= cursor'
  BY <1>1, <1>2 DEF RunInv
<1>4. CASE Skip
  <2>1. Handled /\ tx \in Remembered /\ recent' = recent
    BY <1>4 DEF Skip
  <2>2. tx <= cursor
    <3>1. PICK i \in DOMAIN recent : recent[i] = tx
      BY <2>1 DEF Remembered
    <3>2. tx = cursor - Len(recent) + i /\ i \in Int /\ i <= Len(recent)
      BY <3>1, RunTyped DEF RunInv, RecentRun, IsRun
    <3>3. QED
      BY <1>2, <3>2
  <2>3. PassRun'
    BY <1>1, <2>1, <2>2, HandledRuns
  <2>4. QED
    BY <1>1, <1>3, <2>1, <2>3 DEF RunInv, RecentRun
<1>5. CASE ApplyThrows \/ ApplyThrowsAfterCommit
  <2>1. tx \notin Remembered /\ recent' = Forget(Remember(tx), tx) /\ Rejected
    BY <1>5 DEF ApplyThrows, ApplyThrowsAfterCommit, GivenUp
  <2>2. /\ Len(recent') \in Nat /\ Len(recent') <= cursor /\ IsRun(recent', cursor)
        /\ pass.rpc < Rpcs => cursor - Len(recent') <= pass.since
    BY <1>1, <2>1, RecentReaches
  <2>3. NextRpc
    BY <1>1, <2>1, HeadInOrder DEF Rejected
  <2>4. PassRun'
    BY <1>1, <1>2, <2>2, <2>3, NextRpcRuns
  <2>5. QED
    BY <1>1, <1>3, <2>2, <2>4 DEF RunInv, RecentRun
<1>6. CASE Save
  <2>1. Handled /\ recent' = recent /\ tx = cursor
    BY <1>6 DEF Save, BackfillInv, PipelineInv, StoreInv, SavedBehind, tx
  <2>2. PassRun'
    BY <1>1, <1>2, <2>1, HandledRuns
  <2>3. QED
    BY <1>1, <1>3, <2>1, <2>2 DEF RunInv, RecentRun
<1>7. CASE SaveThrows
  <2>1. Rejected /\ recent' = recent
    BY <1>7 DEF SaveThrows
  <2>2. NextRpc
    BY <1>1, <2>1, HeadInOrder DEF Rejected
  <2>3. pass.rpc < Rpcs => cursor - Len(recent') <= pass.since
    BY <1>2, <2>1 DEF RunInv, PassRun
  <2>4. PassRun'
    BY <1>1, <1>2, <2>1, <2>2, <2>3, NextRpcRuns
  <2>5. QED
    BY <1>1, <1>3, <2>1, <2>4 DEF RunInv, RecentRun
<1>8. QED
  BY <1>4, <1>5, <1>6, <1>7

\* Listing and fetching.
LEMMA FeedRuns ==
    ASSUME ~ Live, BackfillInv, RunInv, WithinRecent',
           Land \/ (\E t \in Txs : Notify(t)) \/ PassStep
    PROVE  RunInv' /\ cursor' = cursor
<1>1. UNCHANGED <<cursor, saved, recent>>
  BY DEF Land, Notify, PassStep, StartPass, FetchNext, NotServed, FetchThrows,
         EndPass, memoryVars, databaseVars
<1>2. RecentRun' /\ saved' <= cursor'
  BY <1>1 DEF RunInv, RecentRun
<1>3. ~ \E t \in Txs : Notify(t)
  BY DEF BackfillInv, PassInOrder, Notify
<1>4. CASE Land
  <2>1. pass' = pass
    BY <1>4 DEF Land, memoryVars
  <2>2. QED
    BY <1>1, <1>2, <2>1 DEF RunInv, PassRun
<1>5. CASE StartPass
  <2>1. /\ pass'.todo = Since(cursor) /\ pass'.since = cursor
        /\ pass'.state = "fetch" /\ pass'.rpc = 1
    BY <1>5 DEF StartPass
  <2>2. /\ landed \in 0 .. NTx /\ cursor \in 0 .. landed /\ cursor \in Nat
        /\ Len(recent) \in Nat
    BY RunTyped
  <2>3. /\ pass'.todo # <<>> => pass'.todo[1] = cursor + 1
        /\ Rpcs # 1 => \A i \in DOMAIN pass'.todo :
                          pass'.todo[i] <= cursor + RecentCapacity
    BY <2>1, <2>2, ListingRuns
  <2>4. cursor - Len(recent) <= cursor /\ cursor - Len(recent) < cursor + 1
    BY <2>2
  <2>5. 1 < Rpcs => Rpcs # 1
    OBVIOUS
  <2>6. PassRun'
    BY <1>1, <2>1, <2>2, <2>3, <2>4, <2>5 DEF PassRun
  <2>7. QED
    BY <1>1, <1>2, <2>6 DEF RunInv
<1>6. CASE FetchNext
  <2>1. pass' = [pass EXCEPT !.state = "await"] /\ pass.state # "idle"
    BY <1>6 DEF FetchNext
  <2>2. /\ pass'.todo = pass.todo /\ pass'.since = pass.since
        /\ pass'.rpc = pass.rpc /\ pass'.state = "await"
    BY <2>1, RunTyped
  <2>3. PassRun'
    BY <1>1, <2>1, <2>2 DEF RunInv, PassRun
  <2>4. QED
    BY <1>1, <1>2, <2>3 DEF RunInv
<1>7. CASE NotServed \/ FetchThrows \/ EndPass
  <2>1. (NextRpc \/ PassOver) /\ pass.state # "idle"
    BY <1>7 DEF NotServed, FetchThrows, EndPass
  <2>2. pass.rpc < Rpcs => cursor - Len(recent') <= pass.since
    BY <1>1, <2>1 DEF RunInv, PassRun
  <2>3. Len(recent') \in Nat
    BY <1>1, RunTyped
  <2>4. PassRun'
    BY <1>1, <2>1, <2>2, <2>3, NextRpcRuns
  <2>5. QED
    BY <1>1, <1>2, <2>4 DEF RunInv
<1>8. QED
  BY <1>3, <1>4, <1>5, <1>6, <1>7 DEF PassStep

\* Without the subscription, and with passes within the recent set, every step
\* keeps the run.
LEMMA RunInvStep ==
    ASSUME ~ Live
    PROVE  BackfillInv /\ RunInv /\ WithinRecent' /\ [Next]_vars => RunInv'
<1> SUFFICES ASSUME BackfillInv, RunInv, WithinRecent', [Next]_vars PROVE RunInv'
  OBVIOUS
<1>1. CASE UNCHANGED vars
  BY <1>1 DEF vars, memoryVars, databaseVars, RunInv, RecentRun, PassRun
<1>2. CASE Restart
  <2>1. /\ recent' = <<>> /\ cursor' = saved /\ saved' = saved
        /\ pass'.state = "idle" /\ pass'.todo = <<>>
    BY <1>2 DEF Restart, NoPass, databaseVars
  <2>2. saved \in Nat /\ Len(<<>>) = 0 /\ DOMAIN <<>> = {}
    BY RunTyped
  <2>3. QED
    BY <2>1, <2>2 DEF RunInv, RecentRun, PassRun, IsRun
<1>3. QED
  BY <1>1, <1>2, ApplyRuns, PipelineRuns, FeedRuns DEF Next, PipelineStep

\* Nothing has been listed or remembered at first.
LEMMA RunInvInit == Init => RunInv
<1> SUFFICES ASSUME Init PROVE RunInv
  OBVIOUS
<1>1. /\ recent = <<>> /\ cursor = 0 /\ saved = 0
      /\ pass.state = "idle" /\ pass.todo = <<>>
  BY DEF Init, NoPass
<1>2. Len(<<>>) = 0 /\ DOMAIN <<>> = {}
  OBVIOUS
<1>3. QED
  BY <1>1, <1>2 DEF RunInv, RecentRun, PassRun, IsRun

\* So it holds as long as passes stay within the recent set.
LEMMA RunInvHolds ==
    ASSUME ~ Live
    PROVE  Spec /\ []WithinRecent => []RunInv
<1>1. Spec => []BackfillInv
  BY BackfillInvHolds
<1>2. BackfillInv /\ RunInv /\ WithinRecent' /\ [Next]_vars => RunInv'
  BY RunInvStep
<1>3. QED
  BY <1>1, <1>2, RunInvInit, PTL DEF Spec

-----------------------------------------------------------------------------
(***************************************************************************)
(* The holdings rows, for any transfers the chain can have made.           *)
(***************************************************************************)

HIDE PipelineAssumption DEF Txs, None

(* Every step of the index is a step of the pipeline. *)

\* The index writes only in steps of the pipeline.
LEMMA IndexStepIsPipelineStep == [IndexNext]_indexVars => [Next]_vars
<1>1. ApplyIndex => Next
  BY DEF ApplyIndex, Next, PipelineStep
<1>2. Elsewhere => Next
  BY DEF Elsewhere, Next, PipelineStep
<1>3. UNCHANGED indexVars => UNCHANGED vars
  BY DEF indexVars
<1>4. QED
  BY <1>1, <1>2, <1>3 DEF IndexNext

\* The worker with its rows is the pipeline: whatever Pipeline promises, it
\* keeps (apply.ts under pipeline.ts).
THEOREM IndexImplementsPipeline == IndexSpec => Spec
<1>1. IndexInit => Init
  BY DEF IndexInit
<1>2. QED
  BY <1>1, IndexStepIsPipelineStep, PTL DEF IndexSpec, Spec

\* What a step of the index does to the journal and the holdings.
LEMMA HoldingsSteps ==
    ASSUME PipelineInv, [IndexNext]_indexVars
    PROVE  \/ UNCHANGED <<applied, rows, reconciled>>
           \/ /\ tx \in Txs /\ tx <= landed /\ landed' = landed
              /\ Parent[tx] = 0 \/ Parent[tx] \in applied
              /\ applied' = applied \cup {tx}
              /\ WriteHoldings
<1>1. CASE ApplyIndex
  <2>1. queue # <<>> /\ queue \in Seq(Entry) /\ landed' = landed
    BY <1>1 DEF ApplyIndex, Apply, ApplyThrowsAfterCommit, InHand, GivenUp, PipelineInv,
                ChainInv, chainVars
  <2>2. Head(queue) = queue[1] /\ 1 \in DOMAIN queue /\ queue[1] \in Entry
    BY <2>1
  <2>3. tx \in Txs /\ tx <= landed
    BY <2>2 DEF tx, Entry, PipelineInv, ChainInv, LandedFirst
  <2>4. ~ NotIndexedYet /\ applied' = applied \cup {tx} /\ WriteHoldings
    BY <1>1 DEF ApplyIndex, Apply, ApplyThrowsAfterCommit, Commit
  <2>5. QED
    BY <2>1, <2>3, <2>4 DEF NotIndexedYet, None
<1>2. CASE Elsewhere
  BY <1>2 DEF Elsewhere, rowVars, holdingsVars, Land, Notify, PassStep, StartPass,
              FetchNext, NotServed, FetchThrows, EndPass, Skip, ApplyThrows, Save,
              SaveThrows, Restart, databaseVars
<1>3. CASE UNCHANGED indexVars
  BY <1>3 DEF indexVars, vars, rowVars, holdingsVars, databaseVars
<1>4. QED
  BY <1>1, <1>2, <1>3 DEF IndexNext

-----------------------------------------------------------------------------
(* Balances. *)

\* A transfer names two wallets, an amount and an earlier token.
LEMMA TransferTyped ==
    ASSUME NEW t \in Transfers
    PROVE  /\ t \in Txs /\ t # TokenTx /\ Parent[t] = TokenTx /\ TokenTx < t
           /\ Moves[t].from \in Wallets /\ Moves[t].to \in Wallets
           /\ Moves[t].n \in Nat /\ Amounts[t] = Moves[t].n
<1> USE HoldingsAssumption, PipelineAssumption DEF Txs
<1>1. Transfers \subseteq Txs \ {TokenTx} /\ Parent[t] = TokenTx /\ TokenTx \in Txs
  OBVIOUS
<1>2. Moves[t] \in [from : Wallets, to : Wallets, n : Nat]
  OBVIOUS
<1>3. QED
  BY <1>1, <1>2 DEF Amounts

\* Sets of transfers are finite.
LEMMA TransfersFinite ==
    ASSUME NEW T, T \subseteq Transfers
    PROVE  IsFiniteSet(T)
<1> USE HoldingsAssumption, PipelineAssumption DEF Txs
<1>1. IsFiniteSet(1 .. NTx) /\ T \in SUBSET (1 .. NTx)
  BY FS_Interval
<1>2. QED
  BY <1>1, FS_Subset

\* A sum over some of the transfers takes one more.
LEMMA PartsTake ==
    ASSUME NEW T, T \subseteq Transfers, NEW t \in Transfers \ T
    PROVE  \A P, Q : P \subseteq T /\ (Q = P \/ Q = P \cup {t}) =>
              /\ SumFunctionOnSet(Amounts, P) \in Nat
              /\ SumFunctionOnSet(Amounts, Q) = SumFunctionOnSet(Amounts, P)
                    + (IF t \in Q THEN Moves[t].n ELSE 0)
<1> SUFFICES ASSUME NEW P, NEW Q, P \subseteq T, Q = P \/ Q = P \cup {t}
             PROVE  /\ SumFunctionOnSet(Amounts, P) \in Nat
                    /\ SumFunctionOnSet(Amounts, Q) =
                          SumFunctionOnSet(Amounts, P)
                          + (IF t \in Q THEN Moves[t].n ELSE 0)
  OBVIOUS
<1>1. \A u \in Transfers : Amounts[u] \in Nat /\ Amounts[u] \in Int
  BY TransferTyped
<1>2. IsFiniteSet(P) /\ IsFiniteSet(Q) /\ P \subseteq Transfers /\ Q \subseteq Transfers
  BY TransfersFinite
<1>3. SumFunctionOnSet(Amounts, P) \in Nat
  BY <1>1, <1>2, SumTyped
<1>4. CASE Q = P
  <2>1. t \notin Q
    BY <1>4
  <2>2. QED
    BY <1>3, <1>4, <2>1
<1>5. CASE Q = P \cup {t}
  <2>1. t \in Q /\ Q \ {t} = P
    BY <1>5
  <2>2. SumFunctionOnSet(Amounts, Q) = Amounts[t] + SumFunctionOnSet(Amounts, P)
    <3>1. \A y \in Q : Amounts[y] \in Int
      BY <1>1, <1>2
    <3>2. SumFunctionOnSet(Amounts, Q) = Amounts[t] + SumFunctionOnSet(Amounts, Q \ {t})
      BY <1>2, <2>1, <3>1, SumTakes
    <3>3. QED
      BY <2>1, <3>2
  <2>3. Amounts[t] = Moves[t].n /\ Moves[t].n \in Nat
    BY TransferTyped
  <2>4. QED
    BY <1>3, <2>1, <2>2, <2>3
<1>6. QED
  BY <1>4, <1>5

\* A balance takes one more transfer on both sides.
LEMMA BalanceTakes ==
    ASSUME NEW T, T \subseteq Transfers, NEW t \in Transfers \ T, NEW w \in Wallets
    PROVE  /\ BalanceAfter(w, T) \in Int
           /\ BalanceAfter(w, T \cup {t}) =
                 BalanceAfter(w, T) + (IF Moves[t].to = w THEN Moves[t].n ELSE 0)
                                    - (IF Moves[t].from = w THEN Moves[t].n ELSE 0)
<1> DEFINE S == {u \in T : Moves[u].from = w}
           R == {u \in T : Moves[u].to = w}
           St == {u \in T \cup {t} : Moves[u].from = w}
           Rt == {u \in T \cup {t} : Moves[u].to = w}
           base == IF w = Treasury THEN Supply ELSE 0
<1>1. /\ SumFunctionOnSet(Amounts, S) \in Nat
      /\ SumFunctionOnSet(Amounts, St) =
            SumFunctionOnSet(Amounts, S) + (IF t \in St THEN Moves[t].n ELSE 0)
  <2>1. S \subseteq T /\ (St = S \/ St = S \cup {t})
    OBVIOUS
  <2> HIDE DEF S, St
  <2>2. QED
    BY <2>1, PartsTake
<1>2. /\ SumFunctionOnSet(Amounts, R) \in Nat
      /\ SumFunctionOnSet(Amounts, Rt) =
            SumFunctionOnSet(Amounts, R) + (IF t \in Rt THEN Moves[t].n ELSE 0)
  <2>1. R \subseteq T /\ (Rt = R \/ Rt = R \cup {t})
    OBVIOUS
  <2> HIDE DEF R, Rt
  <2>2. QED
    BY <2>1, PartsTake
<1>3. (t \in St <=> Moves[t].from = w) /\ (t \in Rt <=> Moves[t].to = w)
  OBVIOUS
<1>4. base \in Nat /\ Moves[t].n \in Nat
  BY TransferTyped, HoldingsAssumption
<1>5. /\ BalanceAfter(w, T) = base + SumFunctionOnSet(Amounts, R) - SumFunctionOnSet(Amounts, S)
      /\ BalanceAfter(w, T \cup {t}) =
            base + SumFunctionOnSet(Amounts, Rt) - SumFunctionOnSet(Amounts, St)
  BY DEF BalanceAfter, Sent, Received
<1> HIDE DEF S, R, St, Rt, base
<1>6. QED
  BY <1>1, <1>2, <1>3, <1>4, <1>5

\* What was distributed takes one more distribution.
LEMMA ReceivedTakes ==
    ASSUME NEW T, T \subseteq Transfers, NEW t \in Transfers \ T, NEW w \in Wallets
    PROVE  LET from(txs) == {u \in txs : Moves[u].from = Treasury}
           IN  /\ Received(w, from(T)) \in Nat
               /\ Received(w, from(T \cup {t})) =
                     Received(w, from(T)) + (IF Moves[t].from = Treasury /\ Moves[t].to = w
                                             THEN Moves[t].n ELSE 0)
<1> DEFINE R == {u \in {v \in T : Moves[v].from = Treasury} : Moves[u].to = w}
           Rt == {u \in {v \in T \cup {t} : Moves[v].from = Treasury} : Moves[u].to = w}
<1>1. /\ SumFunctionOnSet(Amounts, R) \in Nat
      /\ SumFunctionOnSet(Amounts, Rt) =
            SumFunctionOnSet(Amounts, R) + (IF t \in Rt THEN Moves[t].n ELSE 0)
  <2>1. R \subseteq T /\ (Rt = R \/ Rt = R \cup {t})
    OBVIOUS
  <2> HIDE DEF R, Rt
  <2>2. QED
    BY <2>1, PartsTake
<1>2. t \in Rt <=> Moves[t].from = Treasury /\ Moves[t].to = w
  OBVIOUS
<1>3. QED
  BY <1>1, <1>2 DEF Received

\* Before any transfer the treasury holds the supply.
LEMMA NothingMoved ==
    ASSUME NEW w \in Wallets
    PROVE  /\ BalanceAfter(w, {}) = IF w = Treasury THEN Supply ELSE 0
           /\ Received(w, {}) = 0
<1>1. SumFunctionOnSet(Amounts, {}) = 0
  BY SumEmpty
<1>2. {u \in {} : Moves[u].from = w} = {} /\ {u \in {} : Moves[u].to = w} = {}
  OBVIOUS
<1>3. Supply \in Nat
  BY HoldingsAssumption
<1>4. Received(w, {}) = 0 /\ Sent(w, {}) = 0
  BY <1>1, <1>2 DEF Received, Sent
<1>5. QED
  BY <1>3, <1>4 DEF BalanceAfter

-----------------------------------------------------------------------------
(* The chain never overdraws an account. *)

\* The chain's balances are never negative.
LEMMA ChainTyped ==
    ASSUME NEW w \in Wallets, NEW t \in 0 .. NTx
    PROVE  Chain(w, t) \in Nat
<1>0. NTx \in Nat /\ TokenTx \in 1 .. NTx
  BY PipelineAssumption, HoldingsAssumption DEF Txs
<1>9. \A x \in Transfers : TokenTx < x /\ x \in 1 .. NTx
  BY TransferTyped DEF Txs
<1> HIDE DEF Transfers
<1> DEFINE Solvent(n) == n <= NTx => \A v \in Wallets : Chain(v, n) \in Nat
           S == {n \in Nat : Solvent(n)}
<1>1. Solvent(0)
  BY <1>0 DEF Chain
<1>2. ASSUME NEW n \in Nat, Solvent(n) PROVE Solvent(n + 1)
  <2> DEFINE T == Transfers \cap 1 .. n
             u == n + 1
  <2> SUFFICES ASSUME u <= NTx, NEW v \in Wallets PROVE Chain(v, u) \in Nat
    OBVIOUS
  <2>1. \A x \in Wallets : Chain(x, n) \in Nat
    BY <1>0, <1>2
  <2>2. TokenTx \in Nat /\ u \in Nat /\ n \in Nat
    BY <1>0
  <2>3. CASE u < TokenTx
    BY <2>3 DEF Chain
  <2>4. CASE ~ (u < TokenTx)
    <3>1. Chain(v, u) = BalanceAfter(v, Transfers \cap 1 .. u)
      BY <2>4 DEF Chain
    <3>2. CASE u \in Transfers
      <4>1. u - 1 = n /\ ~ (n < TokenTx)
        BY <2>2, <3>2, TransferTyped
      <4>2. Transfers \cap 1 .. u = T \cup {u} /\ u \in Transfers \ T /\ T \subseteq Transfers
        BY <2>2, <3>2
      <4>3. \A x \in Wallets : Chain(x, n) = BalanceAfter(x, T)
        BY <4>1 DEF Chain
      <4>4. Moves[u].n <= Chain(Moves[u].from, n) /\ Moves[u].n \in Nat
            /\ Moves[u].from \in Wallets
        BY <3>2, <4>1, NoOverdraft, TransferTyped
      <4>5. BalanceAfter(v, T \cup {u}) =
               BalanceAfter(v, T) + (IF Moves[u].to = v THEN Moves[u].n ELSE 0)
                                  - (IF Moves[u].from = v THEN Moves[u].n ELSE 0)
        BY <4>2, BalanceTakes
      <4>6. BalanceAfter(v, T) \in Nat
        BY <2>1, <4>3
      <4>7. Moves[u].from = v => Moves[u].n <= BalanceAfter(v, T)
        BY <4>3, <4>4
      <4> HIDE DEF T, u
      <4>8. BalanceAfter(v, T \cup {u}) \in Nat
        BY <4>4, <4>5, <4>6, <4>7
      <4>9. QED
        BY <3>1, <4>2, <4>8
    <3>3. CASE u \notin Transfers
      <4>1. Transfers \cap 1 .. u = T
        BY <3>3
      <4>2. CASE u = TokenTx
        <5>1. T = {}
          <6>1. \A x \in T : x \in Transfers /\ x <= n
            OBVIOUS
          <6>2. \A x \in Transfers : TokenTx < x /\ x \in Nat
            BY <1>9
          <6> HIDE DEF T
          <6>3. QED
            BY <2>2, <4>2, <6>1, <6>2
        <5>2. BalanceAfter(v, {}) \in Nat
          BY NothingMoved, HoldingsAssumption
        <5>3. QED
          BY <3>1, <4>1, <5>1, <5>2
      <4>3. CASE u # TokenTx
        <5>1. ~ (n < TokenTx)
          BY <2>2, <2>4, <4>3
        <5>2. Chain(v, n) = BalanceAfter(v, T)
          BY <5>1 DEF Chain
        <5>3. QED
          BY <2>1, <3>1, <4>1, <5>2
      <4>4. QED
        BY <4>2, <4>3
    <3>4. QED
      BY <3>2, <3>3
  <2>5. QED
    BY <2>3, <2>4
<1> HIDE DEF Solvent
<1>3. 0 \in S /\ \A n \in Nat : n \in S => n + 1 \in S
  BY <1>1, <1>2
<1> HIDE DEF S
<1>4. Nat \subseteq S
  BY <1>3, Counting
<1>5. t \in Nat /\ t <= NTx
  BY <1>0
<1>6. QED
  BY <1>4, <1>5 DEF S, Solvent

-----------------------------------------------------------------------------
(* The rows and the journal. *)

Row == HoldingRow \cup {NoRow}

Journal == applied \cap Transfers

\* Nothing moves before the token is there, and what is marked as verified was
\* read from the chain.
JournalInv ==
    /\ RowsAreTheJournal
    /\ TokenTx \notin applied => Journal = {} /\ rows = [w \in Wallets |-> NoRow]
    /\ TokenTx \in applied => rows[Treasury] # NoRow
    /\ \A w \in Wallets : rows[w].verified => w \in reconciled

\* The columns of a row have their types.
LEMMA RowFields ==
    /\ NoRow \notin HoldingRow /\ NoRow.verified = FALSE /\ NoRow.distributed = 0
    /\ \A row \in Row : /\ AmountOf(row) \in Nat /\ row.distributed \in Nat
                        /\ row.verified \in BOOLEAN
                        /\ row # NoRow => row \in HoldingRow
    /\ \A row \in HoldingRow : /\ row.amount \in Nat /\ row.distributed \in Nat
                               /\ row.slot \in Nat /\ row.verified \in BOOLEAN
                               /\ row # NoRow /\ AmountOf(row) = row.amount
<1>1. NoRow.amount = -1 /\ NoRow.verified = FALSE /\ NoRow.distributed = 0
  BY DEF NoRow
<1>2. \A row \in HoldingRow : /\ row.amount \in Nat /\ row.distributed \in Nat
                               /\ row.slot \in Nat /\ row.verified \in BOOLEAN
  BY DEF HoldingRow
<1>3. NoRow \notin HoldingRow
  BY <1>1, <1>2
<1>4. \A row \in HoldingRow : row # NoRow /\ AmountOf(row) = row.amount
  BY <1>3 DEF AmountOf
<1>5. AmountOf(NoRow) = 0
  BY DEF AmountOf
<1>6. ASSUME NEW row \in Row
      PROVE  /\ AmountOf(row) \in Nat /\ row.distributed \in Nat
             /\ row.verified \in BOOLEAN
             /\ row # NoRow => row \in HoldingRow
  <2>1. CASE row = NoRow
    <3>1. AmountOf(NoRow) \in Nat /\ NoRow.distributed \in Nat
      BY <1>1, <1>5
    <3>2. NoRow.verified \in BOOLEAN
      BY <1>1, Zenon
    <3>3. QED
      BY <2>1, <3>1, <3>2, Zenon
  <2>2. CASE row \in HoldingRow
    BY <1>2, <1>4, <2>2
  <2>3. QED
    BY <2>1, <2>2 DEF Row
<1>7. QED
  BY <1>1, <1>2, <1>3, <1>4, <1>6

\* What a transfer that has landed makes of the source's row ...
LEMMA SourceRow ==
    ASSUME NEW known \in Row, NEW t \in Transfers, landed \in Txs, t <= landed
    PROVE  LET row == SourceHolding(known, t) IN
           /\ row \in HoldingRow
           /\ row.verified => row = known \/ row = Reconciled(known, Moves[t].from, t)
           /\ row.verified => Covered(row, t)
           /\ ~ known.verified /\ ~ row.verified =>
                 /\ Moves[t].n <= AmountOf(known)
                 /\ row.amount = AmountOf(known) - Moves[t].n
                 /\ row.distributed = known.distributed
           /\ known # NoRow /\ ~ known.verified /\ Moves[t].n <= known.amount =>
                 ~ row.verified
<1> DEFINE n == Moves[t].n
           w == Moves[t].from
<1>1. n \in Nat /\ w \in Wallets /\ t \in Txs
  BY TransferTyped
<1>2. Slot[t] \in Nat /\ Slot[landed] \in Nat /\ Slot[t] <= Slot[landed]
  <2>1. t = landed \/ t < landed
    BY <1>1, PipelineAssumption DEF Txs
  <2>2. QED
    BY <1>1, <2>1, PipelineAssumption
<1>3. Chain(w, landed) \in Nat
  <2>1. landed \in 0 .. NTx
    BY DEF Txs
  <2>2. QED
    BY <1>1, <2>1, ChainTyped
<1>4. known.distributed \in Nat /\ known.verified \in BOOLEAN
  BY RowFields
<1>5. CASE Covered(known, t)
  <2>1. known \in HoldingRow /\ known.verified
    BY <1>5, RowFields DEF Covered
  <2>2. SourceHolding(known, t) = known
    BY <1>5 DEF SourceHolding
  <2>3. QED
    BY <1>5, <2>1, <2>2
<1>6. CASE ~ Covered(known, t) /\ Enough(known, t)
  <2> DEFINE row == [amount |-> known.amount - n, distributed |-> known.distributed,
                     slot |-> Slot[t], verified |-> FALSE]
  <2>1. SourceHolding(known, t) = row
    BY <1>6 DEF SourceHolding
  <2>2. known \in HoldingRow /\ known.amount \in Nat /\ AmountOf(known) = known.amount
        /\ known.amount >= n
    BY <1>6, RowFields DEF Enough
  <2>3. row \in HoldingRow
    BY <1>1, <1>2, <1>4, <2>2 DEF HoldingRow
  <2>4. row.verified = FALSE /\ row.amount = known.amount - n
        /\ row.distributed = known.distributed
    OBVIOUS
  <2> HIDE DEF row, n
  <2>5. QED
    BY <1>1, <2>1, <2>2, <2>3, <2>4 DEF n
<1>7. CASE ~ Covered(known, t) /\ ~ Enough(known, t)
  <2> DEFINE row == Reconciled(known, w, t)
  <2>1. SourceHolding(known, t) = row
    BY <1>7 DEF SourceHolding
  <2>2. row \in HoldingRow /\ row.verified /\ row.slot = Slot[landed]
    BY <1>2, <1>3, <1>4 DEF HoldingRow, Reconciled
  <2> HIDE DEF row
  <2>3. Covered(row, t)
    BY <1>2, <2>2, RowFields DEF Covered
  <2>4. known # NoRow => ~ (n <= known.amount)
    <3>1. known # NoRow => ~ (known.amount >= n) /\ known.amount \in Nat
      BY <1>7, RowFields DEF Enough
    <3>2. QED
      BY <1>1, <3>1
  <2>5. QED
    BY <2>1, <2>2, <2>3, <2>4 DEF row
<1>8. QED
  BY <1>5, <1>6, <1>7

\* ... and of the destination's.
LEMMA DestinationRow ==
    ASSUME NEW known \in Row, NEW t \in Transfers
    PROVE  LET row == DestinationHolding(known, t) IN
           /\ row \in HoldingRow
           /\ Covered(known, t) => row = known
           /\ row.verified => row = known
           /\ ~ known.verified =>
                 /\ ~ row.verified
                 /\ row.amount = AmountOf(known) + Moves[t].n
                 /\ row.distributed = known.distributed
                       + (IF Moves[t].from = Treasury THEN Moves[t].n ELSE 0)
<1> DEFINE n == Moves[t].n
           given == IF Moves[t].from = Treasury THEN n ELSE 0
           more == [amount |-> AmountOf(known) + n, distributed |-> known.distributed + given,
                    slot |-> Slot[t], verified |-> FALSE]
<1>1. n \in Nat /\ t \in Txs /\ Slot[t] \in Nat
  BY TransferTyped, PipelineAssumption
<1>2. /\ AmountOf(known) \in Nat /\ known.distributed \in Nat /\ known.verified \in BOOLEAN
      /\ known # NoRow => known \in HoldingRow
  BY RowFields
<1>3. more \in HoldingRow
  BY <1>1, <1>2 DEF HoldingRow
<1>4. /\ more.verified = FALSE /\ more.amount = AmountOf(known) + n
      /\ more.distributed = known.distributed + given
  OBVIOUS
<1>5. DestinationHolding(known, t) = IF Covered(known, t) THEN known ELSE more
  BY DEF DestinationHolding
<1> HIDE DEF more
<1>6. CASE Covered(known, t)
  BY <1>2, <1>5, <1>6 DEF Covered
<1>7. CASE ~ Covered(known, t)
  BY <1>3, <1>4, <1>5, <1>7
<1>8. QED
  BY <1>6, <1>7

\* What a transfer makes of the rows: the source's, then the destination's; a
\* wallet that pays itself has both done to its row.
LEMMA MovedRows ==
    ASSUME rows \in [Wallets -> Row], NEW t \in Transfers, landed \in Txs, t <= landed
    PROVE  LET from == Moves[t].from
               to == Moves[t].to
               source == SourceHolding(rows[from], t)
           IN  /\ Moved(t) \in [Wallets -> Row]
               /\ \A w \in Wallets \ {from, to} : Moved(t)[w] = rows[w]
               /\ from # to => /\ Moved(t)[from] = source
                               /\ Moved(t)[to] = DestinationHolding(rows[to], t)
               /\ from = to => Moved(t)[to] = DestinationHolding(source, t)
               /\ from = to /\ source.verified => Moved(t)[to] = source
               /\ Moved(t)[from] \in HoldingRow /\ Moved(t)[to] \in HoldingRow
<1> DEFINE from == Moves[t].from
           to == Moves[t].to
           source == SourceHolding(rows[from], t)
           after == [rows EXCEPT ![from] = source]
           dest == DestinationHolding(after[to], t)
<1>1. from \in Wallets /\ to \in Wallets
  BY TransferTyped
<1>2. rows[from] \in Row /\ HoldingRow \subseteq Row
  BY <1>1 DEF Row
<1>3. source \in HoldingRow /\ source \in Row /\ (source.verified => Covered(source, t))
  BY <1>2, SourceRow
<1>4. Moved(t) = [after EXCEPT ![to] = dest]
  BY DEF Moved
<1> HIDE DEF source
<1>5. after \in [Wallets -> Row] /\ after[to] \in Row
  BY <1>1, <1>3
<1>6. dest \in HoldingRow /\ dest \in Row /\ (Covered(after[to], t) => dest = after[to])
  BY <1>2, <1>5, DestinationRow
<1>7. \A w \in Wallets : after[w] = IF w = from THEN source ELSE rows[w]
  BY <1>1
<1> HIDE DEF from, to
<1>8. /\ from # to => dest = DestinationHolding(rows[to], t)
      /\ from = to => dest = DestinationHolding(source, t) /\ after[to] = source
  BY <1>1, <1>7
<1> HIDE DEF after, dest
<1>9. /\ Moved(t) \in [Wallets -> Row]
      /\ \A w \in Wallets : Moved(t)[w] = IF w = to THEN dest ELSE after[w]
  BY <1>1, <1>4, <1>5, <1>6
<1>10. QED
  BY <1>1, <1>3, <1>6, <1>7, <1>8, <1>9 DEF from, to, source

\* A transfer on a row that was never read from the chain.
LEMMA UnverifiedRowMoves ==
    ASSUME rows \in [Wallets -> Row], NEW t \in Transfers, landed \in Txs, t <= landed,
           NEW w \in Wallets, ~ rows[w].verified, ~ Moved(t)[w].verified
    PROVE  /\ AmountOf(Moved(t)[w]) =
                 AmountOf(rows[w]) + (IF Moves[t].to = w THEN Moves[t].n ELSE 0)
                                   - (IF Moves[t].from = w THEN Moves[t].n ELSE 0)
           /\ Moved(t)[w].distributed =
                 rows[w].distributed + (IF Moves[t].from = Treasury /\ Moves[t].to = w
                                        THEN Moves[t].n ELSE 0)
<1> DEFINE from == Moves[t].from
           to == Moves[t].to
           n == Moves[t].n
           source == SourceHolding(rows[from], t)
<1>1. from \in Wallets /\ to \in Wallets /\ n \in Nat
  BY TransferTyped
<1>2. rows[w] \in Row /\ HoldingRow \subseteq Row
  BY DEF Row
<1>3. AmountOf(rows[w]) \in Nat /\ rows[w].distributed \in Nat
  BY <1>2, RowFields
<1>4. \A row \in HoldingRow : AmountOf(row) = row.amount /\ row.amount \in Nat
                              /\ row.distributed \in Nat
  BY RowFields
<1>5. CASE w # from /\ w # to
  <2>1. Moved(t)[w] = rows[w]
    BY <1>5, MovedRows
  <2>2. QED
    BY <1>3, <1>5, <2>1
<1>6. CASE w = from /\ w # to
  <2>1. Moved(t)[w] = source
    BY <1>6, MovedRows
  <2>2. /\ source \in HoldingRow /\ source.amount = AmountOf(rows[w]) - n
        /\ source.distributed = rows[w].distributed
    BY <1>2, <1>6, <2>1, SourceRow
  <2> HIDE DEF source, n
  <2>3. QED
    BY <1>1, <1>3, <1>4, <1>6, <2>1, <2>2 DEF n
<1>7. CASE w # from /\ w = to
  <2> DEFINE dest == DestinationHolding(rows[w], t)
  <2>1. Moved(t)[w] = dest
    BY <1>7, MovedRows
  <2>2. /\ dest \in HoldingRow /\ dest.amount = AmountOf(rows[w]) + n
        /\ dest.distributed = rows[w].distributed + (IF from = Treasury THEN n ELSE 0)
    BY <1>2, DestinationRow
  <2> HIDE DEF dest, n
  <2>3. QED
    BY <1>1, <1>3, <1>4, <1>7, <2>1, <2>2 DEF n
<1>8. CASE w = from /\ w = to
  <2> DEFINE dest == DestinationHolding(source, t)
  <2>1. Moved(t)[w] = dest /\ (source.verified => dest = source)
    BY <1>8, MovedRows
  <2>2. source \in HoldingRow /\ ~ source.verified
    <3>1. source \in HoldingRow
      BY <1>2, <1>8, SourceRow
    <3>2. QED
      BY <2>1, <3>1
  <2>3. /\ n <= AmountOf(rows[w]) /\ source.amount = AmountOf(rows[w]) - n
        /\ source.distributed = rows[w].distributed
    BY <1>2, <1>8, <2>2, SourceRow
  <2>4. /\ dest \in HoldingRow /\ dest.amount = AmountOf(source) + n
        /\ dest.distributed = source.distributed + (IF from = Treasury THEN n ELSE 0)
    BY <1>2, <2>2, DestinationRow
  <2>5. AmountOf(source) = source.amount /\ AmountOf(dest) = dest.amount
    BY <1>4, <2>2, <2>4
  <2> HIDE DEF dest, source, n
  <2>6. /\ dest.amount = AmountOf(rows[w]) + n - n
        /\ dest.distributed = rows[w].distributed + (IF from = Treasury THEN n ELSE 0)
    BY <1>1, <1>3, <2>3, <2>4, <2>5
  <2>7. Moves[t].to = w /\ Moves[t].from = w
    BY <1>8
  <2>8. QED
    BY <2>1, <2>5, <2>6, <2>7 DEF n
<1>9. QED
  BY <1>5, <1>6, <1>7, <1>8

\* A transfer leaves a row verified that was so already, or has just been read.
LEMMA VerifiedRowMoves ==
    ASSUME rows \in [Wallets -> Row], NEW t \in Transfers, landed \in Txs, t <= landed,
           NEW w \in Wallets, Moved(t)[w].verified
    PROVE  \/ Moved(t)[w] = rows[w]
           \/ Moved(t)[w].slot = Slot[landed] /\ Moved(t)[w].amount = Chain(w, landed)
<1> DEFINE from == Moves[t].from
           to == Moves[t].to
           source == SourceHolding(rows[from], t)
<1>1. from \in Wallets /\ to \in Wallets /\ HoldingRow \subseteq Row
  BY TransferTyped DEF Row
<1>2. rows[from] \in Row /\ rows[to] \in Row
  BY <1>1
<1>3. /\ source \in HoldingRow
      /\ source.verified => \/ source = rows[from]
                            \/ /\ source.slot = Slot[landed]
                               /\ source.amount = Chain(from, landed)
  <2>1. /\ source \in HoldingRow
        /\ source.verified => source = rows[from]
                              \/ source = Reconciled(rows[from], from, t)
    BY <1>2, SourceRow
  <2>2. LET read == Reconciled(rows[from], from, t)
        IN  read.slot = Slot[landed] /\ read.amount = Chain(from, landed)
    BY DEF Reconciled
  <2>3. QED
    BY <2>1, <2>2
<1>4. \A known \in Row : DestinationHolding(known, t).verified =>
                             DestinationHolding(known, t) = known
  BY DestinationRow
<1>5. CASE w # from /\ w # to
  BY <1>5, MovedRows
<1>6. CASE w = from /\ w # to
  BY <1>3, <1>6, MovedRows
<1>7. CASE w # from /\ w = to
  BY <1>2, <1>4, <1>7, MovedRows
<1>8. CASE w = from /\ w = to
  <2>1. Moved(t)[w] = DestinationHolding(source, t)
    BY <1>8, MovedRows
  <2>2. Moved(t)[w] = source
    BY <1>1, <1>3, <1>4, <2>1
  <2>3. QED
    BY <1>3, <1>8, <2>2
<1>9. QED
  BY <1>5, <1>6, <1>7, <1>8

-----------------------------------------------------------------------------
(* What each commit does to the journal and its rows. *)

\* A transfer applied once keeps rows and journal together.
LEMMA TransferJournaled ==
    ASSUME JournalInv, tx \in Transfers, tx \notin applied, TokenTx \in applied,
           landed \in Txs, tx <= landed, applied' = applied \cup {tx}, rows' = Moved(tx),
           reconciled' = reconciled \cup {w \in Wallets : rows'[w].verified}
    PROVE  JournalInv'
<1> DEFINE t == tx
           journal == applied \cap Transfers
           given == {u \in journal : Moves[u].from = Treasury}
           given1 == {u \in journal \cup {t} : Moves[u].from = Treasury}
<1>1. rows \in [Wallets -> Row] /\ rows[Treasury] # NoRow /\ Treasury \in Wallets
  BY HoldingsAssumption DEF JournalInv, RowsAreTheJournal, Row
<1>2. (applied \cap Transfers)' = journal \cup {t} /\ t \in Transfers \ journal
  OBVIOUS
<1>3. rows' \in [Wallets -> Row]
  BY <1>1, MovedRows
<1>4. ASSUME NEW w \in Wallets \ reconciled'
      PROVE  /\ AmountOf(rows'[w]) = BalanceAfter(w, journal \cup {t})
             /\ rows'[w].distributed = Received(w, given1)
  <2>1. w \notin reconciled /\ ~ rows'[w].verified /\ ~ rows[w].verified
    BY <1>4 DEF JournalInv
  <2>2. AmountOf(rows[w]) = BalanceAfter(w, journal)
        /\ rows[w].distributed = Received(w, given)
    BY <1>4, <2>1 DEF JournalInv, RowsAreTheJournal
  <2>3. /\ AmountOf(rows'[w]) =
              AmountOf(rows[w]) + (IF Moves[t].to = w THEN Moves[t].n ELSE 0)
                                - (IF Moves[t].from = w THEN Moves[t].n ELSE 0)
        /\ rows'[w].distributed =
              rows[w].distributed + (IF Moves[t].from = Treasury /\ Moves[t].to = w
                                     THEN Moves[t].n ELSE 0)
    BY <1>1, <1>4, <2>1, UnverifiedRowMoves
  <2>4. BalanceAfter(w, journal \cup {t}) =
           BalanceAfter(w, journal) + (IF Moves[t].to = w THEN Moves[t].n ELSE 0)
                                    - (IF Moves[t].from = w THEN Moves[t].n ELSE 0)
    BY <1>2, <1>4, BalanceTakes
  <2>5. Received(w, given1) =
           Received(w, given) + (IF Moves[t].from = Treasury /\ Moves[t].to = w
                                 THEN Moves[t].n ELSE 0)
    BY <1>2, <1>4, ReceivedTakes
  <2>6. QED
    BY <2>2, <2>3, <2>4, <2>5
<1>5. TokenTx \in applied'
  OBVIOUS
<1>6. rows'[Treasury] # NoRow
  <2>1. CASE Treasury \notin {Moves[t].from, Moves[t].to}
    BY <1>1, <2>1, MovedRows
  <2>2. CASE Treasury \in {Moves[t].from, Moves[t].to}
    BY <1>1, <2>2, MovedRows, RowFields
  <2>3. QED
    BY <2>1, <2>2
<1>7. \A w \in Wallets : rows'[w].verified => w \in reconciled'
  OBVIOUS
<1>8. RowsAreTheJournal'
  BY <1>2, <1>3, <1>4 DEF RowsAreTheJournal, Row
<1>9. QED
  BY <1>5, <1>6, <1>7, <1>8 DEF JournalInv

\* So does the creation of the token.
LEMMA TokenJournaled ==
    ASSUME JournalInv, applied' = applied \cup {TokenTx}, rows' = TokenCreated(TokenTx),
           reconciled' = reconciled
    PROVE  JournalInv'
<1>1. rows \in [Wallets -> Row] /\ Treasury \in Wallets /\ TokenTx \notin Transfers
      /\ TokenTx \in Txs /\ Supply \in Nat /\ Slot[TokenTx] \in Nat
  BY HoldingsAssumption, PipelineAssumption DEF JournalInv, RowsAreTheJournal, Row
<1>2. (applied \cap Transfers)' = applied \cap Transfers /\ TokenTx \in applied'
  BY <1>1
<1>3. CASE TokenTx \in applied
  <2>1. rows[Treasury] # NoRow
    BY <1>3 DEF JournalInv
  <2>2. rows' = rows /\ applied' = applied
    BY <1>1, <1>3, <2>1 DEF TokenCreated
  <2>3. QED
    BY <2>2 DEF JournalInv, RowsAreTheJournal, Journal
<1>4. CASE TokenTx \notin applied
  <2> DEFINE first == [amount |-> Supply, distributed |-> 0, slot |-> Slot[TokenTx],
                       verified |-> FALSE]
  <2>1. applied \cap Transfers = {} /\ rows = [w \in Wallets |-> NoRow]
    BY <1>4 DEF JournalInv, Journal
  <2>2. rows' = [rows EXCEPT ![Treasury] = first]
    BY <1>1, <2>1 DEF TokenCreated
  <2>3. first \in HoldingRow /\ first.amount = Supply /\ first.distributed = 0
    BY <1>1 DEF HoldingRow
  <2>4. ~ first.verified
    OBVIOUS
  <2> HIDE DEF first
  <2>5. \A w \in Wallets : rows'[w] = IF w = Treasury THEN first ELSE NoRow
    BY <1>1, <2>1, <2>2
  <2>6. rows' \in [Wallets -> Row]
    BY <1>1, <2>2, <2>3 DEF Row
  <2>7. ~ NoRow.verified /\ NoRow.distributed = 0 /\ AmountOf(NoRow) = 0
        /\ AmountOf(first) = first.amount /\ first # NoRow
    BY <2>3, RowFields DEF AmountOf
  <2>8. {u \in {} : Moves[u].from = Treasury} = {}
    OBVIOUS
  <2>9. \A w \in Wallets : /\ AmountOf(rows'[w]) = BalanceAfter(w, {})
                           /\ rows'[w].distributed = Received(w, {})
    BY <2>3, <2>5, <2>7, NothingMoved
  <2>10. RowsAreTheJournal'
    BY <1>2, <2>1, <2>6, <2>8, <2>9 DEF RowsAreTheJournal, Row
  <2>11. rows'[Treasury] # NoRow /\ \A w \in Wallets : ~ rows'[w].verified
    BY <1>1, <2>4, <2>5, <2>7
  <2>12. QED
    BY <1>2, <2>10, <2>11 DEF JournalInv
<1>5. QED
  BY <1>3, <1>4

\* So does anything that moves no shares.
LEMMA OthersJournaled ==
    ASSUME JournalInv, NEW t \in Txs, t # TokenTx, t \in Transfers => t \in applied,
           applied' = applied \cup {t}, UNCHANGED <<rows, reconciled>>
    PROVE  JournalInv'
<1>1. (applied \cap Transfers)' = applied \cap Transfers
      /\ (TokenTx \in applied' <=> TokenTx \in applied)
  OBVIOUS
<1>2. QED
  BY <1>1 DEF JournalInv, RowsAreTheJournal, Journal

\* Rows and journal agree at first.
LEMMA JournalStarts == IndexInit => JournalInv /\ VerifiedRowIsTheChain
<1>1. ~ NoRow.verified
  BY DEF NoRow
<1>2. SUFFICES ASSUME IndexInit PROVE JournalInv /\ VerifiedRowIsTheChain
  OBVIOUS
<1>3. applied = {} /\ rows = [w \in Wallets |-> NoRow]
  BY <1>2 DEF IndexInit, Init, HoldingsInit
<1>4. QED
  BY <1>1, <1>3 DEF JournalInv, RowsAreTheJournal, Journal, VerifiedRowIsTheChain

\* Every step keeps them together.
LEMMA JournalKept ==
    PipelineInv /\ JournalInv /\ [IndexNext]_indexVars => JournalInv'
<1> SUFFICES ASSUME PipelineInv, JournalInv, [IndexNext]_indexVars PROVE JournalInv'
  OBVIOUS
<1>1. CASE UNCHANGED <<applied, rows, reconciled>>
  BY <1>1 DEF JournalInv, RowsAreTheJournal, Journal
<1>2. CASE /\ tx \in Txs /\ tx <= landed /\ landed' = landed
           /\ Parent[tx] = 0 \/ Parent[tx] \in applied
           /\ applied' = applied \cup {tx}
           /\ WriteHoldings
  <2>1. landed \in Txs
    <3>1. landed \in 0 .. NTx /\ NTx \in Nat
      BY PipelineAssumption DEF PipelineInv, StoreInv
    <3>2. QED
      BY <1>2, <3>1 DEF Txs
  <2>2. CASE tx = TokenTx /\ rows' = TokenCreated(tx) /\ UNCHANGED reconciled
    BY <1>2, <2>2, TokenJournaled
  <2>3. CASE /\ tx \in Transfers /\ ~ Journaled(tx)
             /\ rows' = Moved(tx)
             /\ reconciled' = reconciled \cup {w \in Wallets : rows'[w].verified}
    <3>1. TokenTx \in applied
      <4>1. Parent[tx] = TokenTx /\ TokenTx \in Nat \ {0}
        BY <2>3, TransferTyped, HoldingsAssumption, PipelineAssumption DEF Txs
      <4>2. QED
        BY <1>2, <4>1
    <3>2. QED
      BY <1>2, <2>1, <2>3, <3>1, TransferJournaled DEF Journaled
  <2>4. CASE tx # TokenTx /\ (tx \in Transfers => Journaled(tx)) /\ UNCHANGED holdingsVars
    BY <1>2, <2>4, OthersJournaled DEF Journaled, holdingsVars
  <2>5. QED
    BY <1>2, <2>2, <2>3, <2>4 DEF WriteHoldings
<1>3. QED
  BY <1>1, <1>2, HoldingsSteps

\* So they agree throughout.
LEMMA JournalInvHolds == IndexSpec => []JournalInv
<1>1. IndexInit => JournalInv
  BY JournalStarts
<1>2. IndexSpec => []PipelineInv
  BY IndexImplementsPipeline, PipelineInvHolds, PTL
<1>3. QED
  BY <1>1, <1>2, JournalKept, PTL DEF IndexSpec

\* In any order of arrival, whatever is lost, replayed or restarted, a row that
\* never needed the chain is the sum of the journal, and no row is negative
\* (apply.ts:299-367, index-store.ts:124-125).
THEOREM RowsSumTheJournal == IndexSpec => []RowsAreTheJournal
<1>1. JournalInv => RowsAreTheJournal
  BY DEF JournalInv
<1>2. QED
  BY <1>1, JournalInvHolds, PTL

\* Every step keeps the rows marked verified equal to the chain.
LEMMA VerifiedKept ==
    PipelineInv /\ JournalInv /\ VerifiedRowIsTheChain /\ [IndexNext]_indexVars
        => VerifiedRowIsTheChain'
<1> SUFFICES ASSUME PipelineInv, JournalInv, VerifiedRowIsTheChain,
                    [IndexNext]_indexVars, NEW w \in Wallets, rows'[w].verified
             PROVE  \E t \in Txs : Slot[t] = rows'[w].slot /\ rows'[w].amount = Chain(w, t)
  BY DEF VerifiedRowIsTheChain
<1>1. CASE rows'[w] = rows[w]
  BY <1>1 DEF VerifiedRowIsTheChain
<1>2. CASE rows'[w] # rows[w] /\ tx \in Txs /\ tx <= landed /\ WriteHoldings
  <2>1. landed \in Txs
    <3>1. landed \in 0 .. NTx /\ NTx \in Nat
      BY PipelineAssumption DEF PipelineInv, StoreInv
    <3>2. QED
      BY <1>2, <3>1 DEF Txs
  <2>2. rows \in [Wallets -> Row]
    BY DEF JournalInv, RowsAreTheJournal, Row
  <2>3. CASE rows' = TokenCreated(tx)
    <3> DEFINE first == [amount |-> Supply, distributed |-> 0, slot |-> Slot[tx],
                         verified |-> FALSE]
    <3>1. ~ first.verified
      OBVIOUS
    <3>2. rows'[w] = rows[w] \/ rows'[w] = first
      BY <2>2, <2>3, HoldingsAssumption DEF TokenCreated
    <3>3. QED
      BY <1>2, <3>1, <3>2
  <2>4. CASE tx \in Transfers /\ rows' = Moved(tx)
    BY <1>2, <2>1, <2>2, <2>4, VerifiedRowMoves
  <2>5. QED
    BY <1>2, <2>3, <2>4 DEF WriteHoldings, holdingsVars
<1>3. QED
  BY <1>1, <1>2, HoldingsSteps

\* What a verified row says is what the chain said at the row's slot
\* (apply.ts:79-83, 299-301).
THEOREM VerifiedRowsAreReadings == IndexSpec => []VerifiedRowIsTheChain
<1>1. IndexInit => VerifiedRowIsTheChain
  BY JournalStarts
<1>2. IndexSpec => []PipelineInv
  BY IndexImplementsPipeline, PipelineInvHolds, PTL
<1>3. QED
  BY <1>1, <1>2, JournalInvHolds, VerifiedKept, PTL DEF IndexSpec

-----------------------------------------------------------------------------
(* The backfill by itself writes the cap table. *)

\* What is applied is the chain up to some transaction, and no row was read
\* from the chain.
OnChain ==
    /\ \A t \in Txs, u \in applied : t < u => t \in applied
    /\ reconciled = {}

FollowInv == BackfillInv /\ JournalInv /\ OnChain

\* In its order, a transfer finds the shares it moves.
LEMMA TransferFound ==
    ASSUME FollowInv, NEW t \in Transfers, t \notin applied, TokenTx \in applied,
           landed \in Txs, t <= landed, Moves[t].n > 0,
           \A u \in Txs : u < t => u \in applied
    PROVE  \A w \in Wallets : ~ Moved(t)[w].verified
<1> DEFINE from == Moves[t].from
           to == Moves[t].to
           source == SourceHolding(rows[from], t)
<1>1. /\ from \in Wallets /\ to \in Wallets /\ Moves[t].n \in Nat /\ t \in 1 .. NTx
      /\ TokenTx \in 1 .. NTx /\ TokenTx < t /\ NTx \in Nat
  BY TransferTyped, HoldingsAssumption, PipelineAssumption DEF Txs
<1>2. rows \in [Wallets -> Row] /\ \A w \in Wallets : rows[w] \in Row
  BY DEF FollowInv, JournalInv, RowsAreTheJournal, Row
<1>3. \A w \in Wallets : ~ rows[w].verified
  BY DEF FollowInv, JournalInv, OnChain
<1>4. applied \cap Transfers = Transfers \cap 1 .. t - 1
  <2>1. applied \subseteq 1 .. NTx
    <3>1. applied \subseteq 1 .. landed /\ landed \in 1 .. NTx
      BY DEF FollowInv, BackfillInv, PipelineInv, StoreInv, Txs
    <3>2. QED
      BY <1>1, <3>1
  <2>2. ASSUME NEW u \in applied \cap Transfers PROVE u \in 1 .. t - 1
    <3>1. u \in 1 .. NTx /\ u # t
      BY <2>1
    <3>2. ~ (t < u)
      BY <1>1 DEF FollowInv, OnChain, Txs
    <3>3. QED
      BY <1>1, <3>1, <3>2
  <2>3. ASSUME NEW u \in Transfers \cap 1 .. t - 1 PROVE u \in applied
    BY <1>1 DEF Txs
  <2>4. QED
    BY <2>2, <2>3
<1>5. AmountOf(rows[from]) = Chain(from, t - 1)
  <2>1. AmountOf(rows[from]) = BalanceAfter(from, applied \cap Transfers)
    BY <1>1 DEF FollowInv, JournalInv, RowsAreTheJournal, OnChain
  <2>2. ~ (t - 1 < TokenTx)
    BY <1>1
  <2>3. QED
    BY <1>4, <2>1, <2>2 DEF Chain
<1>6. Moves[t].n <= AmountOf(rows[from]) /\ AmountOf(rows[from]) \in Nat
  BY <1>1, <1>2, <1>5, NoOverdraft, RowFields
<1>7. rows[from] # NoRow /\ rows[from].amount = AmountOf(rows[from])
  <2>1. AmountOf(rows[from]) # 0
    BY <1>1, <1>6
  <2>2. QED
    BY <2>1 DEF AmountOf
<1>8. source \in HoldingRow /\ source \in Row /\ ~ source.verified
  <2>1. Moves[t].n <= rows[from].amount
    BY <1>6, <1>7
  <2>2. source \in HoldingRow /\ ~ source.verified
    BY <1>1, <1>2, <1>3, <1>7, <2>1, SourceRow
  <2>3. QED
    BY <2>2 DEF Row
<1>9. \A known \in Row : ~ known.verified => ~ DestinationHolding(known, t).verified
  BY DestinationRow
<1>10. ASSUME NEW w \in Wallets PROVE ~ Moved(t)[w].verified
  <2>1. CASE w # from /\ w # to
    BY <1>2, <1>3, <2>1, MovedRows
  <2>2. CASE w = from /\ w # to
    BY <1>2, <1>8, <2>2, MovedRows
  <2>3. CASE w # from /\ w = to
    BY <1>2, <1>3, <1>9, <2>3, MovedRows
  <2>4. CASE w = from /\ w = to
    BY <1>2, <1>8, <1>9, <2>4, MovedRows
  <2>5. QED
    BY <2>1, <2>2, <2>3, <2>4
<1>11. QED
  BY <1>10

\* The transaction in hand is the pass's next one.
LEMMA NextInOrder ==
    ASSUME BackfillInv, queue # <<>>
    PROVE  \A u \in Txs : u < tx => u \in applied
<1>1. queue[1].from = "pass" /\ 1 \in DOMAIN queue /\ tx = queue[1].tx
  <2>1. queue \in Seq(Entry)
    BY DEF BackfillInv, PipelineInv, ChainInv
  <2>2. 1 \in DOMAIN queue /\ Head(queue) = queue[1]
    BY <2>1
  <2>3. QED
    BY <2>2 DEF tx, BackfillInv, PassInOrder
<1>2. tx = pass.todo[1] /\ pass.todo # <<>>
  BY <1>1 DEF BackfillInv, PipelineInv, ChainInv, OnePassEntry
<1>3. QED
  BY <1>2 DEF BackfillInv, PassInOrder, ListInOrder

\* Without the subscription transactions are applied in the chain's order, and
\* no row is ever reconciled.
LEMMA FollowKept ==
    ASSUME \A t \in Transfers : Moves[t].n > 0
    PROVE  FollowInv /\ [IndexNext]_indexVars => OnChain'
<1> SUFFICES ASSUME FollowInv, [IndexNext]_indexVars PROVE OnChain'
  OBVIOUS
<1>1. CASE UNCHANGED <<applied, rows, reconciled>>
  BY <1>1 DEF FollowInv, OnChain
<1>2. CASE /\ ~ UNCHANGED <<applied, rows, reconciled>>
           /\ tx \in Txs /\ tx <= landed /\ landed' = landed
           /\ Parent[tx] = 0 \/ Parent[tx] \in applied
           /\ applied' = applied \cup {tx}
           /\ WriteHoldings
  <2>1. landed \in Txs
    <3>1. landed \in 0 .. NTx /\ NTx \in Nat
      BY PipelineAssumption DEF FollowInv, BackfillInv, PipelineInv, StoreInv
    <3>2. QED
      BY <1>2, <3>1 DEF Txs
  <2>2. queue # <<>>
    BY <1>2 DEF IndexNext, ApplyIndex, Apply, ApplyThrowsAfterCommit, InHand, Elsewhere,
                rowVars, holdingsVars, Land, Notify, PassStep, StartPass, FetchNext,
                NotServed, FetchThrows, EndPass, Skip, ApplyThrows, Save, SaveThrows,
                Restart, databaseVars, indexVars, vars
  <2>3. \A u \in Txs : u < tx => u \in applied
    BY <2>2, NextInOrder DEF FollowInv
  <2>4. ASSUME NEW t \in Txs, NEW u \in applied', t < u PROVE t \in applied'
    BY <1>2, <2>3, <2>4 DEF FollowInv, OnChain
  <2>5. reconciled' = {}
    <3>1. CASE UNCHANGED reconciled
      BY <3>1 DEF FollowInv, OnChain
    <3>2. CASE /\ tx \in Transfers /\ ~ Journaled(tx)
               /\ rows' = Moved(tx)
               /\ reconciled' = reconciled \cup {w \in Wallets : rows'[w].verified}
      <4>1. TokenTx \in applied
        <5>1. Parent[tx] = TokenTx /\ TokenTx \in Nat \ {0}
          BY <3>2, TransferTyped, HoldingsAssumption, PipelineAssumption DEF Txs
        <5>2. QED
          BY <1>2, <5>1
      <4>2. \A w \in Wallets : ~ rows'[w].verified
        BY <1>2, <2>1, <2>3, <3>2, <4>1, TransferFound DEF Journaled
      <4>3. QED
        BY <3>2, <4>2 DEF FollowInv, OnChain
    <3>3. QED
      BY <1>2, <3>1, <3>2 DEF WriteHoldings, holdingsVars
  <2>6. QED
    BY <2>4, <2>5 DEF OnChain
<1>3. QED
  BY <1>1, <1>2, HoldingsSteps DEF FollowInv, BackfillInv

\* What is applied is the chain up to the greatest of them.
LEMMA GreatestApplied ==
    ASSUME NEW A, A \subseteq Txs, A # {}, \A t \in Txs, u \in A : t < u => t \in A
    PROVE  Max(A) \in Txs /\ A = 1 .. Max(A)
<1>1. NTx \in Nat /\ A \subseteq 1 .. NTx /\ \A u \in A : u \in Nat
  BY PipelineAssumption DEF Txs
<1>2. A \subseteq Int /\ NTx \in Int /\ \A u \in A : u <= NTx
  BY <1>1
<1>3. Max(A) \in A /\ \A u \in A : u <= Max(A)
  BY <1>2, IntMaximum
<1>4. \A t \in 1 .. Max(A) : t \in A
  <2>1. ASSUME NEW t \in 1 .. Max(A) PROVE t \in A
    <3> DEFINE last == Max(A)
    <3>0. last \in 1 .. NTx
      BY <1>1, <1>3
    <3> HIDE DEF last
    <3>1. t \in 1 .. NTx /\ (t = last \/ t < last)
      <4>1. t \in 1 .. last
        BY DEF last
      <4>2. QED
        BY <1>1, <3>0, <4>1
    <3> USE DEF last
    <3>2. QED
      BY <1>3, <3>1 DEF Txs
  <2>2. QED
    BY <2>1
<1>5. \A u \in A : u \in 1 .. Max(A)
  BY <1>1, <1>3
<1>6. QED
  BY <1>3, <1>4, <1>5

\* So every row is what the chain had then.
LEMMA FollowsTheChain == FollowInv => RowsFollowTheChain
<1> SUFFICES ASSUME FollowInv, applied # {}, NEW w \in Wallets
             PROVE  AmountOf(rows[w]) = Chain(w, Max(applied))
  BY DEF RowsFollowTheChain, FollowInv, OnChain
<1> DEFINE m == Max(applied)
<1>1. applied \subseteq Txs
  <2>1. applied \subseteq 1 .. landed /\ landed \in 0 .. NTx /\ NTx \in Nat
    BY PipelineAssumption DEF FollowInv, BackfillInv, PipelineInv, StoreInv
  <2>2. QED
    BY <2>1 DEF Txs
<1>2. m \in Txs /\ applied = 1 .. m
  BY <1>1, GreatestApplied DEF FollowInv, OnChain
<1> HIDE DEF m
<1>3. TokenTx \in 1 .. NTx /\ m \in 1 .. NTx
  BY <1>2, HoldingsAssumption DEF Txs
<1>4. CASE m < TokenTx
  <2>1. TokenTx \notin applied
    BY <1>2, <1>3, <1>4
  <2>2. rows[w] = NoRow
    BY <2>1 DEF FollowInv, JournalInv
  <2>3. QED
    BY <1>4, <2>2 DEF Chain, AmountOf, m
<1>5. CASE ~ (m < TokenTx)
  <2>1. TokenTx \in applied
    BY <1>2, <1>3, <1>5
  <2>2. AmountOf(rows[w]) = BalanceAfter(w, applied \cap Transfers)
    BY <2>1 DEF FollowInv, JournalInv, RowsAreTheJournal, OnChain
  <2>3. applied \cap Transfers = Transfers \cap 1 .. m
    BY <1>2
  <2>4. QED
    BY <1>5, <2>2, <2>3 DEF Chain, m
<1>6. QED
  BY <1>4, <1>5

\* With the backfill alone, through errors, restarts and replays, the rows are
\* the cap table just after the last transaction applied, and none was ever read
\* from the chain (apply.ts:369-407).  A transfer of nothing is left out: from a
\* wallet without a row it sends the worker to the chain.
THEOREM BackfillWritesTheCapTable ==
    ASSUME ~ Live, \A t \in Transfers : Moves[t].n > 0
    PROVE  IndexSpec => []RowsFollowTheChain
<1>1. IndexInit => OnChain
  BY DEF IndexInit, Init, HoldingsInit, OnChain
<1>2. IndexSpec => []BackfillInv
  BY IndexImplementsPipeline, BackfillInvHolds, PTL
<1>3. BackfillInv /\ JournalInv /\ OnChain /\ [IndexNext]_indexVars => OnChain'
  BY FollowKept DEF FollowInv
<1>4. BackfillInv /\ JournalInv /\ OnChain => RowsFollowTheChain
  BY FollowsTheChain DEF FollowInv
<1>5. QED
  BY <1>1, <1>2, <1>3, <1>4, JournalInvHolds, PTL DEF IndexSpec

-----------------------------------------------------------------------------
(* The rows that mirror the settings. *)

\* Two transactions that change the roles fall in different seconds, and two
\* that change one investor's status in different slots.
OwnStamps ==
    /\ \A p, q \in OfRoles(Txs) : At(p).stamp = At(q).stamp => p[1] = q[1]
    /\ \A w \in Investors : \A p, q \in OfStatus(Txs, w) :
            Slot[p[1]] = Slot[q[1]] => p[1] = q[1]

Mark == [stamp : Nat \cup {NoStamp}, value : STRING \cup {Blank.value}]
SettingRows == [roles : Mark, policy : Mark, status : [Investors -> Mark]]

\* What the event at a place writes into a row: its own stamp, or its slot.
Setting == [p \in Places(Txs) |-> [stamp |-> At(p).stamp, value |-> At(p).value]]
Standing == [p \in Places(Txs) |-> [stamp |-> Slot[p[1]], value |-> At(p).value]]

UpTo(p, q) == p = q \/ Before(p, q)

\* Those of these places that belong to transactions of the set.
Among(places, txs) == {p \in places : p[1] \in txs}

\* The row is what the newest of these places wrote.
SaysNewest(row, places, written) ==
    \/ places = {} /\ row = Blank
    \/ \E q \in places : row = written[q] /\ \A p \in places : UpTo(p, q)

\* How the row hears the event at place p: it is left alone or takes it, and
\* takes it when it is blank or older.
Hears(places, written, p, before, after) ==
    IF p \notin places
    THEN after = before
    ELSE /\ after \in {before, written[p]}
         /\ before = Blank => after = written[p]
         /\ \A q \in places :
                before = written[q] /\ UpTo(q, p) => after = written[p]

\* It does not when it has what a later transaction wrote.
Takes(places, written, p, before, after) ==
    /\ Hears(places, written, p, before, after)
    /\ p \in places => \A q \in places :
            before = written[q] /\ Before(p, q) /\ q[1] # p[1] => after = before

\* The policy, and all of them.
PolicyInv == Rows \in SettingRows /\ SaysNewest(policy, OfPolicy(applied), Setting)

SettingsInv ==
    /\ PolicyInv
    /\ SaysNewest(roles, OfRoles(applied), Setting)
    /\ \A w \in Investors : SaysNewest(status[w], OfStatus(applied, w), Standing)

\* The rows after a transaction are what their recursion says: there is such a
\* function, as it is built event by event.
LEMMA EventsRead ==
    ASSUME NEW r, NEW t, Len(Events[t]) \in Nat
    PROVE  /\ AfterEvents(r, t)[0] = r
           /\ \A i \in 1 .. Len(Events[t]) :
                 AfterEvents(r, t)[i]
                    = Written(AfterEvents(r, t)[i - 1], Slot[t], Events[t][i])
<1> DEFINE N == Len(Events[t])
           Value(g, i) == IF i = 0 THEN r
                          ELSE Written(g[i - 1], Slot[t], Events[t][i])
           Built(n) == \E g : g = [i \in 0 .. n |-> Value(g, i)]
           T == {n \in Nat : Built(n)}
<1> HIDE DEF N
<1>1. 0 \in T
  <2> DEFINE g == [i \in 0 .. 0 |-> r]
  <2>1. g = [i \in 0 .. 0 |-> Value(g, i)]
    OBVIOUS
  <2> HIDE DEF g, Value
  <2>2. QED
    BY <2>1
<1>2. ASSUME NEW n \in Nat, n \in T PROVE n + 1 \in T
  <2>1. PICK g : g = [i \in 0 .. n |-> Value(g, i)]
    BY <1>2
  <2> DEFINE h == [i \in 0 .. n + 1 |->
                      IF i \in 0 .. n THEN g[i]
                      ELSE Written(g[n], Slot[t], Events[t][n + 1])]
  <2>2. ASSUME NEW i \in 0 .. n + 1 PROVE h[i] = Value(h, i)
    <3>1. CASE i = 0
      <4>1. h[i] = g[0] /\ 0 \in 0 .. n
        BY <3>1
      <4>2. g[0] = r
        BY <2>1, <4>1
      <4>3. QED
        BY <3>1, <4>1, <4>2
    <3>2. CASE i \in 1 .. n
      <4>1. i \in 0 .. n /\ i - 1 \in 0 .. n /\ i - 1 \in 0 .. n + 1 /\ i # 0
        BY <3>2
      <4>2. h[i] = g[i] /\ h[i - 1] = g[i - 1]
        BY <2>2, <4>1
      <4>3. g[i] = Written(g[i - 1], Slot[t], Events[t][i])
        BY <2>1, <4>1
      <4>4. QED
        BY <4>1, <4>2, <4>3
    <3>3. CASE i = n + 1
      <4>1. /\ n \in 0 .. n /\ n \in 0 .. n + 1
            /\ i \notin 0 .. n /\ i # 0 /\ i - 1 = n
        BY <3>3
      <4>2. h[i] = Written(g[n], Slot[t], Events[t][n + 1]) /\ h[n] = g[n]
        BY <2>2, <4>1
      <4>3. QED
        BY <3>3, <4>1, <4>2
    <3>4. QED
      BY <3>1, <3>2, <3>3
  <2> HIDE DEF Value
  <2>3. h = [i \in 0 .. n + 1 |-> Value(h, i)]
    BY <2>2
  <2> HIDE DEF h
  <2>4. QED
    BY <2>3
<1>3. N \in T
  <2> HIDE DEF T
  <2>1. N \in Nat
    BY DEF N
  <2>2. QED
    BY <1>1, <1>2, <2>1, Counting
<1> DEFINE after == AfterEvents(r, t)
<1>4. after = CHOOSE g : g = [i \in 0 .. N |-> Value(g, i)]
  BY DEF AfterEvents, N
<1>5. after = [i \in 0 .. N |-> Value(after, i)]
  <2> HIDE DEF Value, after
  <2>1. \E g : g = [i \in 0 .. N |-> Value(g, i)]
    BY <1>3
  <2>2. QED
    BY <1>4, <2>1
<1>6. N \in Nat
  BY DEF N
<1> HIDE DEF after
<1>7. after[0] = r
  BY <1>5, <1>6
<1>8. ASSUME NEW i \in 1 .. N
      PROVE  after[i] = Written(after[i - 1], Slot[t], Events[t][i])
  <2>1. i \in 0 .. N /\ i # 0
    BY <1>6
  <2>2. QED
    BY <1>5, <2>1
<1>9. QED
  BY <1>7, <1>8 DEF N, after

\* A place is a transaction and the number of one of its events.
LEMMA PlaceFacts ==
    /\ \A p \in Places(Txs) :
          /\ p[1] \in Txs /\ p[2] \in 1 .. Len(Events[p[1]])
          /\ p = <<p[1], p[2]>> /\ At(p) \in Event
    /\ \A t \in Txs :
          /\ Len(Events[t]) \in Nat
          /\ \A i \in 1 .. Len(Events[t]) :
                /\ <<t, i>> \in Places(Txs)
                /\ At(<<t, i>>) = Events[t][i] /\ Events[t][i] \in Event
<1>1. ASSUME NEW t \in Txs
      PROVE  /\ Len(Events[t]) \in Nat /\ DOMAIN Events[t] = 1 .. Len(Events[t])
             /\ \A i \in 1 .. Len(Events[t]) : Events[t][i] \in Event
  <2>1. Events[t] \in Seq(Event)
    BY RegistryAssumption
  <2>2. QED
    BY <2>1
<1>2. ASSUME NEW p \in Places(Txs)
      PROVE  /\ p[1] \in Txs /\ p[2] \in 1 .. Len(Events[p[1]])
             /\ p = <<p[1], p[2]>> /\ At(p) \in Event
  <2>1. PICK t \in Txs : p \in {<<t, i>> : i \in DOMAIN Events[t]}
    BY DEF Places
  <2>2. PICK i \in DOMAIN Events[t] : p = <<t, i>>
    BY <2>1
  <2>3. p[1] = t /\ p[2] = i
    BY <2>2
  <2>4. QED
    BY <1>1, <2>2, <2>3 DEF At
<1>3. ASSUME NEW t \in Txs, NEW i \in 1 .. Len(Events[t])
      PROVE  <<t, i>> \in Places(Txs) /\ At(<<t, i>>) = Events[t][i]
  <2>1. i \in DOMAIN Events[t]
    BY <1>1
  <2>2. <<t, i>> \in {<<t, j>> : j \in DOMAIN Events[t]}
    BY <2>1
  <2>3. QED
    BY <2>2 DEF Places, At
<1>4. QED
  BY <1>1, <1>2, <1>3

\* Places are in one order.
LEMMA PlacesInOrder ==
    ASSUME NEW p \in Places(Txs), NEW q \in Places(Txs)
    PROVE  /\ UpTo(p, q) \/ Before(q, p)
           /\ ~ (UpTo(p, q) /\ Before(q, p))
           /\ \A r \in Places(Txs) : UpTo(p, q) /\ UpTo(q, r) => UpTo(p, r)
           /\ p[1] < q[1] => Before(p, q)
           /\ Before(p, q) => p[1] <= q[1]
<1>1. \A r \in Places(Txs) : r[1] \in Int /\ r[2] \in Int /\ r = <<r[1], r[2]>>
  <2>1. ASSUME NEW r \in Places(Txs)
        PROVE  r[1] \in Int /\ r[2] \in Int /\ r = <<r[1], r[2]>>
    <3>1. /\ r[1] \in 1 .. NTx /\ r[2] \in 1 .. Len(Events[r[1]])
          /\ r = <<r[1], r[2]>>
      BY PlaceFacts DEF Txs
    <3>2. NTx \in Int /\ Len(Events[r[1]]) \in Int
      BY <3>1, PlaceFacts, PipelineAssumption DEF Txs
    <3>3. QED
      BY <3>1, <3>2
  <2>2. QED
    BY <2>1
<1>2. p[1] = q[1] /\ p[2] = q[2] => p = q
  BY <1>1
<1>3. ASSUME NEW r \in Places(Txs), UpTo(p, q), UpTo(q, r) PROVE UpTo(p, r)
  BY <1>1, <1>3 DEF UpTo, Before
<1>4. QED
  BY <1>1, <1>2, <1>3 DEF UpTo, Before

\* Whatever of a transaction was in a row before, reading its events once more
\* leaves what the newest of it and of the others wrote.
LEMMA RowRead ==
    ASSUME NEW places \in SUBSET Places(Txs), NEW written, NEW A \in SUBSET Txs,
           NEW t \in Txs, NEW row,
           SaysNewest(row[0], Among(places, A), written),
           \A i \in 1 .. Len(Events[t]) :
                Takes(places, written, <<t, i>>, row[i - 1], row[i])
    PROVE  SaysNewest(row[Len(Events[t])], Among(places, A \cup {t}), written)
<1> DEFINE N == Len(Events[t])
           Both == Among(places, A \cup {t})
           Others == {p \in places : p[1] \in A \ {t}}
           Read(n) == {p \in places : p[1] = t /\ p[2] <= n}
           Reaches(n, q) == row[n] = written[q] /\ \A p \in Others \cup Read(n) : UpTo(p, q)
           J(n) == \/ Among(places, A) \cup Read(n) = {} /\ row[n] = Blank
                   \/ \E q \in Both : Reaches(n, q)
           T == {n \in Nat : n <= N => J(n)}
<1>1. N \in Nat
  BY PlaceFacts
<1>2. \A p \in places : p \in Places(Txs) /\ p[2] \in Nat \ {0} /\ p = <<p[1], p[2]>>
  <2>1. ASSUME NEW p \in places
        PROVE  p \in Places(Txs) /\ p[2] \in Nat \ {0} /\ p = <<p[1], p[2]>>
    <3>1. /\ p \in Places(Txs) /\ p[1] \in Txs /\ p[2] \in 1 .. Len(Events[p[1]])
          /\ p = <<p[1], p[2]>>
      BY PlaceFacts
    <3>2. Len(Events[p[1]]) \in Nat
      BY <3>1, PlaceFacts
    <3>3. QED
      BY <3>1, <3>2
  <2>2. QED
    BY <2>1
<1>3. \A p \in places : p[1] = t => p[2] <= N
  BY PlaceFacts
<1>4. Both = Others \cup Read(N) /\ Among(places, A) \subseteq Both
  BY <1>3 DEF Among
<1> HIDE DEF N
<1>5. 0 \in T
  <2>1. Read(0) = {}
    BY <1>2
  <2>2. Others \subseteq Among(places, A)
    BY DEF Among
  <2>3. CASE Among(places, A) = {} /\ row[0] = Blank
    BY <2>1, <2>3
  <2>4. CASE \E q \in Among(places, A) :
                row[0] = written[q] /\ \A p \in Among(places, A) : UpTo(p, q)
    BY <1>4, <2>1, <2>2, <2>4
  <2>5. QED
    BY <2>3, <2>4 DEF SaysNewest
<1> HIDE DEF J
<1>6. ASSUME NEW m \in Nat, m \in T PROVE m + 1 \in T
  <2> SUFFICES ASSUME m + 1 <= N PROVE J(m + 1)
    BY <1>6
  <2> DEFINE n == m + 1
             p == <<t, n>>
  <2>1. J(m) /\ n \in 1 .. N /\ n - 1 = m
    BY <1>1, <1>6
  <2> USE DEF J
  <2>2. /\ p \in Places(Txs) /\ p[1] = t /\ p[2] = n
        /\ Takes(places, written, p, row[m], row[n])
    BY <2>1, PlaceFacts DEF N
  <2>3. \A r \in Read(n) : r \in Read(m) \/ r = p
    BY <1>2, <2>1
  <2> HIDE DEF p
  <2>4. CASE p \notin places
    <3>1. Read(n) \subseteq Read(m) /\ row[n] = row[m]
      BY <2>2, <2>3, <2>4 DEF Takes, Hears
    <3> HIDE DEF Read
    <3>2. QED
      BY <2>1, <3>1
  <2>5. CASE p \in places
    <3>1. p \in Both /\ p \in Read(n)
      BY <2>1, <2>2, <2>5 DEF Among
    <3>3. \A r \in Read(m) : UpTo(r, p)
      BY <1>2, <2>1, <2>2 DEF UpTo, Before
    <3>4. CASE Among(places, A) \cup Read(m) = {} /\ row[m] = Blank
      <4>1. row[n] = written[p]
        BY <2>2, <2>5, <3>4 DEF Takes, Hears
      <4>2. \A r \in Others \cup Read(n) : r = p
        BY <2>3, <3>4 DEF Among
      <4>3. Reaches(n, p)
        BY <4>1, <4>2 DEF UpTo
      <4>4. QED
        BY <3>1, <4>3
    <3>5. ASSUME NEW q \in Both, Reaches(m, q) PROVE J(n)
      <4>1. q \in places /\ q \in Places(Txs)
        BY <1>2 DEF Among
      <4>2. CASE UpTo(q, p)
        <5>1. row[n] = written[p]
          BY <2>2, <2>5, <3>5, <4>1, <4>2 DEF Takes, Hears
        <5>2. ASSUME NEW r \in Others PROVE UpTo(r, p)
          <6>1. UpTo(r, q) /\ r \in Places(Txs)
            BY <1>2, <3>5
          <6>2. QED
            BY <2>2, <4>1, <4>2, <6>1, PlacesInOrder
        <5>3. Reaches(n, p)
          BY <2>3, <3>3, <5>1, <5>2 DEF UpTo
        <5>4. QED
          BY <3>1, <5>3
      <4>3. CASE Before(p, q) /\ row[n] = row[m]
        <5>1. \A r \in Others \cup Read(n) : UpTo(r, q)
          BY <2>3, <3>5, <4>3 DEF UpTo
        <5>2. Reaches(n, q)
          BY <3>5, <4>3, <5>1
        <5>3. QED
          BY <5>2
      <4>4. CASE Before(p, q) /\ q[1] = t /\ row[n] = written[p]
        <5>1. ASSUME NEW r \in Others PROVE UpTo(r, p)
          <6>1. UpTo(r, q) /\ r \in Places(Txs) /\ r[1] # t
            BY <1>2, <3>5
          <6>2. ~ Before(p, r)
            <7>1. SUFFICES ASSUME Before(p, r) PROVE FALSE
              OBVIOUS
            <7>2. p[1] <= r[1] /\ r[1] <= q[1]
              <8>1. p[1] <= r[1]
                BY <2>2, <6>1, <7>1, PlacesInOrder
              <8>2. r # q
                BY <4>4, <6>1
              <8>3. Before(r, q)
                BY <6>1, <8>2 DEF UpTo
              <8>4. QED
                BY <4>1, <6>1, <8>1, <8>3, PlacesInOrder
            <7>3. r[1] \in Int /\ t \in Int
              BY <6>1, PlaceFacts DEF Txs
            <7>4. QED
              BY <2>2, <4>4, <6>1, <7>2, <7>3
          <6>3. QED
            BY <2>2, <6>1, <6>2, PlacesInOrder
        <5>2. Reaches(n, p)
          BY <2>3, <3>3, <4>4, <5>1 DEF UpTo
        <5>3. QED
          BY <3>1, <5>2
      <4>5. UpTo(q, p) \/ Before(p, q)
        BY <2>2, <4>1, PlacesInOrder
      <4>6. row[n] \in {row[m], written[p]}
        BY <2>2, <2>5 DEF Takes, Hears
      <4>7. Before(p, q) /\ q[1] # t => row[n] = row[m]
        BY <2>2, <2>5, <3>5, <4>1 DEF Takes, Hears
      <4>8. QED
        BY <4>2, <4>3, <4>4, <4>5, <4>6, <4>7
    <3>6. QED
      BY <2>1, <3>4, <3>5
  <2>6. QED
    BY <2>4, <2>5
<1>7. J(N)
  <2>1. N \in T
    <3> HIDE DEF T
    <3>1. QED
      BY <1>1, <1>5, <1>6, Counting
  <2>2. QED
    BY <1>1, <2>1
<1> USE DEF J
<1>8. CASE Among(places, A) \cup Read(N) = {} /\ row[N] = Blank
  <2>1. Both = {}
    BY <1>4, <1>8 DEF Among
  <2>2. QED
    BY <1>8, <2>1 DEF SaysNewest, N
<1>9. CASE \E q \in Both : Reaches(N, q)
  BY <1>4, <1>9 DEF SaysNewest, N
<1>10. QED
  BY <1>7, <1>8, <1>9

\* What one event does, row by row.
RowByRow(r, slot, e, after) ==
    /\ after.roles = IF e.kind = "CompanyCreated" THEN Created(r.roles, e)
                     ELSE IF e.kind = "RolesSet" THEN RolesSet(r.roles, e)
                     ELSE r.roles
    /\ after.policy = IF e.kind = "TokenCreated" THEN Created(r.policy, e)
                      ELSE IF e.kind = "PolicySet" THEN PolicySet(r.policy, e)
                      ELSE r.policy
    /\ \A w \in Investors :
          after.status[w] = IF e.kind = "InvestorStatusSet" /\ e.wallet = w
                            THEN StatusSet(r.status[w], slot, e)
                            ELSE r.status[w]

\* Written is that, and keeps the rows' type.
LEMMA RowsWritten ==
    ASSUME NEW r \in SettingRows, NEW slot \in Nat, NEW e \in Event, NEW after,
           after = Written(r, slot, e)
    PROVE  after \in SettingRows /\ RowByRow(r, slot, e, after)
<1>1. /\ r = [roles |-> r.roles, policy |-> r.policy, status |-> r.status]
      /\ r.roles \in Mark /\ r.policy \in Mark /\ r.status \in [Investors -> Mark]
  BY DEF SettingRows
<1>2. CASE e.kind \in {"CompanyCreated", "TokenCreated", "RolesSet", "PolicySet"}
  <2>1. [stamp |-> e.stamp, value |-> e.value] \in Mark
    BY <1>2 DEF Event, Mark
  <2>2. CASE e.kind = "CompanyCreated"
    <3>1. after = [r EXCEPT !.roles = Created(r.roles, e)]
      BY <2>2 DEF Written
    <3>2. Created(r.roles, e) \in Mark
      BY <1>1, <2>1 DEF Created
    <3>3. QED
      BY <1>1, <2>2, <3>1, <3>2 DEF SettingRows, RowByRow
  <2>3. CASE e.kind = "TokenCreated"
    <3>1. after = [r EXCEPT !.policy = Created(r.policy, e)]
      BY <2>3 DEF Written
    <3>2. Created(r.policy, e) \in Mark
      BY <1>1, <2>1 DEF Created
    <3>3. QED
      BY <1>1, <2>3, <3>1, <3>2 DEF SettingRows, RowByRow
  <2>4. CASE e.kind = "RolesSet"
    <3>1. after = [r EXCEPT !.roles = RolesSet(r.roles, e)]
      BY <2>4 DEF Written
    <3>2. RolesSet(r.roles, e) \in Mark
      BY <1>1, <2>1 DEF RolesSet
    <3>3. QED
      BY <1>1, <2>4, <3>1, <3>2 DEF SettingRows, RowByRow
  <2>5. CASE e.kind = "PolicySet"
    <3>1. after = [r EXCEPT !.policy = PolicySet(r.policy, e)]
      BY <2>5 DEF Written
    <3>2. PolicySet(r.policy, e) \in Mark
      BY <1>1, <2>1 DEF PolicySet
    <3>3. QED
      BY <1>1, <2>5, <3>1, <3>2 DEF SettingRows, RowByRow
  <2>6. QED
    BY <1>2, <2>2, <2>3, <2>4, <2>5
<1>3. CASE e.kind = "InvestorStatusSet"
  <2>1. e.wallet \in Investors /\ e.value \in STRING
    BY <1>3 DEF Event
  <2>2. after = [r EXCEPT !.status[e.wallet] = StatusSet(r.status[e.wallet], slot, e)]
    BY <1>3 DEF Written
  <2>3. StatusSet(r.status[e.wallet], slot, e) \in Mark
    BY <1>1, <2>1 DEF StatusSet, Mark
  <2>4. QED
    BY <1>1, <1>3, <2>1, <2>2, <2>3 DEF SettingRows, RowByRow
<1>4. QED
  BY <1>2, <1>3 DEF Event

\* Where a place that changes the roles, the policy or a status stands.
LEMMA SettingPlaces ==
    /\ OfRoles(Txs) \subseteq Places(Txs) /\ OfPolicy(Txs) \subseteq Places(Txs)
    /\ \A w \in Investors : OfStatus(Txs, w) \subseteq Places(Txs)
    /\ \A p \in OfRoles(Txs) :
          \/ At(p).kind = "CompanyCreated" /\ At(p).stamp = NoStamp
          \/ At(p).kind = "RolesSet" /\ At(p).stamp \in Nat
    /\ \A p \in OfPolicy(Txs) :
          At(p).kind \in {"TokenCreated", "PolicySet"} /\ At(p).stamp \in Nat
<1>1. /\ OfRoles(Txs) \subseteq Places(Txs) /\ OfPolicy(Txs) \subseteq Places(Txs)
      /\ \A w \in Investors : OfStatus(Txs, w) \subseteq Places(Txs)
  BY DEF OfRoles, OfPolicy, OfStatus
<1>2. \A p \in Places(Txs) : At(p) \in Event
  BY PlaceFacts
<1>3. ASSUME NEW p \in OfRoles(Txs)
      PROVE  \/ At(p).kind = "CompanyCreated" /\ At(p).stamp = NoStamp
             \/ At(p).kind = "RolesSet" /\ At(p).stamp \in Nat
  <2>1. At(p) \in Event /\ At(p).kind \in {"CompanyCreated", "RolesSet"}
    BY <1>2 DEF OfRoles
  <2>2. QED
    BY <2>1 DEF Event
<1>4. ASSUME NEW p \in OfPolicy(Txs)
      PROVE  At(p).kind \in {"TokenCreated", "PolicySet"} /\ At(p).stamp \in Nat
  <2>1. At(p) \in Event /\ At(p).kind \in {"TokenCreated", "PolicySet"}
    BY <1>2 DEF OfPolicy
  <2>2. QED
    BY <2>1 DEF Event
<1>5. QED
  BY <1>1, <1>3, <1>4

\* The roles row takes a change that is not older than it.
LEMMA RolesTaken ==
    ASSUME NEW p \in OfRoles(Txs), NEW row \in Mark, NEW after,
           after = IF At(p).kind = "CompanyCreated" THEN Created(row, At(p))
                   ELSE RolesSet(row, At(p))
    PROVE  /\ Hears(OfRoles(Txs), Setting, p, row, after)
           /\ OwnStamps => Takes(OfRoles(Txs), Setting, p, row, after)
<1>1. p \in Places(Txs) /\ Setting[p] = [stamp |-> At(p).stamp, value |-> At(p).value]
  BY SettingPlaces DEF Setting
<1>2. \/ At(p).kind = "CompanyCreated" /\ At(p).stamp = NoStamp
      \/ At(p).kind = "RolesSet" /\ At(p).stamp \in Nat
  BY SettingPlaces
<1>3. after \in {row, Setting[p]} /\ (row = Blank => after = Setting[p])
  BY <1>1, <1>2 DEF Created, RolesSet, Blank
<1>4. ASSUME NEW q \in OfRoles(Txs), row = Setting[q], UpTo(q, p)
      PROVE  after = Setting[p]
  <2>1. CASE q = p
    BY <1>3, <1>4, <2>1
  <2>2. CASE Before(q, p)
    <3>1. At(p).kind = "RolesSet" /\ At(q).stamp <= At(p).stamp
      BY <2>2, RegistryAssumption
    <3>2. row.stamp = At(q).stamp
      BY <1>4, SettingPlaces DEF Setting
    <3>3. QED
      BY <1>1, <3>1, <3>2 DEF RolesSet
  <2>3. QED
    BY <1>4, <2>1, <2>2 DEF UpTo
<1>5. ASSUME OwnStamps, NEW q \in OfRoles(Txs), row = Setting[q],
             Before(p, q), q[1] # p[1]
      PROVE  after = row
  <2>1. At(q).kind = "RolesSet" /\ At(p).stamp <= At(q).stamp /\ At(q).stamp \in Nat
    <3>1. At(q).kind = "RolesSet" /\ At(p).stamp <= At(q).stamp
      BY <1>5, RegistryAssumption
    <3>2. QED
      BY <3>1, SettingPlaces
  <2>2. At(p).stamp # At(q).stamp
    BY <1>5 DEF OwnStamps
  <2>3. row.stamp = At(q).stamp
    BY <1>5, SettingPlaces DEF Setting
  <2>4. row.stamp # NoStamp /\ ~ (row.stamp <= At(p).stamp)
    BY <1>2, <2>1, <2>2, <2>3 DEF NoStamp
  <2>5. row # Blank
    BY <2>4 DEF Blank
  <2>6. QED
    BY <2>4, <2>5 DEF Created, RolesSet
<1>6. QED
  BY <1>3, <1>4, <1>5 DEF Takes, Hears

\* The policy row takes a higher version.
LEMMA PolicyTaken ==
    ASSUME NEW p \in OfPolicy(Txs), NEW row \in Mark, NEW after,
           after = IF At(p).kind = "TokenCreated" THEN Created(row, At(p))
                   ELSE PolicySet(row, At(p))
    PROVE  Takes(OfPolicy(Txs), Setting, p, row, after)
<1>1. p \in Places(Txs) /\ Setting[p] = [stamp |-> At(p).stamp, value |-> At(p).value]
  BY SettingPlaces DEF Setting
<1>2. At(p).kind \in {"TokenCreated", "PolicySet"} /\ At(p).stamp \in Nat
  BY SettingPlaces
<1>3. after \in {row, Setting[p]} /\ (row = Blank => after = Setting[p])
  <2>1. row = Blank => row.stamp < At(p).stamp
    BY <1>2 DEF Blank, NoStamp
  <2>2. QED
    BY <1>1, <1>2, <2>1 DEF Created, PolicySet
<1>4. ASSUME NEW q \in OfPolicy(Txs), row = Setting[q], UpTo(q, p)
      PROVE  after = Setting[p]
  <2>1. CASE q = p
    BY <1>3, <1>4, <2>1
  <2>2. CASE Before(q, p)
    <3>1. At(p).kind = "PolicySet" /\ At(q).stamp < At(p).stamp
      BY <2>2, RegistryAssumption
    <3>2. row.stamp = At(q).stamp
      BY <1>4, SettingPlaces DEF Setting
    <3>3. QED
      BY <1>1, <3>1, <3>2 DEF PolicySet
  <2>3. QED
    BY <1>4, <2>1, <2>2 DEF UpTo
<1>5. ASSUME NEW q \in OfPolicy(Txs), row = Setting[q], Before(p, q), q[1] # p[1]
      PROVE  after = row
  <2>1. At(p).stamp < At(q).stamp /\ At(q).stamp \in Nat
    <3>1. At(p).stamp < At(q).stamp
      BY <1>5, RegistryAssumption
    <3>2. QED
      BY <3>1, SettingPlaces
  <2>2. row.stamp = At(q).stamp
    BY <1>5, SettingPlaces DEF Setting
  <2>3. row.stamp # NoStamp /\ ~ (row.stamp < At(p).stamp)
    BY <1>2, <2>1, <2>2 DEF NoStamp
  <2>4. row # Blank
    BY <2>3 DEF Blank
  <2>5. QED
    BY <2>3, <2>4 DEF Created, PolicySet
<1>6. QED
  BY <1>3, <1>4, <1>5 DEF Takes, Hears

\* An investor's row takes a status of a slot that is not earlier.
LEMMA StatusTaken ==
    ASSUME NEW w \in Investors, NEW p \in OfStatus(Txs, w),
           NEW row \in Mark, NEW after, after = StatusSet(row, Slot[p[1]], At(p))
    PROVE  /\ Hears(OfStatus(Txs, w), Standing, p, row, after)
           /\ OwnStamps => Takes(OfStatus(Txs, w), Standing, p, row, after)
<1>1. \A q \in OfStatus(Txs, w) :
          /\ q \in Places(Txs) /\ Slot[q[1]] \in Nat /\ q[1] \in Txs
          /\ Standing[q] = [stamp |-> Slot[q[1]], value |-> At(q).value]
          /\ Standing[q].stamp = Slot[q[1]]
  BY SettingPlaces, PlaceFacts, PipelineAssumption DEF Standing
<1>2. \A q, r \in OfStatus(Txs, w) : Before(q, r) => Slot[q[1]] <= Slot[r[1]]
  <2>1. SUFFICES ASSUME NEW q \in OfStatus(Txs, w), NEW r \in OfStatus(Txs, w),
                        Before(q, r)
                 PROVE  Slot[q[1]] <= Slot[r[1]]
    OBVIOUS
  <2>2. q[1] \in Int /\ r[1] \in Int /\ q[1] <= r[1]
    <3>1. q[1] <= r[1]
      BY <1>1, <2>1, PlacesInOrder
    <3>2. q[1] \in 1 .. NTx /\ r[1] \in 1 .. NTx
      BY <1>1 DEF Txs
    <3>3. QED
      BY <3>1, <3>2
  <2>3. CASE q[1] = r[1]
    <3>1. Slot[q[1]] \in Nat
      BY <1>1
    <3>2. QED
      BY <2>3, <3>1
  <2>4. CASE q[1] < r[1]
    <3>1. q[1] \in Txs /\ r[1] \in Txs
      BY <1>1
    <3>2. QED
      BY <2>4, <3>1, PipelineAssumption
  <2>5. QED
    BY <2>2, <2>3, <2>4
<1>3. after \in {row, Standing[p]} /\ (row = Blank => after = Standing[p])
  BY <1>1 DEF StatusSet
<1>4. ASSUME NEW q \in OfStatus(Txs, w), row = Standing[q], UpTo(q, p)
      PROVE  after = Standing[p]
  <2>1. row.stamp <= Slot[p[1]]
    <3>1. row.stamp = Slot[q[1]] /\ Slot[q[1]] \in Nat
      BY <1>1, <1>4
    <3>2. CASE q = p
      BY <3>1, <3>2
    <3>3. CASE Before(q, p)
      BY <1>2, <3>1, <3>3
    <3>4. QED
      BY <1>4, <3>2, <3>3 DEF UpTo
  <2>2. QED
    BY <1>1, <2>1 DEF StatusSet
<1>5. ASSUME OwnStamps, NEW q \in OfStatus(Txs, w), row = Standing[q],
             Before(p, q), q[1] # p[1]
      PROVE  after = row
  <2>1. Slot[p[1]] # Slot[q[1]]
    BY <1>5 DEF OwnStamps
  <2>2. ~ (row.stamp <= Slot[p[1]]) /\ row.stamp # NoStamp
    <3>1. /\ row.stamp = Slot[q[1]] /\ Slot[q[1]] \in Nat /\ Slot[p[1]] \in Nat
          /\ Slot[p[1]] <= Slot[q[1]]
      BY <1>1, <1>2, <1>5
    <3>2. QED
      BY <2>1, <3>1 DEF NoStamp
  <2>3. QED
    BY <2>2 DEF StatusSet, Blank
<1>6. QED
  BY <1>3, <1>4, <1>5 DEF Takes, Hears

\* The places of a set of transactions are those of the chain among it.
LEMMA PlacesAmong ==
    ASSUME NEW txs, txs \subseteq Txs
    PROVE  /\ OfRoles(txs) = Among(OfRoles(Txs), txs)
           /\ OfPolicy(txs) = Among(OfPolicy(Txs), txs)
           /\ \A w \in Investors : OfStatus(txs, w) = Among(OfStatus(Txs, w), txs)
<1>1. Places(txs) = {p \in Places(Txs) : p[1] \in txs}
  <2>1. ASSUME NEW p \in Places(txs) PROVE p \in Places(Txs) /\ p[1] \in txs
    <3>1. PICK t \in txs : p \in {<<t, i>> : i \in DOMAIN Events[t]}
      BY DEF Places
    <3>2. p[1] = t /\ t \in Txs
      BY <3>1
    <3>3. QED
      BY <3>1, <3>2 DEF Places
  <2>2. ASSUME NEW p \in Places(Txs), p[1] \in txs PROVE p \in Places(txs)
    <3>1. PICK t \in Txs : p \in {<<t, i>> : i \in DOMAIN Events[t]}
      BY DEF Places
    <3>2. p[1] = t
      BY <3>1
    <3>3. QED
      BY <2>2, <3>1, <3>2 DEF Places
  <2>3. QED
    BY <2>1, <2>2
<1>2. QED
  BY <1>1 DEF OfRoles, OfPolicy, OfStatus, Among

\* The rows a transaction goes through, event by event.
LEMMA TransactionRead ==
    ASSUME Rows \in SettingRows, tx \in Txs, WriteRegistry, NEW after, NEW N,
           after = AfterEvents(Rows, tx), N = Len(Events[tx])
    PROVE  /\ N \in Nat /\ after[0] = Rows
           /\ \A i \in 0 .. N : after[i] \in SettingRows
           /\ \A i \in 1 .. N :
                 /\ <<tx, i>> \in Places(Txs)
                 /\ RowByRow(after[i - 1], Slot[tx], At(<<tx, i>>), after[i])
           /\ roles' = after[N].roles /\ policy' = after[N].policy
           /\ status' = after[N].status
           /\ Rows' \in SettingRows
<1> DEFINE T == {n \in Nat : n <= N => after[n] \in SettingRows}
<1>1. /\ N \in Nat /\ Slot[tx] \in Nat
      /\ \A i \in 1 .. N :
            /\ <<tx, i>> \in Places(Txs)
            /\ At(<<tx, i>>) = Events[tx][i] /\ Events[tx][i] \in Event
  BY PlaceFacts, PipelineAssumption
<1>2. /\ after[0] = Rows
      /\ \A i \in 1 .. N : after[i] = Written(after[i - 1], Slot[tx], Events[tx][i])
  BY <1>1, EventsRead
<1>3. \A i \in 0 .. N : after[i] \in SettingRows
  <2>1. 0 \in T
    BY <1>2
  <2>2. ASSUME NEW n \in Nat, n \in T PROVE n + 1 \in T
    <3>1. SUFFICES ASSUME n + 1 <= N PROVE after[n + 1] \in SettingRows
      OBVIOUS
    <3>2. after[n] \in SettingRows /\ n + 1 \in 1 .. N /\ (n + 1) - 1 = n
      BY <1>1, <2>2, <3>1
    <3>3. after[n + 1] = Written(after[n], Slot[tx], Events[tx][n + 1])
      BY <1>2, <3>2
    <3>4. QED
      BY <1>1, <3>2, <3>3, RowsWritten
  <2>3. Nat \subseteq T
    <3> HIDE DEF T
    <3>1. QED
      BY <2>1, <2>2, Counting
  <2>4. QED
    BY <1>1, <2>3
<1>4. ASSUME NEW i \in 1 .. N
      PROVE  RowByRow(after[i - 1], Slot[tx], At(<<tx, i>>), after[i])
  <2>1. /\ after[i - 1] \in SettingRows
        /\ after[i] = Written(after[i - 1], Slot[tx], At(<<tx, i>>))
        /\ At(<<tx, i>>) \in Event
    BY <1>1, <1>2, <1>3
  <2>2. QED
    BY <1>1, <2>1, RowsWritten
<1>5. /\ roles' = after[N].roles /\ policy' = after[N].policy
      /\ status' = after[N].status
  BY DEF WriteRegistry, AfterTransaction
<1>6. Rows' \in SettingRows
  BY <1>1, <1>3, <1>5 DEF Rows, SettingRows
<1>7. QED
  BY <1>1, <1>2, <1>3, <1>4, <1>5, <1>6

\* The values the roles' row goes through,
LEMMA RolesRead ==
    ASSUME Rows \in SettingRows, tx \in Txs, WriteRegistry
    PROVE  \E row :
              /\ row[0] = roles /\ row[Len(Events[tx])] = roles'
              /\ \A i \in 1 .. Len(Events[tx]) :
                    /\ Hears(OfRoles(Txs), Setting, <<tx, i>>, row[i - 1], row[i])
                    /\ OwnStamps =>
                          Takes(OfRoles(Txs), Setting, <<tx, i>>, row[i - 1], row[i])
<1> DEFINE N == Len(Events[tx])
           after == AfterEvents(Rows, tx)
           row == [i \in 0 .. N |-> after[i].roles]
<1>1. /\ N \in Nat /\ after[0] = Rows
      /\ \A i \in 0 .. N : after[i] \in SettingRows
      /\ \A i \in 1 .. N :
            /\ <<tx, i>> \in Places(Txs)
            /\ RowByRow(after[i - 1], Slot[tx], At(<<tx, i>>), after[i])
      /\ roles' = after[N].roles
  BY TransactionRead
<1> HIDE DEF N, after
<1>2. row[0] = roles /\ row[N] = roles'
  BY <1>1 DEF Rows
<1>3. \A i \in 1 .. N : row[i] = after[i].roles /\ row[i - 1] = after[i - 1].roles
  BY <1>1
<1> HIDE DEF row
<1>4. ASSUME NEW i \in 1 .. N
      PROVE  /\ Hears(OfRoles(Txs), Setting, <<tx, i>>, row[i - 1], row[i])
             /\ OwnStamps =>
                   Takes(OfRoles(Txs), Setting, <<tx, i>>, row[i - 1], row[i])
  <2> DEFINE p == <<tx, i>>
  <2>1. p \in Places(Txs) /\ p[1] = tx /\ row[i - 1] \in Mark
    <3>1. i - 1 \in 0 .. N
      BY <1>1
    <3>2. QED
      BY <1>1, <1>3, <3>1 DEF SettingRows
  <2>2. row[i] = IF At(p).kind = "CompanyCreated" THEN Created(row[i - 1], At(p))
                 ELSE IF At(p).kind = "RolesSet" THEN RolesSet(row[i - 1], At(p))
                 ELSE row[i - 1]
    BY <1>1, <1>3 DEF RowByRow
  <2> HIDE DEF p
  <2>3. CASE p \in OfRoles(Txs)
    <3>1. row[i] = IF At(p).kind = "CompanyCreated" THEN Created(row[i - 1], At(p))
                   ELSE RolesSet(row[i - 1], At(p))
      BY <2>1, <2>2, <2>3 DEF OfRoles
    <3>2. QED
      BY <2>1, <2>3, <3>1, RolesTaken DEF p
  <2>4. CASE p \notin OfRoles(Txs)
    <3>1. row[i] = row[i - 1]
      BY <2>1, <2>2, <2>4 DEF OfRoles
    <3>2. QED
      BY <2>4, <3>1 DEF Takes, Hears, p
  <2>5. QED
    BY <2>3, <2>4
<1>5. QED
  BY <1>2, <1>4 DEF N

\* and an investor's row, event by event.
LEMMA StatusRead ==
    ASSUME Rows \in SettingRows, tx \in Txs, WriteRegistry, NEW w \in Investors
    PROVE  \E row :
              /\ row[0] = status[w] /\ row[Len(Events[tx])] = status'[w]
              /\ \A i \in 1 .. Len(Events[tx]) :
                    /\ Hears(OfStatus(Txs, w), Standing, <<tx, i>>, row[i - 1], row[i])
                    /\ OwnStamps =>
                          Takes(OfStatus(Txs, w), Standing, <<tx, i>>, row[i - 1], row[i])
<1> DEFINE N == Len(Events[tx])
           after == AfterEvents(Rows, tx)
           row == [i \in 0 .. N |-> after[i].status[w]]
<1>1. /\ N \in Nat /\ after[0] = Rows
      /\ \A i \in 0 .. N : after[i] \in SettingRows
      /\ \A i \in 1 .. N :
            /\ <<tx, i>> \in Places(Txs)
            /\ RowByRow(after[i - 1], Slot[tx], At(<<tx, i>>), after[i])
      /\ status' = after[N].status
  BY TransactionRead
<1> HIDE DEF N, after
<1>2. row[0] = status[w] /\ row[N] = status'[w]
  BY <1>1 DEF Rows
<1>3. \A i \in 1 .. N : row[i] = after[i].status[w] /\ row[i - 1] = after[i - 1].status[w]
  BY <1>1
<1> HIDE DEF row
<1>4. ASSUME NEW i \in 1 .. N
      PROVE  /\ Hears(OfStatus(Txs, w), Standing, <<tx, i>>, row[i - 1], row[i])
             /\ OwnStamps =>
                   Takes(OfStatus(Txs, w), Standing, <<tx, i>>, row[i - 1], row[i])
  <2> DEFINE p == <<tx, i>>
  <2>1. p \in Places(Txs) /\ p[1] = tx /\ row[i - 1] \in Mark
    <3>1. i - 1 \in 0 .. N
      BY <1>1
    <3>2. QED
      BY <1>1, <1>3, <3>1 DEF SettingRows
  <2>2. row[i] = IF At(p).kind = "InvestorStatusSet" /\ At(p).wallet = w
                 THEN StatusSet(row[i - 1], Slot[tx], At(p)) ELSE row[i - 1]
    BY <1>1, <1>3 DEF RowByRow
  <2> HIDE DEF p
  <2>3. CASE p \in OfStatus(Txs, w)
    <3>1. row[i] = StatusSet(row[i - 1], Slot[p[1]], At(p))
      BY <2>1, <2>2, <2>3 DEF OfStatus
    <3>2. QED
      BY <2>1, <2>3, <3>1, StatusTaken DEF p
  <2>4. CASE p \notin OfStatus(Txs, w)
    <3>1. row[i] = row[i - 1]
      BY <2>1, <2>2, <2>4 DEF OfStatus
    <3>2. QED
      BY <2>4, <3>1 DEF Takes, Hears, p
  <2>5. QED
    BY <2>3, <2>4
<1>5. QED
  BY <1>2, <1>4 DEF N

\* Applying a transaction, for the first time or again, leaves the newest policy,
LEMMA PolicyWritten ==
    ASSUME PolicyInv, tx \in Txs, applied \subseteq Txs,
           applied' = applied \cup {tx}, WriteRegistry
    PROVE  SaysNewest(policy', OfPolicy(applied'), Setting)
<1> DEFINE N == Len(Events[tx])
           after == AfterEvents(Rows, tx)
           row == [i \in 0 .. N |-> after[i].policy]
<1>1. /\ N \in Nat /\ after[0] = Rows
      /\ \A i \in 0 .. N : after[i] \in SettingRows
      /\ \A i \in 1 .. N :
            /\ <<tx, i>> \in Places(Txs)
            /\ RowByRow(after[i - 1], Slot[tx], At(<<tx, i>>), after[i])
      /\ policy' = after[N].policy
  BY TransactionRead DEF PolicyInv
<1> HIDE DEF N, after
<1>2. row[0] = policy /\ row[N] = policy'
  BY <1>1 DEF Rows
<1>3. \A i \in 1 .. N : row[i] = after[i].policy /\ row[i - 1] = after[i - 1].policy
  BY <1>1
<1> HIDE DEF row
<1>4. ASSUME NEW i \in 1 .. N
      PROVE  Takes(OfPolicy(Txs), Setting, <<tx, i>>, row[i - 1], row[i])
  <2> DEFINE p == <<tx, i>>
  <2>1. p \in Places(Txs) /\ p[1] = tx /\ row[i - 1] \in Mark
    <3>1. i - 1 \in 0 .. N
      BY <1>1
    <3>2. QED
      BY <1>1, <1>3, <3>1 DEF SettingRows
  <2>2. row[i] = IF At(p).kind = "TokenCreated" THEN Created(row[i - 1], At(p))
                 ELSE IF At(p).kind = "PolicySet" THEN PolicySet(row[i - 1], At(p))
                 ELSE row[i - 1]
    BY <1>1, <1>3 DEF RowByRow
  <2> HIDE DEF p
  <2>3. CASE p \in OfPolicy(Txs)
    <3>1. row[i] = IF At(p).kind = "TokenCreated" THEN Created(row[i - 1], At(p))
                   ELSE PolicySet(row[i - 1], At(p))
      BY <2>1, <2>2, <2>3 DEF OfPolicy
    <3>2. QED
      BY <2>1, <2>3, <3>1, PolicyTaken DEF p
  <2>4. CASE p \notin OfPolicy(Txs)
    <3>1. row[i] = row[i - 1]
      BY <2>1, <2>2, <2>4 DEF OfPolicy
    <3>2. QED
      BY <2>4, <3>1 DEF Takes, Hears, p
  <2>5. QED
    BY <2>3, <2>4
<1>5. SaysNewest(row[0], Among(OfPolicy(Txs), applied), Setting)
  BY <1>2, PlacesAmong DEF PolicyInv
<1>6. SaysNewest(row[N], Among(OfPolicy(Txs), applied'), Setting)
  BY <1>4, <1>5, SettingPlaces, RowRead DEF N
<1>7. applied' \subseteq Txs
  OBVIOUS
<1>8. QED
  BY <1>2, <1>6, <1>7, PlacesAmong

\* the newest roles, when no other transaction has the same stamp,
LEMMA RolesWritten ==
    ASSUME OwnStamps, SettingsInv, tx \in Txs, applied \subseteq Txs,
           applied' = applied \cup {tx}, WriteRegistry
    PROVE  SaysNewest(roles', OfRoles(applied'), Setting)
<1>1. PICK row :
         /\ row[0] = roles /\ row[Len(Events[tx])] = roles'
         /\ \A i \in 1 .. Len(Events[tx]) :
               Takes(OfRoles(Txs), Setting, <<tx, i>>, row[i - 1], row[i])
  BY RolesRead DEF PolicyInv, SettingsInv
<1>2. SaysNewest(row[0], Among(OfRoles(Txs), applied), Setting)
  BY <1>1, PlacesAmong DEF SettingsInv
<1>3. SaysNewest(row[Len(Events[tx])], Among(OfRoles(Txs), applied'), Setting)
  BY <1>1, <1>2, SettingPlaces, RowRead
<1>4. applied' \subseteq Txs
  OBVIOUS
<1>5. QED
  BY <1>1, <1>3, <1>4, PlacesAmong

\* and the newest status of every investor.
LEMMA StatusWritten ==
    ASSUME OwnStamps, SettingsInv, tx \in Txs, applied \subseteq Txs,
           applied' = applied \cup {tx}, WriteRegistry, NEW w \in Investors
    PROVE  SaysNewest(status'[w], OfStatus(applied', w), Standing)
<1>1. PICK row :
         /\ row[0] = status[w] /\ row[Len(Events[tx])] = status'[w]
         /\ \A i \in 1 .. Len(Events[tx]) :
               Takes(OfStatus(Txs, w), Standing, <<tx, i>>, row[i - 1], row[i])
  BY StatusRead DEF PolicyInv, SettingsInv
<1>2. SaysNewest(row[0], Among(OfStatus(Txs, w), applied), Standing)
  BY <1>1, PlacesAmong DEF SettingsInv
<1>3. SaysNewest(row[Len(Events[tx])], Among(OfStatus(Txs, w), applied'), Standing)
  BY <1>1, <1>2, SettingPlaces, RowRead
<1>4. applied' \subseteq Txs
  OBVIOUS
<1>5. QED
  BY <1>1, <1>3, <1>4, PlacesAmong

\* Nobody has spoken yet, and the rows are blank.
LEMMA SettingsStart == IndexInit => PolicyInv /\ SettingsInv
<1> SUFFICES ASSUME IndexInit PROVE PolicyInv /\ SettingsInv
  OBVIOUS
<1>1. /\ roles = Blank /\ policy = Blank /\ status = [w \in Investors |-> Blank]
      /\ applied = {}
  BY DEF IndexInit, RegistryInit, Init
<1>2. Blank \in Mark
  BY DEF Blank, Mark
<1>3. Rows \in SettingRows
  BY <1>1, <1>2 DEF Rows, SettingRows
<1>4. Places(applied) = {}
  BY <1>1 DEF Places
<1>5. /\ OfRoles(applied) = {} /\ OfPolicy(applied) = {}
      /\ \A w \in Investors : OfStatus(applied, w) = {}
  BY <1>4 DEF OfRoles, OfPolicy, OfStatus
<1>6. QED
  BY <1>1, <1>3, <1>5 DEF PolicyInv, SettingsInv, SaysNewest

\* What a step of the index does to the settings' rows.
LEMMA SettingsSteps ==
    ASSUME PipelineInv, [IndexNext]_indexVars
    PROVE  /\ applied \subseteq Txs
           /\ \/ UNCHANGED <<applied, registryVars>>
              \/ tx \in Txs /\ applied' = applied \cup {tx} /\ WriteRegistry
<1>1. applied \subseteq Txs
  <2>1. applied \subseteq 1 .. landed /\ landed \in 0 .. NTx /\ NTx \in Nat
    BY PipelineAssumption DEF PipelineInv, StoreInv
  <2>2. QED
    BY <2>1 DEF Txs
<1>2. CASE ApplyIndex
  <2>1. queue # <<>> /\ queue \in Seq(Entry)
    BY <1>2 DEF ApplyIndex, Apply, ApplyThrowsAfterCommit, InHand, PipelineInv, ChainInv
  <2>2. Head(queue) = queue[1] /\ 1 \in DOMAIN queue /\ queue[1] \in Entry
    BY <2>1
  <2>3. tx \in Txs
    BY <2>2 DEF tx, Entry
  <2>4. applied' = applied \cup {tx} /\ WriteRegistry
    BY <1>2 DEF ApplyIndex, Apply, ApplyThrowsAfterCommit, Commit
  <2>5. QED
    BY <1>1, <2>3, <2>4
<1>3. CASE Elsewhere
  BY <1>1, <1>3 DEF Elsewhere, rowVars, Land, Notify, PassStep, StartPass, FetchNext,
                    NotServed, FetchThrows, EndPass, Skip, ApplyThrows, Save,
                    SaveThrows, Restart, databaseVars
<1>4. CASE UNCHANGED indexVars
  BY <1>1, <1>4 DEF indexVars, vars, rowVars, databaseVars
<1>5. QED
  BY <1>2, <1>3, <1>4 DEF IndexNext

\* Every step keeps the policy at the newest word ...
LEMMA PolicyKept ==
    PipelineInv /\ PolicyInv /\ [IndexNext]_indexVars => PolicyInv'
<1> SUFFICES ASSUME PipelineInv, PolicyInv, [IndexNext]_indexVars PROVE PolicyInv'
  OBVIOUS
<1>1. CASE UNCHANGED <<applied, registryVars>>
  BY <1>1 DEF PolicyInv, registryVars, Rows
<1>2. CASE tx \in Txs /\ applied' = applied \cup {tx} /\ WriteRegistry
  <2>1. Rows' \in SettingRows
    BY <1>2, TransactionRead DEF PolicyInv
  <2>2. SaysNewest(policy', OfPolicy(applied'), Setting)
    BY <1>2, SettingsSteps, PolicyWritten
  <2>3. QED
    BY <2>1, <2>2 DEF PolicyInv
<1>3. QED
  BY <1>1, <1>2, SettingsSteps

\* ... and all the rows.
LEMMA SettingsKept ==
    ASSUME OwnStamps
    PROVE  PipelineInv /\ SettingsInv /\ [IndexNext]_indexVars => SettingsInv'
<1> SUFFICES ASSUME PipelineInv, SettingsInv, [IndexNext]_indexVars PROVE SettingsInv'
  OBVIOUS
<1>1. PolicyInv'
  BY PolicyKept DEF SettingsInv
<1>2. CASE UNCHANGED <<applied, registryVars>>
  BY <1>1, <1>2 DEF SettingsInv, registryVars
<1>3. CASE tx \in Txs /\ applied' = applied \cup {tx} /\ WriteRegistry
  <2>1. applied \subseteq Txs
    BY SettingsSteps
  <2>2. SaysNewest(roles', OfRoles(applied'), Setting)
    BY <1>3, <2>1, RolesWritten
  <2>3. \A w \in Investors : SaysNewest(status'[w], OfStatus(applied', w), Standing)
    BY <1>3, <2>1, StatusWritten
  <2>4. QED
    BY <1>1, <2>2, <2>3 DEF SettingsInv
<1>4. QED
  BY <1>2, <1>3, SettingsSteps

\* The last of a set of places is the one it is said to be.
LEMMA LatestIs ==
    ASSUME NEW places, places \subseteq Places(Txs), NEW q \in places,
           \A p \in places : UpTo(p, q)
    PROVE  Latest(places) = q
<1> DEFINE last == Latest(places)
<1>1. \E r \in places : \A p \in places : p = r \/ Before(p, r)
  BY DEF UpTo
<1>2. last \in places /\ \A p \in places : p = last \/ Before(p, last)
  BY <1>1 DEF Latest
<1> HIDE DEF last
<1>3. UpTo(last, q) /\ (q = last \/ Before(q, last))
  BY <1>2
<1>4. last = q
  BY <1>2, <1>3, PlacesInOrder
<1>5. QED
  BY <1>4 DEF last

\* So every row has the last word.
LEMMA NewestIsTheLastWord ==
    ASSUME NEW row, NEW places, places \subseteq Places(Txs), NEW written,
           \A p \in places : written[p].value = At(p).value,
           SaysNewest(row, places, written)
    PROVE  row.value = LastWord(places)
<1>1. CASE places = {} /\ row = Blank
  BY <1>1 DEF LastWord
<1>2. CASE \E q \in places : row = written[q] /\ \A p \in places : UpTo(p, q)
  <2>1. PICK q \in places : row = written[q] /\ \A p \in places : UpTo(p, q)
    BY <1>2
  <2>2. Latest(places) = q
    BY <2>1, LatestIs
  <2>3. QED
    BY <2>1, <2>2 DEF LastWord
<1>3. QED
  BY <1>1, <1>2 DEF SaysNewest

\* What is applied is on the chain, and so are its places.
LEMMA AppliedPlaces ==
    ASSUME PipelineInv
    PROVE  /\ OfRoles(applied) \subseteq Places(Txs)
           /\ OfPolicy(applied) \subseteq Places(Txs)
           /\ \A w \in Investors : OfStatus(applied, w) \subseteq Places(Txs)
<1>1. applied \subseteq Txs
  <2>1. applied \subseteq 1 .. landed /\ landed \in 0 .. NTx /\ NTx \in Nat
    BY PipelineAssumption DEF PipelineInv, StoreInv
  <2>2. QED
    BY <2>1 DEF Txs
<1>2. QED
  BY <1>1, PlacesAmong, SettingPlaces DEF Among

\* The policy's version never lets an older one in: its row is at any time what
\* the newest of the transactions applied says, in whatever order they came and
\* however often they are replayed (index-store.ts:143-189).
THEOREM PolicyIsTheNewest ==
    IndexSpec => [](policy.value = LastWord(OfPolicy(applied)))
<1>1. IndexInit => PolicyInv
  BY SettingsStart
<1>2. IndexSpec => []PipelineInv
  BY IndexImplementsPipeline, PipelineInvHolds, PTL
<1>3. PipelineInv /\ PolicyInv /\ [IndexNext]_indexVars => PolicyInv'
  BY PolicyKept
<1>4. PipelineInv /\ PolicyInv => policy.value = LastWord(OfPolicy(applied))
  <2> SUFFICES ASSUME PipelineInv, PolicyInv
               PROVE  policy.value = LastWord(OfPolicy(applied))
    OBVIOUS
  <2>1. \A p \in OfPolicy(applied) :
            p \in Places(Txs) /\ Setting[p].value = At(p).value
    BY AppliedPlaces DEF Setting
  <2>2. QED
    BY <2>1, NewestIsTheLastWord DEF PolicyInv
<1>5. QED
  BY <1>1, <1>2, <1>3, <1>4, PTL DEF IndexSpec

\* The rows mirror whatever is in.
LEMMA SettingsMirror == PipelineInv /\ SettingsInv => Mirror(applied)
<1> SUFFICES ASSUME PipelineInv, SettingsInv PROVE Mirror(applied)
  OBVIOUS
<1>1. \A p \in Places(Txs) :
          Setting[p].value = At(p).value /\ Standing[p].value = At(p).value
  BY DEF Setting, Standing
<1>2. roles.value = LastWord(OfRoles(applied))
  <2>1. /\ OfRoles(applied) \subseteq Places(Txs)
        /\ \A p \in OfRoles(applied) : Setting[p].value = At(p).value
    BY <1>1, AppliedPlaces
  <2>2. QED
    BY <2>1, NewestIsTheLastWord DEF SettingsInv
<1>3. policy.value = LastWord(OfPolicy(applied))
  <2>1. /\ OfPolicy(applied) \subseteq Places(Txs)
        /\ \A p \in OfPolicy(applied) : Setting[p].value = At(p).value
    BY <1>1, AppliedPlaces
  <2>2. QED
    BY <2>1, NewestIsTheLastWord DEF SettingsInv, PolicyInv
<1>4. ASSUME NEW w \in Investors PROVE status[w].value = LastWord(OfStatus(applied, w))
  <2>1. /\ OfStatus(applied, w) \subseteq Places(Txs)
        /\ \A p \in OfStatus(applied, w) : Standing[p].value = At(p).value
    BY <1>1, AppliedPlaces
  <2>2. QED
    BY <2>1, NewestIsTheLastWord DEF SettingsInv
<1>5. QED
  BY <1>2, <1>3, <1>4 DEF Mirror


\* When every change has a stamp of its own, the settings' rows are at any time
\* what the newest of the transactions applied says, in whatever order they came
\* and however often they are replayed (index-store.ts:143-189).
THEOREM RowsSayTheNewest ==
    ASSUME OwnStamps
    PROVE  IndexSpec => []Mirror(applied)
<1>1. IndexInit => SettingsInv
  BY SettingsStart
<1>2. IndexSpec => []PipelineInv
  BY IndexImplementsPipeline, PipelineInvHolds, PTL
<1>3. PipelineInv /\ SettingsInv /\ [IndexNext]_indexVars => SettingsInv'
  BY SettingsKept
<1>4. PipelineInv /\ SettingsInv => Mirror(applied)
  BY SettingsMirror
<1>5. QED
  BY <1>1, <1>2, <1>3, <1>4, PTL DEF IndexSpec

\* So once everything is in they have the chain's last word, and no replay turns
\* them back (index-store.ts:143-189).
THEOREM LastWordOfTheChain ==
    ASSUME OwnStamps
    PROVE  IndexSpec => []LastWordWins
<1>1. Mirror(applied) => LastWordWins
  BY DEF LastWordWins
<1>2. QED
  BY <1>1, RowsSayTheNewest, PTL

\* And what makes the rows settle is only that everything landed gets indexed:
\* no replay after that moves them (index-store.ts:159-160, backfill.ts:41-43).
THEOREM IndexedRowsSettle ==
    ASSUME OwnStamps
    PROVE  IndexSpec /\ <>[](applied = 1 .. landed) => SettlesOnTheLastWord
<1>1. Mirror(applied) /\ applied = 1 .. landed => Mirror(1 .. landed)
  OBVIOUS
<1>2. QED
  BY <1>1, RowsSayTheNewest, PTL DEF SettlesOnTheLastWord

-----------------------------------------------------------------------------
(* The settings under the backfill alone, whatever their stamps. *)

\* The row is what a place that is in wrote, and none of the chain's up to
\* transaction c is newer.
SaysAtLeast(row, places, written, txs, c) ==
    \/ row = Blank /\ \A p \in places : p[1] > c
    \/ \E q \in places : /\ q[1] \in txs /\ row = written[q]
                         /\ \A p \in places : p[1] <= c => UpTo(p, q)

UpToCursor ==
    /\ Rows \in SettingRows
    /\ SaysAtLeast(roles, OfRoles(Txs), Setting, applied, cursor)
    /\ \A w \in Investors :
          SaysAtLeast(status[w], OfStatus(Txs, w), Standing, applied, cursor)

\* Hearing the events of the next transaction, the row says at least what the
\* last of them does.
LEMMA RowHeard ==
    ASSUME NEW places \in SUBSET Places(Txs), NEW written, NEW A,
           NEW t \in Txs, NEW row,
           SaysAtLeast(row[0], places, written, A, t - 1),
           \A i \in 1 .. Len(Events[t]) :
                Hears(places, written, <<t, i>>, row[i - 1], row[i])
    PROVE  SaysAtLeast(row[Len(Events[t])], places, written, A \cup {t}, t)
<1> DEFINE N == Len(Events[t])
           Past(n) == {p \in places : p[1] < t \/ (p[1] = t /\ p[2] <= n)}
           Reaches(n, q) == /\ q[1] \in A \cup {t} /\ row[n] = written[q]
                            /\ \A p \in Past(n) : UpTo(p, q)
           J(n) == \/ row[n] = Blank /\ Past(n) = {}
                   \/ \E q \in places : Reaches(n, q)
           T == {n \in Nat : n <= N => J(n)}
<1>1. N \in Nat /\ t \in Int
  BY PlaceFacts DEF Txs
<1>2. \A p \in places :
         /\ p \in Places(Txs) /\ p[1] \in Int /\ p[2] \in Nat \ {0}
         /\ p = <<p[1], p[2]>> /\ (p[1] = t => p[2] <= N)
  <2>1. ASSUME NEW p \in places
        PROVE  /\ p \in Places(Txs) /\ p[1] \in Int /\ p[2] \in Nat \ {0}
               /\ p = <<p[1], p[2]>> /\ (p[1] = t => p[2] <= N)
    <3>1. /\ p \in Places(Txs) /\ p[1] \in Txs /\ p[2] \in 1 .. Len(Events[p[1]])
          /\ p = <<p[1], p[2]>>
      BY PlaceFacts
    <3>2. Len(Events[p[1]]) \in Nat /\ p[1] \in Int
      BY <3>1, PlaceFacts DEF Txs
    <3>3. QED
      BY <3>1, <3>2
  <2>2. QED
    BY <2>1
<1> HIDE DEF N
<1>3. 0 \in T
  <2>1. \A p \in Past(0) : p \in places /\ p[1] <= t - 1
    BY <1>1, <1>2
  <2>2. CASE row[0] = Blank /\ \A p \in places : p[1] > t - 1
    <3>1. Past(0) = {}
      BY <1>1, <1>2, <2>1, <2>2
    <3>2. QED
      BY <2>2, <3>1
  <2>3. CASE \E q \in places : /\ q[1] \in A /\ row[0] = written[q]
                               /\ \A p \in places : p[1] <= t - 1 => UpTo(p, q)
    BY <2>1, <2>3
  <2>4. QED
    BY <2>2, <2>3 DEF SaysAtLeast
<1>4. ASSUME NEW m \in Nat, m \in T PROVE m + 1 \in T
  <2> SUFFICES ASSUME m + 1 <= N PROVE J(m + 1)
    BY <1>4
  <2> DEFINE n == m + 1
             p == <<t, n>>
  <2>1. J(m) /\ n \in 1 .. N /\ n - 1 = m /\ n \in Nat
    BY <1>1, <1>4
  <2>2. /\ p \in Places(Txs) /\ p[1] = t /\ p[2] = n
        /\ Hears(places, written, p, row[m], row[n])
    BY <2>1, PlaceFacts DEF N
  <2>3. \A r \in Past(n) : r \in Past(m) \/ r = p
    <3>1. ASSUME NEW r \in Past(n), r \notin Past(m) PROVE r = p
      <4>1. r[1] = t /\ r[2] = n
        BY <1>1, <1>2, <2>1, <3>1
      <4>2. QED
        BY <1>2, <4>1
    <3>2. QED
      BY <3>1
  <2>4. \A r \in Past(n) : UpTo(r, p)
    <3>1. ASSUME NEW r \in Past(n), r # p PROVE Before(r, p)
      <4>1. r[1] < t \/ (r[1] = t /\ r[2] <= m)
        BY <2>3, <3>1
      <4>2. QED
        BY <1>2, <2>1, <2>2, <4>1 DEF Before
    <3>2. QED
      BY <3>1 DEF UpTo
  <2> HIDE DEF p
  <2>5. CASE p \notin places
    <3>1. row[n] = row[m]
      BY <2>2, <2>5 DEF Hears
    <3>2. Past(n) \subseteq Past(m)
      BY <2>3, <2>5
    <3> HIDE DEF Past
    <3>3. QED
      BY <2>1, <3>1, <3>2
  <2>6. CASE p \in places
    <3>1. row[n] = written[p] => Reaches(n, p)
      BY <2>2, <2>4
    <3>2. CASE row[m] = Blank
      <4>1. row[n] = written[p]
        BY <2>2, <2>6, <3>2 DEF Hears
      <4>2. QED
        BY <2>6, <3>1, <4>1
    <3>3. ASSUME NEW q \in places, Reaches(m, q) PROVE J(n)
      <4>1. CASE row[n] = written[p]
        BY <2>6, <3>1, <4>1
      <4>2. CASE row[n] # written[p]
        <5>1. row[n] = row[m] /\ ~ UpTo(q, p)
          BY <2>2, <2>6, <3>3, <4>2 DEF Hears
        <5>2. UpTo(p, q)
          <6>1. q \in Places(Txs)
            BY <1>2
          <6>2. UpTo(q, p) \/ Before(p, q)
            BY <2>2, <6>1, PlacesInOrder
          <6>3. QED
            BY <5>1, <6>2 DEF UpTo
        <5>3. \A r \in Past(n) : UpTo(r, q)
          BY <2>3, <3>3, <5>2
        <5>4. Reaches(n, q)
          BY <3>3, <5>1, <5>3
        <5>5. QED
          BY <5>4
      <4>3. QED
        BY <4>1, <4>2
    <3>4. QED
      BY <2>1, <3>2, <3>3
  <2>7. QED
    BY <2>5, <2>6
<1>5. J(N)
  <2>1. N \in T
    <3> HIDE DEF T
    <3>1. QED
      BY <1>1, <1>3, <1>4, Counting
  <2>2. QED
    BY <1>1, <2>1
<1>6. \A p \in places : p[1] <= t => p \in Past(N)
  BY <1>1, <1>2
<1>7. CASE row[N] = Blank /\ Past(N) = {}
  <2>1. \A p \in places : p[1] > t
    BY <1>1, <1>2, <1>6, <1>7
  <2>2. QED
    BY <1>7, <2>1 DEF SaysAtLeast, N
<1>8. CASE \E q \in places : Reaches(N, q)
  BY <1>6, <1>8 DEF SaysAtLeast, N
<1>9. QED
  BY <1>5, <1>7, <1>8

\* To say at least what the first d transactions do is to say what fewer do.
LEMMA SaysLess ==
    ASSUME NEW row, NEW places \in SUBSET Places(Txs), NEW written, NEW txs,
           NEW d \in Int, NEW c \in Int, c <= d,
           SaysAtLeast(row, places, written, txs, d)
    PROVE  SaysAtLeast(row, places, written, txs, c)
<1>1. \A p \in places : p[1] \in Int
  BY PlaceFacts DEF Txs
<1>2. QED
  BY <1>1 DEF SaysAtLeast

\* A step that applies a transaction applies the next one.
LEMMA NextApplied ==
    ASSUME BackfillInv, RunInv, WithinRecent', ApplyIndex
    PROVE  /\ tx \in Txs /\ tx = cursor + 1 /\ cursor' \in Int /\ cursor' <= tx
           /\ applied' = applied \cup {tx} /\ WriteRegistry
<1>1. queue # <<>> /\ tx \notin Remembered
  BY DEF ApplyIndex, Apply, ApplyThrowsAfterCommit, InHand
<1>2. tx \in Txs /\ tx = cursor + 1 /\ cursor \in Int
  BY <1>1, NewIsNext, RunTyped
<1>3. cursor' = tx \/ cursor' = cursor
  BY ApplyRuns, PipelineRuns DEF ApplyIndex
<1>4. applied' = applied \cup {tx} /\ WriteRegistry
  BY DEF ApplyIndex, Apply, ApplyThrowsAfterCommit, Commit
<1>5. QED
  BY <1>2, <1>3, <1>4

\* The others leave the rows alone, and the cursor at most goes back.
LEMMA NothingApplied ==
    ASSUME ~ Live, BackfillInv, RunInv, WithinRecent', Elsewhere
    PROVE  /\ UNCHANGED <<applied, registryVars>>
           /\ cursor' \in Int /\ cursor' <= cursor
<1>1. UNCHANGED <<applied, registryVars>>
  BY DEF Elsewhere, rowVars, Land, Notify, PassStep, StartPass, FetchNext,
         NotServed, FetchThrows, EndPass, Skip, ApplyThrows, Save, SaveThrows,
         Restart, databaseVars
<1>2. cursor \in Int /\ saved \in Int /\ saved <= cursor
  BY RunTyped DEF RunInv
<1>3. cursor' = cursor \/ cursor' = saved
  <2>1. CASE Restart
    BY <2>1 DEF Restart
  <2>2. QED
    BY <2>1, PipelineRuns, FeedRuns DEF Elsewhere
<1>4. QED
  BY <1>1, <1>2, <1>3

\* Blank rows say what nobody has.
LEMMA UpToCursorStarts == IndexInit => UpToCursor
<1> SUFFICES ASSUME IndexInit PROVE UpToCursor
  OBVIOUS
<1>1. /\ roles = Blank /\ status = [w \in Investors |-> Blank] /\ cursor = 0
  BY DEF IndexInit, RegistryInit, Init, None
<1>2. Rows \in SettingRows
  BY SettingsStart DEF PolicyInv
<1>3. \A p \in Places(Txs) : p[1] > 0
  BY PlaceFacts DEF Txs
<1>4. QED
  BY <1>1, <1>2, <1>3, SettingPlaces DEF UpToCursor, SaysAtLeast

\* Every step keeps the rows up to the cursor: what is not remembered is the
\* next of the chain, whether for the first time or after a restart.
LEMMA UpToCursorKept ==
    ASSUME ~ Live
    PROVE  BackfillInv /\ RunInv /\ WithinRecent' /\ UpToCursor
              /\ [IndexNext]_indexVars => UpToCursor'
<1> SUFFICES ASSUME BackfillInv, RunInv, WithinRecent', UpToCursor,
                    [IndexNext]_indexVars
             PROVE  UpToCursor'
  OBVIOUS
<1>1. cursor \in Int
  BY RunTyped
<1>2. CASE ApplyIndex
  <2>1. /\ tx \in Txs /\ tx = cursor + 1 /\ cursor' \in Int /\ cursor' <= tx
        /\ applied' = applied \cup {tx} /\ WriteRegistry
        /\ tx \in Int /\ tx - 1 = cursor
    BY <1>1, <1>2, NextApplied
  <2>2. Rows' \in SettingRows
    BY <2>1, TransactionRead DEF UpToCursor
  <2>3. SaysAtLeast(roles', OfRoles(Txs), Setting, applied', tx)
    <3>1. PICK row :
             /\ row[0] = roles /\ row[Len(Events[tx])] = roles'
             /\ \A i \in 1 .. Len(Events[tx]) :
                   Hears(OfRoles(Txs), Setting, <<tx, i>>, row[i - 1], row[i])
      BY <2>1, RolesRead DEF UpToCursor
    <3>2. SaysAtLeast(row[0], OfRoles(Txs), Setting, applied, tx - 1)
      BY <2>1, <3>1 DEF UpToCursor
    <3>3. QED
      BY <2>1, <3>1, <3>2, SettingPlaces, RowHeard
  <2>4. ASSUME NEW w \in Investors
        PROVE  SaysAtLeast(status'[w], OfStatus(Txs, w), Standing, applied', tx)
    <3>1. PICK row :
             /\ row[0] = status[w] /\ row[Len(Events[tx])] = status'[w]
             /\ \A i \in 1 .. Len(Events[tx]) :
                   Hears(OfStatus(Txs, w), Standing, <<tx, i>>, row[i - 1], row[i])
      BY <2>1, StatusRead DEF UpToCursor
    <3>2. SaysAtLeast(row[0], OfStatus(Txs, w), Standing, applied, tx - 1)
      BY <2>1, <3>1 DEF UpToCursor
    <3>3. QED
      BY <2>1, <3>1, <3>2, SettingPlaces, RowHeard
  <2>5. SaysAtLeast(roles', OfRoles(Txs), Setting, applied', cursor')
    BY <2>1, <2>3, SettingPlaces, SaysLess
  <2>6. \A w \in Investors :
           SaysAtLeast(status'[w], OfStatus(Txs, w), Standing, applied', cursor')
    BY <2>1, <2>4, SettingPlaces, SaysLess
  <2>7. QED
    BY <2>2, <2>5, <2>6 DEF UpToCursor
<1>3. ASSUME UNCHANGED <<applied, registryVars>>, cursor' \in Int, cursor' <= cursor
      PROVE  UpToCursor'
  <2>1. UNCHANGED <<applied, roles, policy, status>> /\ Rows' = Rows
    BY <1>3 DEF registryVars, Rows
  <2>2. SaysAtLeast(roles, OfRoles(Txs), Setting, applied, cursor')
    BY <1>1, <1>3, SettingPlaces, SaysLess DEF UpToCursor
  <2>3. \A w \in Investors :
           SaysAtLeast(status[w], OfStatus(Txs, w), Standing, applied, cursor')
    BY <1>1, <1>3, SettingPlaces, SaysLess DEF UpToCursor
  <2>4. QED
    BY <2>1, <2>2, <2>3 DEF UpToCursor
<1>4. CASE Elsewhere
  BY <1>3, <1>4, NothingApplied
<1>5. CASE UNCHANGED indexVars
  <2>1. UNCHANGED <<applied, registryVars, cursor>>
    BY <1>5 DEF indexVars, vars, memoryVars, databaseVars, rowVars
  <2>2. QED
    BY <1>1, <1>3, <2>1
<1>6. QED
  BY <1>2, <1>4, <1>5 DEF IndexNext

\* With the cursor at the tip, a row that is up to it has the last word.
LEMMA AtTheTip ==
    ASSUME NEW row, NEW places \in SUBSET Places(Txs), NEW written, NEW c \in Nat,
           SaysAtLeast(row, places, written, 1 .. c, c)
    PROVE  SaysNewest(row, Among(places, 1 .. c), written)
<1>1. \A p \in places : p[1] \in 1 .. NTx /\ p[1] \in Int
  BY PlaceFacts DEF Txs
<1>2. \A p \in places : p[1] \in 1 .. c <=> p[1] <= c
  BY <1>1
<1>3. CASE row = Blank /\ \A p \in places : p[1] > c
  <2>1. Among(places, 1 .. c) = {}
    BY <1>1, <1>2, <1>3 DEF Among
  <2>2. QED
    BY <1>3, <2>1 DEF SaysNewest
<1>4. CASE \E q \in places : /\ q[1] \in 1 .. c /\ row = written[q]
                             /\ \A p \in places : p[1] <= c => UpTo(p, q)
  BY <1>2, <1>4 DEF SaysNewest, Among
<1>5. QED
  BY <1>3, <1>4 DEF SaysAtLeast

\* Then all the rows have it.
LEMMA TipMirrored ==
    BackfillInv /\ UpToCursor /\ policy.value = LastWord(OfPolicy(applied)) =>
        (cursor = landed => Mirror(1 .. landed))
<1> SUFFICES ASSUME BackfillInv, UpToCursor, cursor = landed,
                    policy.value = LastWord(OfPolicy(applied))
             PROVE  Mirror(1 .. landed)
  OBVIOUS
<1>1. /\ landed \in Nat /\ applied = 1 .. landed /\ applied \subseteq Txs
      /\ PipelineInv
  <2>1. landed \in 0 .. NTx /\ NTx \in Nat /\ applied \subseteq 1 .. landed
    BY PipelineAssumption DEF BackfillInv, PipelineInv, StoreInv
  <2>2. \A t \in Txs : t <= landed => t \in applied
    BY DEF BackfillInv, NothingBehindTheCursor
  <2>3. 1 .. landed \subseteq Txs
    BY <2>1 DEF Txs
  <2>4. 1 .. landed \subseteq applied
    <3>1. \A t \in 1 .. landed : t <= landed
      BY <2>1
    <3>2. QED
      BY <2>2, <2>3, <3>1
  <2>5. landed \in Nat
    BY <2>1
  <2>6. PipelineInv
    BY DEF BackfillInv
  <2>7. QED
    BY <2>1, <2>3, <2>4, <2>5, <2>6
<1>2. SaysNewest(roles, OfRoles(applied), Setting)
  <2>1. SaysNewest(roles, Among(OfRoles(Txs), applied), Setting)
    BY <1>1, SettingPlaces, AtTheTip DEF UpToCursor
  <2>2. QED
    BY <1>1, <2>1, PlacesAmong
<1>3. ASSUME NEW w \in Investors
      PROVE  SaysNewest(status[w], OfStatus(applied, w), Standing)
  <2>1. SaysNewest(status[w], Among(OfStatus(Txs, w), applied), Standing)
    BY <1>1, SettingPlaces, AtTheTip DEF UpToCursor
  <2>2. QED
    BY <1>1, <2>1, PlacesAmong
<1>4. \A p \in Places(Txs) :
          Setting[p].value = At(p).value /\ Standing[p].value = At(p).value
  BY DEF Setting, Standing
<1>5. roles.value = LastWord(OfRoles(applied))
  <2>1. /\ OfRoles(applied) \subseteq Places(Txs)
        /\ \A p \in OfRoles(applied) : Setting[p].value = At(p).value
    BY <1>1, <1>4, AppliedPlaces
  <2>2. QED
    BY <1>2, <2>1, NewestIsTheLastWord
<1>6. ASSUME NEW w \in Investors
      PROVE  status[w].value = LastWord(OfStatus(applied, w))
  <2>1. /\ OfStatus(applied, w) \subseteq Places(Txs)
        /\ \A p \in OfStatus(applied, w) : Standing[p].value = At(p).value
    BY <1>1, <1>4, AppliedPlaces
  <2>2. QED
    BY <1>3, <2>1, NewestIsTheLastWord
<1>7. QED
  BY <1>1, <1>5, <1>6 DEF Mirror

\* Two changes of one second, or of one slot, land in chain order: with the
\* backfill alone and passes within the recent set, the rows have the chain's
\* last word whenever the cursor is at its tip, whatever the stamps and through
\* restarts that replay what was not saved (index-store.ts:159-160).
THEOREM BackfillWritesTheSettings ==
    ASSUME ~ Live
    PROVE  IndexSpec /\ []WithinRecent => [](cursor = landed => Mirror(1 .. landed))
<1>1. IndexSpec => []BackfillInv
  BY IndexImplementsPipeline, BackfillInvHolds, PTL
<1>2. IndexSpec /\ []WithinRecent => []RunInv
  BY IndexImplementsPipeline, RunInvHolds, PTL
<1>3. IndexSpec => [](policy.value = LastWord(OfPolicy(applied)))
  BY PolicyIsTheNewest
<1>4. BackfillInv /\ RunInv /\ WithinRecent' /\ UpToCursor
         /\ [IndexNext]_indexVars => UpToCursor'
  BY UpToCursorKept
<1>5. BackfillInv /\ UpToCursor /\ policy.value = LastWord(OfPolicy(applied)) =>
         (cursor = landed => Mirror(1 .. landed))
  BY TipMirrored
<1>6. QED
  BY <1>1, <1>2, <1>3, <1>4, <1>5, UpToCursorStarts, PTL DEF IndexSpec

\* So the rows settle once the cursor stays with the chain, as it comes to do
\* when nothing lands any more (backfill.ts:41-43, index-store.ts:159-160).
THEOREM BackfilledRowsSettle ==
    ASSUME ~ Live
    PROVE  IndexSpec /\ []WithinRecent /\ <>[](cursor = landed)
              => SettlesOnTheLastWord
<1>1. IndexSpec /\ []WithinRecent => [](cursor = landed => Mirror(1 .. landed))
  BY BackfillWritesTheSettings
<1>2. QED
  BY <1>1, PTL DEF SettlesOnTheLastWord
=============================================================================
