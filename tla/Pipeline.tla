----------------------------- MODULE Pipeline ------------------------------
(***************************************************************************)
(* How the worker brings the program's transactions into the index: a      *)
(* subscription that pushes them as they land, a backfill pass that reads  *)
(* them back from the cursor, the chain of promises that applies both one  *)
(* at a time, and the cursor kept in the database                          *)
(* (apps/worker/src/{pipeline,backfill,run,cursor}.ts).                    *)
(*                                                                         *)
(* Transactions are numbered in chain order; a number stands for the       *)
(* signature.  What applying one writes is left out but for two things: it *)
(* needs another one to be in the index already (its company or token),    *)
(* and it takes effect once, however often it is applied.                  *)
(***************************************************************************)
EXTENDS Integers, SequencesExt

CONSTANTS
    NTx,             \* bound: transactions that land
    Slot,            \* slot of each transaction
    Parent,          \* the one it needs indexed (NotIndexedYet), or None
    Live,            \* whether the subscription ever delivers anything
    Rpcs,            \* RPC endpoints: the primary and perhaps a fallback
    RecentCapacity,  \* RECENT_CAPACITY
    MaxCrashes,      \* bound: restarts of the worker
    MaxFailures      \* bound: errors of the database or of an endpoint

None == 0
Txs == 1 .. NTx

ASSUME PipelineAssumption ==
    /\ NTx \in Nat
    /\ Slot \in [Txs -> Nat]
    /\ \A t, u \in Txs : t < u => Slot[t] <= Slot[u]
    /\ Parent \in [Txs -> Txs \cup {None}]
    /\ \A t \in Txs : Parent[t] < t
    /\ Live \in BOOLEAN
    /\ Rpcs \in Nat \ {0}
    /\ RecentCapacity \in Nat \ {0}
    /\ MaxCrashes \in Nat /\ MaxFailures \in Nat

VARIABLES
    landed,      \* the chain: transactions 1 .. landed are confirmed
    wire,        \* notifications sent by the node, not yet received
    subscribed,  \* whether the subscription is open
    queue,       \* pipeline: the transactions chained, the head in hand
    saving,      \* pipeline: the head is applied, its cursor being saved
    recent,      \* pipeline: signatures remembered, oldest first
    cursor,      \* pipeline: the cursor in memory
    pass,        \* the backfill pass under way
    saved,       \* database: the indexer_cursor row
    applied,     \* database: transactions whose records are in the index
    effects,     \* database: how often each took effect (history)
    crashes, failures

chainVars == <<landed, wire>>
memoryVars == <<subscribed, queue, saving, recent, cursor, pass>>
databaseVars == <<saved, applied, effects>>
boundVars == <<crashes, failures>>
vars == <<chainVars, memoryVars, databaseVars, boundVars>>

-----------------------------------------------------------------------------
NoPass == [state |-> "idle", rpc |-> 1, since |-> None, todo |-> <<>>]

\* What getSignaturesForAddress lists with until: since, oldest first.
Since(c) == [i \in 1 .. landed - c |-> c + i]

Remembered == {recent[i] : i \in DOMAIN recent}

\* A slip: the oldest is not dropped.
RememberAll(t) == Append(recent, t)

Remember(t) ==
    LET all == Append(recent, t)
    IN  IF Len(all) > RecentCapacity THEN Tail(all) ELSE all

\* A slip: a failed transaction stays remembered, so that it is never retried.
ForgetNothing(sigs, t) == sigs

\* Deleted from a set that keeps the order of insertion; t is in it once.
Forget(sigs, t) == RemoveAt(sigs, CHOOSE i \in DOMAIN sigs : sigs[i] = t)

Init ==
    /\ landed = 0 /\ wire = {}
    /\ subscribed = FALSE /\ queue = <<>> /\ saving = FALSE /\ recent = <<>>
    /\ cursor = None /\ pass = NoPass
    /\ saved = None /\ applied = {} /\ effects = [t \in Txs |-> 0]
    /\ crashes = 0 /\ failures = 0

\* Something fails that need not have.
Fail == failures < MaxFailures /\ failures' = failures + 1

(***************************************************************************)
(* The chain and the subscription.  A notification reaches only those who  *)
(* are subscribed when it is sent, and may be lost with the socket.        *)
(***************************************************************************)
Land ==
    /\ landed < NTx
    /\ landed' = landed + 1
    /\ wire' \in {wire} \cup (IF Live /\ subscribed
                              THEN {wire \cup {landed + 1}} ELSE {})
    /\ UNCHANGED <<memoryVars, databaseVars, boundVars>>

\* pipeline.push
Notify(t) ==
    /\ t \in wire
    /\ wire' = wire \ {t}
    /\ queue' = Append(queue, [tx |-> t, from |-> "live"])
    /\ UNCHANGED <<landed, subscribed, saving, recent, cursor, pass,
                   databaseVars, boundVars>>

(***************************************************************************)
(* The backfill pass: list, then fetch and handle each, oldest first, the  *)
(* next one when the last is done.  The first pass of a process comes      *)
(* before the subscription.                                                *)
(***************************************************************************)
\* With nothing to list a pass is over at once; only the first one matters,
\* for it opens the subscription.
StartPass ==
    /\ pass.state = "idle"
    /\ ~ subscribed \/ cursor < landed
    /\ pass' = [state |-> "fetch", rpc |-> 1, since |-> cursor,
                todo |-> Since(cursor)]
    /\ UNCHANGED <<chainVars, subscribed, queue, saving, recent, cursor,
                   databaseVars, boundVars>>

\* The pass is over, and with the first one the subscription opens.
PassOver == pass' = NoPass /\ subscribed' = TRUE

\* A slip: what the last endpoint throws leaves the flag of the pass set.
NextRpcFlagLeft ==
    IF pass.rpc < Rpcs
    THEN /\ pass' = [state |-> "fetch", rpc |-> pass.rpc + 1,
                     since |-> pass.since, todo |-> Since(pass.since)]
         /\ UNCHANGED subscribed
    ELSE pass' = pass /\ subscribed' = TRUE

\* Anything thrown inside a pass ends it on this endpoint; the next one
\* starts from the same cursor.
NextRpc ==
    IF pass.rpc < Rpcs
    THEN /\ pass' = [state |-> "fetch", rpc |-> pass.rpc + 1,
                     since |-> pass.since, todo |-> Since(pass.since)]
         /\ UNCHANGED subscribed
    ELSE PassOver

FetchNext ==
    /\ pass.state = "fetch" /\ pass.todo # <<>>
    /\ queue' = Append(queue, [tx |-> Head(pass.todo), from |-> "pass"])
    /\ pass' = [pass EXCEPT !.state = "await"]
    /\ UNCHANGED <<chainVars, subscribed, saving, recent, cursor,
                   databaseVars, boundVars>>

\* A slip: what the endpoint does not serve yet is left out of the pass.
SkipNotServed ==
    /\ pass.state = "fetch" /\ pass.todo # <<>>
    /\ Fail
    /\ pass' = [pass EXCEPT !.todo = Tail(@)]
    /\ UNCHANGED <<chainVars, subscribed, queue, saving, recent, cursor,
                   databaseVars, crashes>>

\* The endpoint listed the signature and does not serve the transaction yet.
NotServed ==
    /\ pass.state = "fetch" /\ pass.todo # <<>>
    /\ Fail
    /\ PassOver
    /\ UNCHANGED <<chainVars, queue, saving, recent, cursor,
                   databaseVars, crashes>>

FetchThrows ==
    /\ pass.state = "fetch" /\ pass.todo # <<>>
    /\ Fail
    /\ NextRpc
    /\ UNCHANGED <<chainVars, queue, saving, recent, cursor,
                   databaseVars, crashes>>

EndPass ==
    /\ pass.state = "fetch" /\ pass.todo = <<>>
    /\ PassOver
    /\ UNCHANGED <<chainVars, queue, saving, recent, cursor,
                   databaseVars, boundVars>>

-----------------------------------------------------------------------------
(***************************************************************************)
(* The pipeline: the head of the chain is handled, then taken off it.      *)
(***************************************************************************)
InHand == queue # <<>> /\ ~ saving
tx == Head(queue).tx

\* handle() resolves or rejects; a pass waiting for it goes on or gives up,
\* a push does not care.
Handled ==
    /\ queue' = Tail(queue)
    /\ IF Head(queue).from = "pass"
       THEN /\ pass' = [pass EXCEPT !.state = "fetch", !.todo = Tail(@)]
            /\ UNCHANGED subscribed
       ELSE UNCHANGED <<pass, subscribed>>

Rejected ==
    /\ queue' = Tail(queue)
    /\ IF Head(queue).from = "pass"
       THEN NextRpc
       ELSE UNCHANGED <<pass, subscribed>>

\* A slip: the journal's unique signature is not looked at.
CommitAgain ==
    /\ applied' = applied \cup {tx}
    /\ effects' = [effects EXCEPT ![tx] = @ + 1]

\* The records of a transaction are written in one database transaction;
\* what its signature has written already is not written twice.
Commit ==
    /\ applied' = applied \cup {tx}
    /\ effects' = [effects EXCEPT ![tx] = IF tx \in applied THEN @ ELSE @ + 1]

\* A slip: the cursor follows whatever was applied last.
AdvancesAlways == TRUE

\* The cursor only moves forward, by slot.
Advances == cursor = None \/ Slot[tx] >= Slot[cursor]

Skip ==
    /\ InHand /\ tx \in Remembered
    /\ Handled
    /\ UNCHANGED <<chainVars, saving, recent, cursor, databaseVars, boundVars>>

NotIndexedYet == Parent[tx] # None /\ Parent[tx] \notin applied

Apply ==
    /\ InHand /\ tx \notin Remembered
    /\ ~ NotIndexedYet
    /\ recent' = Remember(tx)
    /\ Commit
    /\ IF Advances
       THEN /\ cursor' = tx
            /\ saving' = TRUE
            /\ UNCHANGED <<queue, pass, subscribed>>
       ELSE /\ Handled
            /\ UNCHANGED <<cursor, saving>>
    /\ UNCHANGED <<chainVars, saved, boundVars>>

\* A failed transaction is forgotten, so that a later pass retries it.
GivenUp ==
    /\ recent' = Forget(Remember(tx), tx)
    /\ Rejected
    /\ UNCHANGED <<chainVars, saving, cursor, saved, crashes>>

\* deps.apply throws: what it needs is missing, or the database or the
\* endpoint fails, and nothing is written ...
ApplyThrows ==
    /\ InHand /\ tx \notin Remembered
    /\ \/ NotIndexedYet /\ UNCHANGED failures
       \/ Fail
    /\ GivenUp
    /\ UNCHANGED <<applied, effects>>

\* ... or the answer to the commit is lost.
ApplyThrowsAfterCommit ==
    /\ InHand /\ tx \notin Remembered
    /\ ~ NotIndexedYet
    /\ Fail
    /\ Commit
    /\ GivenUp

Save ==
    /\ saving
    /\ saved' = cursor
    /\ saving' = FALSE
    /\ Handled
    /\ UNCHANGED <<chainVars, recent, cursor, applied, effects, boundVars>>

\* The cursor in memory stays where it is, ahead of the database.
SaveThrows ==
    /\ saving
    /\ Fail
    /\ saving' = FALSE
    /\ Rejected
    /\ UNCHANGED <<chainVars, recent, cursor, databaseVars, crashes>>

\* The process ends, in the middle of anything, and starts again.
Restart ==
    /\ crashes < MaxCrashes
    /\ crashes' = crashes + 1
    /\ wire' = {}
    /\ subscribed' = FALSE /\ queue' = <<>> /\ saving' = FALSE
    /\ recent' = <<>> /\ cursor' = saved /\ pass' = NoPass
    /\ UNCHANGED <<landed, databaseVars, failures>>

PassStep == StartPass \/ FetchNext \/ NotServed \/ FetchThrows \/ EndPass
PipelineStep ==
    Skip \/ Apply \/ ApplyThrows \/ ApplyThrowsAfterCommit \/ Save \/ SaveThrows

Next ==
    \/ Land
    \/ \E t \in Txs : Notify(t)
    \/ PassStep
    \/ PipelineStep
    \/ Restart

Spec == Init /\ [][Next]_vars

\* The timer starts passes for ever, every call to an endpoint or the database
\* is answered, and a chained promise is run.  Nothing obliges the socket to
\* deliver, and nothing has to fail.
Fairness == WF_vars(PassStep) /\ WF_vars(PipelineStep)

FairSpec == Spec /\ Fairness

-----------------------------------------------------------------------------
Entry == [tx : Txs, from : {"live", "pass"}]

TypeOK ==
    /\ landed \in 0 .. NTx /\ wire \subseteq Txs
    /\ subscribed \in BOOLEAN /\ saving \in BOOLEAN
    /\ queue \in Seq(Entry)
    /\ recent \in Seq(Txs) /\ Len(recent) <= RecentCapacity
    /\ cursor \in 0 .. landed /\ saved \in 0 .. landed
    /\ pass \in [state : {"idle", "fetch", "await"}, rpc : 1 .. Rpcs,
                 since : 0 .. landed, todo : Seq(Txs)]
    /\ applied \subseteq 1 .. landed
    /\ effects \in [Txs -> Nat]
    /\ crashes \in 0 .. MaxCrashes /\ failures \in 0 .. MaxFailures

\* A transaction seen by the subscription, by a pass and by a restarted worker
\* takes effect once (pipeline.ts:23-26): the recent set forgets, the unique
\* signatures do not.
TakesEffectOnce == \A t \in Txs : effects[t] <= 1

\* The cursor in the database never goes back to an earlier slot, whatever
\* order live and replayed transactions come in and wherever the worker is
\* restarted (pipeline.ts:52-53).
CursorOnlyForward ==
    [][saved # None => saved' # None /\ Slot[saved'] >= Slot[saved]]_vars

\* Everything up to the cursor is in the index, in memory and on disk, so that
\* a pass which starts there misses nothing (backfill.ts:41-43, 69-72).
NothingBehindTheCursor ==
    \A t \in Txs : t <= cursor \/ t <= saved => t \in applied

\* No record is lost: whatever lands is in the index sooner or later, through
\* lost notifications, failures and restarts (run.ts:18-20).
EveryRecordIndexed == \A t \in Txs : t <= landed ~> t \in applied

\* A pass comes to an end, so the next one can start (the passing flag,
\* run.ts:74-92).
PassesEnd == pass.state # "idle" ~> pass.state = "idle"
============================================================================
