--------------------------- MODULE HoldingsIndex ----------------------------
(***************************************************************************)
(* The holdings rows of one token, written by the worker as the pipeline   *)
(* hands it the token's transactions: each allowed transfer is a journal   *)
(* row and a delta on both sides; a source the rows cannot cover is read   *)
(* back from the chain instead (apps/worker/src/apply.ts, index-store.ts). *)
(*                                                                         *)
(* The journal is Pipeline's `applied`; the order of arrival, the loss,    *)
(* the replays and the restarts are Pipeline's as well.                    *)
(***************************************************************************)
EXTENDS Pipeline, FiniteSets, FiniteSetsExt, Functions

CONSTANTS
    Wallets,   \* owners of token accounts
    Treasury,  \* the Company PDA, owner of the treasury
    Supply,    \* tokens issued at creation
    TokenTx,   \* the transaction that creates the token
    Moves      \* what its transfers move

Transfers == DOMAIN Moves

ASSUME HoldingsAssumption ==
    /\ Treasury \in Wallets
    /\ Supply \in Nat
    /\ TokenTx \in Txs
    /\ Transfers \subseteq Txs \ {TokenTx}
    /\ Moves \in [Transfers -> [from : Wallets, to : Wallets, n : Nat]]
    /\ \A t \in Transfers : Parent[t] = TokenTx
    \* A reading of the chain is of a whole slot.
    /\ \A t, u \in Transfers : t < u => Slot[t] < Slot[u]

VARIABLES
    rows,       \* database: the holdings rows
    reconciled  \* wallets whose row was ever read from the chain (history)

holdingsVars == <<rows, reconciled>>

-----------------------------------------------------------------------------
Amounts == [t \in Transfers |-> Moves[t].n]

Sent(w, txs) == SumFunctionOnSet(Amounts, {t \in txs : Moves[t].from = w})
Received(w, txs) == SumFunctionOnSet(Amounts, {t \in txs : Moves[t].to = w})

\* What w's account holds once these transfers are done.
BalanceAfter(w, txs) ==
    (IF w = Treasury THEN Supply ELSE 0) + Received(w, txs) - Sent(w, txs)

\* The chain just after transaction t.
Chain(w, t) == IF t < TokenTx THEN 0 ELSE BalanceAfter(w, Transfers \cap 1 .. t)

\* The token program moves what there is.
ASSUME NoOverdraft ==
    \A t \in Transfers : Moves[t].n <= Chain(Moves[t].from, t - 1)

NoRow == [amount |-> -1, distributed |-> 0, slot |-> 0, verified |-> FALSE]
HoldingRow == [amount : Nat, distributed : Nat, slot : Nat, verified : BOOLEAN]

AmountOf(row) == IF row = NoRow THEN 0 ELSE row.amount

Covered(known, t) ==
    known # NoRow /\ known.verified /\ known.slot >= Slot[t]

\* A slip: the reading is dated by the transaction that made it necessary.
ReconciledAsOf(known, w, t) ==
    [amount |-> Chain(w, landed), distributed |-> known.distributed,
     slot |-> Slot[t], verified |-> TRUE]

\* The chain's balance, read while t is applied, dated by the reading's slot.
Reconciled(known, w, t) ==
    [amount |-> Chain(w, landed), distributed |-> known.distributed,
     slot |-> Slot[landed], verified |-> TRUE]

Enough(known, t) == known # NoRow /\ known.amount >= Moves[t].n

SourceHolding(known, t) ==
    CASE Covered(known, t) -> known
      [] ~ Covered(known, t) /\ Enough(known, t) ->
            [amount |-> known.amount - Moves[t].n,
             distributed |-> known.distributed,
             slot |-> Slot[t], verified |-> FALSE]
      [] OTHER -> Reconciled(known, Moves[t].from, t)

DestinationHolding(known, t) ==
    IF Covered(known, t)
    THEN known
    ELSE [amount |-> AmountOf(known) + Moves[t].n,
          distributed |-> known.distributed
              + (IF Moves[t].from = Treasury THEN Moves[t].n ELSE 0),
          slot |-> Slot[t], verified |-> FALSE]

\* A slip: both rows are read before either is written.
MovedTogether(t) ==
    [rows EXCEPT ![Moves[t].from] = SourceHolding(rows[Moves[t].from], t),
                 ![Moves[t].to] = DestinationHolding(rows[Moves[t].to], t)]

\* Source first, written, then destination.
Moved(t) ==
    LET after == [rows EXCEPT ![Moves[t].from] = SourceHolding(@, t)]
    IN  [after EXCEPT ![Moves[t].to] = DestinationHolding(@, t)]

TokenCreated(t) ==
    [rows EXCEPT ![Treasury] =
        IF @ # NoRow THEN @
        ELSE [amount |-> Supply, distributed |-> 0,
              slot |-> Slot[t], verified |-> FALSE]]

-----------------------------------------------------------------------------
HoldingsInit ==
    /\ rows = [w \in Wallets |-> NoRow]
    /\ reconciled = {}

\* A slip: balances move again for a journal row already there.
JournaledNever(t) == FALSE

Journaled(t) == t \in applied

\* The writes that go with one commit of the pipeline.
WriteHoldings ==
    \/ /\ tx = TokenTx
       /\ rows' = TokenCreated(tx) /\ UNCHANGED reconciled
    \/ /\ tx \in Transfers /\ ~ Journaled(tx)
       /\ rows' = Moved(tx)
       /\ reconciled' = reconciled \cup {w \in Wallets : rows'[w].verified}
    \/ /\ tx # TokenTx /\ (tx \in Transfers => Journaled(tx))
       /\ UNCHANGED holdingsVars

-----------------------------------------------------------------------------
\* Applied in chain order, through errors, restarts and replays, the rows are
\* the cap table just after the last transaction that was applied, and no row
\* ever needs the chain (apply.ts:369-407).
RowsFollowTheChain ==
    /\ applied # {} => \A w \in Wallets :
            AmountOf(rows[w]) = Chain(w, Max(applied))
    /\ reconciled = {}

\* In any order of arrival no row is negative, and one that never needed the
\* chain is the sum of what the journal says and remembers what came from the
\* treasury (apply.ts:299-367, index-store.ts:124-125).
RowsAreTheJournal ==
    /\ rows \in [Wallets -> HoldingRow \cup {NoRow}]
    /\ TokenTx \in applied => \A w \in Wallets \ reconciled :
        LET journal == applied \cap Transfers
        IN  /\ AmountOf(rows[w]) = BalanceAfter(w, journal)
            /\ rows[w].distributed =
                   Received(w, {t \in journal : Moves[t].from = Treasury})

\* A row marked as verified says what the chain said at its slot, to whatever
\* is replayed below it (apply.ts:79-83, 299-301).
VerifiedRowIsTheChain ==
    \A w \in Wallets : rows[w].verified =>
        \E t \in Txs : Slot[t] = rows[w].slot /\ rows[w].amount = Chain(w, t)

\* When every transfer is in the journal, the rows are the chain's: none was
\* counted twice (apply.ts:79-80).
NoTransferCountedTwice ==
    applied = Txs => \A w \in Wallets : AmountOf(rows[w]) = Chain(w, NTx)
============================================================================
