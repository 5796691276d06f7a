--------------------------- MODULE RegistryIndex ----------------------------
(***************************************************************************)
(* The rows that mirror a company's settings: its roles, its token's       *)
(* policy and the investors' status, written as the pipeline hands over    *)
(* the transactions that change them (apps/worker/src/apply.ts,            *)
(* index-store.ts).  Nothing journals these writes: each row keeps a stamp *)
(* and takes what is not older, so a replay writes again.                  *)
(***************************************************************************)
EXTENDS Pipeline

CONSTANTS
    Investors,  \* wallets
    Events      \* the events of each transaction, in order

NoStamp == -1

\* A roles change is stamped with the program's clock, a policy with its
\* version, a status with the slot of its transaction.
Event == [kind : {"CompanyCreated"}, stamp : {NoStamp}, value : STRING]
         \cup [kind : {"TokenCreated", "RolesSet", "PolicySet"},
               stamp : Nat, value : STRING]
         \cup [kind : {"InvestorStatusSet"}, wallet : Investors, value : STRING]

\* An event on the chain is known by its place: its transaction and its number.
Places(txs) == UNION {{<<t, i>> : i \in DOMAIN Events[t]} : t \in txs}
At(p) == Events[p[1]][p[2]]
Before(p, q) == p[1] < q[1] \/ (p[1] = q[1] /\ p[2] < q[2])

OfRoles(txs) ==
    {p \in Places(txs) : At(p).kind \in {"CompanyCreated", "RolesSet"}}
OfPolicy(txs) ==
    {p \in Places(txs) : At(p).kind \in {"TokenCreated", "PolicySet"}}
OfStatus(txs, w) ==
    {p \in Places(txs) : At(p).kind = "InvestorStatusSet" /\ At(p).wallet = w}

ASSUME RegistryAssumption ==
    /\ \A t \in Txs : Events[t] \in Seq(Event)
    \* The index knows the company by the transaction that created it.
    /\ \A t \in Txs : Parent[t] = None /\ Events[t] # <<>> =>
            \E i \in DOMAIN Events[t] : Events[t][i].kind = "CompanyCreated"
    \* Created once, before anything changes; the program's clock does not go
    \* back, and every policy raises the version.
    /\ \A p, q \in OfRoles(Txs) : Before(p, q) =>
            At(q).kind = "RolesSet" /\ At(p).stamp <= At(q).stamp
    /\ \A p, q \in OfPolicy(Txs) : Before(p, q) =>
            At(q).kind = "PolicySet" /\ At(p).stamp < At(q).stamp

VARIABLES
    roles,    \* companies row: who is admin and officer, and roles_set_at
    policy,   \* tokens row: the policy and its version
    status    \* investors rows: status and slot per wallet

registryVars == <<roles, policy, status>>

Blank == [stamp |-> NoStamp, value |-> "none"]

-----------------------------------------------------------------------------
Rows == [roles |-> roles, policy |-> policy, status |-> status]

\* Insert, unless a row is there.
Created(row, e) ==
    IF row = Blank THEN [stamp |-> e.stamp, value |-> e.value] ELSE row

\* A slip: two changes of one second are decided for the first.
RolesSetStrictly(row, e) ==
    IF row.stamp = NoStamp \/ row.stamp < e.stamp
    THEN [stamp |-> e.stamp, value |-> e.value]
    ELSE row

RolesSet(row, e) ==
    IF row.stamp = NoStamp \/ row.stamp <= e.stamp
    THEN [stamp |-> e.stamp, value |-> e.value]
    ELSE row

\* A slip: a policy is taken whatever its version.
PolicySetAlways(row, e) == [stamp |-> e.stamp, value |-> e.value]

PolicySet(row, e) ==
    IF row.stamp < e.stamp
    THEN [stamp |-> e.stamp, value |-> e.value]
    ELSE row

StatusSet(row, slot, e) ==
    IF row = Blank \/ row.stamp <= slot
    THEN [stamp |-> slot, value |-> e.value]
    ELSE row

\* The rows after event e of a transaction at this slot.
Written(r, slot, e) ==
    CASE e.kind = "CompanyCreated" -> [r EXCEPT !.roles = Created(@, e)]
      [] e.kind = "TokenCreated" -> [r EXCEPT !.policy = Created(@, e)]
      [] e.kind = "RolesSet" -> [r EXCEPT !.roles = RolesSet(@, e)]
      [] e.kind = "PolicySet" -> [r EXCEPT !.policy = PolicySet(@, e)]
      [] e.kind = "InvestorStatusSet" ->
            [r EXCEPT !.status[e.wallet] = StatusSet(@, slot, e)]

\* The rows after the first events of transaction t, and after all of them.
AfterEvents(r, t) ==
    LET after[i \in 0 .. Len(Events[t])] ==
            IF i = 0 THEN r ELSE Written(after[i - 1], Slot[t], Events[t][i])
    IN  after

AfterTransaction(r, t) == AfterEvents(r, t)[Len(Events[t])]

-----------------------------------------------------------------------------
RegistryInit ==
    /\ roles = Blank /\ policy = Blank
    /\ status = [w \in Investors |-> Blank]

WriteRegistry ==
    LET after == AfterTransaction(Rows, tx)
    IN  roles' = after.roles /\ policy' = after.policy /\ status' = after.status

-----------------------------------------------------------------------------
\* The last word among these events of the chain.
Latest(places) ==
    CHOOSE p \in places : \A q \in places : q = p \/ Before(q, p)

LastWord(places) ==
    IF places = {} THEN Blank.value ELSE At(Latest(places)).value

\* The rows say what the last of these transactions to speak of them said.
Mirror(txs) ==
    /\ roles.value = LastWord(OfRoles(txs))
    /\ policy.value = LastWord(OfPolicy(txs))
    /\ \A w \in Investors : status[w].value = LastWord(OfStatus(txs, w))

\* Once everything is in, the rows are the chain's last word, in whatever order
\* it came and however often it is replayed (index-store.ts:143-189).
LastWordWins == applied = Txs => Mirror(Txs)

\* Replays may turn a row back for a moment, but the rows settle on the chain's
\* last word (index-store.ts:159-160; backfill.ts:41-43).
SettlesOnTheLastWord == <>[]Mirror(1 .. landed)
============================================================================
