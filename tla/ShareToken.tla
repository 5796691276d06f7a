---------------------------- MODULE ShareToken -----------------------------
(***************************************************************************)
(* One company's share token on the chain, from the moment create_token    *)
(* has minted the whole supply into the treasury: the company's roles, the *)
(* transfer policy, the registry of admitted wallets, vesting grants, the  *)
(* share accounts, and the transfer hook that Token-2022 calls inside      *)
(* every transfer.  Each action is one transaction; the chain runs them    *)
(* one at a time and an instruction that fails changes nothing, so a       *)
(* refused instruction is a step that does not exist.                      *)
(*                                                                         *)
(* A wallet's share account is its associated token account, which exists  *)
(* as soon as anything needs it (init_if_needed) and has the wallet for    *)
(* its owner for good.  Treasury is the company PDA's own such account.    *)
(***************************************************************************)
EXTENDS Vesting, Functions

CONSTANTS
    Wallets,     \* investors
    Treasury,    \* the company's account of the token (treasury_owner)
    Keys,        \* keys that may hold, or be given, a role
    NoKey,       \* Pubkey::default(), which nobody signs with
    Supply,      \* total_supply, minted once
    Schedules,   \* the schedules a grant may be asked for
    Expiries,    \* the expires_at values an officer may enter
    MaxTime,     \* bound: the last second of the clock
    MaxVersion   \* bound: policy versions looked at

ASSUME ShareTokenAssumption ==
    /\ Treasury \notin Wallets
    /\ NoKey \notin Keys
    /\ Supply \in Nat
    /\ Schedules \subseteq Schedule
    /\ Expiries \subseteq Int
    /\ MaxTime \in Nat
    /\ MaxVersion \in Nat

VARIABLES
    now,        \* Clock::unix_timestamp
    roles,      \* Company: admin and compliance_officer
    policy,     \* TokenConfig: require_accreditation and policy_version
    record,     \* InvestorRecord per wallet; status "absent" when no account
    grant,      \* Grant per wallet, or NoGrant
    balance,    \* shares on each account
    burned      \* shares each wallet has destroyed (history)

registryVars == <<roles, policy, record>>
shareVars == <<now, roles, policy, record, grant, balance, burned>>

-----------------------------------------------------------------------------
Accounts == Wallets \cup {Treasury}

Shares == 1 .. Supply

NoGrant == [total |-> 0]
GrantRecord == [total : Shares, schedule : Schedules]

Statuses == {"none", "approved", "revoked"}
Record == [status : Statuses \cup {"absent"}, expiresAt : Int]
NoRecord == [status |-> "absent", expiresAt |-> 0]

\* Company::validate_roles.
ValidRoles(admin, officer) ==
    /\ admin # officer
    /\ admin # NoKey
    /\ officer # NoKey

(***************************************************************************)
(* The transfer hook, execute_handler.                                     *)
(***************************************************************************)
\* A slip: the admission that ends this second still counts.
AdmittedInclusive(w) ==
    /\ record[w].status = "approved"
    /\ record[w].expiresAt >= now

\* Check 2, the record: it must exist, be approved and end strictly later.
Admitted(w) ==
    /\ record[w].status = "approved"
    /\ record[w].expiresAt > now

\* Check 2: who may receive.  The treasury is exempt, and so is everybody
\* when the policy does not ask for accreditation.
MayReceive(a) ==
    a # Treasury /\ policy.accreditation => Admitted(a)

\* Check 3: the shares of w's grant that must stay on w's account.
LockedShares(w) ==
    IF grant[w] = NoGrant
    THEN 0
    ELSE Locked(grant[w].total, grant[w].schedule, now)

\* A slip: the balance compared as it was before the debit.
LockedBeforeDebit(src, n) ==
    src \in Wallets => balance[src] >= LockedShares(src)

KeepsLocked(src, n) ==
    src \in Wallets => balance[src] - n >= LockedShares(src)

HookAllows(src, dst, n) ==
    /\ MayReceive(dst)
    /\ KeepsLocked(src, n)

(***************************************************************************)
(* Token-2022 transfer_checked between two accounts of a mint with a hook: *)
(* the sender has the amount, and the hook, called after the debit, agrees.*)
(* A transfer of an account to itself returns before the hook and moves    *)
(* nothing, so it is no step here.                                         *)
(***************************************************************************)
\* Slips: the sender's balance not compared; both new balances computed from
\* the old ones, for an account and itself too.
MoveSharesUnfunded(src, dst, n) ==
    /\ src # dst
    /\ balance' = [balance EXCEPT ![src] = @ - n, ![dst] = @ + n]

MoveSharesAliased(src, dst, n) ==
    /\ n <= balance[src]
    /\ balance' = [balance EXCEPT ![src] = balance[src] - n,
                                  ![dst] = balance[dst] + n]

MoveShares(src, dst, n) ==
    /\ src # dst
    /\ n <= balance[src]
    /\ balance' = [balance EXCEPT ![src] = @ - n, ![dst] = @ + n]

Transfer(src, dst, n) ==
    /\ HookAllows(src, dst, n)
    /\ MoveShares(src, dst, n)

-----------------------------------------------------------------------------
\* create_company and create_token have run: roles valid, policy version 1,
\* the supply in the treasury and the mint authority dropped.
Init ==
    /\ now = 0
    /\ roles \in {r \in [admin : Keys, officer : Keys] :
                      ValidRoles(r.admin, r.officer)}
    /\ policy \in [accreditation : BOOLEAN, version : {1}]
    /\ record = [w \in Wallets |-> NoRecord]
    /\ grant = [w \in Wallets |-> NoGrant]
    /\ balance = [a \in Accounts |-> IF a = Treasury THEN Supply ELSE 0]
    /\ burned = [w \in Wallets |-> 0]

Tick ==
    /\ now < MaxTime
    /\ now' = now + 1
    /\ UNCHANGED <<registryVars, grant, balance, burned>>

SetRoles(signer, admin, officer) ==
    /\ signer = roles.admin
    /\ ValidRoles(admin, officer)
    /\ roles' = [admin |-> admin, officer |-> officer]
    /\ UNCHANGED <<now, policy, record, grant, balance, burned>>

\* TransferPolicy::validate refuses require_rofr; the window length it also
\* bounds is read by nothing yet.
SetPolicy(signer, accreditation, rofr) ==
    /\ signer = roles.admin
    /\ ~ rofr
    /\ policy.version < MaxVersion
    /\ policy' = [accreditation |-> accreditation,
                  version |-> policy.version + 1]
    /\ UNCHANGED <<now, roles, record, grant, balance, burned>>

\* The record is created by the first call and overwritten by the next ones.
SetInvestorStatus(signer, w, status, expiresAt) ==
    /\ signer = roles.officer
    /\ status = "approved" => expiresAt > now
    /\ record' = [record EXCEPT ![w] = [status |-> status,
                                        expiresAt |-> expiresAt]]
    /\ UNCHANGED <<now, roles, policy, grant, balance, burned>>

Distribute(signer, w, n) ==
    /\ signer = roles.admin
    /\ Transfer(Treasury, w, n)
    /\ UNCHANGED <<now, registryVars, grant, burned>>

\* A slip: init_if_needed on the grant's address, so that a second grant
\* replaces the schedule of the first.
CreateGrantAgain(signer, w, total, schedule) ==
    /\ signer = roles.admin
    /\ ValidSchedule(schedule)
    /\ grant' = [grant EXCEPT ![w] = [total |-> total, schedule |-> schedule]]
    /\ Transfer(Treasury, w, total)
    /\ UNCHANGED <<now, registryVars, burned>>

\* One grant per wallet (init), of a schedule that vests, and the whole total
\* on the wallet's account in the same transaction.  The grant the hook reads
\* here is the treasury's, which has none.
CreateGrant(signer, w, total, schedule) ==
    /\ signer = roles.admin
    /\ grant[w] = NoGrant
    /\ ValidSchedule(schedule)
    /\ grant' = [grant EXCEPT ![w] = [total |-> total, schedule |-> schedule]]
    /\ Transfer(Treasury, w, total)
    /\ UNCHANGED <<now, registryVars, burned>>

-----------------------------------------------------------------------------
\* What a holder does with the token program alone: no instruction of the
\* platform is called, and burning does not call the hook.
HolderTransfer(w, dst, n) ==
    /\ Transfer(w, dst, n)
    /\ UNCHANGED <<now, registryVars, grant, burned>>

HolderBurn(w, n) ==
    /\ n <= balance[w]
    /\ balance' = [balance EXCEPT ![w] = @ - n]
    /\ burned' = [burned EXCEPT ![w] = @ + n]
    /\ UNCHANGED <<now, registryVars, grant>>

Next ==
    \/ Tick
    \/ \E signer \in Keys, admin, officer \in Keys \cup {NoKey} :
          SetRoles(signer, admin, officer)
    \/ \E signer \in Keys, accreditation, rofr \in BOOLEAN :
          SetPolicy(signer, accreditation, rofr)
    \/ \E signer \in Keys, w \in Wallets, st \in Statuses, e \in Expiries :
          SetInvestorStatus(signer, w, st, e)
    \/ \E signer \in Keys, w \in Wallets, n \in Shares :
          Distribute(signer, w, n)
    \/ \E signer \in Keys, w \in Wallets, n \in Shares, s \in Schedules :
          CreateGrant(signer, w, n, s)
    \/ \E w \in Wallets, dst \in Accounts, n \in Shares :
          HolderTransfer(w, dst, n)
    \/ \E w \in Wallets, n \in Shares : HolderBurn(w, n)

Spec == Init /\ [][Next]_shareVars

-----------------------------------------------------------------------------
TypeOK ==
    /\ now \in Nat
    /\ roles \in [admin : Keys, officer : Keys]
    /\ policy \in [accreditation : BOOLEAN, version : Nat]
    /\ record \in [Wallets -> Record]
    /\ grant \in [Wallets -> GrantRecord \cup {NoGrant}]
    /\ balance \in [Accounts -> Nat]
    /\ burned \in [Wallets -> Nat]

\* Whatever was minted is on some account or was burned by its holder: no
\* transfer, grant or trade creates or loses a share (token_config.rs:32,
\* "the whole issue, once").
SupplyAccounted == SumFunction(balance) + SumFunction(burned) = Supply

\* The unvested part of a grant stays where it was put (FR-010, execute.rs
\* check 3), whatever mixture of transfers, purchases on top of the grant,
\* offers and time a holder goes through.  Burning is the one way to lose it,
\* and it gives the shares to nobody.
GrantLocked ==
    \A w \in Wallets : balance[w] + burned[w] >= LockedShares(w)

\* Shares reach an investor's account only while that investor's admission is
\* approved and has not run out, unless the policy in force at that moment
\* asks for none (FR-002, FR-003, execute.rs check 2): distribution, grant,
\* direct transfer and market alike.
ReceivedOnlyWhileAdmitted ==
    [][\A w \in Wallets :
          balance'[w] > balance[w] =>
              \/ ~ policy.accreditation
              \/ record[w].status = "approved" /\ now < record[w].expiresAt]_shareVars

(***************************************************************************)
(* The cap table this token is: who may receive is the hook's check 2 read *)
(* as a set, what is locked its check 3 read as a function.                *)
(***************************************************************************)
CT == INSTANCE CapTable WITH
          held <- balance,
          destroyed <- burned,
          eligible <- {w \in Wallets : MayReceive(w)},
          locked <- [w \in Wallets |-> LockedShares(w)]

\* Every transaction is a move the cap table allows, or one it does not see.
ImplementsCapTable == CT!Spec
============================================================================
