------------------------------ MODULE Session -------------------------------
(***************************************************************************)
(* The browser tab's side of a session (apps/web/src/auth): the wallet     *)
(* extension connects, switches accounts and signs; SessionProvider keeps  *)
(* what the screens show, and sessionStorage the token requests carry.     *)
(* Several sign-ins may be under way: switching accounts frees the button  *)
(* while the answer for the last account is still to come.                 *)
(***************************************************************************)
EXTENDS Access

CONSTANT MaxHits  \* bound: sign-ins begin while the limiter has seen fewer

VARIABLES
    wallet,  \* the account the extension has selected
    state,   \* SessionProvider's state
    stored,  \* the session in sessionStorage
    keeps,   \* sessionStorage takes what is written to it
    claim    \* the timer that gives up waiting for the wallet is set

tabVars == <<wallet, state, stored, keeps, claim>>
sessionVars == <<accessVars, tabVars>>

Only(kind) == [kind |-> kind, wallet |-> NoWallet, session |-> NoSession]
With(kind, w) == [kind |-> kind, wallet |-> w, session |-> NoSession]
SignedIn(session) == [kind |-> "signed-in", wallet |-> session.wallet,
                      session |-> session]

\* store.token: what requests carry.
Token == IF stored.expires > clock THEN stored ELSE NoSession

\* A slip: what is there is not written over.
SaveOnce(session) ==
    stored' = IF keeps /\ stored = NoSession THEN session ELSE stored

\* In private mode the session lives in memory alone.
Save(session) == stored' = IF keeps THEN session ELSE stored

SessionInit ==
    /\ AccessInit
    /\ wallet = NoWallet /\ state = Only("no-wallet")
    /\ stored = NoSession /\ keeps \in BOOLEAN /\ claim = FALSE

-----------------------------------------------------------------------------
(* The wallet changes, and with it the session.                            *)

Load(w) ==
    IF stored.wallet = w /\ stored.expires > clock
    THEN state' = SignedIn(stored) /\ UNCHANGED stored
    ELSE state' = With("wallet", w) /\ stored' = NoSession

Select(w) ==
    /\ w # wallet /\ wallet' = w
    /\ Load(w)
    /\ claim' = FALSE
    /\ UNCHANGED <<accessVars, keeps>>

\* A live session is given a moment to be claimed by its wallet.
Disconnect ==
    /\ wallet # NoWallet /\ wallet' = NoWallet
    /\ IF Token = NoSession THEN state' = Only("no-wallet") /\ claim' = FALSE
                            ELSE claim' = TRUE /\ UNCHANGED state
    /\ UNCHANGED <<accessVars, stored, keeps>>

GiveUp ==
    /\ claim /\ claim' = FALSE
    /\ stored' = NoSession /\ state' = Only("no-wallet")
    /\ UNCHANGED <<accessVars, wallet, keeps>>

\* The timer of the session shown.
Expire ==
    /\ state.kind = "signed-in" /\ state.session.expires <= clock
    /\ stored' = NoSession
    /\ state' = With("wallet", state.session.wallet)
    /\ UNCHANGED <<accessVars, wallet, keeps, claim>>

\* The page is loaded again; whatever it was waiting for is lost.
Reload ==
    /\ wallet' = NoWallet
    /\ call' = [c \in Calls |-> Idle] /\ request' = NoRequest
    /\ claim' = (Token # NoSession)
    /\ state' = Only(IF Token = NoSession THEN "no-wallet" ELSE "restoring")
    /\ UNCHANGED <<clock, nonces, panel, window, hits, issued, granted,
                   changes, copies, stored, keeps>>

-----------------------------------------------------------------------------
(* Signing in and out.                                                     *)

TabCalls == UNCHANGED <<clock, nonces, panel, window, request, hits, issued,
                        granted, changes, copies, wallet, keeps, claim>>

SignIn(c) ==
    /\ Len(hits) < MaxHits
    /\ state.kind = "wallet" /\ wallet # NoWallet
    /\ call[c] = Idle
    /\ call' = [call EXCEPT ![c].step = "asked", ![c].wallet = wallet]
    /\ state' = With("signing", wallet)
    /\ TabCalls /\ UNCHANGED stored

\* The extension signs for the account it was asked for or for the one that
\* is selected now, or the user declines.
Sign(c) ==
    /\ call[c].step = "given"
    /\ \/ /\ wallet # NoWallet
          /\ \E s \in {call[c].wallet, wallet} :
                call' = [call EXCEPT ![c].step = "sent", ![c].signer = s]
       \/ Refuse(c)
    /\ TabCalls /\ UNCHANGED <<state, stored>>

\* The answer is taken for the account the sign-in began with.
Settle(c) ==
    /\ \/ /\ call[c].step = "answered"
          /\ Save(call[c].session)
          /\ state' = SignedIn(call[c].session)
       \/ /\ call[c].step = "refused"
          /\ state' = With("wallet", call[c].wallet)
          /\ UNCHANGED stored
    /\ call' = [call EXCEPT ![c] = Idle]
    /\ TabCalls

\* The extension is told to disconnect as well, which it does when it likes.
SignOut ==
    /\ state.kind \in {"wallet", "signing", "signed-in"}
    /\ stored' = NoSession
    /\ state' = IF wallet # NoWallet THEN With("wallet", wallet) ELSE state
    /\ UNCHANGED <<accessVars, wallet, keeps, claim>>

\* The wallet has created the company; the index may not know it yet.
AddMembership ==
    /\ state.kind = "signed-in" /\ "panel" \notin state.session.roles
    /\ LET session == [state.session EXCEPT !.roles = @ \cup {"panel"}]
       IN  Save(session) /\ state' = SignedIn(session)
    /\ UNCHANGED <<accessVars, wallet, keeps, claim>>

-----------------------------------------------------------------------------
(* The panel reads its company with the token there is when it asks.       *)

ReadPanel ==
    /\ state.kind = "signed-in" /\ "panel" \in state.session.roles
    /\ request = NoRequest
    /\ request' = [step |-> "sent", token |-> Token,
                   held |-> Token.wallet \in panel]
    /\ UNCHANGED <<clock, nonces, panel, window, call, hits, issued, granted,
                   changes, copies, tabVars>>

ReadEnds ==
    /\ request.step \in {"served", "refused"}
    /\ request' = NoRequest
    /\ UNCHANGED <<clock, nonces, panel, window, call, hits, issued, granted,
                   changes, copies, tabVars>>

TabNext ==
    \/ \E w \in Wallets : Select(w)
    \/ Disconnect \/ GiveUp \/ Expire \/ Reload
    \/ \E c \in Calls : SignIn(c) \/ Sign(c) \/ Settle(c)
    \/ SignOut \/ AddMembership
    \/ ReadPanel \/ ReadEnds

SessionNext == (ApiNext /\ UNCHANGED tabVars) \/ TabNext

SessionSpec == SessionInit /\ [][SessionNext]_sessionVars

-----------------------------------------------------------------------------
Steps == {"idle", "asked", "given", "sent", "consumed", "answered", "refused"}
Someone == Wallets \cup {NoWallet}
Sessions == [wallet : Someone, roles : SUBSET {"panel", "investor"},
             expires : Nat, nonce : Nat]

SessionTypeOK ==
    /\ clock \in 0 .. MaxTime /\ panel \subseteq Wallets
    /\ nonces \in [Wallets -> [nonce : 0 .. Len(issued), expires : Nat]]
    /\ window \in Seq(0 .. clock) /\ Len(window) <= Limit
    /\ call \in [Calls -> [step : Steps, wallet : Someone, signer : Someone,
                           nonce : 0 .. Len(issued), session : Sessions]]
    /\ request.step \in {"idle", "sent", "cleared", "served", "refused"}
    /\ request.token \in Sessions /\ stored \in Sessions
    /\ state.kind \in {"restoring", "no-wallet", "wallet", "signing", "signed-in"}
    /\ state.session \in Sessions /\ (state.kind # "signed-in" => state.session = NoSession)
    /\ wallet \in Someone /\ claim \in BOOLEAN /\ keeps \in BOOLEAN

\* Requests carry the token of the session on the screen or none, through
\* switches of account, private mode and answers that come late: the
\* panel of one account is never filled with what another one may see.
BearerIsTheOneShown ==
    state.kind = "signed-in" =>
        Token = NoSession \/ Token.nonce = state.session.nonce

\* "Switching accounts in the wallet must never keep the previous account's
\* token" (session.ts:81-82): a tab signed in with a wallet is signed in as it.
SignedInAsTheWallet ==
    state.kind = "signed-in" /\ wallet # NoWallet =>
        state.session.wallet = wallet
=============================================================================
