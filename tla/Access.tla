------------------------------- MODULE Access -------------------------------
(***************************************************************************)
(* Who the API answers (apps/api/src/{auth,middleware,routes/auth.ts}): a  *)
(* wallet asks for a nonce, signs it and gets a session token for a while; *)
(* a company's panel is read with the token, and the wallet's role looked  *)
(* up again each time.  What the browser does is Session's.                *)
(*                                                                         *)
(* There is one company and one client address.  The limiter's sweep of    *)
(* the other addresses is left out: it drops what Prune drops anyway when  *)
(* one of them comes back.                                                 *)
(***************************************************************************)
EXTENDS Integers, Sequences, FiniteSets, FiniteSetsExt

CONSTANTS
    Wallets, NoWallet,
    Investors,       \* wallets in the company's registry
    Calls,           \* bound: sign-ins under way at once
    NonceTtl,        \* NONCE_TTL_MS
    TokenTtl,        \* SESSION_TTL_SECONDS
    Limit,           \* RATE_LIMIT
    Window,          \* WINDOW_MS
    MaxTime,         \* bound on the clock
    MaxRoleChanges,  \* bound
    MaxCopies        \* bound: deliveries of a verification a second time

ASSUME AccessAssumption ==
    /\ NoWallet \notin Wallets /\ Investors \subseteq Wallets
    /\ NonceTtl \in Nat \ {0} /\ TokenTtl \in Nat \ {0}
    /\ Limit \in Nat \ {0} /\ Window \in Nat \ {0}
    /\ MaxTime \in Nat /\ MaxRoleChanges \in Nat /\ MaxCopies \in Nat

VARIABLES
    clock,
    nonces,   \* auth_nonces: the row of each wallet
    panel,    \* companies: the wallets that are its admin or its officer
    window,   \* the limiter's timestamps, oldest first
    call,     \* the sign-ins under way, in the browser and in the API
    request,  \* a read of the panel under way
    hits,     \* what the limiter has seen and let through (history)
    issued,   \* the nonces, in the order they were issued (history)
    granted,  \* the sessions they have turned into (history)
    changes, copies

accessVars == <<clock, nonces, panel, window, call, request, hits, issued,
                granted, changes, copies>>

-----------------------------------------------------------------------------
NoNonce == [nonce |-> 0, expires |-> 0]
NoSession == [wallet |-> NoWallet, roles |-> {}, expires |-> 0, nonce |-> 0]

Idle == [step |-> "idle", wallet |-> NoWallet, nonce |-> 0,
         signer |-> NoWallet, session |-> NoSession]

NoRequest == [step |-> "idle", token |-> NoSession, held |-> FALSE]

\* reader.membershipsOf: the roles the index knows now.
MembershipsOf(w) == (IF w \in panel THEN {"panel"} ELSE {})
                    \cup (IF w \in Investors THEN {"investor"} ELSE {})

\* A slip: the roles are those of the sign-in.
RolesOfToken(token) == token.roles

RolesOf(token) == MembershipsOf(token.wallet)

AccessInit ==
    /\ clock = 0
    /\ nonces = [w \in Wallets |-> NoNonce]
    /\ panel \in SUBSET Wallets
    /\ window = <<>> /\ hits = <<>> /\ issued = <<>> /\ granted = <<>>
    /\ call = [c \in Calls |-> Idle] /\ request = NoRequest
    /\ changes = 0 /\ copies = 0

-----------------------------------------------------------------------------
(* The limiter in front of /auth: a sliding window, in which only what was *)
(* let through counts.                                                     *)

FromFirst(times, alive) ==
    IF alive = {} THEN <<>> ELSE SubSeq(times, Min(alive), Len(times))

\* A slip: a timestamp that has just left the window still counts.
PruneLate(times) == FromFirst(times, {i \in DOMAIN times : times[i] >= clock - Window})

\* From the first timestamp that is still in the window.
Prune(times) == FromFirst(times, {i \in DOMAIN times : times[i] > clock - Window})

\* A slip: one request too many.
FullLate == Len(Prune(window)) > Limit

Full == Len(Prune(window)) >= Limit

RateLimit ==
    /\ window' = IF Full THEN Prune(window) ELSE Append(Prune(window), clock)
    /\ hits' = Append(hits, [at |-> clock, through |-> ~ Full])

-----------------------------------------------------------------------------
(* POST /auth/nonce and POST /auth/verify.                                 *)

Refuse(c) == call' = [call EXCEPT ![c].step = "refused"]

\* The limiter, or the database, refuses.
AskRefused(c) ==
    /\ call[c].step = "asked"
    /\ RateLimit
    /\ Refuse(c)
    /\ UNCHANGED <<clock, nonces, panel, request, issued, granted,
                   changes, copies>>

\* A new nonce takes the place of the wallet's last one.
Issue(c) ==
    /\ call[c].step = "asked" /\ ~ Full
    /\ RateLimit
    /\ LET w == call[c].wallet
           n == Len(issued) + 1
       IN  /\ nonces' = [nonces EXCEPT ![w] = [nonce |-> n,
                                               expires |-> clock + NonceTtl]]
           /\ issued' = Append(issued, [wallet |-> w, at |-> clock])
           /\ call' = [call EXCEPT ![c].step = "given", ![c].nonce = n]
    /\ UNCHANGED <<clock, panel, request, granted, changes, copies>>

\* A slip: the row is read and left.
ConsumeLeaves(w) == nonces' = nonces

\* The row is deleted as it is read.
Consume(w) == nonces' = [nonces EXCEPT ![w] = NoNonce]

\* The signature first, so that a wrong one leaves the nonce alone.
Matches(m) ==
    /\ m.signer = m.wallet
    /\ nonces[m.wallet].nonce = m.nonce
    /\ nonces[m.wallet].expires > clock

Granted(m) ==
    /\ Consume(m.wallet)
    /\ granted' = Append(granted, [nonce |-> m.nonce, wallet |-> m.wallet,
                                   at |-> clock, last |-> Len(issued)])

Verify(c) ==
    /\ call[c].step = "sent" /\ ~ Full
    /\ RateLimit
    /\ IF Matches(call[c])
       THEN Granted(call[c]) /\ call' = [call EXCEPT ![c].step = "consumed"]
       ELSE Refuse(c) /\ UNCHANGED <<nonces, granted>>
    /\ UNCHANGED <<clock, panel, request, issued, changes, copies>>

VerifyRefused(c) ==
    /\ call[c].step = "sent"
    /\ RateLimit
    /\ Refuse(c)
    /\ UNCHANGED <<clock, nonces, panel, request, issued, granted,
                   changes, copies>>

\* The same verification delivered once more, before or after the one the
\* browser waits for; its answer goes nowhere.
VerifyAgain(c) ==
    /\ copies < MaxCopies /\ copies' = copies + 1
    /\ call[c].step \in {"sent", "consumed", "answered"} /\ ~ Full
    /\ RateLimit
    /\ IF Matches(call[c]) THEN Granted(call[c])
                           ELSE UNCHANGED <<nonces, granted>>
    /\ UNCHANGED <<clock, panel, call, request, issued, changes>>

\* The roles are read and the token signed after the nonce is gone; a failure
\* in between leaves the wallet without either.
Answer(c) ==
    /\ call[c].step = "consumed"
    /\ LET w == call[c].wallet
           session == [wallet |-> w, roles |-> MembershipsOf(w),
                       expires |-> clock + TokenTtl, nonce |-> call[c].nonce]
       IN  \/ call' = [call EXCEPT ![c].step = "answered",
                                   ![c].session = session]
           \/ Refuse(c)
    /\ UNCHANGED <<clock, nonces, panel, window, request, hits, issued,
                   granted, changes, copies>>

-----------------------------------------------------------------------------
(* GET /companies/:id: requireSession, requireCompanyRole, and the rows.   *)

Authorise ==
    /\ request.step = "sent"
    /\ LET token == request.token
           passes == token.expires > clock /\ "panel" \in RolesOf(token)
       IN  request' = [request EXCEPT !.step = IF passes THEN "cleared"
                                                         ELSE "refused"]
    /\ UNCHANGED <<clock, nonces, panel, window, call, hits, issued, granted,
                   changes, copies>>

\* The rows are read under the company's scope; the role is not asked again.
Serve ==
    /\ request.step = "cleared"
    /\ request' = [request EXCEPT !.step = "served"]
    /\ UNCHANGED <<clock, nonces, panel, window, call, hits, issued, granted,
                   changes, copies>>

\* The worker writes a RolesSet.
SetRoles ==
    /\ changes < MaxRoleChanges /\ changes' = changes + 1
    /\ panel' \in SUBSET Wallets \ {panel}
    /\ request' = [request EXCEPT !.held = @ \/ request.token.wallet \in panel']
    /\ UNCHANGED <<clock, nonces, window, call, hits, issued, granted, copies>>

Tick ==
    /\ clock < MaxTime /\ clock' = clock + 1
    /\ UNCHANGED <<nonces, panel, window, call, request, hits, issued,
                   granted, changes, copies>>

ApiNext ==
    \/ \E c \in Calls : \/ AskRefused(c) \/ Issue(c)
                        \/ Verify(c) \/ VerifyRefused(c) \/ VerifyAgain(c)
                        \/ Answer(c)
    \/ Authorise \/ Serve \/ SetRoles \/ Tick

-----------------------------------------------------------------------------
\* A nonce turns into one session at most, of the wallet it was issued to, in
\* its lifetime and only while it is that wallet's last, whichever of several
\* verifications comes first (nonce-store.ts:7-13).
SessionFromItsOwnNonce ==
    \A i \in DOMAIN granted :
        LET g == granted[i] IN
        /\ g.wallet = issued[g.nonce].wallet
        /\ g.at < issued[g.nonce].at + NonceTtl
        /\ \A n \in g.nonce + 1 .. g.last : issued[n].wallet # g.wallet
        /\ \A j \in DOMAIN granted : granted[j].nonce = g.nonce => j = i

\* Whatever role the token was signed with, the panel is served to a wallet
\* that held one after the request was sent (middleware/auth.ts:21-24).
ServedToARoleHolder == request.step \in {"cleared", "served"} => request.held

\* A request goes through exactly when fewer than Limit went through in the
\* Window before it: never twice the limit around a boundary, and those who
\* keep trying are not kept out by it (rate-limit.ts:9-11).
LimitIsExact ==
    \A i \in DOMAIN hits :
        LET before == {j \in 1 .. i - 1 : /\ hits[j].through
                                          /\ hits[j].at > hits[i].at - Window}
        IN  hits[i].through <=> Cardinality(before) < Limit
=============================================================================
