--------------------------- MODULE SessionProofs ---------------------------
(***************************************************************************)
(* The theorems about signing in, for any number of wallets and sign-ins   *)
(* under way, any lifetimes and any limit.                                 *)
(***************************************************************************)
EXTENDS Session, SequenceTheorems, Sums

USE AccessAssumption

CallRecord == [step : Steps, wallet : Someone, nonce : Nat, signer : Someone,
               session : Sessions]

Kinds == {"restoring", "no-wallet", "wallet", "signing", "signed-in"}
StateRecord == [kind : Kinds, wallet : Someone, session : Sessions]

RequestSteps == {"idle", "sent", "cleared", "served", "refused"}
RequestRecord == [step : RequestSteps, token : Sessions, held : BOOLEAN]

\* What the theorems need to know of the types.
TypeInv ==
    /\ clock \in Nat /\ wallet \in Someone /\ stored \in Sessions
    /\ issued \in Seq([wallet : Wallets, at : Nat])
    /\ state \in StateRecord /\ request \in RequestRecord
    /\ call \in [Calls -> CallRecord]
    /\ \A c \in Calls : call[c].step # "idle" => call[c].wallet \in Wallets

-----------------------------------------------------------------------------
(* A sign-in under way takes one step at a time. *)

\* No session is a session record.
LEMMA NoSessionType == NoSession \in Sessions
  BY DEF NoSession, Sessions, Someone

\* An idle call is a call record.
LEMMA IdleType == Idle \in CallRecord /\ Idle.step = "idle"
  BY NoSessionType DEF Idle, CallRecord, Steps, Someone

\* Moving a call on to its next step keeps its wallet.
LEMMA Amended ==
    ASSUME NEW r \in CallRecord, NEW s \in Steps
    PROVE  /\ [r EXCEPT !.step = s] \in CallRecord
           /\ [r EXCEPT !.step = s].wallet = r.wallet
  BY DEF CallRecord

\* One call of the browser changes to a record that keeps a wallet.
LEMMA CallStep ==
    ASSUME TypeInv, NEW c \in Calls, NEW r \in CallRecord,
           r.step # "idle" => r.wallet \in Wallets,
           call' = [call EXCEPT ![c] = r]
    PROVE  /\ call' \in [Calls -> CallRecord]
           /\ \A d \in Calls : call'[d].step # "idle" => call'[d].wallet \in Wallets
  BY DEF TypeInv

\* A refusal keeps the calls' types.
LEMMA RefuseType ==
    ASSUME TypeInv, NEW c \in Calls, call[c].step # "idle", Refuse(c)
    PROVE  /\ call' \in [Calls -> CallRecord]
           /\ \A d \in Calls : call'[d].step # "idle" => call'[d].wallet \in Wallets
<1> DEFINE r == [call[c] EXCEPT !.step = "refused"]
<1>1. call[c] \in CallRecord /\ "refused" \in Steps
  BY DEF TypeInv, Steps
<1>2. r \in CallRecord /\ r.wallet = call[c].wallet
  BY <1>1, Amended
<1>3. call' = [call EXCEPT ![c] = r]
  BY DEF Refuse
<1>4. r.wallet \in Wallets
  BY <1>2 DEF TypeInv
<1> HIDE DEF r
<1>5. QED
  BY <1>2, <1>3, <1>4, CallStep

\* Every step of the API or of the browser keeps the calls what they are.
LEMMA CallsKept ==
    ASSUME TypeInv, [SessionNext]_sessionVars
    PROVE  /\ call' \in [Calls -> CallRecord]
           /\ \A d \in Calls : call'[d].step # "idle" => call'[d].wallet \in Wallets
<1> DEFINE Goal == /\ call' \in [Calls -> CallRecord]
                   /\ \A d \in Calls : call'[d].step # "idle" => call'[d].wallet \in Wallets
<1> SUFFICES Goal
  OBVIOUS
<1>0. CASE UNCHANGED call
  BY <1>0 DEF TypeInv
<1>1. ASSUME NEW c \in Calls, AskRefused(c) \/ VerifyRefused(c) PROVE Goal
  <2>1. call[c].step # "idle" /\ Refuse(c)
    BY <1>1 DEF AskRefused, VerifyRefused
  <2>2. QED
    BY <2>1, RefuseType
<1>2. ASSUME NEW c \in Calls, Issue(c) PROVE Goal
  <2> DEFINE n == Len(issued) + 1
             r == [call[c] EXCEPT !.step = "given", !.nonce = n]
  <2>1. call' = [call EXCEPT ![c] = r] /\ call[c].step = "asked"
    BY <1>2 DEF Issue
  <2>2. call[c] \in CallRecord /\ call[c].wallet \in Wallets
        /\ "given" \in Steps /\ n \in Nat
    BY <2>1 DEF TypeInv, Steps
  <2>3. r \in CallRecord /\ r.wallet \in Wallets
    BY <2>2 DEF CallRecord
  <2> HIDE DEF r
  <2>4. QED
    BY <2>1, <2>3, CallStep
<1>3. ASSUME NEW c \in Calls, Verify(c) PROVE Goal
  <2>1. CASE Refuse(c)
    BY <1>3, <2>1, RefuseType DEF Verify
  <2>2. CASE call' = [call EXCEPT ![c].step = "consumed"]
    <3> DEFINE r == [call[c] EXCEPT !.step = "consumed"]
    <3>1. call' = [call EXCEPT ![c] = r] /\ call[c].step = "sent"
      BY <1>3, <2>2 DEF Verify
    <3>2. call[c] \in CallRecord /\ call[c].wallet \in Wallets /\ "consumed" \in Steps
      BY <3>1 DEF TypeInv, Steps
    <3>3. r \in CallRecord /\ r.wallet \in Wallets
      BY <3>2, Amended
    <3> HIDE DEF r
    <3>4. QED
      BY <3>1, <3>3, CallStep
  <2>3. QED
    BY <1>3, <2>1, <2>2 DEF Verify
<1>4. ASSUME NEW c \in Calls, Answer(c) PROVE Goal
  <2> DEFINE w == call[c].wallet
             t == [wallet |-> w, roles |-> MembershipsOf(w),
                   expires |-> clock + TokenTtl, nonce |-> call[c].nonce]
             r == [call[c] EXCEPT !.step = "answered", !.session = t]
  <2>1. call[c].step = "consumed" /\ (call' = [call EXCEPT ![c] = r] \/ Refuse(c))
    BY <1>4 DEF Answer
  <2>2. CASE Refuse(c)
    BY <2>1, <2>2, RefuseType
  <2>3. CASE call' = [call EXCEPT ![c] = r]
    <3>1. call[c] \in CallRecord /\ w \in Wallets /\ "answered" \in Steps
      BY <2>1 DEF TypeInv, Steps
    <3>2. MembershipsOf(w) \in SUBSET {"panel", "investor"}
      BY DEF MembershipsOf
    <3>3. clock + TokenTtl \in Nat /\ call[c].nonce \in Nat
      BY <3>1 DEF TypeInv, CallRecord
    <3>4. t \in Sessions
      BY <3>1, <3>2, <3>3 DEF Sessions, Someone
    <3> HIDE DEF t
    <3>5. r \in CallRecord /\ r.wallet \in Wallets
      BY <3>1, <3>4 DEF CallRecord
    <3> HIDE DEF r
    <3>6. QED
      BY <2>3, <3>5, CallStep
  <2>4. QED
    BY <2>1, <2>2, <2>3
<1>5. CASE Reload
  <2>1. call' = [c \in Calls |-> Idle]
    BY <1>5 DEF Reload
  <2>2. QED
    BY <2>1, IdleType
<1>6. ASSUME NEW c \in Calls, SignIn(c) PROVE Goal
  <2> DEFINE r == [call[c] EXCEPT !.step = "asked", !.wallet = wallet]
  <2>1. call' = [call EXCEPT ![c] = r] /\ wallet # NoWallet
    BY <1>6 DEF SignIn
  <2>2. call[c] \in CallRecord /\ wallet \in Someone /\ "asked" \in Steps
    BY DEF TypeInv, Steps
  <2>3. r \in CallRecord /\ r.wallet \in Wallets
    BY <2>1, <2>2 DEF Someone, CallRecord
  <2> HIDE DEF r
  <2>4. QED
    BY <2>1, <2>3, CallStep
<1>7. ASSUME NEW c \in Calls, Sign(c) PROVE Goal
  <2>1. call[c].step = "given" /\ call[c] \in CallRecord /\ call[c].wallet \in Wallets
    BY <1>7 DEF Sign, TypeInv
  <2>2. CASE Refuse(c)
    BY <2>1, <2>2, RefuseType
  <2>3. ASSUME NEW s \in {call[c].wallet, wallet},
               call' = [call EXCEPT ![c].step = "sent", ![c].signer = s]
        PROVE  Goal
    <3> DEFINE r == [call[c] EXCEPT !.step = "sent", !.signer = s]
    <3>1. call' = [call EXCEPT ![c] = r]
      BY <2>3
    <3>2. s \in Someone /\ "sent" \in Steps
      BY <2>1 DEF TypeInv, Steps, Someone
    <3>3. r \in CallRecord /\ r.wallet \in Wallets
      BY <2>1, <3>2 DEF CallRecord
    <3> HIDE DEF r
    <3>4. QED
      BY <3>1, <3>3, CallStep
  <2>4. QED
    BY <1>7, <2>2, <2>3 DEF Sign
<1>8. ASSUME NEW c \in Calls, Settle(c) PROVE Goal
  <2>1. call' = [call EXCEPT ![c] = Idle]
    BY <1>8 DEF Settle
  <2>2. QED
    BY <2>1, IdleType, CallStep
<1>9. ASSUME NEW c \in Calls, VerifyAgain(c) PROVE UNCHANGED call
  BY <1>9 DEF VerifyAgain
<1>10. CASE Authorise \/ Serve \/ SetRoles \/ Tick
  BY <1>0, <1>10 DEF Authorise, Serve, SetRoles, Tick
<1>11. ASSUME NEW w \in Wallets, Select(w) PROVE UNCHANGED call
  BY <1>11 DEF Select, accessVars
<1>12. CASE Disconnect \/ GiveUp \/ Expire \/ SignOut \/ AddMembership
            \/ ReadPanel \/ ReadEnds
  BY <1>0, <1>12 DEF Disconnect, GiveUp, Expire, SignOut, AddMembership, ReadPanel,
                     ReadEnds, accessVars
<1>13. CASE UNCHANGED sessionVars
  BY <1>0, <1>13 DEF sessionVars, accessVars
<1> HIDE DEF Goal
<1>14. CASE ApiNext
  BY <1>0, <1>1, <1>2, <1>3, <1>4, <1>9, <1>10, <1>14 DEF ApiNext
<1>15. CASE TabNext
  BY <1>0, <1>5, <1>6, <1>7, <1>8, <1>11, <1>12, <1>15 DEF TabNext
<1>16. QED
  BY <1>13, <1>14, <1>15 DEF SessionNext

-----------------------------------------------------------------------------
(* The rest of the types. *)

\* The empty records and their fields.
LEMMA NoRecords ==
    /\ NoSession \in Sessions /\ NoSession.wallet = NoWallet
    /\ NoSession.expires = 0 /\ NoSession.nonce = 0
    /\ NoRequest.step = "idle" /\ NoRequest.held = FALSE
    /\ NoRequest \in RequestRecord
  BY NoSessionType DEF NoSession, NoRequest, RequestRecord, RequestSteps

\* The states the provider shows.
LEMMA StateRecords ==
    /\ \A kind \in Kinds : Only(kind) \in StateRecord /\ Only(kind).kind = kind
    /\ \A kind \in Kinds, w \in Someone :
          With(kind, w) \in StateRecord /\ With(kind, w).kind = kind
    /\ \A t \in Sessions : /\ SignedIn(t) \in StateRecord
                           /\ SignedIn(t).kind = "signed-in"
                           /\ SignedIn(t).session = t
<1>1. "signed-in" \in Kinds /\ NoWallet \in Someone
  BY DEF Kinds, Someone
<1>2. QED
  BY <1>1, NoSessionType DEF Only, With, SignedIn, StateRecord, Sessions

\* The token sent is the stored session, or none.
LEMMA TokenType ==
    ASSUME TypeInv
    PROVE  Token \in Sessions /\ (Token = stored \/ Token = NoSession)
  BY NoSessionType DEF TypeInv, Token

\* A role added to a session leaves its nonce.
LEMMA AddedRole ==
    ASSUME NEW t \in Sessions
    PROVE  /\ [t EXCEPT !.roles = @ \cup {"panel"}] \in Sessions
           /\ [t EXCEPT !.roles = @ \cup {"panel"}].nonce = t.nonce
  BY DEF Sessions

\* Where the screen and the storage change, they change together.
LEMMA TabKept ==
    ASSUME TypeInv, [SessionNext]_sessionVars
    PROVE  /\ wallet' \in Someone
           /\ stored' \in Sessions
           /\ state' \in StateRecord
<1> DEFINE Goal == wallet' \in Someone /\ stored' \in Sessions /\ state' \in StateRecord
<1> SUFFICES Goal
  OBVIOUS
<1>0. wallet \in Someone /\ stored \in Sessions /\ state \in StateRecord
  BY DEF TypeInv, StateRecord
<1>1. CASE UNCHANGED <<wallet, stored, state>>
  BY <1>0, <1>1
<1>2. ASSUME NEW w \in Wallets, Select(w) PROVE Goal
  <2>1. w \in Someone /\ wallet' = w
    BY <1>2 DEF Select, Someone
  <2>2. (state' = SignedIn(stored) /\ stored' = stored)
        \/ (state' = With("wallet", w) /\ stored' = NoSession)
    BY <1>2 DEF Select, Load
  <2>3. QED
    BY <1>0, <2>1, <2>2, StateRecords, NoSessionType DEF Kinds
<1>3. CASE Disconnect \/ GiveUp \/ Reload
  <2>1. wallet' \in Someone /\ (stored' = stored \/ stored' = NoSession)
    BY <1>0, <1>3 DEF Disconnect, GiveUp, Reload, Someone
  <2>2. state' = state \/ state' = Only("no-wallet") \/ state' = Only("restoring")
    BY <1>3 DEF Disconnect, GiveUp, Reload
  <2>3. QED
    BY <1>0, <2>1, <2>2, StateRecords, NoSessionType DEF Kinds
<1>4. CASE Expire
  <2>1. wallet' = wallet /\ stored' = NoSession
        /\ state' = With("wallet", state.session.wallet)
    BY <1>4 DEF Expire
  <2>2. state.session.wallet \in Someone
    BY <1>0 DEF StateRecord, Sessions
  <2>3. QED
    BY <1>0, <2>1, <2>2, StateRecords, NoSessionType DEF Kinds
<1>5. ASSUME NEW c \in Calls, SignIn(c) \/ Sign(c) \/ Settle(c) PROVE Goal
  <2>1. call[c].session \in Sessions /\ call[c].wallet \in Someone
    BY DEF TypeInv, CallRecord
  <2>2. wallet' = wallet
    BY <1>5 DEF SignIn, Sign, Settle, TabCalls
  <2>3. stored' = stored \/ stored' = call[c].session
    BY <1>5 DEF SignIn, Sign, Settle, TabCalls, Save
  <2>4. \/ state' = state \/ state' = With("signing", wallet)
        \/ state' = SignedIn(call[c].session) \/ state' = With("wallet", call[c].wallet)
    BY <1>5 DEF SignIn, Sign, Settle
  <2>5. QED
    BY <1>0, <2>1, <2>2, <2>3, <2>4, StateRecords DEF Kinds
<1>6. CASE SignOut
  <2>1. wallet' = wallet /\ stored' = NoSession
        /\ (state' = state \/ state' = With("wallet", wallet))
    BY <1>6 DEF SignOut
  <2>2. QED
    BY <1>0, <2>1, StateRecords, NoSessionType DEF Kinds
<1>7. CASE AddMembership
  <2> DEFINE t == [state.session EXCEPT !.roles = @ \cup {"panel"}]
  <2>1. wallet' = wallet /\ (stored' = stored \/ stored' = t) /\ state' = SignedIn(t)
    BY <1>7 DEF AddMembership, Save
  <2>2. t \in Sessions
    BY <1>0, AddedRole DEF StateRecord
  <2> HIDE DEF t
  <2>3. QED
    BY <1>0, <2>1, <2>2, StateRecords
<1>8. CASE ReadPanel \/ ReadEnds
  BY <1>1, <1>8 DEF ReadPanel, ReadEnds, tabVars
<1>9. CASE ApiNext /\ UNCHANGED tabVars
  BY <1>1, <1>9 DEF tabVars
<1>10. CASE UNCHANGED sessionVars
  BY <1>1, <1>10 DEF sessionVars, tabVars
<1>11. QED
  BY <1>2, <1>3, <1>4, <1>5, <1>6, <1>7, <1>8, <1>9, <1>10 DEF SessionNext, TabNext

\* A request stays a request record.
LEMMA RequestKept ==
    ASSUME TypeInv, [SessionNext]_sessionVars
    PROVE  request' \in RequestRecord
<1>0. request \in RequestRecord
  BY DEF TypeInv
<1>1. CASE UNCHANGED request
  BY <1>0, <1>1
<1>2. CASE Authorise
  <2>1. request' = [request EXCEPT !.step = "cleared"]
        \/ request' = [request EXCEPT !.step = "refused"]
    BY <1>2 DEF Authorise
  <2>2. QED
    BY <1>0, <2>1 DEF RequestRecord, RequestSteps
<1>3. CASE Serve
  BY <1>0, <1>3 DEF Serve, RequestRecord, RequestSteps
<1>4. CASE SetRoles
  BY <1>0, <1>4 DEF SetRoles, RequestRecord
<1>5. CASE ReadPanel
  <2>1. request' = [step |-> "sent", token |-> Token, held |-> Token.wallet \in panel]
    BY <1>5 DEF ReadPanel
  <2>2. QED
    BY <2>1, TokenType DEF RequestRecord, RequestSteps
<1>6. CASE ReadEnds \/ Reload
  BY <1>6, NoRecords DEF ReadEnds, Reload
<1>7. CASE \E c \in Calls : SignIn(c) \/ Sign(c) \/ Settle(c)
  BY <1>1, <1>7 DEF SignIn, Sign, Settle, TabCalls
<1>8. CASE \E w \in Wallets : Select(w)
  BY <1>1, <1>8 DEF Select, accessVars
<1>9. CASE Disconnect \/ GiveUp \/ Expire \/ SignOut \/ AddMembership
  BY <1>1, <1>9 DEF Disconnect, GiveUp, Expire, SignOut, AddMembership, accessVars
<1>10. CASE \/ Tick
            \/ \E c \in Calls : \/ AskRefused(c) \/ Issue(c) \/ Verify(c)
                                \/ VerifyRefused(c) \/ VerifyAgain(c) \/ Answer(c)
  BY <1>1, <1>10 DEF Tick, AskRefused, Issue, Verify, VerifyRefused, VerifyAgain, Answer
<1>11. CASE UNCHANGED sessionVars
  BY <1>1, <1>11 DEF sessionVars, accessVars
<1>12. CASE ApiNext
  BY <1>2, <1>3, <1>4, <1>10, <1>12 DEF ApiNext
<1>13. CASE TabNext
  BY <1>5, <1>6, <1>7, <1>8, <1>9, <1>13 DEF TabNext
<1>14. QED
  BY <1>11, <1>12, <1>13 DEF SessionNext

\* Only Tick moves the clock, and only Issue adds a nonce to those issued.
LEMMA ClockAndIssued ==
    ASSUME TypeInv, [SessionNext]_sessionVars
    PROVE  /\ clock' = clock \/ clock' = clock + 1
           /\ \/ issued' = issued
              \/ \E c \in Calls : Issue(c)
<1>1. CASE ApiNext
  BY <1>1 DEF ApiNext, Tick, AskRefused, Issue, Verify, VerifyRefused, VerifyAgain,
              Answer, Authorise, Serve, SetRoles
<1>2. CASE TabNext
  BY <1>2 DEF TabNext, Select, Disconnect, GiveUp, Expire, Reload, SignIn, Sign,
              Settle, SignOut, AddMembership, ReadPanel, ReadEnds, TabCalls, accessVars
<1>3. CASE UNCHANGED sessionVars
  BY <1>3 DEF sessionVars, accessVars
<1>4. QED
  BY <1>1, <1>2, <1>3 DEF SessionNext

\* Every step keeps the types.
LEMMA TypeKept == TypeInv /\ [SessionNext]_sessionVars => TypeInv'
<1> SUFFICES ASSUME TypeInv, [SessionNext]_sessionVars PROVE TypeInv'
  OBVIOUS
<1>1. clock' \in Nat
  BY ClockAndIssued DEF TypeInv
<1>2. issued' \in Seq([wallet : Wallets, at : Nat])
  <2>1. ASSUME NEW c \in Calls, Issue(c)
        PROVE  issued' \in Seq([wallet : Wallets, at : Nat])
    <3>1. issued' = Append(issued, [wallet |-> call[c].wallet, at |-> clock])
          /\ call[c].step = "asked"
      BY <2>1 DEF Issue
    <3>2. call[c].wallet \in Wallets
      BY <3>1 DEF TypeInv
    <3>3. QED
      BY <3>1, <3>2 DEF TypeInv
  <2>2. QED
    BY <2>1, ClockAndIssued DEF TypeInv
<1>3. QED
  BY <1>1, <1>2, CallsKept, TabKept, RequestKept DEF TypeInv, StateRecord

\* The initial state has them.
LEMMA TypeStart == SessionInit => TypeInv
  BY IdleType, NoRecords, StateRecords
  DEF Kinds, SessionInit, AccessInit, TypeInv, Someone, StateRecord

\* The records are of their types, whatever the calls, the copies and the
\* switches of account (auth.ts, session.ts).
THEOREM SessionTyped == SessionSpec => []TypeInv
  BY TypeStart, TypeKept, PTL DEF SessionSpec

-----------------------------------------------------------------------------
(* The panel is served to those who hold a role. *)

\* What is sent and would pass now was entitled to; what has passed was.
RequestInv ==
    /\ ServedToARoleHolder
    /\ request.step = "sent" /\ request.token.wallet \in panel => request.held

\* Every step keeps what an authorised request was checked for.
LEMMA RequestInvKept ==
    ASSUME TypeInv, RequestInv, [SessionNext]_sessionVars
    PROVE  RequestInv'
<1> USE DEF RequestInv, ServedToARoleHolder
<1>0. request \in RequestRecord
  BY DEF TypeInv
<1>1. CASE UNCHANGED <<request, panel>>
  BY <1>1
<1>2. CASE Authorise
  <2> DEFINE passes == request.token.expires > clock /\ "panel" \in RolesOf(request.token)
  <2>1. request.step = "sent" /\ panel' = panel
        /\ request' = [request EXCEPT !.step = IF passes THEN "cleared" ELSE "refused"]
    BY <1>2 DEF Authorise
  <2>2. passes => request.token.wallet \in panel
    BY DEF RolesOf, MembershipsOf
  <2> HIDE DEF passes
  <2>3. QED
    BY <1>0, <2>1, <2>2 DEF RequestRecord
<1>3. CASE Serve
  BY <1>0, <1>3 DEF Serve, RequestRecord
<1>4. CASE SetRoles
  <2>1. request' = [request EXCEPT !.held = @ \/ request.token.wallet \in panel']
    BY <1>4 DEF SetRoles
  <2>2. /\ request'.step = request.step /\ request'.token = request.token
        /\ request'.held = (request.held \/ request.token.wallet \in panel')
    BY <1>0, <2>1 DEF RequestRecord
  <2>3. QED
    BY <2>2
<1>5. CASE ReadPanel
  BY <1>5 DEF ReadPanel
<1>6. CASE ReadEnds \/ Reload
  BY <1>6, NoRecords DEF ReadEnds, Reload
<1>7. CASE \E c \in Calls : SignIn(c) \/ Sign(c) \/ Settle(c)
  BY <1>1, <1>7 DEF SignIn, Sign, Settle, TabCalls
<1>8. CASE \E w \in Wallets : Select(w)
  BY <1>1, <1>8 DEF Select, accessVars
<1>9. CASE Disconnect \/ GiveUp \/ Expire \/ SignOut \/ AddMembership
  BY <1>1, <1>9 DEF Disconnect, GiveUp, Expire, SignOut, AddMembership, accessVars
<1>10. CASE \/ Tick
            \/ \E c \in Calls : \/ AskRefused(c) \/ Issue(c) \/ Verify(c)
                                \/ VerifyRefused(c) \/ VerifyAgain(c) \/ Answer(c)
  BY <1>1, <1>10 DEF Tick, AskRefused, Issue, Verify, VerifyRefused, VerifyAgain, Answer
<1>11. CASE UNCHANGED sessionVars
  BY <1>1, <1>11 DEF sessionVars, accessVars
<1> HIDE DEF RequestInv, ServedToARoleHolder
<1>12. CASE ApiNext
  BY <1>2, <1>3, <1>4, <1>10, <1>12 DEF ApiNext
<1>13. CASE TabNext
  BY <1>5, <1>6, <1>7, <1>8, <1>9, <1>13 DEF TabNext
<1>14. QED
  BY <1>11, <1>12, <1>13 DEF SessionNext

\* A company's panel is served to a wallet that held a role in it after the
\* request was sent, however its roles change on the way (middleware/auth.ts).
THEOREM PanelServedToRoleHolders == SessionSpec => []ServedToARoleHolder
<1>1. SessionInit => RequestInv
  BY NoRecords DEF SessionInit, AccessInit, RequestInv, ServedToARoleHolder
<1>2. TypeInv /\ RequestInv /\ [SessionNext]_sessionVars => RequestInv'
  BY RequestInvKept
<1>3. RequestInv => ServedToARoleHolder
  BY DEF RequestInv
<1>4. QED
  BY <1>1, <1>2, <1>3, SessionTyped, PTL DEF SessionSpec

-----------------------------------------------------------------------------
(* What requests carry. *)

\* The two copies of a live session are of one sign-in, and a storage that
\* takes nothing holds nothing.
BearerInv ==
    /\ BearerIsTheOneShown
    /\ ~ keeps => stored = NoSession

\* Every step keeps screen, store and token of one session.
LEMMA BearerInvKept ==
    ASSUME TypeInv, BearerInv, [SessionNext]_sessionVars
    PROVE  BearerInv'
<1> DEFINE Shown == state.kind = "signed-in" =>
                       Token = NoSession \/ Token.nonce = state.session.nonce
<1>0. /\ stored \in Sessions /\ state \in StateRecord /\ clock \in Nat
      /\ (~ keeps => stored = NoSession) /\ Shown
  BY DEF TypeInv, BearerInv, BearerIsTheOneShown
<1>1. clock' \in Nat /\ clock' >= clock
  BY <1>0, ClockAndIssued
<1>2. \A t \in Sessions : t.expires \in Nat
  BY DEF Sessions
<1>3. stored' = NoSession => Token' = NoSession
  BY NoRecords DEF Token
<1>4. stored' = stored => Token' = Token \/ Token' = NoSession
  BY <1>0, <1>1, <1>2 DEF Token
<1>5. ASSUME keeps' = keeps, stored' = NoSession \/ stored' = stored,
             state'.kind = "signed-in" => state' = state
      PROVE  BearerInv'
  BY <1>0, <1>3, <1>4, <1>5 DEF BearerInv, BearerIsTheOneShown
<1>6. ASSUME NEW t \in Sessions, Save(t), state' = SignedIn(t), keeps' = keeps
      PROVE  BearerInv'
  <2>1. state'.session = t
    BY <1>6, StateRecords
  <2>2. CASE keeps
    <3>1. stored' = t
      BY <1>6, <2>2 DEF Save
    <3>2. Token' = t \/ Token' = NoSession
      BY <3>1 DEF Token
    <3>3. QED
      BY <1>6, <2>1, <2>2, <3>2 DEF BearerInv, BearerIsTheOneShown
  <2>3. CASE ~ keeps
    <3>1. stored' = NoSession
      BY <1>0, <1>6, <2>3 DEF Save
    <3>2. QED
      BY <1>3, <1>6, <3>1 DEF BearerInv, BearerIsTheOneShown
  <2>4. QED
    BY <2>2, <2>3
<1>7. ASSUME NEW w \in Wallets, Select(w) PROVE BearerInv'
  <2>1. CASE state' = SignedIn(stored) /\ stored' = stored
    <3>1. state'.session = stored'
      BY <1>0, <2>1, StateRecords
    <3>2. Token' = stored' \/ Token' = NoSession
      BY DEF Token
    <3>3. keeps' = keeps
      BY <1>7 DEF Select
    <3>4. QED
      BY <1>0, <2>1, <3>1, <3>2, <3>3 DEF BearerInv, BearerIsTheOneShown
  <2>2. CASE state' = With("wallet", w) /\ stored' = NoSession
    <3>1. state'.kind = "wallet" /\ keeps' = keeps
      BY <1>7, <2>2 DEF Select, With
    <3>2. QED
      BY <1>5, <2>2, <3>1
  <2>3. QED
    BY <1>7, <2>1, <2>2 DEF Select, Load
<1>8. CASE Disconnect \/ GiveUp \/ Expire \/ Reload \/ SignOut
  BY <1>5, <1>8 DEF Disconnect, GiveUp, Expire, Reload, SignOut, Only, With
<1>9. ASSUME NEW c \in Calls, SignIn(c) \/ Sign(c) PROVE BearerInv'
  BY <1>5, <1>9 DEF SignIn, Sign, TabCalls, With
<1>10. ASSUME NEW c \in Calls, Settle(c) PROVE BearerInv'
  <2>1. call[c].session \in Sessions /\ keeps' = keeps
    BY <1>10 DEF Settle, TabCalls, TypeInv, CallRecord
  <2>2. CASE Save(call[c].session) /\ state' = SignedIn(call[c].session)
    BY <1>6, <2>1, <2>2
  <2>3. CASE state' = With("wallet", call[c].wallet) /\ UNCHANGED stored
    BY <1>5, <2>1, <2>3 DEF With
  <2>4. QED
    BY <1>10, <2>2, <2>3 DEF Settle
<1>11. CASE AddMembership
  <2> DEFINE t == [state.session EXCEPT !.roles = @ \cup {"panel"}]
  <2>1. Save(t) /\ state' = SignedIn(t) /\ keeps' = keeps
    BY <1>11 DEF AddMembership
  <2>2. t \in Sessions
    BY <1>0, AddedRole DEF StateRecord
  <2> HIDE DEF t
  <2>3. QED
    BY <1>6, <2>1, <2>2
<1>12. CASE UNCHANGED tabVars
  BY <1>5, <1>12 DEF tabVars
<1>13. CASE ReadPanel \/ ReadEnds
  BY <1>12, <1>13 DEF ReadPanel, ReadEnds
<1>14. CASE UNCHANGED sessionVars
  BY <1>12, <1>14 DEF sessionVars
<1>15. CASE TabNext
  BY <1>7, <1>8, <1>9, <1>10, <1>11, <1>13, <1>15 DEF TabNext
<1>16. QED
  BY <1>12, <1>14, <1>15 DEF SessionNext

\* Whatever the order of switches, late answers and timers, and whether the
\* browser keeps anything or not, a request of a screen carries the session
\* that screen shows or none (session.ts, store.ts).
THEOREM RequestsCarryTheShownSession == SessionSpec => []BearerIsTheOneShown
<1>1. SessionInit => BearerInv
  BY DEF SessionInit, BearerInv, BearerIsTheOneShown, Only
<1>2. TypeInv /\ BearerInv /\ [SessionNext]_sessionVars => BearerInv'
  BY BearerInvKept
<1>3. BearerInv => BearerIsTheOneShown
  BY DEF BearerInv
<1>4. QED
  BY <1>1, <1>2, <1>3, SessionTyped, PTL DEF SessionSpec

-----------------------------------------------------------------------------
(* A nonce turns into one session at most. *)

NonceRow == [nonce : Nat, expires : Nat]
Grant == [nonce : Nat, wallet : Wallets, at : Nat, last : Nat]

\* Where w's row stands with the nonces issued and the sessions granted.
LastOf(w) ==
    LET n == nonces[w].nonce
    IN  /\ n \in DOMAIN issued /\ issued[n].wallet = w
        /\ nonces[w].expires = issued[n].at + NonceTtl
        /\ \A m \in n + 1 .. Len(issued) : issued[m].wallet # w
        /\ \A i \in DOMAIN granted : granted[i].nonce # n

\* A row still there is of the last nonce issued to the wallet, which has
\* granted nothing yet; and no session is of a nonce to come.
NonceInv ==
    /\ nonces \in [Wallets -> NonceRow] /\ granted \in Seq(Grant)
    /\ \A i \in DOMAIN granted : /\ granted[i].nonce \in 1 .. Len(issued)
                                /\ granted[i].last <= Len(issued)
    /\ \A w \in Wallets : nonces[w].expires > 0 => LastOf(w)
    /\ SessionFromItsOwnNonce

\* The session granted to m, as what is appended.
GrantOf(m) == [nonce |-> m.nonce, wallet |-> m.wallet, at |-> clock, last |-> Len(issued)]

\* The only steps that touch the nonces.
LEMMA NonceSteps ==
    ASSUME TypeInv, [SessionNext]_sessionVars
    PROVE  \/ UNCHANGED <<nonces, issued, granted>>
           \/ \E c \in Calls : Issue(c)
           \/ \E c \in Calls : /\ call[c] \in CallRecord /\ call[c].wallet \in Wallets
                               /\ Matches(call[c]) /\ Granted(call[c])
                               /\ UNCHANGED issued
<1>1. ASSUME NEW c \in Calls, Verify(c) \/ VerifyAgain(c)
      PROVE  \/ UNCHANGED <<nonces, issued, granted>>
             \/ /\ call[c] \in CallRecord /\ call[c].wallet \in Wallets
                /\ Matches(call[c]) /\ Granted(call[c]) /\ UNCHANGED issued
  <2>1. call[c].step # "idle"
    BY <1>1 DEF Verify, VerifyAgain
  <2>2. call[c] \in CallRecord /\ call[c].wallet \in Wallets
    BY <2>1 DEF TypeInv
  <2>3. QED
    BY <1>1, <2>2 DEF Verify, VerifyAgain
<1>2. CASE ApiNext
  BY <1>1, <1>2 DEF ApiNext, Tick, AskRefused, VerifyRefused, Answer, Authorise, Serve,
                    SetRoles
<1>3. CASE TabNext
  BY <1>3 DEF TabNext, Select, Disconnect, GiveUp, Expire, Reload, SignIn, Sign,
              Settle, SignOut, AddMembership, ReadPanel, ReadEnds, TabCalls, accessVars
<1>4. CASE UNCHANGED sessionVars
  BY <1>4 DEF sessionVars, accessVars
<1>5. QED
  BY <1>2, <1>3, <1>4 DEF SessionNext

\* Issuing a nonce keeps the nonces' invariant.
LEMMA IssueKeeps ==
    ASSUME TypeInv, NonceInv, NEW c \in Calls, Issue(c)
    PROVE  NonceInv'
<1> DEFINE v == call[c].wallet
           k == Len(issued) + 1
           one == [wallet |-> v, at |-> clock]
<1>1. /\ nonces' = [nonces EXCEPT ![v] = [nonce |-> k, expires |-> clock + NonceTtl]]
      /\ issued' = Append(issued, one) /\ granted' = granted
      /\ call[c].step = "asked"
  BY DEF Issue
<1>2. v \in Wallets /\ clock \in Nat /\ issued \in Seq([wallet : Wallets, at : Nat])
  BY <1>1 DEF TypeInv
<1>3. one \in [wallet : Wallets, at : Nat]
  BY <1>2
<1> HIDE DEF v, one
<1>4. /\ Len(issued) \in Nat /\ Len(issued') = k /\ k \in Nat
      /\ DOMAIN issued = 1 .. Len(issued) /\ DOMAIN issued' = 1 .. k
      /\ \A n \in DOMAIN issued : issued'[n] = issued[n]
      /\ issued'[k] = one
  BY <1>1, <1>2, <1>3
<1>5. one.wallet = v /\ one.at = clock
  BY DEF one, v
<1>6. nonces' \in [Wallets -> NonceRow]
  BY <1>1, <1>2, <1>4 DEF NonceInv, NonceRow
<1>7. \A i \in DOMAIN granted : /\ granted[i].nonce \in 1 .. Len(issued)
                              /\ granted[i].last \in Nat
                              /\ granted[i].last <= Len(issued)
  <2>1. ASSUME NEW i \in DOMAIN granted PROVE granted[i].last \in Nat
    <3>1. granted[i] \in Grant
      BY <2>1 DEF NonceInv
    <3>2. QED
      BY <3>1 DEF Grant
  <2>2. QED
    BY <2>1 DEF NonceInv
<1>8. ASSUME NEW w \in Wallets, nonces'[w].expires > 0 PROVE LastOf(w)'
  <2>1. CASE w = v
    <3>1. nonces'[w].nonce = k /\ nonces'[w].expires = clock + NonceTtl
      BY <1>1, <1>2, <2>1 DEF NonceInv
    <3>2. \A i \in DOMAIN granted : granted[i].nonce # k
      BY <1>4, <1>7
    <3>3. QED
      BY <1>1, <1>4, <1>5, <2>1, <3>1, <3>2 DEF LastOf
  <2>2. CASE w # v
    <3>1. nonces'[w] = nonces[w] /\ LastOf(w)
      BY <1>1, <1>8, <2>2 DEF NonceInv
    <3> DEFINE n == nonces[w].nonce
    <3>2. /\ n \in 1 .. Len(issued) /\ issued[n].wallet = w
          /\ nonces[w].expires = issued[n].at + NonceTtl
          /\ \A m \in n + 1 .. Len(issued) : issued[m].wallet # w
          /\ \A i \in DOMAIN granted : granted[i].nonce # n
      BY <1>4, <3>1 DEF LastOf
    <3>3. nonces'[w].nonce = n /\ nonces'[w].expires = nonces[w].expires
      BY <3>1
    <3> HIDE DEF n
    <3>4. n \in DOMAIN issued' /\ issued'[n] = issued[n]
      BY <1>4, <3>2
    <3>5. ASSUME NEW m \in n + 1 .. Len(issued') PROVE issued'[m].wallet # w
      <4>1. CASE m = k
        BY <1>4, <1>5, <2>2, <4>1
      <4>2. CASE m # k
        <5>1. m \in n + 1 .. Len(issued) /\ m \in DOMAIN issued
          BY <1>4, <3>2, <4>2
        <5>2. QED
          BY <1>4, <3>2, <5>1
      <4>3. QED
        BY <4>1, <4>2
    <3>6. QED
      BY <1>1, <3>2, <3>3, <3>4, <3>5 DEF LastOf
  <2>3. QED
    BY <2>1, <2>2
<1>9. SessionFromItsOwnNonce'
  <2>1. ASSUME NEW i \in DOMAIN granted
        PROVE  /\ granted[i].wallet = issued'[granted[i].nonce].wallet
               /\ granted[i].at < issued'[granted[i].nonce].at + NonceTtl
               /\ \A n \in granted[i].nonce + 1 .. granted[i].last :
                     issued'[n].wallet # granted[i].wallet
    <3>1. /\ granted[i].wallet = issued[granted[i].nonce].wallet
          /\ granted[i].at < issued[granted[i].nonce].at + NonceTtl
          /\ \A n \in granted[i].nonce + 1 .. granted[i].last :
                issued[n].wallet # granted[i].wallet
      BY DEF NonceInv, SessionFromItsOwnNonce
    <3>2. issued'[granted[i].nonce] = issued[granted[i].nonce]
      BY <1>4, <1>7
    <3>3. \A n \in granted[i].nonce + 1 .. granted[i].last : n \in DOMAIN issued
      BY <1>4, <1>7
    <3>4. QED
      BY <1>4, <3>1, <3>2, <3>3
  <2>2. \A i, j \in DOMAIN granted : granted[j].nonce = granted[i].nonce => j = i
    BY DEF NonceInv, SessionFromItsOwnNonce
  <2>3. QED
    BY <1>1, <2>1, <2>2 DEF SessionFromItsOwnNonce
<1>10. \A i \in DOMAIN granted : /\ granted[i].nonce \in 1 .. Len(issued')
                               /\ granted[i].last <= Len(issued')
  BY <1>4, <1>7
<1>11. QED
  BY <1>1, <1>6, <1>8, <1>9, <1>10 DEF NonceInv

\* So does exchanging one for a session.
LEMMA GrantKeeps ==
    ASSUME TypeInv, NonceInv, NEW m \in CallRecord, m.wallet \in Wallets,
           Matches(m), Granted(m), UNCHANGED issued
    PROVE  NonceInv'
<1> DEFINE v == m.wallet
           n == nonces[v].nonce
           g == GrantOf(m)
           k == Len(granted) + 1
<1>1. /\ nonces' = [nonces EXCEPT ![v] = NoNonce]
      /\ granted' = Append(granted, g) /\ issued' = issued
      /\ n = m.nonce /\ nonces[v].expires > clock
  BY DEF Granted, Consume, Matches, GrantOf
<1>2. /\ v \in Wallets /\ clock \in Nat /\ m.nonce \in Nat /\ granted \in Seq(Grant)
      /\ Len(issued) \in Nat
  BY DEF TypeInv, NonceInv, CallRecord
<1>3. g \in Grant /\ g.nonce = n /\ g.wallet = v /\ g.at = clock /\ g.last = Len(issued)
  BY <1>1, <1>2 DEF Grant, GrantOf
<1>4. nonces[v].expires \in Nat /\ nonces[v].expires > 0
  BY <1>1, <1>2 DEF NonceInv, NonceRow
<1>5. LastOf(v)
  BY <1>2, <1>4 DEF NonceInv
<1>6. /\ n \in DOMAIN issued /\ issued[n].wallet = v
      /\ nonces[v].expires = issued[n].at + NonceTtl
      /\ \A o \in n + 1 .. Len(issued) : issued[o].wallet # v
      /\ \A i \in DOMAIN granted : granted[i].nonce # n
  BY <1>5 DEF LastOf
<1> HIDE DEF v, n, g
<1>7. /\ Len(granted) \in Nat /\ granted' \in Seq(Grant)
      /\ DOMAIN granted = 1 .. Len(granted) /\ DOMAIN granted' = 1 .. k
      /\ \A i \in DOMAIN granted : granted'[i] = granted[i]
      /\ granted'[k] = g /\ k \notin DOMAIN granted
  BY <1>1, <1>2, <1>3
<1>8. DOMAIN granted' = DOMAIN granted \cup {k}
  BY <1>7
<1> HIDE DEF k
<1>9. n \in 1 .. Len(issued)
  BY <1>6 DEF TypeInv
<1>10. nonces' \in [Wallets -> NonceRow]
  BY <1>1, <1>2 DEF NonceInv, NonceRow, NoNonce
<1>11. \A i \in DOMAIN granted' : /\ granted'[i].nonce \in 1 .. Len(issued')
                                /\ granted'[i].last <= Len(issued')
  BY <1>1, <1>2, <1>3, <1>7, <1>8, <1>9 DEF NonceInv
<1>12. ASSUME NEW w \in Wallets, nonces'[w].expires > 0 PROVE LastOf(w)'
  <2>1. w # v
    BY <1>1, <1>2, <1>12 DEF NonceInv, NoNonce
  <2>2. nonces'[w] = nonces[w] /\ LastOf(w)
    BY <1>1, <1>12, <2>1 DEF NonceInv
  <2>3. nonces[w].nonce # n
    BY <1>6, <2>1, <2>2 DEF LastOf
  <2>4. \A i \in DOMAIN granted' : granted'[i].nonce # nonces[w].nonce
    BY <1>3, <1>7, <1>8, <2>2, <2>3 DEF LastOf
  <2>5. QED
    BY <1>1, <2>2, <2>4 DEF LastOf
<1>13. SessionFromItsOwnNonce'
  <2>1. /\ g.wallet = issued[g.nonce].wallet
        /\ g.at < issued[g.nonce].at + NonceTtl
        /\ \A o \in g.nonce + 1 .. g.last : issued[o].wallet # g.wallet
    BY <1>1, <1>3, <1>6
  <2>2. \A i \in DOMAIN granted :
           /\ granted[i].wallet = issued[granted[i].nonce].wallet
           /\ granted[i].at < issued[granted[i].nonce].at + NonceTtl
           /\ \A o \in granted[i].nonce + 1 .. granted[i].last :
                 issued[o].wallet # granted[i].wallet
           /\ \A j \in DOMAIN granted : granted[j].nonce = granted[i].nonce => j = i
    BY DEF NonceInv, SessionFromItsOwnNonce
  <2>3. ASSUME NEW i \in DOMAIN granted'
        PROVE  /\ granted'[i].wallet = issued[granted'[i].nonce].wallet
               /\ granted'[i].at < issued[granted'[i].nonce].at + NonceTtl
               /\ \A o \in granted'[i].nonce + 1 .. granted'[i].last :
                     issued[o].wallet # granted'[i].wallet
    <3>1. CASE i = k
      BY <1>7, <2>1, <3>1
    <3>2. CASE i \in DOMAIN granted
      BY <1>7, <2>2, <3>2
    <3>3. QED
      BY <1>8, <3>1, <3>2
  <2>4. \A i, j \in DOMAIN granted' : granted'[j].nonce = granted'[i].nonce => j = i
    <3>1. \A i, j \in DOMAIN granted : granted'[j].nonce = granted'[i].nonce => j = i
      BY <1>7, <2>2
    <3>2. \A i \in DOMAIN granted : granted'[i].nonce # granted'[k].nonce
      BY <1>3, <1>6, <1>7
    <3>3. QED
      BY <1>8, <3>1, <3>2
  <2>5. QED
    BY <1>1, <2>3, <2>4 DEF SessionFromItsOwnNonce
<1>14. QED
  BY <1>7, <1>10, <1>11, <1>12, <1>13 DEF NonceInv

\* So does every step.
LEMMA NonceInvKept ==
    ASSUME TypeInv, NonceInv, [SessionNext]_sessionVars
    PROVE  NonceInv'
<1>1. CASE UNCHANGED <<nonces, issued, granted>>
  BY <1>1 DEF NonceInv, LastOf, SessionFromItsOwnNonce
<1>2. QED
  BY <1>1, NonceSteps, IssueKeeps, GrantKeeps

\* What the rows of nonces remember stays true of the nonces issued and the
\* sessions granted (auth.ts, nonce-store.ts).
THEOREM NonceRemembers == SessionSpec => []NonceInv
<1>1. SessionInit => NonceInv
  BY DEF SessionInit, AccessInit, NonceInv, NoNonce, NonceRow, SessionFromItsOwnNonce
<1>2. TypeInv /\ NonceInv /\ [SessionNext]_sessionVars => NonceInv'
  BY NonceInvKept
<1>3. QED
  BY <1>1, <1>2, SessionTyped, PTL DEF SessionSpec

\* A nonce turns into one session at most, of its own wallet, in its lifetime
\* and while it is that wallet's last, for any number of sign-ins under way
\* and of verifications delivered again (nonce-store.ts:7-13).
THEOREM NonceSignsInOnce == SessionSpec => []SessionFromItsOwnNonce
<1>1. NonceInv => SessionFromItsOwnNonce
  BY DEF NonceInv
<1>2. QED
  BY <1>1, NonceRemembers, PTL

-----------------------------------------------------------------------------
(* The limiter counts what it let through in the last window. *)

Sorted(times) == \A i, j \in DOMAIN times : i <= j => times[i] <= times[j]
Over(times, t) == {i \in DOMAIN times : times[i] > t}
ThroughOver(t) == {j \in DOMAIN hits : hits[j].through /\ hits[j].at > t}

Hit == [at : Nat, through : BOOLEAN]

\* However much has been pruned, the window holds the times let through since
\* any moment that can still matter, oldest first.
LimitInv ==
    /\ window \in Seq(Nat) /\ hits \in Seq(Hit) /\ Len(window) <= Limit
    /\ \A i \in DOMAIN window : window[i] <= clock
    /\ Sorted(window)
    /\ \A t \in Int : t >= clock - Window =>
           Cardinality(Over(window, t)) = Cardinality(ThroughOver(t))
    /\ LimitIsExact

\* Sets that are shifts of each other have the same size.
LEMMA Shifted ==
    ASSUME NEW S, IsFiniteSet(S), NEW T, NEW m \in Int, S \subseteq Int, T \subseteq Int,
           \A i \in Int : i \in S <=> i + m \in T
    PROVE  Cardinality(S) = Cardinality(T)
<1> DEFINE f == [i \in S |-> i + m]
<1>1. f \in [S -> T]
  OBVIOUS
<1>2. \A i, j \in S : f[i] = f[j] => i = j
  OBVIOUS
<1>3. \A k \in T : \E i \in S : f[i] = k
  <2>1. SUFFICES ASSUME NEW k \in T PROVE \E i \in S : f[i] = k
    OBVIOUS
  <2>2. k - m \in Int /\ (k - m) + m = k
    OBVIOUS
  <2>3. k - m \in S
    BY <2>2
  <2>4. QED
    BY <2>2, <2>3
<1>4. ExistsBijection(S, T)
  BY <1>1, <1>2, <1>3 DEF ExistsBijection, Bijection, Injection, Surjection, IsInjective
<1>5. QED
  BY <1>4, FS_Bijection

\* Pruning keeps exactly the hits inside the window.
LEMMA PruneKeeps ==
    ASSUME NEW times \in Seq(Nat), Sorted(times), clock \in Nat
    PROVE  /\ Prune(times) \in Seq(Nat) /\ Sorted(Prune(times))
           /\ Len(Prune(times)) <= Len(times)
           /\ \A i \in DOMAIN Prune(times) : \E j \in DOMAIN times : Prune(times)[i] = times[j]
           /\ Len(Prune(times)) = Cardinality(Over(times, clock - Window))
           /\ \A t \in Int : t >= clock - Window =>
                 Cardinality(Over(Prune(times), t)) = Cardinality(Over(times, t))
<1> DEFINE p == Prune(times)
           n == Len(times)
           low == clock - Window
           alive == Over(times, low)
<1>1. n \in Nat /\ low \in Int /\ DOMAIN times = 1 .. n /\ \A i \in 1 .. n : times[i] \in Nat
  OBVIOUS
<1>2. p = IF alive = {} THEN <<>> ELSE SubSeq(times, Min(alive), n)
  BY DEF Prune, FromFirst, Over
<1>3. \A t \in Int : t >= low => Over(times, t) \subseteq alive
  BY <1>1 DEF Over
<1>4. CASE alive = {}
  <2>1. p = <<>>
    BY <1>2, <1>4
  <2>2. Len(p) = 0 /\ DOMAIN p = {} /\ p \in Seq(Nat)
    BY <2>1
  <2>3. \A t \in Int : t >= low => Over(p, t) = {} /\ Over(times, t) = {}
    BY <1>3, <1>4, <2>2 DEF Over
  <2>4. Cardinality(alive) = 0
    BY <1>4, FS_EmptySet
  <2> HIDE DEF p, n, low, alive
  <2>5. Sorted(p)
    BY <2>2 DEF Sorted
  <2>6. /\ p \in Seq(Nat) /\ Sorted(p) /\ Len(p) <= n
        /\ \A i \in DOMAIN p : \E j \in DOMAIN times : p[i] = times[j]
        /\ Len(p) = Cardinality(alive)
        /\ \A t \in Int : t >= low => Cardinality(Over(p, t)) = Cardinality(Over(times, t))
    <3>1. Len(p) = Cardinality(alive) /\ Len(p) <= n
      BY <1>1, <2>2, <2>4 DEF n
    <3>2. \A t \in Int : t >= low => Cardinality(Over(p, t)) = Cardinality(Over(times, t))
      BY <2>3
    <3>3. \A i \in DOMAIN p : \E j \in DOMAIN times : p[i] = times[j]
      BY <2>2
    <3>4. QED
      BY <2>2, <2>5, <3>1, <3>2, <3>3
  <2>7. QED
    BY <2>6 DEF p, n, low, alive
<1>5. CASE alive # {}
  <2> DEFINE m == Min(alive)
  <2>1. m \in alive /\ \A y \in alive : m <= y
    <3>1. alive \subseteq Nat
      BY <1>1 DEF Over
    <3>2. \E x \in alive : \A y \in alive : x <= y
      BY <1>5, <3>1, NatMinimum
    <3>3. QED
      BY <3>2 DEF Min
  <2>2. m \in 1 .. n /\ times[m] > low
    BY <1>1, <2>1 DEF Over
  <2>3. p = SubSeq(times, m, n)
    BY <1>2, <1>5
  <2> HIDE DEF m, p
  <2>4. /\ p \in Seq(Nat) /\ Len(p) = n - m + 1 /\ DOMAIN p = 1 .. n - m + 1
        /\ \A i \in DOMAIN p : p[i] = times[i + (m - 1)]
    <3> HIDE DEF n
    <3>1. m \in Int /\ n \in Int /\ m <= n /\ \A i \in m .. n : times[i] \in Nat
      BY <1>1, <2>2
    <3>2. /\ p \in Seq(Nat) /\ Len(p) = n - m + 1
          /\ \A i \in 1 .. n - m + 1 : p[i] = times[m + i - 1]
      BY <2>3, <3>1, SubSeqProperties
    <3>3. DOMAIN p = 1 .. n - m + 1
      BY <3>2
    <3>4. \A i \in 1 .. n - m + 1 : m + i - 1 = i + (m - 1)
      BY <3>1
    <3>5. QED
      BY <3>2, <3>3, <3>4
  <2>5. \A i \in 1 .. n : i >= m <=> i \in alive
    BY <1>1, <2>1, <2>2 DEF Over, Sorted
  <2>6. alive = m .. n
    BY <1>1, <2>2, <2>5 DEF Over
  <2>7. Len(p) = Cardinality(alive)
    BY <1>1, <2>2, <2>4, <2>6, FS_Interval
  <2>8. ASSUME NEW t \in Int, t >= low
        PROVE  Cardinality(Over(p, t)) = Cardinality(Over(times, t))
    <3>1. Over(p, t) \subseteq 1 .. n /\ Over(times, t) \subseteq Int
      BY <1>1, <2>2, <2>4 DEF Over
    <3>2. IsFiniteSet(Over(p, t))
      <4>1. IsFiniteSet(1 .. n) /\ Over(p, t) \in SUBSET (1 .. n)
        BY <1>1, <3>1, FS_Interval
      <4>2. QED
        BY <4>1, FS_Subset
    <3>3. Over(times, t) \subseteq m .. n
      BY <1>3, <2>6, <2>8
    <3>4. ASSUME NEW i \in Int PROVE i \in Over(p, t) <=> i + (m - 1) \in Over(times, t)
      <4> HIDE DEF n, low
      <4>1. CASE i \in 1 .. n - m + 1
        <5>1. i \in DOMAIN p /\ p[i] = times[i + (m - 1)]
          BY <2>4, <4>1
        <5>2. i + (m - 1) \in 1 .. n
          BY <1>1, <2>2, <4>1
        <5>3. QED
          BY <1>1, <5>1, <5>2 DEF Over
      <4>2. CASE i \notin 1 .. n - m + 1
        <5>1. i \notin DOMAIN p /\ i + (m - 1) \notin m .. n
          BY <1>1, <2>2, <2>4, <4>2
        <5>2. QED
          BY <3>3, <5>1 DEF Over
      <4>3. QED
        BY <4>1, <4>2
    <3>5. Over(p, t) \subseteq Int /\ m - 1 \in Int
      BY <1>1, <2>2, <3>1
    <3>6. QED
      BY <3>1, <3>2, <3>4, <3>5, Shifted
  <2>9. Sorted(p)
    <3> HIDE DEF n
    <3>1. SUFFICES ASSUME NEW i \in 1 .. n - m + 1, NEW j \in 1 .. n - m + 1, i <= j
                   PROVE  p[i] <= p[j]
      BY <2>4 DEF Sorted
    <3>2. i + (m - 1) \in 1 .. n /\ j + (m - 1) \in 1 .. n /\ i + (m - 1) <= j + (m - 1)
      BY <1>1, <2>2, <3>1
    <3>3. times[i + (m - 1)] <= times[j + (m - 1)]
      BY <1>1, <3>2 DEF Sorted
    <3>4. p[i] = times[i + (m - 1)] /\ p[j] = times[j + (m - 1)]
      BY <2>4
    <3>5. QED
      BY <3>3, <3>4
  <2>10. \A i \in DOMAIN p : i + (m - 1) \in DOMAIN times
    BY <1>1, <2>2, <2>4
  <2>11. Len(p) <= n
    BY <1>1, <2>2, <2>4
  <2>12. QED
    BY <2>4, <2>7, <2>8, <2>9, <2>10, <2>11 DEF p
<1>6. QED
  BY <1>4, <1>5

\* One more hit is one more after every earlier time.
LEMMA OverAppended ==
    ASSUME NEW times \in Seq(Nat), NEW at \in Nat, NEW t \in Int
    PROVE  Over(Append(times, at), t) =
              Over(times, t) \cup (IF at > t THEN {Len(times) + 1} ELSE {})
<1> DEFINE k == Len(times) + 1
           more == Append(times, at)
<1>1. /\ DOMAIN more = (DOMAIN times) \cup {k} /\ more[k] = at
      /\ \A i \in DOMAIN times : more[i] = times[i]
  OBVIOUS
<1> HIDE DEF k, more
<1>2. Over(more, t) = Over(times, t) \cup (IF at > t THEN {k} ELSE {})
  BY <1>1 DEF Over
<1>3. QED
  BY <1>2 DEF k, more

\* Sets of places in a sequence are finite.
LEMMA FiniteOver ==
    ASSUME NEW s, NEW V, s \in Seq(V), NEW T, T \subseteq DOMAIN s
    PROVE  IsFiniteSet(T) /\ Cardinality(T) \in Nat /\ Len(s) + 1 \notin T
<1>1. Len(s) \in Nat /\ DOMAIN s = 1 .. Len(s)
  OBVIOUS
<1>2. IsFiniteSet(1 .. Len(s)) /\ T \in SUBSET (1 .. Len(s))
  BY <1>1, FS_Interval
<1>3. IsFiniteSet(T)
  BY <1>2, FS_Subset
<1>4. QED
  BY <1>1, <1>3, FS_CardinalityType

\* The limiter's own step keeps its invariant.
LEMMA RateLimitKeeps ==
    ASSUME clock \in Nat, LimitInv, RateLimit, UNCHANGED clock
    PROVE  LimitInv'
<1> DEFINE p == Prune(window)
           low == clock - Window
           hit == [at |-> clock, through |-> ~ Full]
           k == Len(hits) + 1
<1>1. /\ window' = IF Full THEN p ELSE Append(p, clock)
      /\ hits' = Append(hits, hit) /\ clock' = clock
  BY DEF RateLimit
<1>2. Full <=> Len(p) >= Limit
  BY DEF Full
<1>3. /\ window \in Seq(Nat) /\ Sorted(window) /\ hits \in Seq(Hit) /\ low \in Int
      /\ Len(window) \in Nat /\ Len(window) <= Limit
      /\ \A i \in DOMAIN window : window[i] <= clock
      /\ \A t \in Int : t >= low => Cardinality(Over(window, t)) = Cardinality(ThroughOver(t))
  BY DEF LimitInv
<1>4. /\ p \in Seq(Nat) /\ Sorted(p) /\ Len(p) \in Nat /\ Len(p) <= Len(window)
      /\ \A i \in DOMAIN p : p[i] <= clock
      /\ Len(p) = Cardinality(Over(window, low))
      /\ \A t \in Int : t >= low => Cardinality(Over(p, t)) = Cardinality(Over(window, t))
  BY <1>3, PruneKeeps
<1>5. hit \in Hit /\ hit.at = clock /\ hit.through = ~ Full
  BY DEF Hit, Full
<1> HIDE DEF p, hit
<1>6. /\ Len(hits) \in Nat /\ hits' \in Seq(Hit)
      /\ DOMAIN hits = 1 .. Len(hits) /\ DOMAIN hits' = (DOMAIN hits) \cup {k}
      /\ hits'[k] = hit /\ k \notin DOMAIN hits
      /\ \A j \in DOMAIN hits : hits'[j] = hits[j]
  BY <1>1, <1>3, <1>5
<1>7. /\ window' \in Seq(Nat) /\ Sorted(window') /\ Len(window') <= Limit
      /\ \A i \in DOMAIN window' : window'[i] <= clock
  <2>1. CASE Full
    BY <1>1, <1>3, <1>4, <2>1
  <2>2. CASE ~ Full
    <3> DEFINE more == Append(p, clock)
    <3>1. /\ DOMAIN more = 1 .. Len(p) + 1 /\ more[Len(p) + 1] = clock /\ more \in Seq(Nat)
          /\ DOMAIN p = 1 .. Len(p) /\ \A i \in DOMAIN p : more[i] = p[i]
          /\ Len(more) = Len(p) + 1
      BY <1>4
    <3>2. window' = more /\ Len(p) < Limit
      BY <1>1, <1>2, <1>4, <2>2
    <3> HIDE DEF more
    <3>3. \A i \in DOMAIN more : more[i] <= clock
      BY <1>4, <3>1
    <3>4. Sorted(more)
      BY <1>4, <3>1, <3>3 DEF Sorted
    <3>5. QED
      BY <1>4, <3>1, <3>2, <3>3, <3>4
  <2>3. QED
    BY <2>1, <2>2
<1>8. ASSUME NEW t \in Int, t >= low
      PROVE  Cardinality(Over(window', t)) = Cardinality(ThroughOver(t)')
  <2>1. Cardinality(Over(p, t)) = Cardinality(ThroughOver(t))
    BY <1>3, <1>4, <1>8
  <2>2. ThroughOver(t)' = ThroughOver(t) \cup (IF ~ Full /\ clock > t THEN {k} ELSE {})
    BY <1>5, <1>6 DEF ThroughOver
  <2>3. CASE Full \/ ~ (clock > t)
    <3>1. ThroughOver(t)' = ThroughOver(t)
      BY <2>2, <2>3
    <3>2. Over(window', t) = Over(p, t)
      <4>1. CASE Full
        BY <1>1, <4>1
      <4>2. CASE ~ Full
        <5>1. window' = Append(p, clock) /\ ~ (clock > t)
          BY <1>1, <2>3, <4>2
        <5>2. Over(Append(p, clock), t) = Over(p, t) \cup {}
          BY <1>4, <5>1, OverAppended
        <5>3. QED
          BY <5>1, <5>2
      <4>3. QED
        BY <4>1, <4>2
    <3>3. QED
      BY <2>1, <3>1, <3>2
  <2>4. CASE ~ Full /\ clock > t
    <3>1. ThroughOver(t)' = ThroughOver(t) \cup {k}
      BY <2>2, <2>4
    <3>2. Over(window', t) = Over(p, t) \cup {Len(p) + 1}
      BY <1>1, <1>4, <2>4, OverAppended
    <3>3. Over(p, t) \subseteq DOMAIN p /\ ThroughOver(t) \subseteq DOMAIN hits
      BY DEF Over, ThroughOver
    <3>4. IsFiniteSet(Over(p, t)) /\ Len(p) + 1 \notin Over(p, t)
      BY <1>4, <3>3, FiniteOver
    <3>5. IsFiniteSet(ThroughOver(t)) /\ k \notin ThroughOver(t)
      BY <1>3, <3>3, FiniteOver
    <3> HIDE DEF k
    <3>6. Cardinality(Over(window', t)) = Cardinality(Over(p, t)) + 1
      BY <3>2, <3>4, FS_AddElement
    <3>7. Cardinality(ThroughOver(t)') = Cardinality(ThroughOver(t)) + 1
      BY <3>1, <3>5, FS_AddElement
    <3>8. QED
      BY <2>1, <3>6, <3>7
  <2>5. QED
    BY <2>3, <2>4
<1>9. LimitIsExact'
  <2> DEFINE Before(h, i) == {j \in 1 .. i - 1 : h[j].through /\ h[j].at > h[i].at - Window}
  <2>1. ASSUME NEW i \in DOMAIN hits' PROVE hits'[i].through <=> Cardinality(Before(hits', i)) < Limit
    <3>1. CASE i \in DOMAIN hits
      <4>1. hits[i].through <=> Cardinality(Before(hits, i)) < Limit
        BY <3>1 DEF LimitInv, LimitIsExact
      <4>2. hits'[i] = hits[i] /\ \A j \in 1 .. i - 1 : hits'[j] = hits[j]
        BY <1>6, <3>1
      <4>3. Before(hits', i) = Before(hits, i)
        BY <4>2
      <4>4. QED
        BY <4>1, <4>2, <4>3
    <3>2. CASE i = k
      <4>1. hits'[i] = hit /\ 1 .. i - 1 = DOMAIN hits
        BY <1>6, <3>2
      <4>2. Before(hits', i) = ThroughOver(low)
        BY <1>5, <1>6, <4>1 DEF ThroughOver
      <4>3. Cardinality(Before(hits', i)) = Len(p)
        <5>1. Cardinality(Over(window, low)) = Cardinality(ThroughOver(low))
          BY <1>3
        <5>2. QED
          BY <1>4, <4>2, <5>1
      <4> HIDE DEF Before
      <4>4. hits'[i].through <=> ~ (Len(p) >= Limit)
        BY <1>2, <1>5, <4>1
      <4>5. QED
        BY <1>4, <4>3, <4>4
    <3>3. QED
      BY <1>6, <2>1, <3>1, <3>2
  <2>2. QED
    BY <2>1 DEF LimitIsExact
<1>10. QED
  BY <1>1, <1>6, <1>7, <1>8, <1>9 DEF LimitInv

\* The only steps that touch the limiter or its clock.
LEMMA LimiterSteps ==
    ASSUME [SessionNext]_sessionVars
    PROVE  \/ RateLimit /\ UNCHANGED clock
           \/ UNCHANGED <<window, hits>> /\ (clock' = clock \/ clock' = clock + 1)
<1>1. CASE ApiNext
  BY <1>1 DEF ApiNext, Tick, AskRefused, Issue, Verify, VerifyRefused, VerifyAgain,
              Answer, Authorise, Serve, SetRoles
<1>2. CASE TabNext
  BY <1>2 DEF TabNext, Select, Disconnect, GiveUp, Expire, Reload, SignIn, Sign,
              Settle, SignOut, AddMembership, ReadPanel, ReadEnds, TabCalls, accessVars
<1>3. CASE UNCHANGED sessionVars
  BY <1>3 DEF sessionVars, accessVars
<1>4. QED
  BY <1>1, <1>2, <1>3 DEF SessionNext

\* Every step keeps the limiter's invariant.
LEMMA LimitInvKept ==
    ASSUME TypeInv, LimitInv, [SessionNext]_sessionVars
    PROVE  LimitInv'
<1>1. clock \in Nat
  BY DEF TypeInv
<1>2. CASE UNCHANGED <<window, hits>> /\ (clock' = clock \/ clock' = clock + 1)
  <2>1. window' = window /\ hits' = hits /\ clock' \in Nat /\ clock' >= clock
    BY <1>1, <1>2
  <2>2. \A t \in Int : ThroughOver(t)' = ThroughOver(t)
    BY <2>1 DEF ThroughOver
  <2>3. \A t \in Int : t >= clock' - Window =>
           Cardinality(Over(window', t)) = Cardinality(ThroughOver(t)')
    <3>1. SUFFICES ASSUME NEW t \in Int, t >= clock' - Window
                   PROVE  Cardinality(Over(window, t)) = Cardinality(ThroughOver(t))
      BY <2>1, <2>2
    <3>2. clock' \in Int /\ clock \in Int /\ Window \in Int /\ clock' >= clock
      BY <1>1, <2>1
    <3>3. t >= clock - Window
      <4>1. \A a, b, c, d \in Int : a >= b /\ d >= a - c => d >= b - c
        OBVIOUS
      <4>2. QED
        BY <3>1, <3>2, <4>1
    <3>4. QED
      BY <3>3 DEF LimitInv
  <2>4. LimitIsExact'
    BY <2>1 DEF LimitInv, LimitIsExact
  <2>5. \A i \in DOMAIN window' : window'[i] <= clock'
    <3>1. SUFFICES ASSUME NEW i \in DOMAIN window PROVE window[i] <= clock'
      BY <2>1
    <3>2. window[i] \in Nat /\ window[i] <= clock
      BY DEF LimitInv
    <3>3. QED
      BY <1>1, <2>1, <3>2
  <2>6. QED
    BY <2>1, <2>3, <2>4, <2>5 DEF LimitInv
<1>3. QED
  BY <1>1, <1>2, LimiterSteps, RateLimitKeeps

\* It holds at first.
LEMMA LimitStart == SessionInit => LimitInv
<1> SUFFICES ASSUME SessionInit PROVE LimitInv
  OBVIOUS
<1>1. window = <<>> /\ hits = <<>> /\ clock = 0
  BY DEF SessionInit, AccessInit
<1>2. DOMAIN window = {} /\ DOMAIN hits = {} /\ Len(window) = 0
      /\ window \in Seq(Nat) /\ hits \in Seq(Hit)
  BY <1>1
<1>3. \A t \in Int : Over(window, t) = {} /\ ThroughOver(t) = {}
  BY <1>2 DEF Over, ThroughOver
<1>4. Sorted(window) /\ LimitIsExact
  BY <1>2 DEF Sorted, LimitIsExact
<1>5. Len(window) <= Limit /\ \A i \in DOMAIN window : window[i] <= clock
  BY <1>2
<1>6. \A t \in Int : Cardinality(Over(window, t)) = Cardinality(ThroughOver(t))
  BY <1>3
<1>7. QED
  BY <1>2, <1>4, <1>5, <1>6 DEF LimitInv

\* The limiter's window stays what it let through since any moment that can
\* still matter (rate-limit.ts:40-43).
THEOREM LimiterRemembers == SessionSpec => []LimitInv
  BY LimitStart, LimitInvKept, SessionTyped, PTL DEF SessionSpec

\* A request goes through exactly when fewer than the limit went through in the
\* window before it, for any limit and any window: pruning the timestamps
\* forgets nothing that still counts (rate-limit.ts:9-11).
THEOREM LimiterIsExact == SessionSpec => []LimitIsExact
<1>1. LimitInv => LimitIsExact
  BY DEF LimitInv
<1>2. QED
  BY <1>1, LimiterRemembers, PTL

-----------------------------------------------------------------------------
(* The type invariant the runs check. *)

\* What is left of it.
BoundsInv ==
    /\ clock <= MaxTime /\ panel \subseteq Wallets
    /\ claim \in BOOLEAN /\ keeps \in BOOLEAN
    /\ state.kind # "signed-in" => state.session = NoSession
    /\ nonces \in [Wallets -> NonceRow]
    /\ \A w \in Wallets : nonces[w].nonce <= Len(issued)
    /\ \A c \in Calls : call[c].nonce <= Len(issued)

\* What is amended in the record of a call but for its nonce leaves that alone.
LEMMA OneCall ==
    ASSUME NEW c \in Calls, call \in [Calls -> CallRecord],
           \/ \E x : call' = [call EXCEPT ![c].step = x]
           \/ \E x, y : call' = [call EXCEPT ![c].step = x, ![c].session = y]
           \/ \E x, y : call' = [call EXCEPT ![c].step = x, ![c].wallet = y]
           \/ \E x, y : call' = [call EXCEPT ![c].step = x, ![c].signer = y]
    PROVE  \A d \in Calls : call'[d].nonce = call[d].nonce
<1> DEFINE Goal == \A d \in Calls : call'[d].nonce = call[d].nonce
<1>1. ASSUME NEW r, call' = [call EXCEPT ![c] = r], r.nonce = call[c].nonce PROVE Goal
  BY <1>1
<1>2. call[c] \in CallRecord
  OBVIOUS
<1> HIDE DEF Goal
<1>3. ASSUME NEW x, NEW y
      PROVE  /\ [call[c] EXCEPT !.step = x].nonce = call[c].nonce
             /\ [call[c] EXCEPT !.step = x, !.session = y].nonce = call[c].nonce
             /\ [call[c] EXCEPT !.step = x, !.wallet = y].nonce = call[c].nonce
             /\ [call[c] EXCEPT !.step = x, !.signer = y].nonce = call[c].nonce
  BY <1>2 DEF CallRecord
<1>4. ASSUME NEW x, call' = [call EXCEPT ![c].step = x] PROVE Goal
  BY <1>1, <1>3, <1>4
<1>5. ASSUME NEW x, NEW y, call' = [call EXCEPT ![c].step = x, ![c].session = y] PROVE Goal
  <2> DEFINE r == [call[c] EXCEPT !.step = x, !.session = y]
  <2>1. call' = [call EXCEPT ![c] = r]
    BY <1>5
  <2>2. r.nonce = call[c].nonce
    BY <1>3
  <2> HIDE DEF r
  <2>3. QED
    BY <1>1, <2>1, <2>2
<1>6. ASSUME NEW x, NEW y, call' = [call EXCEPT ![c].step = x, ![c].wallet = y] PROVE Goal
  <2> DEFINE r == [call[c] EXCEPT !.step = x, !.wallet = y]
  <2>1. call' = [call EXCEPT ![c] = r]
    BY <1>6
  <2>2. r.nonce = call[c].nonce
    BY <1>3
  <2> HIDE DEF r
  <2>3. QED
    BY <1>1, <2>1, <2>2
<1>7. ASSUME NEW x, NEW y, call' = [call EXCEPT ![c].step = x, ![c].signer = y] PROVE Goal
  <2> DEFINE r == [call[c] EXCEPT !.step = x, !.signer = y]
  <2>1. call' = [call EXCEPT ![c] = r]
    BY <1>7
  <2>2. r.nonce = call[c].nonce
    BY <1>3
  <2> HIDE DEF r
  <2>3. QED
    BY <1>1, <2>1, <2>2
<1>8. Goal
  BY <1>4, <1>5, <1>6, <1>7
<1>9. QED
  BY <1>8 DEF Goal

\* The clock stops at its bound.
LEMMA TickBound ==
    ASSUME TypeInv, BoundsInv, [SessionNext]_sessionVars
    PROVE  clock' <= MaxTime
<1>1. \/ UNCHANGED clock \/ Tick
  <2>1. CASE ApiNext
    BY <2>1 DEF ApiNext, AskRefused, Issue, Verify, VerifyRefused, VerifyAgain,
                Answer, Authorise, Serve, SetRoles
  <2>2. CASE TabNext
    BY <2>2 DEF TabNext, Select, Disconnect, GiveUp, Expire, Reload, SignIn, Sign,
                Settle, SignOut, AddMembership, ReadPanel, ReadEnds, TabCalls, accessVars
  <2>3. CASE UNCHANGED sessionVars
    BY <2>3 DEF sessionVars, accessVars
  <2>4. QED
    BY <2>1, <2>2, <2>3 DEF SessionNext
<1>2. QED
  BY <1>1 DEF Tick, TypeInv, BoundsInv

\* Every step keeps the remaining fields' types.
LEMMA FlagsKept ==
    ASSUME TypeInv, BoundsInv, [SessionNext]_sessionVars
    PROVE  /\ panel' \subseteq Wallets /\ claim' \in BOOLEAN /\ keeps' \in BOOLEAN
           /\ state'.kind # "signed-in" => state'.session = NoSession
<1>0. /\ panel \subseteq Wallets /\ claim \in BOOLEAN /\ keeps \in BOOLEAN
      /\ state.kind # "signed-in" => state.session = NoSession
  BY DEF BoundsInv
<1>1. panel' \subseteq Wallets
  <2>1. CASE ApiNext
    BY <1>0, <2>1 DEF ApiNext, AskRefused, Issue, Verify, VerifyRefused, VerifyAgain,
                Answer, Authorise, Serve, SetRoles, Tick
  <2>2. CASE TabNext
    BY <1>0, <2>2 DEF TabNext, Select, Disconnect, GiveUp, Expire, Reload, SignIn, Sign,
                Settle, SignOut, AddMembership, ReadPanel, ReadEnds, TabCalls, accessVars
  <2>3. CASE UNCHANGED sessionVars
    BY <1>0, <2>3 DEF sessionVars, accessVars
  <2>4. QED
    BY <2>1, <2>2, <2>3 DEF SessionNext
<1>2. claim' \in BOOLEAN /\ keeps' = keeps
  <2>1. CASE UNCHANGED tabVars
    BY <1>0, <2>1 DEF tabVars
  <2>2. CASE TabNext
    BY <1>0, <2>1, <2>2 DEF TabNext, Select, Disconnect, GiveUp, Expire, Reload, SignIn, Sign,
                Settle, SignOut, AddMembership, ReadPanel, ReadEnds, TabCalls
  <2>3. QED
    BY <2>1, <2>2 DEF SessionNext, sessionVars
<1>3. state'.kind # "signed-in" => state'.session = NoSession
  <2>1. \/ UNCHANGED state
        \/ \E t : state' = SignedIn(t)
        \/ \E kind, w : state' = With(kind, w)
        \/ \E kind : state' = Only(kind)
    <3>1. CASE UNCHANGED tabVars
      BY <3>1 DEF tabVars
    <3>2. CASE \E w \in Wallets : Select(w)
      BY <3>2 DEF Select, Load
    <3>3. CASE \E c \in Calls : SignIn(c) \/ Sign(c) \/ Settle(c)
      BY <3>3 DEF SignIn, Sign, Settle
    <3>4. CASE Disconnect \/ GiveUp \/ Expire \/ Reload
      BY <3>4 DEF Disconnect, GiveUp, Expire, Reload
    <3>5. CASE SignOut \/ AddMembership \/ ReadPanel \/ ReadEnds
      BY <3>1, <3>5 DEF SignOut, AddMembership, ReadPanel, ReadEnds
    <3>6. QED
      BY <3>1, <3>2, <3>3, <3>4, <3>5 DEF SessionNext, TabNext, sessionVars
  <2>2. QED
    BY <1>0, <2>1 DEF SignedIn, With, Only
<1>4. QED
  BY <1>0, <1>1, <1>2, <1>3

\* Only a nonce just issued is new to a call, and nothing else is longer than
\* before.
LEMMA NumbersKept ==
    ASSUME TypeInv, NonceInv, BoundsInv, [SessionNext]_sessionVars
    PROVE  /\ nonces' \in [Wallets -> NonceRow]
           /\ \A w \in Wallets : nonces'[w].nonce <= Len(issued')
           /\ \A c \in Calls : call'[c].nonce <= Len(issued')
<1>0. /\ nonces \in [Wallets -> NonceRow] /\ call \in [Calls -> CallRecord]
      /\ issued \in Seq([wallet : Wallets, at : Nat]) /\ Len(issued) \in Nat
      /\ \A w \in Wallets : nonces[w].nonce \in Nat /\ nonces[w].nonce <= Len(issued)
      /\ \A c \in Calls : call[c].nonce \in Nat /\ call[c].nonce <= Len(issued)
  BY DEF TypeInv, BoundsInv, NonceRow, CallRecord
<1>1. nonces' \in [Wallets -> NonceRow]
  BY NonceInvKept DEF NonceInv
<1>2. CASE \E c \in Calls : Issue(c)
  <2>1. PICK c \in Calls : Issue(c)
    BY <1>2
  <2> DEFINE n == Len(issued) + 1
             v == call[c].wallet
             one == [wallet |-> v, at |-> clock]
  <2>2. /\ nonces' = [nonces EXCEPT ![v] = [nonce |-> n, expires |-> clock + NonceTtl]]
        /\ issued' = Append(issued, one)
        /\ call' = [call EXCEPT ![c].step = "given", ![c].nonce = n]
    BY <2>1 DEF Issue
  <2>3. Len(issued') = n
    BY <1>0, <2>2
  <2> HIDE DEF one
  <2>4. \A w \in Wallets : nonces'[w].nonce <= n
    BY <1>0, <2>2
  <2>5. \A d \in Calls : call'[d].nonce <= n
    BY <1>0, <2>2 DEF CallRecord
  <2>6. QED
    BY <1>1, <2>3, <2>4, <2>5
<1>3. CASE issued' = issued
  <2>0. \A c \in Calls : ~ Issue(c)
    <3>1. ASSUME NEW c \in Calls, Issue(c) PROVE FALSE
      <4>1. issued' = Append(issued, [wallet |-> call[c].wallet, at |-> clock])
        BY <3>1 DEF Issue
      <4>2. QED
        BY <1>0, <1>3, <4>1
    <3>2. QED
      BY <3>1
  <2>1. \A w \in Wallets : nonces'[w] = nonces[w] \/ nonces'[w] = NoNonce
    <3>1. CASE UNCHANGED <<nonces, issued, granted>>
      BY <3>1
    <3>2. ASSUME NEW c \in Calls, Granted(call[c])
          PROVE  \A w \in Wallets : nonces'[w] = nonces[w] \/ nonces'[w] = NoNonce
      BY <1>0, <3>2 DEF Granted, Consume
    <3>3. QED
      BY <3>1, <3>2, <2>0, NonceSteps
  <2>2. \A w \in Wallets : nonces'[w].nonce <= Len(issued')
    BY <1>0, <1>3, <2>1 DEF NoNonce
  <2>3. \A c \in Calls : call'[c].nonce = call[c].nonce \/ call'[c].nonce = 0
    <3>1. CASE UNCHANGED call
      BY <3>1
    <3>2. ASSUME NEW c \in Calls, AskRefused(c) \/ Verify(c) \/ VerifyRefused(c)
                                  \/ VerifyAgain(c) \/ Answer(c)
          PROVE  \A d \in Calls : call'[d].nonce = call[d].nonce
      <4>1. \/ UNCHANGED call
            \/ \E x : call' = [call EXCEPT ![c].step = x]
            \/ \E x, y : call' = [call EXCEPT ![c].step = x, ![c].session = y]
        BY <3>2 DEF AskRefused, Verify, VerifyRefused, VerifyAgain, Answer, Refuse
      <4>2. QED
        BY <1>0, <4>1, OneCall
    <3>3. ASSUME NEW c \in Calls, SignIn(c) \/ Sign(c)
          PROVE  \A d \in Calls : call'[d].nonce = call[d].nonce
      <4>1. \/ \E x : call' = [call EXCEPT ![c].step = x]
            \/ \E x, y : call' = [call EXCEPT ![c].step = x, ![c].wallet = y]
            \/ \E x, y : call' = [call EXCEPT ![c].step = x, ![c].signer = y]
        BY <3>3 DEF SignIn, Sign, Refuse
      <4>2. QED
        BY <1>0, <4>1, OneCall
    <3>4. ASSUME NEW c \in Calls, Settle(c)
          PROVE  \A d \in Calls : call'[d].nonce = call[d].nonce \/ call'[d].nonce = 0
      BY <1>0, <3>4 DEF Settle, Idle
    <3>5. CASE Reload
      BY <3>5 DEF Reload, Idle
    <3>6. CASE ApiNext
      BY <2>0, <3>1, <3>2, <3>6 DEF ApiNext, Authorise, Serve, SetRoles, Tick
    <3>7. CASE TabNext
      BY <3>1, <3>3, <3>4, <3>5, <3>7 DEF TabNext, Select, Disconnect, GiveUp, Expire,
                 SignOut, AddMembership, ReadPanel, ReadEnds, accessVars
    <3>8. CASE UNCHANGED sessionVars
      BY <3>1, <3>8 DEF sessionVars, accessVars
    <3>9. QED
      BY <3>6, <3>7, <3>8 DEF SessionNext
  <2>4. \A c \in Calls : call'[c].nonce <= Len(issued')
    BY <1>0, <1>3, <2>3
  <2>5. QED
    BY <1>1, <2>2, <2>4
<1>4. QED
  BY <1>2, <1>3, ClockAndIssued

\* Every step keeps the bounds.
LEMMA BoundsKept ==
    ASSUME TypeInv, NonceInv, BoundsInv, [SessionNext]_sessionVars
    PROVE  BoundsInv'
  BY TickBound, FlagsKept, NumbersKept DEF BoundsInv

\* They hold at first.
LEMMA BoundsStart == SessionInit => BoundsInv
<1> SUFFICES ASSUME SessionInit PROVE BoundsInv
  OBVIOUS
<1>1. Len(issued) = 0 /\ clock = 0
  BY DEF SessionInit, AccessInit
<1>2. nonces \in [Wallets -> NonceRow] /\ \A w \in Wallets : nonces[w].nonce = 0
  BY DEF SessionInit, AccessInit, NoNonce, NonceRow
<1>3. \A c \in Calls : call[c].nonce = 0
  BY DEF SessionInit, AccessInit, Idle
<1>4. /\ clock <= MaxTime /\ panel \subseteq Wallets /\ claim \in BOOLEAN
      /\ keeps \in BOOLEAN /\ state.session = NoSession
  <2>1. panel \subseteq Wallets
    BY DEF SessionInit, AccessInit
  <2>2. claim \in BOOLEAN /\ keeps \in BOOLEAN /\ state.session = NoSession
    BY DEF SessionInit, Only
  <2>3. QED
    BY <1>1, <2>1, <2>2
<1>5. QED
  BY <1>1, <1>2, <1>3, <1>4 DEF BoundsInv

\* What is kept about every sign-in, by the API and by the tab, is of its type.
THEOREM SignInTyped == SessionSpec => []SessionTypeOK
<1>1. TypeInv /\ NonceInv /\ BoundsInv /\ [SessionNext]_sessionVars => BoundsInv'
  BY BoundsKept
<1>2. TypeInv /\ NonceInv /\ LimitInv /\ BoundsInv => SessionTypeOK
  <2> SUFFICES ASSUME TypeInv, NonceInv, LimitInv, BoundsInv PROVE SessionTypeOK
    OBVIOUS
  <2>1. clock \in 0 .. MaxTime /\ Len(issued) \in Nat
    BY DEF TypeInv, BoundsInv
  <2>2. nonces \in [Wallets -> [nonce : 0 .. Len(issued), expires : Nat]]
    BY <2>1 DEF BoundsInv, NonceRow
  <2>3. window \in Seq(0 .. clock)
    BY <2>1 DEF LimitInv
  <2>4. call \in [Calls -> [step : Steps, wallet : Someone, signer : Someone,
                           nonce : 0 .. Len(issued), session : Sessions]]
    BY <2>1 DEF TypeInv, BoundsInv, CallRecord
  <2>5. request.step \in RequestSteps /\ request.token \in Sessions
    BY DEF TypeInv, RequestRecord
  <2>6. state.kind \in Kinds /\ state.session \in Sessions
    BY DEF TypeInv, StateRecord
  <2>7. QED
    BY <2>1, <2>2, <2>3, <2>4, <2>5, <2>6
    DEF TypeInv, BoundsInv, LimitInv, SessionTypeOK, RequestSteps, Kinds
<1>3. NonceInv /\ TypeInv /\ [SessionNext]_sessionVars => NonceInv'
  BY NonceInvKept
<1>4. QED
  BY <1>1, <1>2, BoundsStart, SessionTyped, LimiterRemembers, NonceRemembers,
     PTL DEF SessionSpec
=============================================================================
