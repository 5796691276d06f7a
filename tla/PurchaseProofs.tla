--------------------------- MODULE PurchaseProofs ---------------------------
(***************************************************************************)
(* The storefront's theorems, for any market, any number of submissions    *)
(* and whatever else happens to the offers meanwhile.                      *)
(***************************************************************************)
EXTENDS Purchase, MarketProofs

-----------------------------------------------------------------------------
(* What is read from a log. *)

\* The parser's state (logs.ts) is what its recursion says: there is such a
\* function, as it is built line by line.
LEMMA LinesRead ==
    ASSUME NEW logs, Len(logs) \in Nat
    PROVE  /\ AfterLines(logs)[0] = [stack |-> <<>>, out |-> <<>>]
           /\ \A i \in 1 .. Len(logs) :
                 AfterLines(logs)[i]
                    = AttributeLine(AfterLines(logs)[i - 1], logs[i])
<1> DEFINE N == Len(logs)
           base == [stack |-> <<>>, out |-> <<>>]
           Value(g, i) == IF i = 0 THEN base
                          ELSE AttributeLine(g[i - 1], logs[i])
           Built(n) == \E g : g = [i \in 0 .. n |-> Value(g, i)]
           T == {n \in Nat : Built(n)}
<1> HIDE DEF N
<1>1. 0 \in T
  <2> DEFINE g == [i \in 0 .. 0 |-> base]
  <2>1. g = [i \in 0 .. 0 |-> Value(g, i)]
    OBVIOUS
  <2> HIDE DEF g, Value
  <2>2. QED
    BY <2>1
<1>2. ASSUME NEW n \in Nat, n \in T PROVE n + 1 \in T
  <2> HIDE DEF base
  <2>1. PICK g : g = [i \in 0 .. n |-> Value(g, i)]
    BY <1>2
  <2> DEFINE h == [i \in 0 .. n + 1 |-> IF i \in 0 .. n THEN g[i]
                                        ELSE AttributeLine(g[n], logs[n + 1])]
  <2>2. ASSUME NEW i \in 0 .. n + 1 PROVE h[i] = Value(h, i)
    <3>1. CASE i = 0
      <4>1. h[i] = g[0] /\ 0 \in 0 .. n
        BY <3>1
      <4>2. g[0] = base
        BY <2>1, <4>1
      <4>3. QED
        BY <3>1, <4>1, <4>2
    <3>2. CASE i \in 1 .. n
      <4>1. i \in 0 .. n /\ i - 1 \in 0 .. n /\ i - 1 \in 0 .. n + 1 /\ i # 0
        BY <3>2
      <4>2. h[i] = g[i] /\ h[i - 1] = g[i - 1]
        BY <2>2, <4>1
      <4>3. g[i] = AttributeLine(g[i - 1], logs[i])
        BY <2>1, <4>1
      <4>4. QED
        BY <4>1, <4>2, <4>3
    <3>3. CASE i = n + 1
      <4>1. /\ n \in 0 .. n /\ n \in 0 .. n + 1
            /\ i \notin 0 .. n /\ i # 0 /\ i - 1 = n
        BY <3>3
      <4>2. h[i] = AttributeLine(g[n], logs[n + 1]) /\ h[n] = g[n]
        BY <2>2, <4>1
      <4>3. QED
        BY <3>3, <4>1, <4>2
    <3>4. QED
      BY <3>1, <3>2, <3>3
  <2> HIDE DEF Value
  <2>3. h = [i \in 0 .. n + 1 |-> Value(h, i)]
    BY <2>2
  <2> HIDE DEF h
  <2>4. QED
    BY <2>3
<1>3. N \in T
  <2> HIDE DEF T
  <2>1. N \in Nat
    BY DEF N
  <2>2. QED
    BY <1>1, <1>2, <2>1, Counting
<1> DEFINE after == AfterLines(logs)
<1>4. after = CHOOSE g : g = [i \in 0 .. N |-> Value(g, i)]
  BY DEF AfterLines, N
<1>5. after = [i \in 0 .. N |-> Value(after, i)]
  <2> HIDE DEF Value, after
  <2>1. \E g : g = [i \in 0 .. N |-> Value(g, i)]
    BY <1>3
  <2>2. QED
    BY <1>4, <2>1
<1>6. N \in Nat
  BY DEF N
<1> HIDE DEF after
<1>7. after[0] = base
  BY <1>5, <1>6
<1>8. ASSUME NEW i \in 1 .. N
      PROVE  after[i] = AttributeLine(after[i - 1], logs[i])
  <2>1. i \in 0 .. N /\ i # 0
    BY <1>6
  <2>2. QED
    BY <1>5, <2>1
<1>9. QED
  BY <1>7, <1>8 DEF N, after

Programs == {"caprail", "token", "hook"}

State(stack, out) == [stack |-> stack, out |-> out]
Frame(p, e) == [kind |-> "error", says |-> e, program |-> p]

\* The kinds of a log line are told apart by its fields.
LEMMA LineFacts ==
    /\ \A p : /\ Enter(p).kind = "invoke" /\ Enter(p).program = p
              /\ Leave(p).kind = "leave" /\ Leave(p).program = p
    /\ \A e : Error(e).kind = "error" /\ Error(e).says = e
    /\ \A p, e : /\ Frame(p, e).kind = "error" /\ Frame(p, e).says = e
                 /\ Frame(p, e).program = p
  BY DEF Enter, Leave, Error, Frame

\* The three things a line does to the parser.
LEMMA EnterRead ==
    ASSUME NEW s, NEW out, NEW p
    PROVE  AttributeLine(State(s, out), Enter(p)) = State(Append(s, p), out)
  BY DEF AttributeLine, Enter, State

\* Leaving a program pops its frame.
LEMMA LeaveRead ==
    ASSUME NEW s \in Seq(Programs), NEW out, NEW p \in Programs
    PROVE  AttributeLine(State(Append(s, p), out), Leave(p)) = State(s, out)
<1> DEFINE t == Append(s, p)
<1>1. t # <<>> /\ Last(t) = p /\ Front(t) = s
  BY DEF Last, Front
<1> HIDE DEF t
<1>2. AttributeLine(State(t, out), Leave(p)) = State(s, out)
  BY <1>1 DEF AttributeLine, Leave, State
<1>3. QED
  BY <1>2 DEF t

\* An error is attributed to the frame it is said in.
LEMMA ErrorRead ==
    ASSUME NEW s \in Seq(Programs), NEW out, NEW p \in Programs, NEW e
    PROVE  AttributeLine(State(Append(s, p), out), Error(e))
              = State(Append(s, p), Append(out, Frame(p, e)))
<1> DEFINE t == Append(s, p)
<1>1. t # <<>> /\ Last(t) = p
  BY DEF Last
<1> HIDE DEF t
<1>2. AttributeLine(State(t, out), Error(e))
         = State(t, Append(out, Frame(p, e)))
  BY <1>1 DEF AttributeLine, Error, State, Frame
<1>3. QED
  BY <1>2 DEF t

\* One frame of an error is a refused transfer if and only if it is the hook's.
LEMMA OneFrame ==
    ASSUME NEW e, NEW p \in Programs,
           NEW frames, frames = Append(<<>>, Frame(p, e))
    PROVE  Rejection(frames, TRUE) = IF p = "hook" THEN e ELSE "none"
<1> DEFINE thrown == {i \in DOMAIN frames : /\ frames[i].kind = "error"
                                            /\ frames[i].program = "hook"}
<1>1. DOMAIN frames = {1} /\ frames[1] = Frame(p, e)
  OBVIOUS
<1>2. /\ frames[1].kind = "error" /\ frames[1].program = p
      /\ frames[1].says = e
  BY <1>1, LineFacts
<1>3. Rejection(frames, TRUE)
         = IF thrown = {} THEN "none" ELSE frames[Min(thrown)].says
  BY DEF Rejection
<1>4. CASE p = "hook"
  <2>1. thrown = {1}
    BY <1>1, <1>2, <1>4
  <2>2. Min(thrown) = 1
    BY <2>1, NatMin
  <2> HIDE DEF thrown
  <2>3. QED
    BY <1>2, <1>3, <1>4, <2>1, <2>2
<1>5. CASE p # "hook"
  <2>1. thrown = {}
    BY <1>1, <1>2, <1>5
  <2>2. QED
    BY <1>3, <1>5, <2>1
<1>6. QED
  BY <1>4, <1>5

\* With one error in a log, the panel reads that one.
LEMMA OneError ==
    ASSUME NEW logs, NEW k \in DOMAIN logs, DOMAIN logs \subseteq Nat,
           logs[k].kind = "error",
           \A i \in DOMAIN logs \ {k} : logs[i].kind # "error"
    PROVE  ReasonFromLogs(logs) = logs[k].says
<1> DEFINE errors == {i \in DOMAIN logs : logs[i].kind = "error"}
<1>1. errors = {k} /\ errors \subseteq Nat
  OBVIOUS
<1>2. ReasonFromLogs(logs)
         = IF errors = {} THEN "none" ELSE logs[Min(errors)].says
  BY DEF ReasonFromLogs
<1> HIDE DEF errors
<1>3. Min(errors) = k
  BY <1>1, NatMin
<1>4. QED
  BY <1>1, <1>2, <1>3

\* The log of a purchase that the hook refused.
LEMMA HookLogRead ==
    ASSUME NEW why, why.by = "hook"
    PROVE  /\ ReasonFromLogs(Log(why)) = why.error
           /\ Rejection(AttributeLogs(Log(why)), TRUE) = why.error
<1> DEFINE logs == Log(why)
           after == AfterLines(logs)
           one == Append(<<>>, "caprail")
           two == Append(one, "token")
           out == Append(<<>>, Frame("hook", why.error))
<1>1. /\ Len(logs) = 7 /\ DOMAIN logs = 1 .. 7
      /\ logs[1] = Enter("caprail") /\ logs[2] = Enter("token")
      /\ logs[3] = Enter("hook") /\ logs[4] = Error(why.error)
      /\ logs[5] = Leave("hook") /\ logs[6] = Leave("token")
      /\ logs[7] = Leave("caprail")
  BY DEF Log
<1>2. /\ <<>> \in Seq(Programs) /\ one \in Seq(Programs) /\ two \in Seq(Programs)
      /\ "hook" \in Programs /\ "token" \in Programs /\ "caprail" \in Programs
  BY DEF Programs
<1> HIDE DEF logs
<1>3. after[0] = State(<<>>, <<>>)
  BY <1>1, LinesRead DEF State
<1>4. \A i \in 1 .. 7 : after[i] = AttributeLine(after[i - 1], logs[i])
  <2>1. Len(logs) \in Nat
    BY <1>1
  <2>2. \A i \in 1 .. Len(logs) : after[i] = AttributeLine(after[i - 1], logs[i])
    BY <2>1, LinesRead, Zenon
  <2>3. QED
    BY <1>1, <2>2, Zenon
<1> HIDE DEF after
<1>5. /\ after[1] = AttributeLine(after[0], logs[1])
      /\ after[2] = AttributeLine(after[1], logs[2])
      /\ after[3] = AttributeLine(after[2], logs[3])
      /\ after[4] = AttributeLine(after[3], logs[4])
      /\ after[5] = AttributeLine(after[4], logs[5])
      /\ after[6] = AttributeLine(after[5], logs[6])
      /\ after[7] = AttributeLine(after[6], logs[7])
  BY <1>4
<1>6. after[1] = State(one, <<>>)
  BY <1>1, <1>3, <1>5, EnterRead
<1>7. after[2] = State(two, <<>>)
  BY <1>1, <1>5, <1>6, EnterRead
<1>8. after[3] = State(Append(two, "hook"), <<>>)
  BY <1>1, <1>5, <1>7, EnterRead
<1>9. after[4] = State(Append(two, "hook"), out)
  <2>1. \A t \in Seq(Programs) : \A x :
           AttributeLine(State(Append(t, "hook"), x), Error(why.error))
              = State(Append(t, "hook"), Append(x, Frame("hook", why.error)))
    BY <1>2, ErrorRead
  <2> HIDE DEF two
  <2>2. AttributeLine(State(Append(two, "hook"), <<>>), Error(why.error))
           = State(Append(two, "hook"), out)
    BY <1>2, <2>1, Zenon
  <2>3. QED
    BY <1>1, <1>5, <1>8, <2>2, Zenon
<1> HIDE DEF out, two
<1>10. after[5] = State(two, out)
  BY <1>1, <1>2, <1>5, <1>9, LeaveRead
<1> HIDE DEF one
<1>11. after[6] = State(one, out)
  BY <1>1, <1>2, <1>5, <1>10, LeaveRead DEF two
<1>12. after[7] = State(<<>>, out)
  BY <1>1, <1>2, <1>5, <1>11, LeaveRead DEF one
<1>13. AttributeLogs(logs) = out
  BY <1>1, <1>12 DEF AttributeLogs, after, State
<1>14. Rejection(AttributeLogs(logs), TRUE) = why.error
  BY <1>2, <1>13, OneFrame DEF out
<1>15. ReasonFromLogs(logs) = why.error
  <2>1. /\ logs[1].kind # "error" /\ logs[2].kind # "error"
        /\ logs[3].kind # "error" /\ logs[4].kind = "error"
        /\ logs[5].kind # "error" /\ logs[6].kind # "error"
        /\ logs[7].kind # "error" /\ logs[4].says = why.error
    BY <1>1, LineFacts
  <2>2. \A i \in DOMAIN logs \ {4} : i \in {1, 2, 3, 5, 6, 7}
    BY <1>1
  <2>3. 4 \in DOMAIN logs /\ DOMAIN logs \subseteq Nat
    BY <1>1
  <2>4. QED
    BY <2>1, <2>2, <2>3, OneError
<1>16. QED
  BY <1>14, <1>15 DEF logs

\* And of one that the platform's own program refused.
LEMMA OwnLogRead ==
    ASSUME NEW why, why.by = "caprail"
    PROVE  /\ ReasonFromLogs(Log(why)) = why.error
           /\ Rejection(AttributeLogs(Log(why)), TRUE) = "none"
<1> DEFINE logs == Log(why)
           after == AfterLines(logs)
           one == Append(<<>>, "caprail")
           out == Append(<<>>, Frame("caprail", why.error))
<1>1. /\ Len(logs) = 3 /\ DOMAIN logs = 1 .. 3
      /\ logs[1] = Enter("caprail") /\ logs[2] = Error(why.error)
      /\ logs[3] = Leave("caprail")
  BY DEF Log
<1>2. <<>> \in Seq(Programs) /\ "caprail" \in Programs
  BY DEF Programs
<1> HIDE DEF logs
<1>3. after[0] = State(<<>>, <<>>)
  BY <1>1, LinesRead DEF State
<1>4. \A i \in 1 .. 3 : after[i] = AttributeLine(after[i - 1], logs[i])
  <2>1. Len(logs) \in Nat
    BY <1>1
  <2>2. \A i \in 1 .. Len(logs) : after[i] = AttributeLine(after[i - 1], logs[i])
    BY <2>1, LinesRead, Zenon
  <2>3. QED
    BY <1>1, <2>2, Zenon
<1> HIDE DEF after
<1>5. /\ after[1] = AttributeLine(after[0], logs[1])
      /\ after[2] = AttributeLine(after[1], logs[2])
      /\ after[3] = AttributeLine(after[2], logs[3])
  BY <1>4
<1>6. after[1] = State(one, <<>>)
  BY <1>1, <1>3, <1>5, EnterRead
<1>7. after[2] = State(one, out)
  <2>1. \A t \in Seq(Programs) : \A x :
           AttributeLine(State(Append(t, "caprail"), x), Error(why.error))
              = State(Append(t, "caprail"),
                      Append(x, Frame("caprail", why.error)))
    BY <1>2, ErrorRead
  <2>2. AttributeLine(State(one, <<>>), Error(why.error)) = State(one, out)
    BY <1>2, <2>1, Zenon
  <2>3. QED
    BY <1>1, <1>5, <1>6, <2>2, Zenon
<1> HIDE DEF out
<1>8. after[3] = State(<<>>, out)
  BY <1>1, <1>2, <1>5, <1>7, LeaveRead
<1>9. AttributeLogs(logs) = out
  BY <1>1, <1>8 DEF AttributeLogs, after, State
<1>10. Rejection(AttributeLogs(logs), TRUE) = "none"
  BY <1>2, <1>9, OneFrame DEF out
<1>11. ReasonFromLogs(logs) = why.error
  <2>1. /\ logs[1].kind # "error" /\ logs[2].kind = "error"
        /\ logs[3].kind # "error" /\ logs[2].says = why.error
    BY <1>1, LineFacts
  <2>2. \A i \in DOMAIN logs \ {2} : i \in {1, 3}
    BY <1>1
  <2>3. 2 \in DOMAIN logs /\ DOMAIN logs \subseteq Nat
    BY <1>1
  <2>4. QED
    BY <2>1, <2>2, <2>3, OneError
<1>12. QED
  BY <1>10, <1>11 DEF logs

\* Lines, and frames, that are no errors.
Running == Programs \cup {""}
Quiet == [kind : {"invoke", "leave", "data"}, program : Running,
          says : {"", "TransferAllowed", "OfferAccepted"}]
QuietState == [stack : Seq(Running), out : Seq(Quiet)]

\* All but the last of a sequence, and the last.
LEMMA FrontTyped ==
    ASSUME NEW S, NEW s \in Seq(S), s # <<>>
    PROVE  Front(s) \in Seq(S) /\ Last(s) \in S
  BY DEF Front, Last

\* One more member of a sequence.
LEMMA AppendTyped ==
    ASSUME NEW S, NEW s \in Seq(S), NEW x \in S
    PROVE  Append(s, x) \in Seq(S)
  OBVIOUS

\* A line that is no error leaves no error behind.
LEMMA QuietRead ==
    ASSUME NEW state \in QuietState, NEW line \in Quiet
    PROVE  AttributeLine(state, line) \in QuietState
<1> DEFINE s == state.stack
           out == state.out
<1>1. /\ s \in Seq(Running) /\ out \in Seq(Quiet)
      /\ line.program \in Running /\ line.kind \in {"invoke", "leave", "data"}
      /\ line.says \in {"", "TransferAllowed", "OfferAccepted"}
  BY DEF QuietState, Quiet
<1>2. ASSUME s # <<>> PROVE Front(s) \in Seq(Running) /\ Last(s) \in Running
  BY <1>1, <1>2, FrontTyped
<1>3. ASSUME NEW a \in Seq(Running), NEW b \in Seq(Quiet)
      PROVE  [stack |-> a, out |-> b] \in QuietState
  BY DEF QuietState
<1>4. CASE line.kind = "invoke"
  <2>1. AttributeLine(state, line)
           = [stack |-> Append(s, line.program), out |-> out]
    BY <1>4 DEF AttributeLine
  <2>2. Append(s, line.program) \in Seq(Running)
    BY <1>1, AppendTyped
  <2>3. QED
    BY <1>1, <1>3, <2>1, <2>2
<1>5. CASE line.kind = "leave" /\ s # <<>> /\ Last(s) = line.program
  <2>1. AttributeLine(state, line) = [stack |-> Front(s), out |-> out]
    BY <1>5 DEF AttributeLine
  <2>2. QED
    BY <1>1, <1>2, <1>3, <1>5, <2>1
<1>6. CASE /\ line.kind # "invoke"
           /\ ~ (line.kind = "leave" /\ s # <<>> /\ Last(s) = line.program)
  <2> DEFINE p == IF s = <<>> THEN "" ELSE Last(s)
             f == [kind |-> line.kind, says |-> line.says, program |-> p]
  <2>1. AttributeLine(state, line) = [stack |-> s, out |-> Append(out, f)]
    BY <1>6 DEF AttributeLine
  <2>2. p \in Running
    BY <1>2 DEF Running
  <2> HIDE DEF p
  <2>3. f \in Quiet
    BY <1>1, <2>2 DEF Quiet
  <2> HIDE DEF f
  <2>4. Append(out, f) \in Seq(Quiet)
    BY <1>1, <2>3, AppendTyped
  <2>5. QED
    BY <1>1, <1>3, <2>1, <2>4
<1>7. QED
  BY <1>4, <1>5, <1>6

\* Where no line is an error, none is read.
LEMMA QuietLogRead ==
    ASSUME NEW logs, Len(logs) \in Nat, DOMAIN logs = 1 .. Len(logs),
           \A i \in DOMAIN logs : logs[i] \in Quiet
    PROVE  /\ ReasonFromLogs(logs) = "none"
           /\ Rejection(AttributeLogs(logs), TRUE) = "none"
<1> DEFINE N == Len(logs)
           after == AfterLines(logs)
           T == {n \in Nat : n <= N => after[n] \in QuietState}
           frames == AttributeLogs(logs)
<1>1. /\ after[0] = [stack |-> <<>>, out |-> <<>>]
      /\ \A i \in 1 .. N : after[i] = AttributeLine(after[i - 1], logs[i])
  BY LinesRead
<1> HIDE DEF after
<1>2. 0 \in T
  <2>1. after[0] \in QuietState
    BY <1>1 DEF QuietState
  <2>2. QED
    BY <2>1
<1>3. ASSUME NEW n \in Nat, n \in T PROVE n + 1 \in T
  <2>1. SUFFICES ASSUME n + 1 <= N PROVE after[n + 1] \in QuietState
    OBVIOUS
  <2>2. n + 1 \in 1 .. N /\ n <= N /\ n + 1 - 1 = n
    BY <2>1
  <2>3. after[n + 1] = AttributeLine(after[n], logs[n + 1])
    BY <1>1, <2>2
  <2>4. after[n] \in QuietState /\ logs[n + 1] \in Quiet
    BY <1>3, <2>2
  <2>5. QED
    BY <2>3, <2>4, QuietRead
<1>4. after[N] \in QuietState
  <2> HIDE DEF T
  <2>1. N \in T
    BY <1>2, <1>3, Counting
  <2>2. QED
    BY <2>1 DEF T
<1>5. frames \in Seq(Quiet)
  BY <1>4 DEF AttributeLogs, after, QuietState
<1>6. \A x \in Quiet : x.kind # "error"
  BY DEF Quiet
<1> HIDE DEF frames
<1>7. \A i \in DOMAIN frames : frames[i].kind # "error"
  <2>1. \A i \in DOMAIN frames : frames[i] \in Quiet
    BY <1>5
  <2>2. QED
    BY <1>6, <2>1
<1>8. {i \in DOMAIN frames : /\ frames[i].kind = "error"
                             /\ frames[i].program = "hook"} = {}
  BY <1>7
<1>9. Rejection(frames, TRUE) = "none"
  BY <1>8 DEF Rejection
<1>10. {i \in DOMAIN logs : logs[i].kind = "error"} = {}
  BY <1>6
<1>11. ReasonFromLogs(logs) = "none"
  BY <1>10 DEF ReasonFromLogs
<1>12. QED
  BY <1>9, <1>11 DEF frames

\* The log of any other purchase, funded or not.
LEMMA OtherLogRead ==
    ASSUME NEW why, why.by \notin {"hook", "caprail"}
    PROVE  /\ ReasonFromLogs(Log(why)) = "none"
           /\ Rejection(AttributeLogs(Log(why)), TRUE) = "none"
<1> DEFINE lines == {Enter("caprail"), Enter("token"), Enter("hook"),
                     Data("TransferAllowed"), Data("OfferAccepted"),
                     Leave("hook"), Leave("token"), Leave("caprail")}
           logs == Log(why)
<1>1. lines \subseteq Quiet
  BY DEF Enter, Leave, Data, Quiet, Running, Programs
<1>2. CASE why.by = "token"
  <2>1. /\ Len(logs) = 9 /\ DOMAIN logs = 1 .. 9
        /\ \A i \in 1 .. 9 : logs[i] \in lines
    BY <1>2 DEF Log
  <2> HIDE DEF logs, lines
  <2>2. Len(logs) \in Nat /\ DOMAIN logs = 1 .. Len(logs)
    BY <2>1
  <2>3. \A i \in DOMAIN logs : logs[i] \in Quiet
    BY <1>1, <2>1
  <2>4. QED
    BY <2>2, <2>3, QuietLogRead DEF logs
<1>3. CASE why.by # "token"
  <2>1. /\ Len(logs) = 10 /\ DOMAIN logs = 1 .. 10
        /\ \A i \in 1 .. 10 : logs[i] \in lines
    BY <1>3 DEF Log
  <2> HIDE DEF logs, lines
  <2>2. Len(logs) \in Nat /\ DOMAIN logs = 1 .. Len(logs)
    BY <2>1
  <2>3. \A i \in DOMAIN logs : logs[i] \in Quiet
    BY <1>1, <2>1
  <2>4. QED
    BY <2>2, <2>3, QuietLogRead DEF logs
<1>4. QED
  BY <1>2, <1>3

-----------------------------------------------------------------------------
(* What the network answers to a purchase. *)

USE MarketAssumption, PricingAssumption, ShareTokenAssumption,
    PurchaseAssumption DEF Accounts

\* The eight checks: whose each is, what it says and what it looks at.
LEMMA ChecksAre ==
    ASSUME NEW o, NEW n
    PROVE  DOMAIN Checks(o, n) = 1 .. 8
  BY DEF Checks
\* Who makes each of the checks.
LEMMA ChecksBy ==
    ASSUME NEW o, NEW n
    PROVE  /\ Checks(o, n)[1].by = "caprail" /\ Checks(o, n)[2].by = "caprail"
           /\ Checks(o, n)[3].by = "caprail" /\ Checks(o, n)[4].by = "caprail"
           /\ Checks(o, n)[5].by = "hook" /\ Checks(o, n)[6].by = "hook"
           /\ Checks(o, n)[7].by = "hook" /\ Checks(o, n)[8].by = "token"
  BY DEF Checks
\* What each of the checks says when it fails.
LEMMA ChecksSay ==
    ASSUME NEW o, NEW n
    PROVE  /\ Checks(o, n)[1].error = "OfferNotOpen"
           /\ Checks(o, n)[2].error = "RofrWindowOpen"
           /\ Checks(o, n)[3].error = "AmountExceedsRemaining"
           /\ Checks(o, n)[4].error = "OfferStale"
           /\ Checks(o, n)[5].error = "NotAccredited"
           /\ Checks(o, n)[6].error = "AccreditationExpired"
           /\ Checks(o, n)[7].error = "Unvested"
           /\ Checks(o, n)[8].error = "no funds"
  BY DEF Checks
\* When each of the checks passes.
LEMMA ChecksHold ==
    ASSUME NEW o, NEW n
    PROVE  /\ Checks(o, n)[1].holds <=> IsOpen(o)
           /\ Checks(o, n)[2].holds <=> ~ InRofrWindow(o)
           /\ Checks(o, n)[3].holds <=>
                 /\ n <= offers[o].remaining
                 /\ PaymentFor(offers[o].price, n) <= U64Max
           /\ Checks(o, n)[4].holds <=> Backed(o, n)
           /\ Checks(o, n)[5].holds <=>
                 (policy.accreditation => record[Buyer].status = "approved")
           /\ Checks(o, n)[6].holds <=> MayReceive(Buyer)
           /\ Checks(o, n)[7].holds <=> KeepsLocked(Seller[o], n)
  BY DEF Checks

\* The first check that does not hold answers: the buyer's own money is the last
\* to be looked at, and the program never speaks of a window that is not there.
LEMMA RefusalFound ==
    ASSUME NEW o, NEW n
    PROVE  /\ Refusal(o, n).by \in {"nobody", "token"} <=>
                 \A i \in 1 .. 7 : Checks(o, n)[i].holds
           /\ Refusal(o, n).by = "caprail" /\ ~ InRofrWindow(o) =>
                 Refusal(o, n).error \in
                    {"OfferNotOpen", "AmountExceedsRemaining", "OfferStale"}
<1> DEFINE checks == Checks(o, n)
           failed == {i \in DOMAIN checks : ~ checks[i].holds}
           k == Min(failed)
<1>1. DOMAIN checks = 1 .. 8
  BY ChecksAre
<1>2. Refusal(o, n) = IF failed = {} THEN Passed
                      ELSE [by |-> checks[k].by, error |-> checks[k].error]
  BY DEF Refusal
<1>3. CASE failed = {}
  <2>1. \A i \in 1 .. 8 : checks[i].holds
    BY <1>1, <1>3
  <2> HIDE DEF checks, failed
  <2>2. QED
    BY <1>2, <1>3, <2>1 DEF Passed, checks
<1>4. CASE failed # {}
  <2>1. failed \subseteq Nat
    BY <1>1
  <2>2. k \in failed /\ \A y \in failed : k <= y
    <3> HIDE DEF failed
    <3>1. QED
      BY <1>4, <2>1, NatMin
  <2>3. /\ k \in 1 .. 8 /\ ~ checks[k].holds
        /\ \A i \in 1 .. 8 : ~ checks[i].holds => k <= i
    BY <1>1, <2>2
  <2>4. Refusal(o, n).by = checks[k].by /\ Refusal(o, n).error = checks[k].error
    BY <1>2, <1>4
  <2>5. \A i \in 1 .. 8 : i \in {1, 2, 3, 4, 5, 6, 7, 8}
    OBVIOUS
  <2> HIDE DEF k, failed, checks
  <2>7. Refusal(o, n).by \in {"nobody", "token"} <=> k = 8
    BY <2>3, <2>4, <2>5, ChecksBy DEF checks
  <2>8. k = 8 <=> \A i \in 1 .. 7 : checks[i].holds
    BY <2>3, <2>5
  <2>9. ASSUME Refusal(o, n).by = "caprail", ~ InRofrWindow(o)
        PROVE  Refusal(o, n).error \in
                  {"OfferNotOpen", "AmountExceedsRemaining", "OfferStale"}
    <3>1. k \in {1, 2, 3, 4}
      <4>1. k # 5 /\ k # 6 /\ k # 7 /\ k # 8
        BY <2>4, <2>9, ChecksBy DEF checks
      <4>2. QED
        BY <2>3, <4>1
    <3>2. k # 2
      BY <2>3, <2>9, ChecksHold DEF checks
    <3>3. CASE k = 1
      BY <2>4, <3>3, ChecksSay DEF checks
    <3>4. CASE k = 3
      BY <2>4, <3>4, ChecksSay DEF checks
    <3>5. CASE k = 4
      BY <2>4, <3>5, ChecksSay DEF checks
    <3>6. QED
      BY <3>1, <3>2, <3>3, <3>4, <3>5
  <2>10. QED
    BY <2>7, <2>8, <2>9 DEF checks
<1>5. QED
  BY <1>3, <1>4

-----------------------------------------------------------------------------
(* The storefront. *)

\* At most a minimum is at most each.
LEMMA BelowMin ==
    ASSUME NEW T, T \subseteq Nat, T # {}, NEW n \in Nat
    PROVE  n <= Min(T) <=> \A x \in T : n <= x
<1>1. Min(T) \in T /\ \A y \in T : Min(T) <= y
  BY NatMin
<1>2. Min(T) \in Nat
  BY <1>1
<1> DEFINE k == Min(T)
<1> HIDE DEF k
<1>3. k \in T /\ k \in Nat /\ \A y \in T : k <= y
  BY <1>1, <1>2 DEF k
<1>4. n <= k <=> \A x \in T : n <= x
  BY <1>3
<1>5. QED
  BY <1>4 DEF k

\* A row takes what the seller's account and the offer can give.
LEMMA RowsTakeable ==
    ASSUME MarketTypeOK, NEW o \in Offers, NEW n \in Shares
    PROVE  /\ ~ Accepts(NoRow, n)
           /\ Accepts(Row(o, Available(o)), n) <=>
                 Backed(o, n) /\ n <= offers[o].remaining
<1> DEFINE s == Seller[o]
<1>1. /\ offers[o].remaining \in Nat
      /\ delegated[s] \in Nat /\ balance[s] \in Nat
      /\ n \in Nat /\ n > 0 /\ s \in Wallets
  BY DEF MarketTypeOK, TypeOK, OfferRecord, Shares
<1>2. Takeable(NoRow) = Min({0, 0})
  BY DEF Takeable, NoRow
<1>3. ~ Accepts(NoRow, n)
  <2>1. n <= Min({0, 0}) <=> \A x \in {0, 0} : n <= x
    BY <1>1, BelowMin
  <2>2. QED
    BY <1>1, <1>2, <2>1 DEF Accepts
<1> DEFINE rest == offers[o].remaining
           able == Available(o)
<1>4. Accepts(Row(o, able), n) <=> n <= Min({able, rest})
  BY DEF Accepts, Takeable, Row
<1>5. able \in Nat /\ (n <= able /\ n <= rest <=> Backed(o, n) /\ n <= rest)
  <2>1. CASE delegate[s] # o
    <3>1. able = 0
      BY <2>1 DEF Available
    <3>2. QED
      BY <1>1, <2>1, <3>1 DEF Backed
  <2>2. CASE delegate[s] = o
    <3> DEFINE three == {rest, delegated[s], balance[s]}
    <3>1. able = Min(three)
      BY <2>2 DEF Available
    <3>2. three \subseteq Nat /\ three # {}
      BY <1>1
    <3>3. n <= Min(three) <=> \A x \in three : n <= x
      BY <1>1, <3>2, BelowMin
    <3>4. Min(three) \in Nat
      BY <3>2, NatMin
    <3>5. (\A x \in three : n <= x)
             <=> n <= rest /\ n <= delegated[s] /\ n <= balance[s]
      OBVIOUS
    <3>6. QED
      BY <2>2, <3>1, <3>3, <3>4, <3>5 DEF Backed
  <2>3. QED
    BY <2>1, <2>2
<1> HIDE DEF able
<1>6. n <= Min({able, rest}) <=> \A x \in {able, rest} : n <= x
  BY <1>1, <1>5, BelowMin
<1>7. QED
  BY <1>3, <1>4, <1>5, <1>6 DEF able

\* create_offer never opens a right of first refusal.
LEMMA NoWindow ==
    ASSUME MarketTypeOK, TermsHold, NEW o \in Offers
    PROVE  ~ InRofrWindow(o)
  BY DEF InRofrWindow, TermsHold, MarketTypeOK, TypeOK

\* Row by row: the payment for any part fits, as the payment for all of it did
\* (ValidTerms), and of the checks that remain each has its word in the index.
LEMMA StorefrontRight ==
    ASSUME SettledInv, TermsHold
    PROVE  StorefrontIsTheNetwork
<1> SUFFICES ASSUME NEW o \in Offers, NEW n \in Shares,
                    Seller[o] # Buyer, KeepsLocked(Seller[o], n)
             PROVE  Accepts(IF Listed(o) THEN Row(o, Available(o)) ELSE NoRow, n)
                       <=> Refusal(o, n).by \in {"nobody", "token"}
  BY DEF StorefrontIsTheNetwork
<1>1. MarketTypeOK /\ ~ InRofrWindow(o)
  BY NoWindow DEF SettledInv
<1>2. /\ offers[o].remaining \in Nat /\ offers[o].price \in Nat
      /\ offers[o].amount \in Nat /\ trades[o].shares \in Nat /\ n \in Nat
  BY <1>1 DEF MarketTypeOK, OfferRecord, Shares
<1>3. n <= offers[o].remaining => PaymentFor(offers[o].price, n) <= U64Max
  <2>1. SUFFICES ASSUME n <= offers[o].remaining
                 PROVE  n * offers[o].price <= U64Max
    BY DEF PaymentFor
  <2>2. trades[o].shares + offers[o].remaining = offers[o].amount
    BY DEF SettledInv, TradesSettleTheOffer
  <2>3. n <= offers[o].amount
    BY <1>2, <2>1, <2>2
  <2>4. /\ n * offers[o].price \in Nat
        /\ offers[o].amount * offers[o].price \in Nat
        /\ offers[o].price * n <= offers[o].price * offers[o].amount
    BY <1>2, <2>3, ProductMonotone
  <2>5. offers[o].amount * offers[o].price <= U64Max
    BY DEF TermsHold
  <2>6. QED
    BY <1>2, <2>4, <2>5, SMT
<1>4. Listed(o) <=> IsOpen(o) /\ Admits(Buyer)
  BY DEF Listed
<1>5. Admits(Buyer) <=>
         /\ policy.accreditation => record[Buyer].status = "approved"
         /\ MayReceive(Buyer)
  BY DEF Admits, MayReceive, Admitted
<1>6. Refusal(o, n).by \in {"nobody", "token"} <=>
         /\ IsOpen(o) /\ n <= offers[o].remaining
         /\ Backed(o, n) /\ Admits(Buyer)
  <2>1. (\A i \in 1 .. 7 : Checks(o, n)[i].holds) <=>
           /\ IsOpen(o)
           /\ n <= offers[o].remaining
           /\ PaymentFor(offers[o].price, n) <= U64Max
           /\ Backed(o, n)
           /\ policy.accreditation => record[Buyer].status = "approved"
           /\ MayReceive(Buyer)
    <3>1. (\A i \in 1 .. 7 : Checks(o, n)[i].holds) <=>
           /\ Checks(o, n)[1].holds /\ Checks(o, n)[2].holds
           /\ Checks(o, n)[3].holds /\ Checks(o, n)[4].holds
           /\ Checks(o, n)[5].holds /\ Checks(o, n)[6].holds
           /\ Checks(o, n)[7].holds
      OBVIOUS
    <3>2. QED
      BY <1>1, <3>1, ChecksHold, Zenon
  <2>2. QED
    BY <1>3, <1>5, <2>1, RefusalFound
<1>7. QED
  BY <1>1, <1>4, <1>6, RowsTakeable

-----------------------------------------------------------------------------
(* A submission, and what may become of it. *)

Steps == Busy \cup {"refused", "failed", "settled", "reported", "gone"}
Fates == {"none", "flying", "landed", "bounced", "dropped"}
Reasons == RejectionReasons \cup
    {"none", "OfferNotOpen", "AmountExceedsRemaining", "OfferStale", "no funds"}
Verdict == [by : Programs \cup {"nobody"}, error : Reasons]
Quotes == [payment : Nat, fee : Nat]
Try == [offer : Offers, amount : Shares, quote : Quotes, step : Steps,
        sent : BOOLEAN, why : Verdict, fate : Fates, paid : Quotes]

\* A quote is a payment and a fee.
LEMMA QuoteTyped ==
    ASSUME NEW price \in Nat, NEW n \in Nat
    PROVE  Quote(price, n) \in Quotes
<1>1. PaymentFor(price, n) \in Nat
  BY ProductMonotone DEF PaymentFor
<1> DEFINE payment == PaymentFor(price, n)
<1> HIDE DEF payment
<1>2. payment \in Nat
  BY <1>1 DEF payment
<1>3. FeeFor(FeeBps, payment) \in Nat
  BY <1>2, FeeWithinPayment
<1>4. QED
  BY <1>2, <1>3 DEF Quotes, Quote, payment

\* A refusal is a verdict.
LEMMA RefusalTyped ==
    ASSUME NEW o, NEW n
    PROVE  Refusal(o, n) \in Verdict
<1> DEFINE checks == Checks(o, n)
           failed == {i \in DOMAIN checks : ~ checks[i].holds}
           k == Min(failed)
<1>1. DOMAIN checks = 1 .. 8
  BY ChecksAre
<1>2. Refusal(o, n) = IF failed = {} THEN Passed
                      ELSE [by |-> checks[k].by, error |-> checks[k].error]
  BY DEF Refusal
<1>3. CASE failed = {}
  BY <1>2, <1>3 DEF Passed, Verdict, Programs, Reasons
<1>4. CASE failed # {}
  <2>1. failed \subseteq Nat
    BY <1>1
  <2>2. k \in failed
    <3> HIDE DEF failed
    <3>1. QED
      BY <1>4, <2>1, NatMin
  <2>3. k \in {1, 2, 3, 4, 5, 6, 7, 8}
    BY <1>1, <2>2
  <2> HIDE DEF k
  <2>4. checks[k].by \in Programs \cup {"nobody"}
    BY <2>3, ChecksBy DEF Programs
  <2>5. checks[k].error \in Reasons
    <3>1. /\ checks[1].error \in Reasons /\ checks[2].error \in Reasons
          /\ checks[3].error \in Reasons /\ checks[4].error \in Reasons
          /\ checks[5].error \in Reasons /\ checks[6].error \in Reasons
          /\ checks[7].error \in Reasons /\ checks[8].error \in Reasons
      BY ChecksSay DEF Reasons, RejectionReasons
    <3> HIDE DEF checks, Reasons
    <3>2. QED
      BY <2>3, <3>1
  <2> HIDE DEF failed, checks
  <2>6. QED
    BY <1>2, <1>4, <2>4, <2>5 DEF Verdict
<1>5. QED
  BY <1>3, <1>4


\* What the fields of a submission say together.
Truthful(t) ==
    /\ t.fate = "landed" => t.paid = t.quote
    /\ t.step = "settled" => t.fate = "landed"
    /\ t.step \in {"simulating", "signing"} => t.fate = "none" /\ ~ t.sent
    /\ t.step = "confirming" => t.sent
    /\ t.sent => t.fate # "none"
    /\ t.step = "refused" => t.fate = IF t.sent THEN "bounced" ELSE "none"
    /\ t.step = "reported" => t.fate = "none" /\ t.why.by = "hook"
    /\ t.step = "signing" \/ t.fate \in {"flying", "landed"} => t.why = Passed
    /\ t.why.by = "caprail" => t.why.error \notin RejectionReasons

\* What of it belongs into the journal, for good.
Noted(t) ==
    \/ t.fate = "landed"
    \/ t.fate = "bounced" /\ t.why.by = "hook"
    \/ t.fate = "none" /\ t.step = "reported" /\ t.why.by = "hook"

\* One step of one submission.
Advances(t, u) ==
    /\ u \in Try /\ Truthful(u)
    /\ u.offer = t.offer /\ u.amount = t.amount /\ u.quote = t.quote
    /\ Noted(t) => Noted(u) /\ u.fate = t.fate /\ u.why = t.why

\* The changes a step makes.
Judged(t, step, why) == [t EXCEPT !.step = step, !.why = why]
SentOff(t, step, sent) ==
    [t EXCEPT !.step = step, !.fate = "flying", !.sent = sent]

\* Field by field, for records of so many.
LEMMA Stepped ==
    ASSUME NEW t \in Try, NEW step \in Steps, NEW why \in Verdict
    PROVE  LET u == Judged(t, step, why) IN
           /\ u \in Try
           /\ u.step = step /\ u.why = why
           /\ u.offer = t.offer /\ u.amount = t.amount /\ u.quote = t.quote
           /\ u.sent = t.sent /\ u.fate = t.fate /\ u.paid = t.paid
  BY DEF Try, Judged, SentOff

\* A submission that went to the network.
LEMMA Sent ==
    ASSUME NEW t \in Try, NEW step \in Steps, NEW sent \in BOOLEAN
    PROVE  LET u == SentOff(t, step, sent) IN
           /\ u \in Try
           /\ u.step = step /\ u.fate = "flying" /\ u.sent = sent
           /\ u.offer = t.offer /\ u.amount = t.amount /\ u.quote = t.quote
           /\ u.why = t.why /\ u.paid = t.paid
  BY DEF Try, Judged, SentOff, Fates

\* A transaction that landed, at what it paid.
LEMMA Landed ==
    ASSUME NEW t \in Try, NEW paid \in Quotes
    PROVE  LET u == [t EXCEPT !.fate = "landed", !.paid = paid] IN
           /\ u \in Try
           /\ u.fate = "landed" /\ u.paid = paid
           /\ u.offer = t.offer /\ u.amount = t.amount /\ u.quote = t.quote
           /\ u.why = t.why /\ u.sent = t.sent /\ u.step = t.step
  BY DEF Try, Fates

\* A transaction the network refused, and why.
LEMMA Bounced ==
    ASSUME NEW t \in Try, NEW why \in Verdict
    PROVE  LET u == [t EXCEPT !.fate = "bounced", !.why = why] IN
           /\ u \in Try
           /\ u.fate = "bounced" /\ u.why = why
           /\ u.offer = t.offer /\ u.amount = t.amount /\ u.quote = t.quote
           /\ u.sent = t.sent /\ u.step = t.step /\ u.paid = t.paid
  BY DEF Try, Fates

\* A form that moved on without its transaction.
LEMMA OnlyStepped ==
    ASSUME NEW t \in Try, NEW step \in Steps
    PROVE  LET u == [t EXCEPT !.step = step] IN
           /\ u \in Try /\ u.step = step
           /\ u.offer = t.offer /\ u.amount = t.amount /\ u.quote = t.quote
           /\ u.sent = t.sent /\ u.fate = t.fate
           /\ u.paid = t.paid /\ u.why = t.why
  BY DEF Try

\* A transaction that will never land.
LEMMA Dropped ==
    ASSUME NEW t \in Try
    PROVE  LET u == [t EXCEPT !.fate = "dropped"] IN
           /\ u \in Try /\ u.fate = "dropped"
           /\ u.offer = t.offer /\ u.amount = t.amount /\ u.quote = t.quote
           /\ u.sent = t.sent /\ u.step = t.step
           /\ u.paid = t.paid /\ u.why = t.why
  BY DEF Try, Fates

\* What a refusal by the platform's own program never says.
Sound(why) ==
    /\ why \in Verdict
    /\ why.by = "caprail" => why.error \notin RejectionReasons

\* A refusal is a verdict, and none of the program's own is taken for the hook's.
LEMMA RefusalSound ==
    ASSUME MarketTypeOK, TermsHold, NEW o \in Offers, NEW n
    PROVE  Sound(Refusal(o, n)) /\ Sound(Passed)
<1>1. ~ InRofrWindow(o)
  BY NoWindow
<1>2. Refusal(o, n) \in Verdict
  BY RefusalTyped
<1>3. Refusal(o, n).by = "caprail" => Refusal(o, n).error \notin RejectionReasons
  BY <1>1, RefusalFound DEF RejectionReasons
<1>4. Sound(Passed)
  BY DEF Passed, Sound, Verdict, Reasons
<1>5. QED
  BY <1>2, <1>3, <1>4 DEF Sound

\* What each step makes of a submission agrees with what was said before.
LEMMA SimulateAdvances ==
    ASSUME NEW t \in Try, Truthful(t), t.step = "simulating",
           NEW step, NEW why, Sound(why),
           \/ step = "silent" /\ why = Passed
           \/ step = IF why = Passed THEN "signing" ELSE "refused"
    PROVE  Advances(t, Judged(t, step, why))
<1> DEFINE u == Judged(t, step, why)
<1>1. step \in {"silent", "signing", "refused"} /\ step \in Steps /\ why \in Verdict
  BY DEF Steps, Busy, Sound
<1>2. /\ u \in Try
      /\ u.step = step /\ u.why = why
      /\ u.offer = t.offer /\ u.amount = t.amount /\ u.quote = t.quote
      /\ u.sent = t.sent /\ u.fate = t.fate /\ u.paid = t.paid
  BY <1>1, Stepped
<1> HIDE DEF u
<1>3. t.fate = "none" /\ ~ t.sent
  BY DEF Truthful
<1>4. Truthful(u)
  BY <1>1, <1>2, <1>3 DEF Truthful, Sound
<1>5. ~ Noted(t)
  BY <1>3 DEF Noted
<1>6. QED
  BY <1>2, <1>4, <1>5 DEF Advances, u

\* The wallet's answer moves a submission forward truthfully.
LEMMA SignAdvances ==
    ASSUME NEW t \in Try, Truthful(t), t.step = "signing",
           NEW step, NEW why, Sound(why),
           \/ step = "failed" /\ why = Passed
           \/ step = "refused" /\ why # Passed
    PROVE  Advances(t, Judged(t, step, why))
<1> DEFINE u == Judged(t, step, why)
<1>1. step \in {"failed", "refused"} /\ step \in Steps /\ why \in Verdict
  BY DEF Steps, Busy, Sound
<1>2. /\ u \in Try
      /\ u.step = step /\ u.why = why
      /\ u.offer = t.offer /\ u.amount = t.amount /\ u.quote = t.quote
      /\ u.sent = t.sent /\ u.fate = t.fate /\ u.paid = t.paid
  BY <1>1, Stepped
<1> HIDE DEF u
<1>3. t.fate = "none" /\ ~ t.sent
  BY DEF Truthful
<1>4. Truthful(u)
  BY <1>1, <1>2, <1>3 DEF Truthful, Sound
<1>5. ~ Noted(t)
  BY <1>3 DEF Noted
<1>6. QED
  BY <1>2, <1>4, <1>5 DEF Advances, u

\* So does handing it to the network.
LEMMA SendAdvances ==
    ASSUME NEW t \in Try, Truthful(t), t.step = "signing",
           NEW step \in {"confirming", "failed"}
    PROVE  Advances(t, SentOff(t, step, step = "confirming"))
<1> DEFINE sent == (step = "confirming")
           u == SentOff(t, step, sent)
<1>1. step \in Steps /\ sent \in BOOLEAN
  BY DEF Steps, Busy
<1> HIDE DEF sent
<1>2. /\ u \in Try
      /\ u.step = step /\ u.fate = "flying" /\ u.sent = sent
      /\ u.offer = t.offer /\ u.amount = t.amount /\ u.quote = t.quote
      /\ u.why = t.why /\ u.paid = t.paid
  BY <1>1, Sent
<1> HIDE DEF u
<1>3. t.fate = "none" /\ t.why = Passed /\ (sent <=> step = "confirming")
  BY DEF Truthful, sent
<1>4. Truthful(u)
  BY <1>2, <1>3 DEF Truthful
<1>5. ~ Noted(t)
  BY <1>3 DEF Noted
<1>6. QED
  BY <1>2, <1>4, <1>5 DEF Advances, u, sent

\* So does a confirmation, or giving up on one.
LEMMA ConfirmAdvances ==
    ASSUME NEW t \in Try, Truthful(t), t.step = "confirming",
           NEW step, NEW why,
           \/ t.fate = "landed" /\ step = "settled" /\ why = Passed
           \/ t.fate = "bounced" /\ step = "refused" /\ why = t.why
           \/ step = "failed" /\ why = t.why
    PROVE  Advances(t, Judged(t, step, why))
<1> DEFINE u == Judged(t, step, why)
<1>1. why = t.why /\ t.sent /\ t.fate # "none"
  BY DEF Truthful
<1>2. step \in {"settled", "failed", "refused"} /\ step \in Steps /\ why \in Verdict
  BY <1>1 DEF Steps, Busy, Try
<1>3. /\ u \in Try
      /\ u.step = step /\ u.why = why
      /\ u.offer = t.offer /\ u.amount = t.amount /\ u.quote = t.quote
      /\ u.sent = t.sent /\ u.fate = t.fate /\ u.paid = t.paid
  BY <1>2, Stepped
<1> HIDE DEF u
<1>4. Truthful(u)
  BY <1>1, <1>2, <1>3 DEF Truthful
<1>5. Noted(t) => Noted(u)
  BY <1>1, <1>3 DEF Noted
<1>6. QED
  BY <1>1, <1>3, <1>4, <1>5 DEF Advances, u

\* So does the network's own verdict.
LEMMA LandAdvances ==
    ASSUME NEW t \in Try, Truthful(t), t.fate = "flying"
    PROVE  /\ Advances(t, [t EXCEPT !.fate = "landed", !.paid = t.quote])
           /\ \A why : Sound(why) =>
                 Advances(t, [t EXCEPT !.fate = "bounced", !.why = why])
           /\ Advances(t, [t EXCEPT !.fate = "dropped"])
<1>1. /\ t.quote \in Quotes
      /\ t.step \notin {"simulating", "signing", "settled", "refused", "reported"}
      /\ t.why = Passed /\ ~ Noted(t)
  BY DEF Truthful, Try, Noted
<1>2. Advances(t, [t EXCEPT !.fate = "landed", !.paid = t.quote])
  <2> DEFINE u == [t EXCEPT !.fate = "landed", !.paid = t.quote]
  <2>1. /\ u \in Try
        /\ u.fate = "landed" /\ u.paid = t.quote
        /\ u.offer = t.offer /\ u.amount = t.amount /\ u.quote = t.quote
        /\ u.why = t.why /\ u.sent = t.sent /\ u.step = t.step
    BY <1>1, Landed
  <2> HIDE DEF u
  <2>2. Truthful(u)
    BY <1>1, <2>1 DEF Truthful
  <2>3. QED
    BY <1>1, <2>1, <2>2 DEF Advances, u
<1>3. ASSUME NEW why, Sound(why)
      PROVE  Advances(t, [t EXCEPT !.fate = "bounced", !.why = why])
  <2> DEFINE u == [t EXCEPT !.fate = "bounced", !.why = why]
  <2>1. /\ u \in Try
        /\ u.fate = "bounced" /\ u.why = why
        /\ u.offer = t.offer /\ u.amount = t.amount /\ u.quote = t.quote
        /\ u.sent = t.sent /\ u.step = t.step /\ u.paid = t.paid
    BY <1>3, Bounced DEF Sound
  <2> HIDE DEF u
  <2>2. Truthful(u)
    BY <1>1, <1>3, <2>1 DEF Truthful, Sound
  <2>3. QED
    BY <1>1, <2>1, <2>2 DEF Advances, u
<1>4. Advances(t, [t EXCEPT !.fate = "dropped"])
  <2> DEFINE u == [t EXCEPT !.fate = "dropped"]
  <2>1. /\ u \in Try /\ u.fate = "dropped"
        /\ u.offer = t.offer /\ u.amount = t.amount /\ u.quote = t.quote
        /\ u.sent = t.sent /\ u.step = t.step
        /\ u.paid = t.paid /\ u.why = t.why
    BY Dropped
  <2> HIDE DEF u
  <2>2. Truthful(u)
    BY <1>1, <2>1 DEF Truthful
  <2>3. QED
    BY <1>1, <2>1, <2>2 DEF Advances, u
<1>5. QED
  BY <1>2, <1>3, <1>4

\* A report is of a refusal by the hook that nothing was sent of.
LEMMA ReportedIsHook ==
    ASSUME NEW t \in Try, Truthful(t), IsReported(t)
    PROVE  /\ t.why.by = "hook" /\ t.fate = "none"
           /\ ReasonFromLogs(Log(t.why)) = t.why.error
<1> DEFINE why == t.why
           reason == ReasonFromLogs(Log(why))
<1>1. /\ t.step = "refused" /\ ~ t.sent /\ reason \in RejectionReasons
      /\ t.fate = "none"
  BY DEF IsReported, Truthful
<1>2. why.by = "caprail" => why.error \notin RejectionReasons
  BY DEF Truthful
<1> HIDE DEF why
<1>3. CASE why.by = "caprail"
  <2>1. reason = why.error
    BY <1>3, OwnLogRead
  <2>2. QED
    BY <1>1, <1>2, <1>3, <2>1
<1>4. CASE why.by = "hook"
  BY <1>1, <1>4, HookLogRead DEF why
<1>5. CASE why.by \notin {"hook", "caprail"}
  BY <1>1, <1>5, OtherLogRead DEF RejectionReasons
<1>6. QED
  BY <1>3, <1>4, <1>5

\* So does the report to the journal.
LEMMA ReportAdvances ==
    ASSUME NEW t \in Try, Truthful(t), IsReported(t)
    PROVE  /\ Advances(t, [t EXCEPT !.step = "reported"])
           /\ Noted([t EXCEPT !.step = "reported"])
<1> DEFINE u == [t EXCEPT !.step = "reported"]
<1>1. /\ t.why.by = "hook" /\ t.fate = "none" /\ t.step = "refused" /\ ~ t.sent
      /\ "reported" \in Steps
  BY ReportedIsHook DEF IsReported, Steps
<1>2. /\ u \in Try /\ u.step = "reported"
      /\ u.offer = t.offer /\ u.amount = t.amount /\ u.quote = t.quote
      /\ u.sent = t.sent /\ u.fate = t.fate /\ u.paid = t.paid /\ u.why = t.why
  BY <1>1, OnlyStepped
<1> HIDE DEF u
<1>3. Truthful(u) /\ Noted(u)
  BY <1>1, <1>2 DEF Truthful, Noted
<1>4. QED
  BY <1>1, <1>2, <1>3 DEF Advances, u

\* A tab that is loaded again forgets nothing that is in the journal.
LEMMA ReloadAdvances ==
    ASSUME NEW t \in Try, Truthful(t), t.step \in Busy \/ IsReported(t)
    PROVE  Advances(t, [t EXCEPT !.step = "gone"])
<1> DEFINE u == [t EXCEPT !.step = "gone"]
<1>1. t.step # "reported" /\ "gone" \in Steps
  BY DEF IsReported, Steps, Busy
<1>2. /\ u \in Try /\ u.step = "gone"
      /\ u.offer = t.offer /\ u.amount = t.amount /\ u.quote = t.quote
      /\ u.sent = t.sent /\ u.fate = t.fate /\ u.paid = t.paid /\ u.why = t.why
  BY <1>1, OnlyStepped
<1> HIDE DEF u
<1>3. Truthful(u) /\ (Noted(t) => Noted(u))
  BY <1>1, <1>2 DEF Truthful, Noted
<1>4. QED
  BY <1>2, <1>3 DEF Advances, u

\* So does nothing at all.
LEMMA StaysAsItIs ==
    ASSUME NEW t \in Try, Truthful(t)
    PROVE  Advances(t, t)
  BY DEF Advances

-----------------------------------------------------------------------------
(* The page, the submissions and the journal. *)

\* What the buyer was shown is what the offer costs.
Quoted(of, t) ==
    /\ of[t.offer].status # "absent"
    /\ t.quote = Quote(of[t.offer].price, t.amount)

TriesRight ==
    /\ tries \in Seq(Try)
    /\ \A i \in DOMAIN tries : Truthful(tries[i]) /\ Quoted(offers, tries[i])

\* The row a submission has in the journal, if it has one.
RowOf(i, t) ==
    Attempt(i, IF t.fate = "landed" THEN "allowed" ELSE "rejected",
               IF t.fate = "landed" THEN "none" ELSE t.why.error,
               IF t.fate = "none" THEN "simulation" ELSE "chain")

JournalRight ==
    \A r \in journal : /\ r.try \in DOMAIN tries /\ Noted(tries[r.try])
                       /\ r = RowOf(r.try, tries[r.try])

PageRight ==
    \A o \in Offers :
        page[o] # NoRow =>
            offers[o].status # "absent" /\ page[o].price = offers[o].price

\* The verdicts are not inductive alone: that a receipt is of the price shown
\* needs that a price on an old page is still the offer's, and that a refusal is
\* final needs what each step of the form says of the transaction behind it.
PurchaseInv ==
    SettledInv /\ TermsHold /\ TriesRight /\ JournalRight /\ PageRight

\* What others do here is among what the market allows.
LEMMA OthersAreMarketSteps == Others => [MarketNext]_marketVars
<1> SUFFICES ASSUME Others PROVE MarketNext
  OBVIOUS
<1>1. \A o \in Offers : Seller[o] \in Sellers /\ o \in Delegates
  BY DEF Sellers, Delegates
<1>2. Sellers \subseteq Wallets /\ Shares \subseteq 0 .. Supply
  BY DEF Sellers, Shares
<1>3. /\ Treasury \in Accounts /\ FALSE \in BOOLEAN
      /\ {"approved", "revoked"} \subseteq Statuses
  BY DEF Statuses
<1>4. CASE Tick /\ UNCHANGED marketOnlyVars
  BY <1>4 DEF MarketNext, Next
<1>5. ASSUME NEW signer \in Keys, NEW accreditation \in BOOLEAN,
             SetPolicy(signer, accreditation, FALSE), UNCHANGED marketOnlyVars
      PROVE  MarketNext
  BY <1>3, <1>5 DEF MarketNext, Next
<1>6. ASSUME NEW signer \in Keys, NEW st \in {"approved", "revoked"},
             NEW e \in Expiries,
             SetInvestorStatus(signer, Buyer, st, e), UNCHANGED marketOnlyVars
      PROVE  MarketNext
  BY <1>3, <1>6 DEF MarketNext, Next
<1>7. ASSUME NEW signer \in Keys, NEW s \in Sellers, NEW n \in Shares,
             Distribute(signer, s, n), UNCHANGED marketOnlyVars
      PROVE  MarketNext
  BY <1>2, <1>7 DEF MarketNext, Next
<1>8. ASSUME NEW signer \in Keys, NEW s \in Sellers, NEW n \in Shares,
             NEW sched \in Schedules,
             CreateGrant(signer, s, n, sched), UNCHANGED marketOnlyVars
      PROVE  MarketNext
  BY <1>2, <1>8 DEF MarketNext, Next
<1>9. ASSUME NEW s \in Sellers, NEW n \in Shares,
             HolderTransfer(s, Treasury, n), UNCHANGED marketOnlyVars
      PROVE  MarketNext
  BY <1>2, <1>3, <1>9 DEF MarketNext, Next
<1>10. ASSUME NEW o \in Offers, NEW n \in Shares, AcceptOffer(Buyer, o, n)
       PROVE  MarketNext
  BY <1>10 DEF MarketNext
<1>11. ASSUME NEW o \in Offers, NEW n \in Shares, ApproveByHand(Seller[o], o, n)
       PROVE  MarketNext
  BY <1>1, <1>2, <1>11 DEF MarketNext
<1>12. QED
  BY <1>4, <1>5, <1>6, <1>7, <1>8, <1>9, <1>10, <1>11 DEF Others, MarketNext

\* What the invariant says of one submission.
LEMMA TryRead ==
    ASSUME TriesRight, NEW i \in DOMAIN tries
    PROVE  /\ tries[i] \in Try
           /\ tries[i].offer \in Offers /\ tries[i].amount \in Shares
           /\ Truthful(tries[i]) /\ Quoted(offers, tries[i])
<1>1. tries[i] \in Try
  BY DEF TriesRight
<1>2. tries[i].offer \in Offers /\ tries[i].amount \in Shares
  BY <1>1 DEF Try
<1>3. QED
  BY <1>1, <1>2 DEF TriesRight

\* A purchase is nothing to the market but an acceptance by the buyer.
LEMMA PurchaseStepIsMarketStep ==
    TriesRight /\ [PurchaseNext]_purchaseVars => [MarketNext]_marketVars
<1> SUFFICES ASSUME TriesRight, [PurchaseNext]_purchaseVars
             PROVE  [MarketNext]_marketVars
  OBVIOUS
<1>1. ASSUME NEW i \in DOMAIN tries, Land(i) PROVE [MarketNext]_marketVars
  <2>1. tries[i].offer \in Offers /\ tries[i].amount \in Shares
    BY TryRead
  <2>2. CASE AcceptOffer(Buyer, tries[i].offer, tries[i].amount)
    BY <2>1, <2>2 DEF MarketNext
  <2>3. CASE UNCHANGED marketVars
    BY <2>3
  <2>4. QED
    BY <1>1, <2>2, <2>3 DEF Land
<1>2. QED
  BY <1>1, OthersAreMarketSteps
     DEF PurchaseNext, purchaseVars, ReadShop, Submit, Simulate, Sign, Confirm,
         Drop, Report, IndexTry, Reload

\* What each submission may become, all of them may.
LEMMA AllAdvance ==
    ASSUME MarketTypeOK, [MarketNext]_marketVars, TriesRight, JournalRight,
           DOMAIN tries \subseteq DOMAIN tries',
           \A i \in DOMAIN tries : Advances(tries[i], tries'[i])
    PROVE  /\ \A i \in DOMAIN tries :
                 Truthful(tries'[i]) /\ Quoted(offers', tries'[i])
           /\ \A r \in journal : /\ r.try \in DOMAIN tries' /\ Noted(tries'[r.try])
                                 /\ r = RowOf(r.try, tries'[r.try])
<1>1. ASSUME NEW i \in DOMAIN tries
      PROVE  Truthful(tries'[i]) /\ Quoted(offers', tries'[i])
  <2> DEFINE t == tries[i]
             u == tries'[i]
             o == t.offer
  <2>1. /\ o \in Offers /\ offers[o].status # "absent"
        /\ t.quote = Quote(offers[o].price, t.amount)
    BY TryRead DEF Quoted
  <2>2. /\ Truthful(u) /\ u.offer = o /\ u.amount = t.amount /\ u.quote = t.quote
    BY DEF Advances
  <2>3. offers'[o].status # "absent" /\ offers'[o].price = offers[o].price
    BY <2>1, TermsStep
  <2> HIDE DEF t, u, o
  <2>4. Quoted(offers', u)
    BY <2>1, <2>2, <2>3 DEF Quoted
  <2>5. QED
    BY <2>2, <2>4 DEF u
<1>2. ASSUME NEW r \in journal
      PROVE  /\ r.try \in DOMAIN tries' /\ Noted(tries'[r.try])
             /\ r = RowOf(r.try, tries'[r.try])
  <2> DEFINE t == tries[r.try]
             u == tries'[r.try]
  <2>1. r.try \in DOMAIN tries /\ Noted(t) /\ r = RowOf(r.try, t)
    BY DEF JournalRight
  <2>2. Noted(u) /\ u.fate = t.fate /\ u.why = t.why
    BY <2>1 DEF Advances
  <2> HIDE DEF t, u
  <2>3. RowOf(r.try, u) = RowOf(r.try, t)
    BY <2>2 DEF RowOf
  <2>4. QED
    BY <2>1, <2>2, <2>3 DEF u
<1>3. QED
  BY <1>1, <1>2

\* One submission advances, the others stay.
LEMMA OneAdvances ==
    ASSUME MarketTypeOK, [MarketNext]_marketVars, TriesRight, JournalRight,
           NEW i \in DOMAIN tries, NEW u, Advances(tries[i], u),
           tries' = [tries EXCEPT ![i] = u]
    PROVE  /\ TriesRight' /\ DOMAIN tries' = DOMAIN tries /\ tries'[i] = u
           /\ journal' = journal => JournalRight'
<1>1. DOMAIN tries' = DOMAIN tries /\ tries'[i] = u
  BY DEF TriesRight
<1>2. \A k \in DOMAIN tries : Advances(tries[k], tries'[k])
  <2>1. ASSUME NEW k \in DOMAIN tries PROVE Advances(tries[k], tries'[k])
    <3>1. CASE k = i
      BY <1>1, <3>1
    <3>2. CASE k # i
      <4>1. tries'[k] = tries[k]
        BY <3>2 DEF TriesRight
      <4>2. QED
        BY <4>1, StaysAsItIs, TryRead
    <3>3. QED
      BY <3>1, <3>2
  <2>2. QED
    BY <2>1
<1>3. u \in Try
  BY DEF Advances
<1>4. tries' \in Seq(Try)
  BY <1>3 DEF TriesRight
<1>5. /\ \A k \in DOMAIN tries :
               Truthful(tries'[k]) /\ Quoted(offers', tries'[k])
      /\ \A r \in journal : /\ r.try \in DOMAIN tries' /\ Noted(tries'[r.try])
                            /\ r = RowOf(r.try, tries'[r.try])
  BY <1>1, <1>2, AllAdvance
<1>6. TriesRight'
  BY <1>1, <1>4, <1>5 DEF TriesRight
<1>7. ASSUME journal' = journal PROVE JournalRight'
  BY <1>5, <1>7 DEF JournalRight
<1>8. QED
  BY <1>1, <1>6, <1>7

\* Nothing of the tab changes, and the market goes on.
LEMMA TabStays ==
    ASSUME MarketTypeOK, [MarketNext]_marketVars, TriesRight, JournalRight,
           tries' = tries
    PROVE  /\ TriesRight'
           /\ journal' = journal => JournalRight'
<1>1. \A k \in DOMAIN tries : Advances(tries[k], tries'[k])
  BY StaysAsItIs, TryRead
<1>2. /\ \A k \in DOMAIN tries :
               Truthful(tries'[k]) /\ Quoted(offers', tries'[k])
      /\ \A r \in journal : /\ r.try \in DOMAIN tries' /\ Noted(tries'[r.try])
                            /\ r = RowOf(r.try, tries'[r.try])
  BY <1>1, AllAdvance
<1>3. TriesRight'
  BY <1>2 DEF TriesRight
<1>4. ASSUME journal' = journal PROVE JournalRight'
  BY <1>2, <1>4 DEF JournalRight
<1>5. QED
  BY <1>3, <1>4

\* A page grows old, but the prices on it do not change.
LEMMA PageStays ==
    ASSUME MarketTypeOK, [MarketNext]_marketVars, PageRight, page' = page
    PROVE  PageRight'
<1> SUFFICES ASSUME NEW o \in Offers, page[o] # NoRow
             PROVE  /\ offers'[o].status # "absent"
                    /\ page[o].price = offers'[o].price
  BY DEF PageRight
<1>1. QED
  BY TermsStep DEF PageRight

\* A page that is read, or none.
LEMMA PageRead ==
    ASSUME offers' = offers,
           \/ \E unread \in SUBSET Offers : ReadShop(unread)
           \/ page' = [o \in Offers |-> NoRow]
    PROVE  PageRight'
<1> SUFFICES ASSUME NEW o \in Offers, page'[o] # NoRow
             PROVE  /\ offers[o].status # "absent"
                    /\ page'[o].price = offers[o].price
  BY DEF PageRight
<1>1. PICK unread \in SUBSET Offers : ReadShop(unread)
  OBVIOUS
<1> DEFINE a == IF o \in unread THEN offers[o].remaining ELSE Available(o)
<1>2. Listed(o) /\ page'[o] = Row(o, a)
  BY <1>1 DEF ReadShop
<1> HIDE DEF a
<1>3. Row(o, a).price = offers[o].price
  BY DEF Row
<1>4. QED
  BY <1>2, <1>3 DEF Listed, IsOpen

\* A row that can be bought from has its offer's price, so the form's quote is
\* what the network will charge.
LEMMA SubmitKeeps ==
    ASSUME PurchaseInv, NEW o \in Offers, NEW n \in Shares, Submit(o, n)
    PROVE  TriesRight' /\ JournalRight'
<1>1. MarketTypeOK /\ TriesRight /\ JournalRight /\ offers' = offers
  BY DEF PurchaseInv, SettledInv, Submit, marketVars, marketOnlyVars
<1>2. UNCHANGED marketVars /\ journal' = journal
  BY DEF Submit
<1> DEFINE plan == Plan(o, n)
           t == NewTry(plan)
<1>3. offers[o].status # "absent" /\ page[o].price = offers[o].price
  BY <1>1, RowsTakeable DEF PurchaseInv, PageRight, Submit
<1>4. /\ t.offer = o /\ t.amount = n /\ t.quote = Quote(page[o].price, n)
      /\ t.step = "simulating" /\ ~ t.sent /\ t.fate = "none" /\ t.why = Passed
  BY DEF NewTry, Plan
<1>5. Quoted(offers, t)
  <2> HIDE DEF t
  <2>1. QED
    BY <1>3, <1>4 DEF Quoted
<1>6. Truthful(t)
  <2> HIDE DEF t
  <2>1. QED
    BY <1>4 DEF Truthful, Passed
<1>7. t \in Try
  <2>1. offers[o].price \in Nat /\ n \in Nat /\ 0 \in Nat
    BY <1>1 DEF MarketTypeOK, OfferRecord, Shares
  <2>2. Quote(page[o].price, n) \in Quotes /\ Quote(0, 0) \in Quotes
    BY <1>3, <2>1, QuoteTyped
  <2>3. Passed \in Verdict
    BY DEF Passed, Verdict, Reasons
  <2> DEFINE q == Quote(page[o].price, n)
             z == Quote(0, 0)
  <2>4. t = [offer |-> o, amount |-> n, quote |-> q, step |-> "simulating",
             sent |-> FALSE, why |-> Passed, fate |-> "none", paid |-> z]
    BY DEF NewTry, Plan
  <2> HIDE DEF q, z, t
  <2>5. q \in Quotes /\ z \in Quotes
    BY <2>2 DEF q, z
  <2>6. QED
    BY <2>3, <2>4, <2>5 DEF Try, Steps, Busy, Fates
<1> HIDE DEF t
<1>8. tries' = Append(tries, t)
  BY DEF Submit, t
<1>9. /\ tries' \in Seq(Try) /\ DOMAIN tries \subseteq DOMAIN tries'
      /\ \A k \in DOMAIN tries : tries'[k] = tries[k]
      /\ \A k \in DOMAIN tries' \ DOMAIN tries : tries'[k] = t
  BY <1>1, <1>7, <1>8 DEF TriesRight
<1>10. \A k \in DOMAIN tries : Advances(tries[k], tries'[k])
  BY <1>1, <1>9, StaysAsItIs, TryRead
<1>11. /\ \A k \in DOMAIN tries :
               Truthful(tries'[k]) /\ Quoted(offers', tries'[k])
       /\ \A r \in journal : /\ r.try \in DOMAIN tries' /\ Noted(tries'[r.try])
                             /\ r = RowOf(r.try, tries'[r.try])
  BY <1>1, <1>2, <1>9, <1>10, AllAdvance
<1>12. \A k \in DOMAIN tries' : Truthful(tries'[k]) /\ Quoted(offers', tries'[k])
  BY <1>1, <1>5, <1>6, <1>9, <1>11
<1>13. QED
  BY <1>2, <1>9, <1>11, <1>12 DEF TriesRight, JournalRight

\* A reload of the page loses forms, never the journal.
LEMMA ReloadKeeps ==
    ASSUME PurchaseInv, Reload
    PROVE  TriesRight' /\ JournalRight'
<1>1. MarketTypeOK /\ TriesRight /\ JournalRight /\ UNCHANGED marketVars
      /\ journal' = journal
  BY DEF PurchaseInv, SettledInv, Reload
<1> DEFINE Becoming(t) == IF t.step \in Busy \/ IsReported(t)
                      THEN [t EXCEPT !.step = "gone"] ELSE t
<1>2. tries' = [i \in DOMAIN tries |-> Becoming(tries[i])]
  BY DEF Reload
<1>3. \A i \in DOMAIN tries : Advances(tries[i], Becoming(tries[i]))
  BY <1>1, TryRead, ReloadAdvances, StaysAsItIs
<1> HIDE DEF Becoming
<1>4. /\ DOMAIN tries' = DOMAIN tries
      /\ \A i \in DOMAIN tries : tries'[i] = Becoming(tries[i])
  BY <1>2
<1>5. \A i \in DOMAIN tries : Advances(tries[i], tries'[i])
  BY <1>3, <1>4
<1>6. /\ \A k \in DOMAIN tries :
               Truthful(tries'[k]) /\ Quoted(offers', tries'[k])
      /\ \A r \in journal : /\ r.try \in DOMAIN tries' /\ Noted(tries'[r.try])
                            /\ r = RowOf(r.try, tries'[r.try])
  BY <1>1, <1>4, <1>5, AllAdvance
<1>7. tries' \in Seq(Try)
  <2>1. \A i \in DOMAIN tries : Becoming(tries[i]) \in Try
    BY <1>3 DEF Advances
  <2>2. DOMAIN tries = 1 .. Len(tries) /\ Len(tries) \in Nat
    BY <1>1 DEF TriesRight
  <2>3. QED
    BY <1>2, <2>1, <2>2
<1>8. QED
  BY <1>1, <1>4, <1>6, <1>7 DEF TriesRight, JournalRight

\* What the worker finds in the log of a purchase the chain executed.
LEMMA ParsedRight ==
    ASSUME NEW t \in Try, Truthful(t)
    PROVE  /\ t.fate = "landed" =>
                 ParseTransaction(Log(t.why), t.fate = "bounced").rejection = "none"
           /\ t.fate = "bounced" =>
                 /\ ParseTransaction(Log(t.why), t.fate = "bounced").events = <<>>
                 /\ ParseTransaction(Log(t.why), t.fate = "bounced").rejection =
                       IF t.why.by = "hook" THEN t.why.error ELSE "none"
<1> DEFINE frames == AttributeLogs(Log(t.why))
<1>1. ASSUME t.fate = "landed"
      PROVE  ParseTransaction(Log(t.why), t.fate = "bounced").rejection = "none"
  BY <1>1 DEF ParseTransaction, Rejection
<1>2. ASSUME t.fate = "bounced"
      PROVE  ParseTransaction(Log(t.why), t.fate = "bounced").events = <<>>
  BY <1>2 DEF ParseTransaction, CollectEvents
<1>3. Rejection(frames, TRUE) = IF t.why.by = "hook" THEN t.why.error ELSE "none"
  BY HookLogRead, OwnLogRead, OtherLogRead
<1>4. ASSUME t.fate = "bounced"
      PROVE  ParseTransaction(Log(t.why), t.fate = "bounced").rejection
                = Rejection(frames, TRUE)
  BY <1>4 DEF ParseTransaction, Rejection
<1>5. QED
  BY <1>1, <1>2, <1>3, <1>4

\* The worker's row is the one the submission has; a report's too (below).
LEMMA IndexKeeps ==
    ASSUME TriesRight, JournalRight, NEW i \in DOMAIN tries, IndexTry(i)
    PROVE  TriesRight' /\ JournalRight'
<1> DEFINE t == tries[i]
           parsed == ParseTransaction(Log(t.why), t.fate = "bounced")
           allowed == {Attempt(i, "allowed", "none", "chain") :
                         k \in {k \in DOMAIN parsed.events :
                                   parsed.events[k].says = "TransferAllowed"}}
           refused == {Attempt(i, "rejected", r, "chain") :
                         r \in {parsed.rejection} \ {"none"}}
<1>1. /\ tries' = tries /\ offers' = offers
      /\ journal' = journal \cup allowed \cup refused
      /\ t.fate \in {"landed", "bounced"}
  BY DEF IndexTry, marketVars, marketOnlyVars
<1>2. t \in Try /\ Truthful(t)
  BY TryRead
<1>3. TriesRight'
  BY <1>1 DEF TriesRight
<1>4. ASSUME NEW r \in allowed PROVE Noted(t) /\ r = RowOf(i, t)
  <2>1. t.fate = "landed"
    <3>1. ASSUME t.fate = "bounced" PROVE FALSE
      <4>1. parsed.events = <<>>
        BY <1>2, <3>1, ParsedRight
      <4> HIDE DEF parsed
      <4>2. DOMAIN parsed.events = {}
        BY <4>1
      <4>3. QED
        BY <4>2
    <3>2. QED
      BY <1>1, <3>1
  <2>2. r = Attempt(i, "allowed", "none", "chain")
    OBVIOUS
  <2> HIDE DEF t
  <2>3. QED
    BY <2>1, <2>2 DEF RowOf, Noted
<1>5. ASSUME NEW r \in refused PROVE Noted(t) /\ r = RowOf(i, t)
  <2>1. PICK e \in {parsed.rejection} \ {"none"} :
                r = Attempt(i, "rejected", e, "chain")
    OBVIOUS
  <2>2. e = parsed.rejection /\ parsed.rejection # "none"
    BY <2>1
  <2>3. t.fate = "bounced"
    BY <1>1, <1>2, <2>2, ParsedRight
  <2>4. t.why.by = "hook" /\ e = t.why.error
    BY <1>2, <2>2, <2>3, ParsedRight
  <2> HIDE DEF t, parsed
  <2>5. QED
    BY <2>1, <2>3, <2>4 DEF RowOf, Noted
<1> HIDE DEF allowed, refused
<1>6. ASSUME NEW r \in journal'
      PROVE  /\ r.try \in DOMAIN tries /\ Noted(tries[r.try])
             /\ r = RowOf(r.try, tries[r.try])
  <2>1. CASE r \in journal
    BY <2>1 DEF JournalRight
  <2>2. CASE r \in allowed \cup refused
    <3>1. Noted(t) /\ r = RowOf(i, t)
      BY <1>4, <1>5, <2>2
    <3> HIDE DEF t
    <3>2. r.try = i
      BY <3>1 DEF RowOf, Attempt
    <3>3. QED
      BY <3>1, <3>2 DEF t
  <2>3. QED
    BY <1>1, <1>6, <2>1, <2>2
<1>7. QED
  BY <1>1, <1>3, <1>6 DEF JournalRight

\* A report adds at most its own row.
LEMMA ReportKeeps ==
    ASSUME PurchaseInv, NEW i \in DOMAIN tries, Report(i)
    PROVE  TriesRight' /\ JournalRight'
<1> DEFINE t == tries[i]
           u == [t EXCEPT !.step = "reported"]
           reason == ReasonFromLogs(Log(t.why))
           row == Attempt(i, "rejected", reason, "simulation")
<1>1. /\ MarketTypeOK /\ TriesRight /\ JournalRight /\ UNCHANGED marketVars
      /\ IsReported(t) /\ t \in Try /\ Truthful(t)
  BY TryRead DEF PurchaseInv, SettledInv, Report
<1>2. /\ Advances(t, u) /\ Noted(u) /\ u \in Try
      /\ t.why.by = "hook" /\ t.fate = "none" /\ reason = t.why.error
  BY <1>1, ReportAdvances, ReportedIsHook DEF Advances
<1>3. /\ u.fate = t.fate /\ u.why = t.why
  <2>1. "reported" \in Steps
    BY DEF Steps
  <2>2. QED
    BY <1>1, <2>1, OnlyStepped
<1>4. tries' = [tries EXCEPT ![i] = u] /\ journal' \subseteq journal \cup {row}
  BY DEF Report
<1> HIDE DEF u, t
<1>5. TriesRight' /\ DOMAIN tries' = DOMAIN tries /\ tries'[i] = u
  BY <1>1, <1>2, <1>4, OneAdvances DEF t
<1>6. \A r \in journal : /\ r.try \in DOMAIN tries' /\ Noted(tries'[r.try])
                         /\ r = RowOf(r.try, tries'[r.try])
  <2>1. \A k \in DOMAIN tries : Advances(tries[k], tries'[k])
    <3>1. ASSUME NEW k \in DOMAIN tries PROVE Advances(tries[k], tries'[k])
      <4>1. CASE k = i
        BY <1>2, <1>5, <4>1 DEF t
      <4>2. CASE k # i
        <5>1. tries'[k] = tries[k]
          BY <1>1, <1>4, <4>2 DEF TriesRight
        <5>2. QED
          BY <1>1, <5>1, StaysAsItIs, TryRead
      <4>3. QED
        BY <4>1, <4>2
    <3>2. QED
      BY <3>1
  <2>2. QED
    BY <1>1, <1>5, <2>1, AllAdvance
<1>7. row = RowOf(i, u) /\ row.try = i
  BY <1>2, <1>3 DEF RowOf, Attempt
<1> HIDE DEF row
<1>8. JournalRight'
  BY <1>2, <1>4, <1>5, <1>6, <1>7 DEF JournalRight
<1>9. QED
  BY <1>5, <1>8

\* The way of one submission.
LEMMA FormKeeps ==
    ASSUME PurchaseInv, NEW i \in DOMAIN tries, [MarketNext]_marketVars,
           \/ Simulate(i) \/ Sign(i) \/ Confirm(i) \/ Land(i) \/ Drop(i)
    PROVE  TriesRight' /\ JournalRight'
<1> DEFINE t == tries[i]
           o == t.offer
           n == t.amount
           why == Refusal(o, n)
<1>1. /\ MarketTypeOK /\ TermsHold /\ TriesRight /\ JournalRight
      /\ t \in Try /\ Truthful(t) /\ Quoted(offers, t) /\ o \in Offers
      /\ journal' = journal
  BY TryRead
     DEF PurchaseInv, SettledInv, Simulate, Sign, Confirm, Land, Drop
<1>2. Sound(why) /\ Sound(Passed)
  BY <1>1, RefusalSound
<1>3. SUFFICES \E u : Advances(t, u) /\ tries' = [tries EXCEPT ![i] = u]
  BY <1>1, OneAdvances
<1>4. ASSUME NEW step, NEW w, Becomes(i, step, w)
      PROVE  tries' = [tries EXCEPT ![i] = Judged(t, step, w)]
  BY <1>4 DEF Becomes, Judged
<1>5. CASE Simulate(i)
  <2>1. \E step, w : /\ t.step = "simulating" /\ Becomes(i, step, w) /\ Sound(w)
                     /\ \/ step = "silent" /\ w = Passed
                        \/ step = IF w = Passed THEN "signing" ELSE "refused"
    BY <1>2, <1>5 DEF Simulate
  <2> HIDE DEF t
  <2>2. QED
    BY <1>1, <1>4, <2>1, SimulateAdvances
<1>6. CASE Sign(i)
  <2>1. \/ \E step, w : /\ t.step = "signing" /\ Becomes(i, step, w) /\ Sound(w)
                        /\ \/ step = "failed" /\ w = Passed
                           \/ step = "refused" /\ w # Passed
        \/ \E step \in {"confirming", "failed"} :
              /\ t.step = "signing"
              /\ tries' = [tries EXCEPT ![i] =
                              SentOff(t, step, step = "confirming")]
    BY <1>2, <1>6 DEF Sign, SentOff
  <2> HIDE DEF t
  <2>2. QED
    BY <1>1, <1>4, <2>1, SignAdvances, SendAdvances
<1>7. CASE Confirm(i)
  <2>1. \E step, w : /\ t.step = "confirming" /\ Becomes(i, step, w)
                     /\ \/ t.fate = "landed" /\ step = "settled" /\ w = Passed
                        \/ t.fate = "bounced" /\ step = "refused" /\ w = t.why
                        \/ step = "failed" /\ w = t.why
    BY <1>7 DEF Confirm
  <2> HIDE DEF t
  <2>2. QED
    BY <1>1, <1>4, <2>1, ConfirmAdvances
<1>8. CASE Land(i)
  <2>1. t.fate = "flying" /\ Quote(offers[o].price, n) = t.quote
    BY <1>1, <1>8 DEF Land, Quoted
  <2>2. \/ tries' = [tries EXCEPT ![i] =
                         [t EXCEPT !.fate = "landed", !.paid = t.quote]]
        \/ tries' = [tries EXCEPT ![i] =
                         [t EXCEPT !.fate = "bounced", !.why = why]]
    BY <1>8, <2>1 DEF Land
  <2> HIDE DEF t, why
  <2>3. QED
    BY <1>1, <1>2, <2>1, <2>2, LandAdvances
<1>9. CASE Drop(i)
  <2>1. /\ t.fate = "flying"
        /\ tries' = [tries EXCEPT ![i] = [t EXCEPT !.fate = "dropped"]]
    BY <1>9 DEF Drop
  <2> HIDE DEF t
  <2>2. QED
    BY <1>1, <2>1, LandAdvances
<1>10. QED
  BY <1>5, <1>6, <1>7, <1>8, <1>9

\* The inductive invariant holds at first.
LEMMA PurchaseInitRight == PurchaseInit => PurchaseInv
<1> SUFFICES ASSUME PurchaseInit PROVE PurchaseInv
  OBVIOUS
<1>1. SettledInv /\ TermsHold
  BY SettledInit, TermsInit DEF PurchaseInit
<1>2. TriesRight /\ JournalRight /\ PageRight
  BY DEF PurchaseInit, TriesRight, JournalRight, PageRight
<1>3. QED
  BY <1>1, <1>2 DEF PurchaseInv

\* Every step keeps it.
LEMMA PurchaseStep ==
    PurchaseInv /\ [PurchaseNext]_purchaseVars => PurchaseInv'
<1> SUFFICES ASSUME PurchaseInv, [PurchaseNext]_purchaseVars PROVE PurchaseInv'
  OBVIOUS
<1>1. MarketTypeOK /\ TriesRight /\ JournalRight /\ PageRight /\ TermsHold
  BY DEF PurchaseInv, SettledInv
<1>2. [MarketNext]_marketVars
  BY <1>1, PurchaseStepIsMarketStep
<1>3. SettledInv'
  BY <1>2, SettledStep DEF PurchaseInv
<1>4. TermsHold'
  BY <1>1, <1>2, TermsStep DEF TermsHold
<1>5. PageRight'
  <2>1. CASE page' = page
    BY <1>1, <1>2, <2>1, PageStays
  <2>2. CASE \E unread \in SUBSET Offers : ReadShop(unread)
    BY <2>2, PageRead DEF ReadShop, marketVars, marketOnlyVars
  <2>3. CASE Reload
    BY <2>3, PageRead DEF Reload, marketVars, marketOnlyVars
  <2>4. QED
    BY <2>1, <2>2, <2>3
       DEF PurchaseNext, purchaseVars, tabVars, Submit, Simulate, Sign, Confirm,
           Land, Drop, Report, IndexTry
<1>6. TriesRight' /\ JournalRight'
  <2>1. CASE tries' = tries /\ journal' = journal
    BY <1>1, <1>2, <2>1, TabStays
  <2>2. ASSUME NEW o \in Offers, NEW n \in Shares, Submit(o, n)
        PROVE  TriesRight' /\ JournalRight'
    BY <2>2, SubmitKeeps
  <2>3. ASSUME NEW i \in DOMAIN tries,
               \/ Simulate(i) \/ Sign(i) \/ Confirm(i) \/ Land(i) \/ Drop(i)
        PROVE  TriesRight' /\ JournalRight'
    BY <1>2, <2>3, FormKeeps
  <2>4. ASSUME NEW i \in DOMAIN tries, Report(i)
        PROVE  TriesRight' /\ JournalRight'
    BY <2>4, ReportKeeps
  <2>5. ASSUME NEW i \in DOMAIN tries, IndexTry(i)
        PROVE  TriesRight' /\ JournalRight'
    BY <1>1, <2>5, IndexKeeps
  <2>6. CASE Reload
    BY <2>6, ReloadKeeps
  <2>7. QED
    BY <2>1, <2>2, <2>3, <2>4, <2>5, <2>6
       DEF PurchaseNext, purchaseVars, tabVars, ReadShop
<1>7. QED
  BY <1>3, <1>4, <1>5, <1>6 DEF PurchaseInv

\* The verdicts and the journal follow.
LEMMA VerdictFollows == PurchaseInv => VerdictIsTrue
<1> SUFFICES ASSUME PurchaseInv, NEW i \in DOMAIN tries
             PROVE  /\ tries[i].fate = "landed" => tries[i].paid = tries[i].quote
                    /\ tries[i].step = "settled" => tries[i].fate = "landed"
                    /\ tries[i].step \in {"refused", "reported"} =>
                          tries[i].fate \in {"none", "bounced"}
  BY DEF VerdictIsTrue
<1>1. Truthful(tries[i])
  BY TryRead DEF PurchaseInv
<1>2. QED
  BY <1>1 DEF Truthful

\* It contains that the journal is right.
LEMMA JournalFollows == PurchaseInv => JournalIsTheLedger
<1> SUFFICES ASSUME PurchaseInv, NEW r \in journal
             PROVE  LET t == tries[r.try] IN
                    /\ \A s \in journal : s.try = r.try => s = r
                    /\ r.outcome = "allowed" => t.fate = "landed"
                    /\ r.outcome = "rejected" =>
                          /\ t.why = [by |-> "hook", error |-> r.reason]
                          /\ t.fate = IF r.origin = "chain"
                                      THEN "bounced" ELSE "none"
  BY DEF JournalIsTheLedger
<1> DEFINE t == tries[r.try]
<1>1. /\ r.try \in DOMAIN tries /\ Noted(t) /\ r = RowOf(r.try, t)
      /\ t \in Try /\ Truthful(t)
  BY TryRead DEF PurchaseInv, JournalRight
<1>2. \A s \in journal : s.try = r.try => s = r
  <2>1. ASSUME NEW s \in journal, s.try = r.try PROVE s = r
    <3>1. s = RowOf(s.try, tries[s.try])
      BY DEF PurchaseInv, JournalRight
    <3>2. QED
      BY <1>1, <2>1, <3>1
  <2>2. QED
    BY <2>1
<1> HIDE DEF t
<1>3. /\ r.outcome = IF t.fate = "landed" THEN "allowed" ELSE "rejected"
      /\ r.reason = IF t.fate = "landed" THEN "none" ELSE t.why.error
      /\ r.origin = IF t.fate = "none" THEN "simulation" ELSE "chain"
  <2>1. \A k, x :
           /\ RowOf(k, x).outcome
                 = IF x.fate = "landed" THEN "allowed" ELSE "rejected"
           /\ RowOf(k, x).reason
                 = IF x.fate = "landed" THEN "none" ELSE x.why.error
           /\ RowOf(k, x).origin
                 = IF x.fate = "none" THEN "simulation" ELSE "chain"
    BY DEF RowOf, Attempt
  <2>2. QED
    BY <1>1, <2>1
<1>4. ASSUME r.outcome = "rejected"
      PROVE  /\ t.why.by = "hook" /\ t.why.error = r.reason
             /\ t.fate = IF r.origin = "chain" THEN "bounced" ELSE "none"
  BY <1>1, <1>3, <1>4 DEF Noted
<1>5. t.why \in Verdict
  BY <1>1 DEF Try
<1>6. t.why = [by |-> t.why.by, error |-> t.why.error]
  BY <1>5 DEF Verdict
<1>7. QED
  BY <1>2, <1>3, <1>4, <1>6 DEF t

\* The storefront implements the market: whatever a form, a wallet or a node
\* does, the chain sees acceptances by the buyer and nothing else, so every
\* theorem of the market holds with the tab open.
THEOREM PurchaseImplementsMarket == PurchaseSpec => MarketSpec
<1>1. PurchaseInit => MarketInit
  BY DEF PurchaseInit
<1>2. PurchaseInv => TriesRight
  BY DEF PurchaseInv
<1>3. QED
  BY <1>1, <1>2, PurchaseInitRight, PurchaseStep, PurchaseStepIsMarketStep, PTL
     DEF PurchaseSpec, MarketSpec

\* In particular the shares bought move only as the token and its hook let them,
\* with the tab open as without it.
THEOREM PurchaseImplementsToken == PurchaseSpec => ImplementsShareToken
  BY PurchaseImplementsMarket, MarketRefinesShareToken, PTL

\* A receipt is of a trade at the payment and the fee that were shown, and what
\* is called refused never happens (send.ts), for any number of submissions from
\* a page of any age.
THEOREM VerdictsAreTrue == PurchaseSpec => []VerdictIsTrue
  BY VerdictFollows, PurchaseInitRight, PurchaseStep, PTL DEF PurchaseSpec

\* Every attempt has at most one row, of the right outcome, reason and origin,
\* whoever writes it first and however often the worker reads the log again
\* (journal/model.ts, parse.ts).
THEOREM JournalIsRight == PurchaseSpec => []JournalIsTheLedger
  BY JournalFollows, PurchaseInitRight, PurchaseStep, PTL DEF PurchaseSpec

\* What an up-to-date row lets a buyer take is what the network would let pass,
\* for any terms, delegation, admission and hour (the offer assessment of the
\* indexer against accept_offer.rs and execute.rs).
THEOREM StorefrontIsRight == PurchaseSpec => []StorefrontIsTheNetwork
<1>1. PurchaseInv => StorefrontIsTheNetwork
  BY StorefrontRight DEF PurchaseInv
<1>2. QED
  BY <1>1, PurchaseInitRight, PurchaseStep, PTL DEF PurchaseSpec
==============================================================================
