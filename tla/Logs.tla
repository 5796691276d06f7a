-------------------------------- MODULE Logs --------------------------------
(***************************************************************************)
(* What is read from the log of a transaction, by the worker               *)
(* (packages/indexer) and by the panel (chain/send.ts).                    *)
(*                                                                         *)
(* A line says that a program is entered, that one is left, or something   *)
(* in between: an Anchor error (its code) or an event (its name).  A line  *)
(* of an error or an event does not say which program wrote it.            *)
(***************************************************************************)
EXTENDS SequencesExt

Enter(p) == [kind |-> "invoke", program |-> p, says |-> ""]
Leave(p) == [kind |-> "leave", program |-> p, says |-> ""]
Error(code) == [kind |-> "error", program |-> "", says |-> code]
Data(event) == [kind |-> "data", program |-> "", says |-> event]

\* attributeLogs: every other line belongs to the program entered last and not
\* left yet.
AttributeLine(state, line) ==
    CASE line.kind = "invoke" ->
            [stack |-> Append(state.stack, line.program), out |-> state.out]
      [] line.kind = "leave" /\ state.stack # <<>>
            /\ Last(state.stack) = line.program ->
            [stack |-> Front(state.stack), out |-> state.out]
      [] OTHER ->
            [stack |-> state.stack,
             out |-> Append(state.out,
                 [kind |-> line.kind, says |-> line.says,
                  program |-> IF state.stack = <<>> THEN "" ELSE Last(state.stack)])]

\* The parser's state after the first lines.
AfterLines(logs) ==
    LET after[i \in 0 .. Len(logs)] ==
            IF i = 0 THEN [stack |-> <<>>, out |-> <<>>]
                     ELSE AttributeLine(after[i - 1], logs[i])
    IN  after

AttributeLogs(logs) == AfterLines(logs)[Len(logs)].out

Said(frames, kind) == SelectSeq(frames, LAMBDA f : f.kind = kind)

\* A slip: what a failed transaction logged before it failed still counts.
CollectEventsOfFailed(frames, failed) == Said(frames, "data")

\* The runtime undoes a failed transaction and keeps its log.
CollectEvents(frames, failed) == IF failed THEN <<>> ELSE Said(frames, "data")

\* collectErrors: the first error the hook threw is a refused transfer; those
\* of other programs are not.
Rejection(frames, failed) ==
    LET thrown == {i \in DOMAIN frames : /\ frames[i].kind = "error"
                                         /\ frames[i].program = "hook"}
    IN  IF ~ failed \/ thrown = {} THEN "none" ELSE frames[Min(thrown)].says

ParseTransaction(logs, failed) ==
    LET frames == AttributeLogs(logs) IN
    [events |-> CollectEvents(frames, failed),
     rejection |-> Rejection(frames, failed)]

\* reasonFromLogs, of the panel: the first error, whoever threw it.
ReasonFromLogs(logs) ==
    LET errors == {i \in DOMAIN logs : logs[i].kind = "error"}
    IN  IF errors = {} THEN "none" ELSE logs[Min(errors)].says
=============================================================================
