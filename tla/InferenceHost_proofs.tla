------------------------ MODULE InferenceHost_proofs ------------------------
(***************************************************************************)
(* A worker with its helper processes, for every batch size and any number *)
(* of frames: the verdicts of a call are those of its frames, the filter   *)
(* blocks for want of a detector only after all three have failed, and no  *)
(* helper outlives its use.                                                *)
(*                                                                         *)
(* The argument is about the pipe.  Outside the handshake and the reading  *)
(* of answers it is empty (Pipe), since every way to another endpoint      *)
(* closes it; while answers are read, what is in it are the next answers   *)
(* of the request, none from an earlier one (Owed); so the results before  *)
(* the next answer are the verdicts of their frames, unless one came with  *)
(* "unsupported" (Progress), and then the call starts over with singles.   *)
(***************************************************************************)
EXTENDS InferenceHost, SequenceTheorems, TLAPS

AllThree == {"cuda", "dml", "cpu"}
Waiting == {"handshake", "receive"}
Asking == {"send", "receive"}

\* Which endpoints have failed follows from the one that is in use.
Chain ==
    /\ pc \in {"spawn", "handshake", "send", "receive"} => endpoint \in Hosts
    /\ pc \in {"create", "cpu"} => endpoint = "cpu"
    /\ endpoint = "cuda" => gaveUp = {}
    /\ endpoint = "dml" => gaveUp = {"cuda"}
    /\ endpoint = "cpu" => {"cuda", "dml"} \subseteq gaveUp
    /\ endpoint = "none" => pc = "gone" \/ gaveUp = AllThree
    /\ pc = "failed" \/ failed => gaveUp = AllThree

\* A helper runs only for an endpoint that needs one, and starts only once.
Helper ==
    /\ helper # "none" => endpoint \in Hosts /\ pc \notin {"spawn", "gone"}
    /\ helper = "starting" => pc = "handshake" /\ answers = <<>>

\* The pipe is empty but for the handshake, or the answers to a request.
Pipe ==
    /\ pc \notin Waiting => answers = <<>>
    /\ pc = "handshake" => answers \in {<<>>, <<Ready>>}

\* The request of a call, and how far its answers have come.
Asked ==
    /\ ask.from \in 1..ask.to /\ ask.to <= Len(frames)
    /\ IF ask.single THEN ask.from = ask.to /\ ~ask.unsupported
                     ELSE ask.to = Len(frames)

Progress == ask.unsupported \/ \A j \in 1..(ask.from - 1) : results[j] = frames[j]

Owed ==
    /\ Len(answers) <= ask.to + 1 - ask.from
    /\ \A i \in 1..Len(answers) :
        /\ answers[i].status # "ready"
        /\ answers[i].status = "ok" => answers[i].frame = frames[ask.from + i - 1]

Verdicts ==
    /\ Len(frames) <= BatchSize
    /\ pc = "idle" => frames = <<>>
    /\ pc \in Asking => Asked /\ Progress
    /\ pc = "receive" => Owed
    /\ pc = "done" => results = frames

HostInv == TypeOK /\ Chain /\ Helper /\ Pipe /\ Verdicts
-----------------------------------------------------------------------------
(***************************************************************************)
(* The steps.  Every way to give up an endpoint does the same.             *)
(***************************************************************************)
GivesUp ==
    /\ pc \in {"spawn", "handshake", "send", "receive"}
    /\ FallBack
    /\ UNCHANGED <<batches, batchable, call, failed>>

Launched == Spawn /\ pc' = "handshake"
Sent == Send /\ helper # "dead"
Read == Receive /\ ~Rejected(Head(answers).status)

Steps ==
    \/ GivesUp \/ Launched \/ HostIsUp \/ CreateCpu \/ Stop
    \/ (\E n \in 1..BatchSize : Call(n)) \/ Sent \/ Read \/ ClassifyCpu \/ Publish
    \/ HelperReady \/ HelperServes \/ HelperDies
    \/ UNCHANGED vars

\* A step of the system is one of these.
LEMMA NextIsSteps == [Next]_vars => Steps
<1> SUFFICES ASSUME [Next]_vars PROVE Steps
  OBVIOUS
<1>1. CASE Spawn
  BY <1>1 DEF Spawn, Steps, GivesUp, Launched
<1>2. CASE HostIsDown
  BY <1>2 DEF HostIsDown, Steps, GivesUp
<1>3. CASE Send
  BY <1>3 DEF Send, Steps, GivesUp, Sent
<1>4. CASE Receive
  <2>1. CASE Rejected(Head(answers).status)
    <3>1. UNCHANGED <<batchable, results, ask>> /\ UNCHANGED <<batches, taken, frames, failed>>
      BY <1>4, <2>1 DEF Receive
    <3>2. pc = "receive" /\ FallBack
      BY <1>4, <2>1 DEF Receive
    <3> QED
      BY <3>1, <3>2 DEF GivesUp, Steps, call
  <2>2. CASE ~Rejected(Head(answers).status)
    BY <1>4, <2>2 DEF Steps, Read
  <2> QED
    BY <2>1, <2>2
<1>5. CASE UNCHANGED vars \/ Gone
  BY <1>5 DEF Gone, Steps
<1> QED
  BY <1>1, <1>2, <1>3, <1>4, <1>5 DEF Next, WorkerStep, HelperStep, Steps

\* What is left after an endpoint has been given up.
LEMMA GivingUp ==
    ASSUME TypeOK, Chain, GivesUp
    PROVE  /\ helper' = "none" /\ answers' = <<>>
           /\ \/ endpoint' = "dml" /\ gaveUp' = {"cuda"} /\ pc' = "spawn"
              \/ endpoint' = "cpu" /\ {"cuda", "dml"} \subseteq gaveUp' /\ pc' = "create"
           /\ gaveUp' \subseteq AllThree
           /\ UNCHANGED <<batches, batchable, taken, frames, results, ask, failed>>
<1>1. endpoint \in {"cuda", "dml"}
  BY DEF Chain, GivesUp, Hosts
<1>2. helper' = "none" /\ answers' = <<>> /\ gaveUp' = gaveUp \cup {endpoint}
      /\ endpoint' = Fallback[endpoint] /\ pc' = IF endpoint' = "cpu" THEN "create" ELSE "spawn"
  BY DEF GivesUp, FallBack, StopHost
<1>3. UNCHANGED <<batches, batchable, taken, frames, results, ask, failed>>
  BY DEF GivesUp, call
<1>4. CASE endpoint = "cuda"
  <2>1. endpoint' = "dml" /\ pc' = "spawn"
    BY <1>2, <1>4 DEF Fallback
  <2>2. gaveUp' = {"cuda"}
    BY <1>2, <1>4 DEF Chain
  <2> QED
    BY <1>2, <1>3, <2>1, <2>2 DEF AllThree
<1>5. CASE endpoint = "dml"
  <2>1. endpoint' = "cpu" /\ pc' = "create"
    BY <1>2, <1>5 DEF Fallback
  <2>2. gaveUp' = {"cuda", "dml"}
    BY <1>2, <1>5 DEF Chain
  <2> QED
    BY <1>2, <1>3, <2>1, <2>2 DEF AllThree
<1> QED
  BY <1>1, <1>4, <1>5

-----------------------------------------------------------------------------
(***************************************************************************)
(* Endpoints, the helper and its pipe.                                     *)
(***************************************************************************)
LEMMA ChainStep ==
    ASSUME TypeOK, Chain, Steps
    PROVE  Chain'
<1>0. gaveUp \subseteq AllThree
  BY DEF TypeOK, AllThree
<1>1. CASE GivesUp
  <2>1. \/ endpoint' = "dml" /\ gaveUp' = {"cuda"} /\ pc' = "spawn"
        \/ endpoint' = "cpu" /\ {"cuda", "dml"} \subseteq gaveUp' /\ pc' = "create"
    BY <1>1, GivingUp
  <2>2. failed' = failed /\ gaveUp' = gaveUp \cup {endpoint} /\ gaveUp' \subseteq AllThree
    BY <1>1, GivingUp DEF GivesUp, FallBack
  <2>3. failed' => gaveUp' = AllThree
    BY <2>2 DEF Chain
  <2> QED
    BY <2>1, <2>3 DEF Chain, Hosts
<1>2. CASE Launched
  BY <1>2 DEF Launched, Spawn, FallBack, Chain, Hosts
<1>3. CASE HostIsUp
  BY <1>3 DEF HostIsUp, Resumed, Chain
<1>4. CASE CreateCpu
  <2>1. pc = "create" /\ endpoint = "cpu" /\ {"cuda", "dml"} \subseteq gaveUp /\ failed' = failed
    BY <1>4 DEF CreateCpu, Chain
  <2>2. CASE pc' = Resumed("cpu") /\ UNCHANGED <<endpoint, gaveUp>>
    BY <2>1, <2>2 DEF Resumed, Chain
  <2>3. CASE /\ endpoint' = "none" /\ gaveUp' = gaveUp \cup {"cpu"}
             /\ pc' = IF frames = <<>> THEN "gone" ELSE "failed"
    <3>1. gaveUp' = AllThree
      BY <1>0, <2>1, <2>3 DEF AllThree
    <3> QED
      BY <2>3, <3>1 DEF Chain
  <2> QED
    BY <1>4, <2>2, <2>3 DEF CreateCpu
<1>5. CASE Stop
  BY <1>5 DEF Stop, Chain
<1>6. CASE \E n \in 1..BatchSize : Call(n)
  <2>1. /\ pc = "idle" /\ UNCHANGED <<endpoint, failed, gaveUp>>
        /\ pc' = IF endpoint \in Hosts THEN "send" ELSE IF endpoint = "cpu" THEN "cpu" ELSE "failed"
    BY <1>6 DEF Call
  <2>2. endpoint \in Hosts \cup {"cpu", "none"}
    BY DEF TypeOK
  <2> QED
    BY <2>1, <2>2 DEF Chain
<1>7. CASE Sent
  BY <1>7 DEF Sent, Send, FallBack, Chain
<1>8. CASE Read
  <2>1. pc = "receive" /\ UNCHANGED <<endpoint, gaveUp, failed>>
    BY <1>8 DEF Read, Receive
  <2>2. pc' \in {"send", "receive", "done"}
    BY <1>8, <2>1 DEF Read, Receive, Answered
  <2> QED
    BY <2>1, <2>2 DEF Chain
<1>9. CASE ClassifyCpu
  <2>1. pc = "cpu" /\ endpoint = "cpu" /\ UNCHANGED <<endpoint, failed>>
        /\ {"cuda", "dml"} \subseteq gaveUp
    BY <1>9 DEF ClassifyCpu, Chain
  <2>2. CASE pc' = "done" /\ UNCHANGED gaveUp
    BY <2>1, <2>2 DEF Chain
  <2>3. CASE pc' = "failed" /\ gaveUp' = gaveUp \cup {"cpu"}
    <3>1. gaveUp' = AllThree
      BY <1>0, <2>1, <2>3 DEF AllThree
    <3> QED
      BY <2>1, <2>3, <3>1 DEF Chain
  <2> QED
    BY <1>9, <2>2, <2>3 DEF ClassifyCpu
<1>10. CASE Publish
  BY <1>10 DEF Publish, Chain
<1>11. CASE HelperReady \/ HelperServes \/ HelperDies
  BY <1>11 DEF HelperReady, HelperServes, HelperDies, Chain
<1>12. CASE UNCHANGED vars
  BY <1>12 DEF vars, Chain
<1> QED
  BY <1>1, <1>2, <1>3, <1>4, <1>5, <1>6, <1>7, <1>8, <1>9, <1>10, <1>11, <1>12 DEF Steps

LEMMA HelperStaysUsed ==
    ASSUME TypeOK, Chain, Helper, Pipe, Steps
    PROVE  Helper'
<1>1. CASE GivesUp
  BY <1>1, GivingUp DEF Helper
<1>2. CASE Launched
  BY <1>2 DEF Launched, Spawn, FallBack, Helper, Pipe, Chain, Waiting
<1>3. CASE HostIsUp
  <2>1. pc = "handshake" /\ answers # <<>> /\ UNCHANGED <<helper, endpoint>>
        /\ pc' \in {"idle", "send"}
    BY <1>3 DEF HostIsUp, Resumed
  <2> QED
    BY <2>1 DEF Helper
<1>4. CASE CreateCpu
  BY <1>4 DEF CreateCpu, Helper, Chain, Hosts, host
<1>5. CASE Stop
  BY <1>5 DEF Stop, StopHost, Helper
<1>6. CASE \E n \in 1..BatchSize : Call(n)
  <2>1. pc = "idle" /\ UNCHANGED <<endpoint, helper, answers>>
        /\ pc' \in {"send", "cpu", "failed"}
    BY <1>6 DEF Call, host
  <2> QED
    BY <2>1 DEF Helper
<1>7. CASE Sent
  BY <1>7 DEF Sent, Send, FallBack, Helper, host
<1>8. CASE Read
  <2>1. pc = "receive" /\ UNCHANGED <<endpoint, helper>>
    BY <1>8 DEF Read, Receive
  <2>2. pc' \in {"send", "receive", "done"}
    BY <1>8, <2>1 DEF Read, Receive, Answered
  <2> QED
    BY <2>1, <2>2 DEF Helper
<1>9. CASE ClassifyCpu
  BY <1>9 DEF ClassifyCpu, Helper, host
<1>10. CASE Publish
  BY <1>10 DEF Publish, Helper, host
<1>11. CASE HelperReady
  BY <1>11 DEF HelperReady, Helper
<1>12. CASE HelperServes
  BY <1>12 DEF HelperServes, Helper
<1>13. CASE HelperDies
  BY <1>13 DEF HelperDies, Helper
<1>14. CASE UNCHANGED vars
  BY <1>14 DEF vars, host, Helper
<1> QED
  BY <1>1, <1>2, <1>3, <1>4, <1>5, <1>6, <1>7, <1>8, <1>9, <1>10, <1>11, <1>12, <1>13, <1>14
     DEF Steps

-----------------------------------------------------------------------------
(***************************************************************************)
(* Reading an answer.                                                      *)
(***************************************************************************)
AnswerStatuses == {"ready", "ok", "failed", "unsupported"}
AnswerKind == [status : AnswerStatuses, frame : 0..MaxFrames]
AskKind == [from : 1..(BatchSize + 1), to : 0..BatchSize, single : BOOLEAN, unsupported : BOOLEAN]

\* The first answer: whose it is, and what it may say.
LEMMA NextAnswer ==
    ASSUME TypeOK, Verdicts, Read
    PROVE  /\ pc = "receive" /\ Asked /\ Progress /\ Owed
           /\ Len(answers) > 0 /\ Len(answers) \in Nat
           /\ Head(answers) = answers[1] /\ Head(answers) \in AnswerKind
           /\ Head(answers).status \in {"ok", "unsupported"}
           /\ Head(answers).status = "ok" => Head(answers).frame = frames[ask.from]
           /\ ask.single => Head(answers).status = "ok"
<1>1. pc = "receive" /\ answers # <<>> /\ ~Rejected(Head(answers).status)
  BY DEF Read, Receive
<1>2. Asked /\ Progress /\ Owed
  BY <1>1 DEF Verdicts, Asking
<1>3. answers \in Seq(AnswerKind)
  BY DEF TypeOK, AnswerKind, AnswerStatuses
<1>4. Len(answers) > 0 /\ Len(answers) \in Nat /\ Head(answers) = answers[1]
      /\ Head(answers) \in AnswerKind
  BY <1>1, <1>3
<1>5. ask.from \in Nat
  BY DEF TypeOK
<1>6. 1 \in 1..Len(answers) /\ ask.from + 1 - 1 = ask.from
  BY <1>4, <1>5
<1>7. /\ answers[1].status # "ready"
      /\ answers[1].status = "ok" => answers[1].frame = frames[ask.from]
  BY <1>2, <1>6 DEF Owed
<1>8. Head(answers).status \in {"ok", "unsupported"}
      /\ (ask.single => Head(answers).status = "ok")
  <2>1. Head(answers).status \in AnswerStatuses
    BY <1>4 DEF AnswerKind
  <2> QED
    BY <1>1, <1>4, <1>7, <2>1 DEF Rejected, AnswerStatuses
<1> QED
  BY <1>1, <1>2, <1>4, <1>7, <1>8

\* What is asked for next: the rest of the answers, singles, the next single, or nothing.
LEMMA NextRequest ==
    ASSUME TypeOK, Verdicts, Read
    PROVE  LET unsupported == ask.unsupported \/ Head(answers).status = "unsupported" IN
           \/ /\ ask.from < ask.to /\ pc' = "receive" /\ batchable' = batchable
              /\ ask' = [from |-> ask.from + 1, to |-> ask.to, single |-> ask.single,
                         unsupported |-> unsupported]
           \/ /\ ask.from = ask.to /\ unsupported
              /\ pc' = "send" /\ batchable' = FALSE
              /\ ask' = [from |-> 1, to |-> 1, single |-> TRUE, unsupported |-> FALSE]
           \/ /\ ask.from = ask.to /\ ~unsupported /\ ask.single /\ ask.to < Len(frames)
              /\ pc' = "send" /\ batchable' = batchable
              /\ ask' = [from |-> ask.to + 1, to |-> ask.to + 1, single |-> TRUE,
                         unsupported |-> FALSE]
           \/ /\ ask.from = ask.to /\ ~unsupported /\ ask.to = Len(frames)
              /\ pc' = "done" /\ batchable' = batchable
              /\ ask' = [from |-> ask.from + 1, to |-> ask.to, single |-> ask.single,
                         unsupported |-> unsupported]
<1> DEFINE unsupported == ask.unsupported \/ Head(answers).status = "unsupported"
           request == Request(ask.from + 1, ask.to, ask.single, unsupported)
<1>1. ask \in AskKind /\ ask.from \in Nat /\ ask.to \in Nat /\ Len(frames) \in Nat
  BY InferenceAssumption DEF TypeOK, AskKind
<1>3. Asked
  BY NextAnswer
<1>4. ask.from <= ask.to /\ ask.to <= Len(frames)
  BY <1>1, <1>3 DEF Asked
<1>5. /\ pc = "receive"
      /\ IF ask.from < ask.to THEN ask' = request /\ UNCHANGED <<pc, batchable>>
                              ELSE Answered(request)
  BY DEF Read, Receive
<1>6. CASE ask.from < ask.to
  BY <1>5, <1>6 DEF Request
<1>7. CASE ~(ask.from < ask.to)
  <2>1. ask.from = ask.to /\ Answered(request)
    BY <1>1, <1>4, <1>5, <1>7
  <2>2. request.unsupported = unsupported /\ request.single = ask.single /\ request.to = ask.to
    BY DEF Request
  <2>3. CASE unsupported
    <3>0. ~request.single
      BY <1>3, <2>2, <2>3, NextAnswer DEF Asked
    <3>1. batchable' = FALSE /\ ask' = Single(1) /\ pc' = "send"
      BY <2>1, <2>2, <2>3, <3>0 DEF Answered, NeedsSingles
    <3> QED
      BY <2>1, <2>3, <3>1 DEF Single, Request
  <2>4. CASE ~unsupported /\ ask.single /\ ask.to < Len(frames)
    <3>1. ask' = Single(ask.to + 1) /\ pc' = "send" /\ UNCHANGED batchable
      BY <2>1, <2>2, <2>4 DEF Answered, NeedsSingles
    <3> QED
      BY <2>1, <2>4, <3>1 DEF Single, Request
  <2>5. CASE ~unsupported /\ ~(ask.single /\ ask.to < Len(frames))
    <3>1. ask' = request /\ pc' = "done" /\ UNCHANGED batchable
      BY <2>1, <2>2, <2>5 DEF Answered, NeedsSingles
    <3>2. ask.to = Len(frames)
      BY <1>1, <1>3, <1>4, <2>5 DEF Asked
    <3> QED
      BY <2>1, <2>5, <3>1, <3>2 DEF Request
  <2> QED
    BY <2>3, <2>4, <2>5
<1> QED
  BY <1>6, <1>7

\* What has been read, and what is left in the pipe.
LEMMA ReadEffect ==
    ASSUME TypeOK, Verdicts, Read
    PROVE  /\ UNCHANGED <<batches, taken, frames, failed, helper, endpoint, gaveUp>>
           /\ answers' \in Seq(AnswerKind) /\ Len(answers') = Len(answers) - 1
           /\ \A i \in 1..Len(answers') : answers'[i] = answers[i + 1]
           /\ results' \in Seq(0..MaxFrames) /\ Len(results') = Len(results)
           /\ results'[ask.from] = Head(answers).frame
           /\ \A j \in 1..Len(results) : j # ask.from => results'[j] = results[j]
<1>1. /\ answers' = Tail(answers)
      /\ results' = [results EXCEPT ![ask.from] = Head(answers).frame]
      /\ UNCHANGED <<batches, taken, frames, failed, helper, endpoint, gaveUp>>
  BY DEF Read, Receive
<1>2. answers \in Seq(AnswerKind) /\ Len(answers) > 0 /\ Len(answers) \in Nat
      /\ Head(answers) \in AnswerKind
  BY NextAnswer DEF TypeOK, AnswerKind, AnswerStatuses
<1>3. answers # <<>>
  BY <1>2
<1>4. answers' \in Seq(AnswerKind) /\ Len(answers') = Len(answers) - 1
  BY <1>1, <1>2, <1>3
<1>5. \A i \in 1..Len(answers') : answers'[i] = answers[i + 1]
  BY <1>1, <1>2, <1>3
<1>6. ask.from \in 1..Len(results) /\ Len(results) \in Nat /\ results \in Seq(0..MaxFrames)
  <2>1. Asked
    BY NextAnswer
  <2>2. ask.from \in Nat /\ ask.to \in Nat /\ Len(results) = Len(frames) /\ Len(frames) \in Nat
        /\ results \in Seq(0..MaxFrames)
    BY InferenceAssumption DEF TypeOK
  <2> QED
    BY <2>1, <2>2 DEF Asked
<1>7. Head(answers).frame \in 0..MaxFrames
  BY <1>2 DEF AnswerKind
<1>8. results' \in Seq(0..MaxFrames) /\ Len(results') = Len(results)
  BY <1>1, <1>6, <1>7
<1>9. results'[ask.from] = Head(answers).frame
  BY <1>1, <1>6
<1>10. \A j \in 1..Len(results) : j # ask.from => results'[j] = results[j]
  BY <1>1, <1>6
<1> QED
  BY <1>1, <1>4, <1>5, <1>8, <1>9, <1>10

\* Nothing is left over when the request has been answered.
LEMMA PipeStep ==
    ASSUME TypeOK, Chain, Helper, Pipe, Verdicts, Steps
    PROVE  Pipe'
<1>1. CASE GivesUp
  BY <1>1, GivingUp DEF Pipe, Waiting
<1>2. CASE Launched
  <2>1. pc = "spawn" /\ pc' = "handshake"
    BY <1>2 DEF Launched, Spawn
  <2>2. answers' = <<>>
    BY <1>2, <2>1 DEF Launched, Spawn, FallBack, StopHost, Pipe, Waiting
  <2> QED
    BY <2>1, <2>2 DEF Pipe, Waiting
<1>3. CASE HostIsUp
  <2>1. pc = "handshake" /\ answers # <<>> /\ answers' = Tail(answers) /\ pc' \in {"idle", "send"}
    BY <1>3 DEF HostIsUp, Resumed
  <2>2. answers = <<Ready>>
    BY <2>1 DEF Pipe
  <2>3. answers' = <<>>
    BY <2>1, <2>2
  <2> QED
    BY <2>1, <2>3 DEF Pipe, Waiting
<1>4. CASE CreateCpu
  BY <1>4 DEF CreateCpu, Resumed, Pipe, Waiting, host
<1>5. CASE Stop
  BY <1>5 DEF Stop, StopHost, Pipe, Waiting
<1>6. CASE \E n \in 1..BatchSize : Call(n)
  <2>1. pc = "idle" /\ UNCHANGED answers /\ pc' \in {"send", "cpu", "failed"}
    BY <1>6 DEF Call, host
  <2> QED
    BY <2>1 DEF Pipe, Waiting
<1>7. CASE Sent
  BY <1>7 DEF Sent, Send, FallBack, Pipe, Waiting, host
<1>8. CASE Read
  <2>1. pc' = "receive" \/ (ask.from = ask.to /\ pc' \in {"send", "done"})
    BY <1>8, NextRequest
  <2>2. CASE pc' = "receive"
    BY <2>2 DEF Pipe, Waiting
  <2>3. CASE ask.from = ask.to /\ pc' \in {"send", "done"}
    <3>1. Len(answers) <= 1 /\ Len(answers) > 0 /\ Len(answers) \in Nat
      <4>1. Owed /\ Len(answers) > 0 /\ Len(answers) \in Nat
        BY <1>8, NextAnswer
      <4>2. ask.to \in Nat
        BY InferenceAssumption DEF TypeOK
      <4> QED
        BY <2>3, <4>1, <4>2 DEF Owed
    <3>2. answers' \in Seq(AnswerKind) /\ Len(answers') = 0
      BY <1>8, <3>1, ReadEffect
    <3>3. answers' = <<>>
      BY <3>2
    <3> QED
      BY <2>3, <3>3 DEF Pipe, Waiting
  <2> QED
    BY <2>1, <2>2, <2>3
<1>9. CASE ClassifyCpu
  BY <1>9 DEF ClassifyCpu, Pipe, Waiting, host
<1>10. CASE Publish
  BY <1>10 DEF Publish, Pipe, Waiting, host
<1>11. CASE HelperReady
  <2>1. pc = "handshake" /\ answers = <<>> /\ answers' = Append(answers, Ready) /\ pc' = pc
    BY <1>11 DEF HelperReady, Helper
  <2>2. answers' = <<Ready>>
    BY <2>1
  <2> QED
    BY <2>1, <2>2 DEF Pipe, Waiting
<1>12. CASE HelperServes
  BY <1>12 DEF HelperServes, Pipe, Waiting
<1>13. CASE HelperDies
  BY <1>13 DEF HelperDies, Pipe
<1>14. CASE UNCHANGED vars
  BY <1>14 DEF vars, host, Pipe
<1> QED
  BY <1>1, <1>2, <1>3, <1>4, <1>5, <1>6, <1>7, <1>8, <1>9, <1>10, <1>11, <1>12, <1>13, <1>14
     DEF Steps
-----------------------------------------------------------------------------
(***************************************************************************)
(* The results of a call.                                                  *)
(***************************************************************************)
\* A call that starts, or starts over with another helper, asks for everything.
LEMMA AskedAnew ==
    ASSUME Len(frames') \in Nat, Len(frames') > 0, ask' = WholeBatch(frames')
    PROVE  Asked' /\ Progress'
<1>1. /\ ask'.from = 1 /\ ask'.to = Len(frames')
      /\ ask'.single = FALSE /\ ask'.unsupported = FALSE
  BY DEF WholeBatch, Request
<1>2. Asked'
  BY <1>1 DEF Asked
<1>3. 1..(ask'.from - 1) = {}
  BY <1>1
<1> QED
  BY <1>2, <1>3 DEF Progress

LEMMA VerdictsAsRead ==
    ASSUME TypeOK, Verdicts, Read
    PROVE  Verdicts'
<1>1. /\ Asked /\ Progress /\ Owed /\ Len(answers) > 0 /\ Len(answers) \in Nat
      /\ Head(answers).status \in {"ok", "unsupported"}
      /\ Head(answers).status = "ok" => Head(answers).frame = frames[ask.from]
      /\ ask.single => Head(answers).status = "ok"
  BY NextAnswer
<1>2. /\ frames' = frames /\ Len(answers') = Len(answers) - 1
      /\ \A i \in 1..Len(answers') : answers'[i] = answers[i + 1]
      /\ results' \in Seq(0..MaxFrames) /\ Len(results') = Len(results)
      /\ results'[ask.from] = Head(answers).frame
      /\ \A j \in 1..Len(results) : j # ask.from => results'[j] = results[j]
  BY ReadEffect
<1>3. /\ ask.from \in Nat /\ ask.to \in Nat /\ Len(frames) \in Nat /\ Len(results) = Len(frames)
      /\ ask.unsupported \in BOOLEAN /\ ask.single \in BOOLEAN /\ frames \in Seq(1..MaxFrames)
  BY InferenceAssumption DEF TypeOK
<1>4. ask.from >= 1 /\ ask.from <= ask.to /\ ask.to <= Len(frames)
  BY <1>1, <1>3 DEF Asked
<1>5. Len(frames') <= BatchSize
  BY <1>2 DEF Verdicts
<1> DEFINE unsupported == ask.unsupported \/ Head(answers).status = "unsupported"
<1>6. unsupported => ~ask.single
  BY <1>1 DEF Asked
<1>7. ~unsupported => \A j \in 1..ask.from : results'[j] = frames[j]
  <2> SUFFICES ASSUME ~unsupported, NEW j \in 1..ask.from PROVE results'[j] = frames[j]
    OBVIOUS
  <2>1. CASE j = ask.from
    BY <1>1, <1>2, <2>1
  <2>2. CASE j # ask.from
    <3>1. j \in 1..(ask.from - 1) /\ j \in 1..Len(results)
      BY <1>3, <1>4, <2>2
    <3>2. results[j] = frames[j]
      BY <1>1, <3>1 DEF Progress
    <3> QED
      BY <1>2, <2>2, <3>1, <3>2
  <2> QED
    BY <2>1, <2>2
<1>8. CASE /\ ask.from < ask.to /\ pc' = "receive"
           /\ ask' = [from |-> ask.from + 1, to |-> ask.to, single |-> ask.single,
                      unsupported |-> unsupported]
  <2>1. /\ ask'.from = ask.from + 1 /\ ask'.to = ask.to /\ ask'.single = ask.single
        /\ ask'.unsupported = unsupported
    BY <1>8
  <2>2. ~ask.single /\ ask.to = Len(frames)
    BY <1>1, <1>3, <1>8 DEF Asked
  <2>3. Asked'
    BY <1>2, <1>3, <1>4, <1>8, <2>1, <2>2 DEF Asked
  <2>4. Progress'
    <3>1. CASE unsupported
      BY <2>1, <3>1 DEF Progress
    <3>2. CASE ~unsupported
      <4>1. ask'.from - 1 = ask.from
        BY <1>3, <2>1
      <4> QED
        BY <1>2, <1>7, <3>2, <4>1 DEF Progress
    <3> QED
      BY <3>1, <3>2
  <2>5. Owed'
    <3>1. Len(answers') <= ask'.to + 1 - ask'.from
      BY <1>1, <1>2, <1>3, <2>1 DEF Owed
    <3>2. ASSUME NEW i \in 1..Len(answers')
          PROVE  /\ answers'[i].status # "ready"
                 /\ answers'[i].status = "ok" => answers'[i].frame = frames'[ask'.from + i - 1]
      <4>1. i + 1 \in 1..Len(answers) /\ i \in Nat
        BY <1>1, <1>2, <3>2
      <4>2. answers'[i] = answers[i + 1]
        BY <1>2, <3>2
      <4>3. ask'.from + i - 1 = ask.from + (i + 1) - 1
        BY <1>3, <2>1, <4>1
      <4>4. /\ answers[i + 1].status # "ready"
            /\ answers[i + 1].status = "ok" =>
                 answers[i + 1].frame = frames[ask.from + (i + 1) - 1]
        BY <1>1, <4>1 DEF Owed
      <4> QED
        BY <1>2, <4>2, <4>3, <4>4
    <3> QED
      BY <3>1, <3>2 DEF Owed
  <2> QED
    BY <1>5, <1>8, <2>3, <2>4, <2>5 DEF Verdicts, Asking
<1>9. CASE /\ ask.from = ask.to /\ unsupported /\ pc' = "send"
           /\ ask' = [from |-> 1, to |-> 1, single |-> TRUE, unsupported |-> FALSE]
  <2>1. ask'.from = 1 /\ ask'.to = 1 /\ ask'.single = TRUE /\ ask'.unsupported = FALSE
    BY <1>9
  <2>2. Asked'
    BY <1>2, <1>3, <1>4, <2>1 DEF Asked
  <2>3. 1..(ask'.from - 1) = {}
    BY <2>1
  <2>4. Progress'
    BY <2>3 DEF Progress
  <2> QED
    BY <1>5, <1>9, <2>2, <2>4 DEF Verdicts, Asking
<1>10. CASE /\ ask.from = ask.to /\ ~unsupported /\ ask.single /\ ask.to < Len(frames)
            /\ pc' = "send"
            /\ ask' = [from |-> ask.to + 1, to |-> ask.to + 1, single |-> TRUE,
                       unsupported |-> FALSE]
  <2>1. /\ ask'.from = ask.from + 1 /\ ask'.to = ask.from + 1
        /\ ask'.single = TRUE /\ ask'.unsupported = FALSE
    BY <1>10
  <2>2. Asked'
    BY <1>2, <1>3, <1>4, <1>10, <2>1 DEF Asked
  <2>3. ask'.from - 1 = ask.from
    BY <1>3, <2>1
  <2>4. Progress'
    BY <1>2, <1>7, <1>10, <2>3 DEF Progress
  <2> QED
    BY <1>5, <1>10, <2>2, <2>4 DEF Verdicts, Asking
<1>11. CASE ask.from = ask.to /\ ~unsupported /\ ask.to = Len(frames) /\ pc' = "done"
  <2>1. \A j \in 1..Len(frames) : results'[j] = frames[j]
    BY <1>7, <1>11
  <2>2. results' \in Seq(0..MaxFrames) /\ Len(results') = Len(frames)
    BY <1>2, <1>3
  <2>3. results' = frames
    BY <1>3, <2>1, <2>2
  <2> QED
    BY <1>2, <1>5, <1>11, <2>3 DEF Verdicts, Asking
<1> QED
  BY <1>8, <1>9, <1>10, <1>11, NextRequest

\* What the helper has written, all of it or the part before it died.
LEMMA Served ==
    ASSUME TypeOK, Verdicts, HelperServes
    PROVE  /\ pc = "receive" /\ helper' \in {"serving", "dead"}
           /\ UNCHANGED <<batches, endpoint, batchable, pc, call, failed, gaveUp>>
           /\ answers' \in Seq(AnswerKind)
           /\ Owed'
<1>1. PICK status \in Statuses : \E n \in 0..Len(Requested) :
        /\ answers' = SubSeq(Classified(status), 1, n)
        /\ helper' = IF n = Len(Requested) THEN "serving" ELSE "dead"
  BY DEF HelperServes
<1>2. PICK n \in 0..Len(Requested) :
        /\ answers' = SubSeq(Classified(status), 1, n)
        /\ helper' = IF n = Len(Requested) THEN "serving" ELSE "dead"
  BY <1>1
<1>3. /\ pc = "receive" /\ ask.from <= ask.to
      /\ UNCHANGED <<batches, endpoint, batchable, pc, call, failed, gaveUp>>
  BY DEF HelperServes
<1>4. Asked
  BY <1>3 DEF Verdicts, Asking
<1>5. /\ ask.from \in Nat /\ ask.to \in Nat /\ ask.from >= 1 /\ ask.to <= Len(frames)
      /\ frames \in Seq(1..MaxFrames) /\ Len(frames) \in Nat
  BY <1>4, InferenceAssumption DEF TypeOK, Asked
<1>6. PICK m : m = ask.to + 1 - ask.from
  OBVIOUS
<1>7. m \in Nat
  BY <1>3, <1>5, <1>6
<1>8. Requested = [i \in 1..m |-> frames[ask.from + i - 1]]
  BY <1>6 DEF Requested
<1>9. \A i \in 1..m : frames[ask.from + i - 1] \in 1..MaxFrames
  <2> SUFFICES ASSUME NEW i \in 1..m PROVE frames[ask.from + i - 1] \in 1..MaxFrames
    OBVIOUS
  <2>1. PICK k : k = ask.from + i - 1
    OBVIOUS
  <2>2. k \in 1..Len(frames)
    BY <1>5, <1>6, <1>7, <2>1
  <2>3. frames[k] \in 1..MaxFrames
    BY <1>5, <2>2, ElementOfSeq
  <2> QED
    BY <2>1, <2>3
<1>10. Len(Requested) = m
  BY <1>7, <1>8
<1>11. status \in {"ok", "failed", "unsupported"}
  BY DEF Statuses
<1>12. Classified(status) = [i \in 1..m |-> Answer(status, IF status = "ok" THEN Requested[i] ELSE Zero)]
  BY <1>10 DEF Classified, Indices
<1>13. \A i \in 1..m : Answer(status, IF status = "ok" THEN Requested[i] ELSE Zero) \in AnswerKind
  <2> SUFFICES ASSUME NEW i \in 1..m
               PROVE  Answer(status, IF status = "ok" THEN Requested[i] ELSE Zero) \in AnswerKind
    OBVIOUS
  <2>1. Requested[i] \in 0..MaxFrames /\ Zero \in 0..MaxFrames
    BY <1>8, <1>9, InferenceAssumption DEF Zero
  <2> QED
    BY <1>11, <2>1 DEF Answer, AnswerKind, AnswerStatuses
<1>14. Classified(status) \in Seq(AnswerKind) /\ Len(Classified(status)) = m
  BY <1>7, <1>12, <1>13
<1>15. n \in Nat /\ n <= m
  BY <1>7, <1>10
<1>16. /\ answers' \in Seq(AnswerKind) /\ Len(answers') = n
       /\ \A i \in 1..n : answers'[i] = Classified(status)[i]
  BY <1>2, <1>7, <1>14, <1>15
<1>17. Owed'
  <2>1. ask' = ask /\ frames' = frames
    BY <1>3 DEF call
  <2>2. Len(answers') <= ask.to + 1 - ask.from
    BY <1>6, <1>15, <1>16
  <2>3. ASSUME NEW i \in 1..Len(answers')
        PROVE  /\ answers'[i].status # "ready"
               /\ answers'[i].status = "ok" => answers'[i].frame = frames[ask.from + i - 1]
    <3>1. i \in 1..m /\ i \in 1..n
      BY <1>7, <1>15, <1>16
    <3>2. answers'[i] = Answer(status, IF status = "ok" THEN Requested[i] ELSE Zero)
      BY <1>12, <1>16, <3>1
    <3>3. Requested[i] = frames[ask.from + i - 1]
      BY <1>8, <3>1
    <3> QED
      BY <1>11, <3>2, <3>3 DEF Answer
  <2> QED
    BY <2>1, <2>2, <2>3 DEF Owed
<1> QED
  BY <1>2, <1>3, <1>16, <1>17

LEMMA VerdictsStep ==
    ASSUME TypeOK, Chain, Helper, Pipe, Verdicts, Steps
    PROVE  Verdicts'
<1>0. Len(frames) \in Nat /\ frames \in Seq(1..MaxFrames)
  BY DEF TypeOK
<1>1. CASE GivesUp
  BY <1>1, GivingUp DEF Verdicts, Asking
<1>2. CASE Launched
  BY <1>2 DEF Launched, Spawn, call, Verdicts, Asking
<1>3. CASE HostIsUp
  <2>1. frames' = frames /\ ask' = WholeBatch(frames) /\ pc' = Resumed("send")
    BY <1>3 DEF HostIsUp
  <2>2. CASE frames = <<>>
    BY <2>1, <2>2 DEF Resumed, Verdicts, Asking
  <2>3. CASE frames # <<>>
    <3>1. Len(frames') > 0 /\ Len(frames') \in Nat
      BY <1>0, <2>1, <2>3
    <3>2. Asked' /\ Progress'
      BY <2>1, <3>1, AskedAnew
    <3> QED
      BY <2>1, <2>3, <3>2 DEF Resumed, Verdicts, Asking
  <2> QED
    BY <2>2, <2>3
<1>4. CASE CreateCpu
  <2>1. frames' = frames /\ results' = results
        /\ (pc' \in {"cpu", "gone", "failed"} \/ (pc' = "idle" /\ frames = <<>>))
    BY <1>4 DEF CreateCpu, Resumed, call
  <2> QED
    BY <2>1 DEF Verdicts, Asking
<1>5. CASE Stop
  BY <1>5 DEF Stop, Verdicts, Asking, call
<1>6. ASSUME NEW n \in 1..BatchSize, Call(n)
      PROVE  Verdicts'
  <2>1. /\ frames' = [i \in 1..n |-> taken + i] /\ ask' = WholeBatch(frames')
        /\ pc' \in {"send", "cpu", "failed"}
    BY <1>6 DEF Call
  <2>2. n \in Nat /\ n > 0 /\ n <= BatchSize
    BY InferenceAssumption
  <2>3. Len(frames') = n
    BY <2>1, <2>2
  <2>4. Asked' /\ Progress'
    BY <2>1, <2>2, <2>3, AskedAnew
  <2> QED
    BY <2>1, <2>2, <2>3, <2>4 DEF Verdicts, Asking
<1>7. CASE Sent
  <2>1. pc = "send" /\ pc' = "receive" /\ UNCHANGED <<call, answers>>
    BY <1>7 DEF Sent, Send, host
  <2>2. answers' = <<>>
    BY <2>1 DEF Pipe, Waiting
  <2>3. Asked /\ Progress
    BY <2>1 DEF Verdicts, Asking
  <2>4. Asked' /\ Progress'
    BY <2>1, <2>3 DEF Asked, Progress, call
  <2>5. ask'.to + 1 - ask'.from >= 0
    <3>1. ask.from \in Nat /\ ask.to \in Nat
      BY InferenceAssumption DEF TypeOK
    <3> QED
      BY <2>1, <2>3, <3>1 DEF Asked, call
  <2>6. Len(answers') = 0
    BY <2>2
  <2>7. Owed'
    BY <2>5, <2>6 DEF Owed
  <2> QED
    BY <2>1, <2>4, <2>7 DEF Verdicts, Asking, call
<1>8. CASE Read
  BY <1>8, VerdictsAsRead
<1>9. CASE ClassifyCpu
  BY <1>9 DEF ClassifyCpu, Verdicts, Asking
<1>10. CASE Publish
  <2>1. pc' = "idle" /\ frames' = <<>>
    BY <1>10 DEF Publish
  <2>2. Len(frames') <= BatchSize
    BY <2>1, InferenceAssumption
  <2> QED
    BY <2>1, <2>2 DEF Verdicts, Asking
<1>11. CASE HelperReady
  <2>1. pc' = "handshake" /\ UNCHANGED call
    BY <1>11 DEF HelperReady, Helper
  <2> QED
    BY <2>1 DEF Verdicts, Asking, call
<1>12. CASE HelperServes
  <2>1. pc = "receive" /\ pc' = pc /\ UNCHANGED call /\ Owed'
    BY <1>12, Served
  <2>2. Asked /\ Progress
    BY <2>1 DEF Verdicts, Asking
  <2>3. Asked' /\ Progress'
    BY <2>1, <2>2 DEF Asked, Progress, call
  <2> QED
    BY <2>1, <2>3 DEF Verdicts, Asking, call
<1>13. CASE HelperDies
  BY <1>13 DEF HelperDies, Verdicts, Asking, Asked, Progress, Owed, call
<1>14. CASE UNCHANGED vars
  BY <1>14 DEF vars, host, call, Verdicts, Asking, Asked, Progress, Owed
<1> QED
  BY <1>1, <1>2, <1>3, <1>4, <1>5, <1>6, <1>7, <1>8, <1>9, <1>10, <1>11, <1>12, <1>13, <1>14
     DEF Steps
-----------------------------------------------------------------------------
(***************************************************************************)
(* Types.                                                                  *)
(***************************************************************************)
LEMMA AskKinds ==
    /\ NoRequest \in AskKind
    /\ \A s : Len(s) \in 0..BatchSize => WholeBatch(s) \in AskKind
<1>1. NoRequest \in AskKind
  BY InferenceAssumption DEF NoRequest, Request, AskKind
<1>2. ASSUME NEW s, Len(s) \in 0..BatchSize
      PROVE  WholeBatch(s) \in AskKind
  BY <1>2, InferenceAssumption DEF WholeBatch, Request, AskKind
<1> QED
  BY <1>1, <1>2

LEMMA TypesStep ==
    ASSUME TypeOK, Chain, Helper, Verdicts, Steps
    PROVE  TypeOK'
<1>0. /\ BatchSize \in Nat /\ BatchSize >= 1 /\ MaxFrames \in Nat
      /\ frames \in Seq(1..MaxFrames) /\ Len(frames) \in 0..BatchSize
  BY InferenceAssumption DEF TypeOK, Verdicts
<1>1. CASE GivesUp
  <2>1. /\ helper' = "none" /\ answers' = <<>> /\ gaveUp' \subseteq AllThree
        /\ endpoint' \in {"dml", "cpu"} /\ pc' \in {"spawn", "create"}
        /\ UNCHANGED <<batches, batchable, taken, frames, results, ask, failed>>
    BY <1>1, GivingUp
  <2> QED
    BY <2>1 DEF TypeOK, Hosts, AllThree
<1>2. CASE Launched
  BY <1>2 DEF Launched, Spawn, FallBack, call, TypeOK
<1>3. CASE HostIsUp
  <2>1. answers' = Tail(answers) /\ answers # <<>>
    BY <1>3 DEF HostIsUp
  <2>2. answers' \in Seq([status : {"ready", "ok", "failed", "unsupported"}, frame : 0..MaxFrames])
    BY <2>1 DEF TypeOK
  <2>3. ask' = WholeBatch(frames)
    BY <1>3 DEF HostIsUp
  <2>4. ask' \in AskKind
    BY <1>0, <2>3, AskKinds
  <2> QED
    BY <1>3, <2>2, <2>4 DEF HostIsUp, Resumed, TypeOK, AskKind
<1>4. CASE CreateCpu
  BY <1>4 DEF CreateCpu, Resumed, call, host, TypeOK
<1>5. CASE Stop
  BY <1>5 DEF Stop, StopHost, call, TypeOK
<1>6. ASSUME NEW n \in 1..BatchSize, Call(n)
      PROVE  TypeOK'
  <2>1. /\ taken + n <= MaxFrames /\ taken' = taken + n
        /\ frames' = [i \in 1..n |-> taken + i] /\ results' = [i \in 1..n |-> Zero]
        /\ ask' = WholeBatch(frames') /\ pc' \in {"send", "cpu", "failed"}
        /\ UNCHANGED <<batches, endpoint, batchable, host, failed, gaveUp>>
    BY <1>6 DEF Call
  <2>2. n \in Nat /\ n >= 1 /\ n <= BatchSize /\ taken \in Nat
    BY <1>0 DEF TypeOK
  <2>3. taken' \in 0..MaxFrames
    BY <1>0, <2>1, <2>2
  <2>4. frames' \in Seq(1..MaxFrames) /\ Len(frames') = n
    <3>1. \A i \in 1..n : taken + i \in 1..MaxFrames
      BY <1>0, <2>1, <2>2
    <3> QED
      BY <2>1, <2>2, <3>1
  <2>5. results' \in Seq(0..MaxFrames) /\ Len(results') = n
    <3>1. Zero \in 0..MaxFrames
      BY <1>0 DEF Zero
    <3> QED
      BY <2>1, <2>2, <3>1
  <2>6. ask' \in AskKind
    BY <1>0, <2>1, <2>2, <2>4, AskKinds
  <2>7. Len(results') = Len(frames')
    BY <2>4, <2>5
  <2>8. UNCHANGED <<batches, endpoint, batchable, helper, answers, failed, gaveUp>>
    BY <2>1 DEF host
  <2>9. pc' \in {"send", "cpu", "failed"}
    BY <2>1
  <2> QED
    BY <2>3, <2>4, <2>5, <2>6, <2>7, <2>8, <2>9 DEF TypeOK, AskKind
<1>7. CASE Sent
  BY <1>7 DEF Sent, Send, FallBack, call, host, TypeOK
<1>8. CASE Read
  <2>1. /\ UNCHANGED <<batches, taken, frames, failed, helper, endpoint, gaveUp>>
        /\ answers' \in Seq(AnswerKind)
        /\ results' \in Seq(0..MaxFrames) /\ Len(results') = Len(results)
    BY <1>8, ReadEffect
  <2>2. pc' \in {"send", "receive", "done"} /\ batchable' \in BOOLEAN
    <3>1. batchable \in BOOLEAN
      BY DEF TypeOK
    <3> QED
      BY <1>8, <3>1, NextRequest
  <2>3. ask' \in AskKind
    <3>1. Asked
      BY <1>8, NextAnswer
    <3>2. ask.from \in Nat /\ ask.from >= 1 /\ ask.to \in Nat /\ ask.to <= BatchSize
          /\ ask.single \in BOOLEAN /\ ask.unsupported \in BOOLEAN /\ ask.from <= ask.to
      BY <1>0, <3>1 DEF Asked, TypeOK
    <3>3. Len(frames) \in Nat /\ Len(frames) <= BatchSize
      BY <1>0
    <3>4. PICK unsupported \in BOOLEAN :
             unsupported = (ask.unsupported \/ Head(answers).status = "unsupported")
      OBVIOUS
    <3>5. \/ /\ ask.from < ask.to
             /\ ask' = [from |-> ask.from + 1, to |-> ask.to, single |-> ask.single,
                        unsupported |-> unsupported]
          \/ ask' = [from |-> 1, to |-> 1, single |-> TRUE, unsupported |-> FALSE]
          \/ /\ ask.to < Len(frames)
             /\ ask' = [from |-> ask.to + 1, to |-> ask.to + 1, single |-> TRUE,
                        unsupported |-> FALSE]
          \/ /\ ask.from = ask.to
             /\ ask' = [from |-> ask.from + 1, to |-> ask.to, single |-> ask.single,
                        unsupported |-> unsupported]
      BY <1>8, <3>4, NextRequest
    <3>6. PICK single \in BOOLEAN : single = ask.single
      BY <3>2
    <3>7. ASSUME NEW a \in 1..(BatchSize + 1), NEW b \in 0..BatchSize, NEW c \in BOOLEAN,
                 NEW d \in BOOLEAN,
                 ask' = [from |-> a, to |-> b, single |-> c, unsupported |-> d]
          PROVE  ask' \in AskKind
      BY <3>7 DEF AskKind
    <3>8. ask.from + 1 \in 1..(BatchSize + 1) /\ ask.to \in 0..BatchSize
          /\ 1 \in 1..(BatchSize + 1) /\ 1 \in 0..BatchSize
      BY <1>0, <3>2
    <3>9. ask.to < Len(frames) => ask.to + 1 \in 1..(BatchSize + 1) /\ ask.to + 1 \in 0..BatchSize
      BY <1>0, <3>2, <3>3
    <3> QED
      BY <3>5, <3>6, <3>7, <3>8, <3>9
  <2> QED
    BY <2>1, <2>2, <2>3 DEF TypeOK, AskKind, AnswerKind, AnswerStatuses
<1>9. CASE ClassifyCpu
  <2>1. results' = frames \/ results' = results
    BY <1>9 DEF ClassifyCpu
  <2>2. results' \in Seq(0..MaxFrames) /\ Len(results') = Len(frames)
    BY <1>0, <2>1 DEF TypeOK
  <2> QED
    BY <1>9, <2>2 DEF ClassifyCpu, host, TypeOK
<1>10. CASE Publish
  <2>1. ask' \in AskKind
    BY <1>10, AskKinds DEF Publish
  <2> QED
    BY <1>10, <2>1 DEF Publish, host, TypeOK, AskKind
<1>11. CASE HelperReady
  <2>1. Ready \in AnswerKind
    BY <1>0 DEF Ready, Answer, Zero, AnswerKind, AnswerStatuses
  <2>2. answers \in Seq(AnswerKind)
    BY DEF TypeOK, AnswerKind, AnswerStatuses
  <2>3. answers' \in Seq(AnswerKind)
    BY <1>11, <2>1, <2>2 DEF HelperReady
  <2> QED
    BY <1>11, <2>3 DEF HelperReady, call, TypeOK, AnswerKind, AnswerStatuses
<1>12. CASE HelperServes
  <2>1. /\ helper' \in {"serving", "dead"} /\ answers' \in Seq(AnswerKind)
        /\ UNCHANGED <<batches, endpoint, batchable, pc, call, failed, gaveUp>>
    BY <1>12, Served
  <2> QED
    BY <2>1 DEF call, TypeOK, AnswerKind, AnswerStatuses
<1>13. CASE HelperDies
  BY <1>13 DEF HelperDies, call, TypeOK
<1>14. CASE UNCHANGED vars
  BY <1>14 DEF vars, host, call, TypeOK
<1> QED
  BY <1>1, <1>2, <1>3, <1>4, <1>5, <1>6, <1>7, <1>8, <1>9, <1>10, <1>11, <1>12, <1>13, <1>14
     DEF Steps
-----------------------------------------------------------------------------
(***************************************************************************)
(* The invariant, and what it says of the worker.                          *)
(***************************************************************************)
LEMMA HostInit == Init => HostInv
<1> SUFFICES ASSUME Init PROVE HostInv
  OBVIOUS
<1>0. ask \in AskKind
  BY AskKinds DEF Init
<1>1. TypeOK
  <2>1. ask \in [from : 1..(BatchSize + 1), to : 0..BatchSize, single : BOOLEAN,
                unsupported : BOOLEAN]
    BY <1>0 DEF AskKind
  <2>2. frames = <<>> /\ results = <<>> /\ answers = <<>> /\ taken \in 0..MaxFrames
    BY InferenceAssumption DEF Init
  <2>3. /\ batches \in BOOLEAN /\ batchable \in BOOLEAN /\ failed \in BOOLEAN
        /\ endpoint = "cuda" /\ pc = "spawn" /\ helper = "none" /\ gaveUp = {}
    BY DEF Init
  <2> QED
    BY <2>1, <2>2, <2>3 DEF TypeOK, Hosts
<1>2. Len(frames) = 0
  BY DEF Init
<1>3. Verdicts
  BY <1>2, InferenceAssumption DEF Init, Verdicts, Asking
<1> QED
  BY <1>1, <1>3 DEF Init, HostInv, Chain, Hosts, Helper, Pipe, Waiting

LEMMA HostSafety == Spec => []HostInv
<1>1. HostInv /\ [Next]_vars => HostInv'
  BY NextIsSteps, TypesStep, ChainStep, HelperStaysUsed, PipeStep, VerdictsStep DEF HostInv
<1> QED
  BY HostInit, <1>1, PTL DEF Spec

(***************************************************************************)
(* nsfw_cuda_host.c:227-246 and nsfw_filter_worker.c:176-240: whatever     *)
(* helpers die, and wherever in their answers, a call that succeeds has    *)
(* for each frame the verdict that was computed from it, for every batch   *)
(* size.                                                                   *)
(***************************************************************************)
THEOREM VerdictsBelong == Spec => []VerdictsAreTheFrames
<1>1. HostInv => VerdictsAreTheFrames
  BY DEF HostInv, Verdicts, VerdictsAreTheFrames
<1> QED
  BY HostSafety, <1>1, PTL

(***************************************************************************)
(* README.md:157-158 and nsfw_filter_worker.c:201-238: a call fails, and   *)
(* its frames are blocked, only after CUDA, DirectML and the CPU detector  *)
(* have each failed.                                                       *)
(***************************************************************************)
THEOREM BlockingIsTheLastResort == Spec => []BlocksOnlyWhenAllFail
<1>1. HostInv => BlocksOnlyWhenAllFail
  BY DEF HostInv, Chain, AllThree, BlocksOnlyWhenAllFail
<1> QED
  BY HostSafety, <1>1, PTL

(***************************************************************************)
(* nsfw_cuda_host_stop, nsfw_cuda_host.c:249-267, on every way out: a      *)
(* helper process is there only while its endpoint is in use.              *)
(***************************************************************************)
THEOREM HelpersEnd == Spec => []NoHelperLeftBehind
<1>1. HostInv => NoHelperLeftBehind
  BY DEF HostInv, Helper, NoHelperLeftBehind
<1> QED
  BY HostSafety, <1>1, PTL
=============================================================================
