------------------------- MODULE CmdLinkAccess_proofs -------------------------
(***************************************************************************)
(* CmdLink implements DeviceAccess, and what a call returns is what         *)
(* happened, for the functions that read every response they posted a      *)
(* request for, on every constant.                                          *)
(*                                                                          *)
(* LinkInv says where both ends are in both streams, not what the answers   *)
(* said.  AnswerInv adds that: final_rc is the verdict of the answers the   *)
(* call has acknowledged, and once it has returned its result is theirs.    *)
(***************************************************************************)
EXTENDS CmdLink_proofs

(* The first n answers report no failure of the call in progress.           *)
AllOk(n) == \A j \in 1..n : reqs[j].call = calls => resps[j].status = "ok"

AnswerInv ==
    /\ \A i \in 1..Len(reqs) : reqs[i].call <= calls
    /\ link # "dead" /\ pc # "idle" =>
         (final = "err" => Failed) /\ (final = "ok" => AllOk(Acked))
    /\ link # "dead" /\ pc = "idle" /\ calls > 0 /\ op.kind # "write" =>
         (rc = "err" => Failed) /\ (rc = "ok" => ~Failed /\ toSend = 0)

AInv == IInv /\ Drains /\ AnswerInv

-----------------------------------------------------------------------------
(* Answer number j is the answer to request number j.                       *)
LEMMA FailedIs ==
    ASSUME RespsInv
    PROVE  Failed <=> \E j \in 1..Len(resps) : /\ j \in 1..Len(reqs)
                                               /\ reqs[j].call = calls
                                               /\ resps[j].status = "err"
BY DEF RespsInv, Failed, OfCall

LEMMA FailedIsNext ==
    ASSUME RespsInv'
    PROVE  Failed' <=> \E j \in 1..Len(resps') : /\ j \in 1..Len(reqs')
                                                 /\ reqs'[j].call = calls'
                                                 /\ resps'[j].status = "err"
BY DEF RespsInv, Failed, OfCall

(* With every answer acknowledged, AllOk is the negation of Failed.         *)
LEMMA AllOkFailed ==
    ASSUME TypeOK, RespsInv, AllOk(Len(resps))
    PROVE  ~Failed
BY FailedIs DEF AllOk

(* Between calls both streams are at rest: every request was answered.      *)
LEMMA AtRest ==
    ASSUME IInv, pc = "idle", link # "dead"
    PROVE  /\ Len(resps) = Len(reqs) /\ taken = Len(reqs) /\ Acked = Len(reqs)
           /\ sv = "start" /\ Pending = 0 /\ Arrived = 0
<1>1. TypeOK /\ RespsInv /\ StreamInv
  BY DEF IInv, LinkInv
<1>2. taken = Len(reqs) /\ taken <= Len(resps) /\ Len(resps) <= Len(reqs)
  BY <1>1 DEF StreamInv, RespsInv
<1>3. Len(resps) = Len(reqs)
  BY <1>1, <1>2, LengthType
<1>4. sv = "start" /\ Pending = 0 /\ Arrived = 0
  BY IdleIsClean DEF CleanReturn
<1> QED BY <1>2, <1>3, <1>4 DEF Acked

(* A step that changes none of what the mapping looks at is a stutter.      *)
LEMMA Unseen ==
    ASSUME Unexecuted' = Unexecuted, (pc' = "idle") <=> (pc = "idle"),
           pc # "idle" => (Failed' <=> Failed),
           op' = op, (link' = "dead") <=> (link = "dead"), rc' = rc
    PROVE  UNCHANGED Access!vars
<1>1. (pc # "idle")' = (pc # "idle")
  OBVIOUS
<1>2. (pc # "idle" /\ Failed)' = (pc # "idle" /\ Failed)
  OBVIOUS
<1>3. (link = "dead")' = (link = "dead")
  OBVIOUS
<1>4. (op.kind = "write")' = (op.kind = "write")
  OBVIOUS
<1> QED BY <1>1, <1>2, <1>3, <1>4 DEF Access!vars

-----------------------------------------------------------------------------
(* One answer dealt with.                                                   *)

(* What Advance does to the verdict and the result.                         *)
LEMMA AdvanceEffect ==
    ASSUME NEW f, NEW left, Advance(f, left)
    PROVE  /\ final' = f /\ toSend' = toSend /\ pc' # "payload"
           /\ pc' # "idle" => rc' = rc
           /\ pc' = "idle" => rc' = IF op.kind = "write" THEN "ok" ELSE f
           /\ pc' = "idle" /\ f = "ok" => toSend = 0
BY DEF Advance

(* A response that reports a failure to the call in progress.               *)
LEMMA RefusedFails ==
    ASSUME IInv, pc # "idle", NEW a \in 1..Len(resps), a = Acked + 1, resps[a].status # "ok"
    PROVE  Failed
<1>1. TypeOK /\ RespsInv /\ CallInv /\ StreamInv
  BY Alive
<1>2. a \in 1..Len(reqs) /\ resps[a].status = "err"
  BY <1>1, LengthType, ResponseType DEF RespsInv
<1>3. a \in (Acked + 1)..Len(reqs)
  BY <1>1, <1>2, LengthType
<1>4. reqs[a].call = calls
  BY <1>1, <1>3 DEF CallInv
<1> QED BY <1>1, <1>2, <1>4, FailedIs

LEMMA OneMoreOk ==
    ASSUME AllOk(Acked), Acked \in Nat, NEW a, a = Acked + 1, resps[a].status = "ok"
    PROVE  AllOk(a)
BY DEF AllOk

(* What the client's receiving steps do: f is the verdict on the answers    *)
(* acknowledged when the step is over.                                      *)
Judged(f) ==
    /\ f = "err" => Failed
    /\ f = "ok" => AllOk(Acked')
    /\ pc' # "idle" => final' = f /\ rc' = rc
    /\ pc' = "idle" => /\ rc' = IF op.kind = "write" THEN "ok" ELSE f
                       /\ f = "ok" => toSend = 0
    /\ UNCHANGED <<calls, op, reqs, resps, toSend, link>>

LEMMA AckedType ==
    ASSUME IInv, pc # "idle"
    PROVE  Acked \in Nat /\ taken \in Nat /\ (pc # "payload" => Acked = taken)
                 /\ (pc = "payload" => taken = Acked + 1)
<1>1. TypeOK /\ StreamInv
  BY Alive
<1> QED BY <1>1, ScalarType DEF Acked, StreamInv

LEMMA VerdictType ==
    ASSUME AInv, pc # "idle"
    PROVE  /\ final \in {"ok", "err"}
           /\ final = "err" => Failed
           /\ final = "ok" => AllOk(Acked)
BY Alive DEF AInv, AnswerInv, TypeOK

LEMMA RecvHeaderJudged ==
    ASSUME AInv, RecvHeader
    PROVE  \E f \in {"ok", "err"} : Judged(f)
<1>1. pc = "recv" /\ Arrived > 0 /\ IInv
  BY DEF RecvHeader, AInv
<1>2. TypeOK /\ RespsInv /\ CallInv /\ StreamInv
  BY <1>1, Alive
<1>3. Acked = taken /\ taken \in Nat /\ got \in Nat /\ got < HdrLen
  BY <1>1, <1>2, AckedType, ScalarType DEF StreamInv
<1>4. PICK a \in Nat : a = taken + 1
  BY <1>3
<1>5. a \in 1..Len(resps) /\ {j \in 1..Len(resps) : resps[j].start = dnHead - got} = {a}
  BY <1>1, <1>4, NextResponse
<1>6. UNCHANGED <<calls, op, reqs, resps, link>>
  BY DEF RecvHeader, call, up
<1>7. \/ UNCHANGED <<pc, toSend, final, taken, rc>>
      \/ taken' = a /\ Ack(resps[a])
  BY <1>5 DEF RecvHeader
<1>8. CASE UNCHANGED <<pc, toSend, final, taken, rc>>
  <2>1. Acked' = Acked /\ Judged(final)
    BY <1>1, <1>6, <1>8, VerdictType DEF Judged, Acked
  <2> QED BY <1>1, <2>1, VerdictType
<1>9. CASE taken' = a /\ Ack(resps[a])
  <2>1. a = Acked + 1 /\ a \in 1..Len(reqs) /\ Chunk = reqs[a].ops
    BY <1>1, <1>3, <1>4, Outstanding
  <2>2. resps[a].status \in {"ok", "err"} /\ (resps[a].status = "ok" => resps[a].ops = Chunk)
    BY <1>2, <1>5, <2>1, ResponseType DEF RespsInv
  <2>3. resps[a].status # "ok" => Failed
    BY <1>1, <1>5, <2>1, RefusedFails
  <2>4. resps[a].status = "ok" /\ final = "ok" => AllOk(a)
    BY <1>1, <1>3, <2>1, VerdictType, OneMoreOk
  <2>5. op.kind \in DrainingKinds /\ (op.kind \in SingleKinds => final = "ok")
    BY <1>1, <1>2 DEF AInv, Drains, CallInv
  <2>6. \A f \in {"ok", "err"} : Advance(f, toRecv - Chunk) => Acked' = a
    BY <1>9, AdvanceEffect DEF Acked
  <2>7. CASE op.kind = "write"
    <3>1. WriteAck(resps[a])
      BY <1>9, <2>7 DEF Ack, SingleKinds, ReadKinds
    <3> DEFINE f == IF final # "ok" \/ Bad(resps[a]) THEN "err" ELSE "ok"
    <3>2. f \in {"ok", "err"} /\ Advance(f, toRecv - Chunk)
      BY <3>1 DEF WriteAck
    <3>3. f = "err" => Failed
      BY <1>1, <2>2, <2>3, VerdictType DEF Bad
    <3>4. f = "ok" => AllOk(a)
      BY <2>4 DEF Bad
    <3>5. Acked' = a
      BY <2>6, <3>2
    <3> HIDE DEF f
    <3>6. Judged(f)
      BY <1>6, <2>7, <3>2, <3>3, <3>4, <3>5, AdvanceEffect DEF Judged
    <3> QED BY <3>2, <3>6
  <2>8. CASE op.kind \in SingleKinds
    <3>1. SingleAck(resps[a]) /\ op.kind # "write"
      BY <1>9, <2>8 DEF Ack, SingleKinds, ReadKinds
    <3>2. CASE resps[a].status # "ok" /\ Return("err")
      <4>1. Judged("err")
        BY <1>6, <2>3, <3>1, <3>2 DEF Judged, Return
      <4> QED BY <4>1
    <3>3. CASE resps[a].status = "ok" /\ Advance("ok", toRecv - Chunk)
      <4>1. AllOk(a) /\ Acked' = a
        BY <2>4, <2>5, <2>6, <2>8, <3>3
      <4>2. Judged("ok")
        BY <1>6, <3>1, <3>3, <4>1, AdvanceEffect DEF Judged
      <4> QED BY <4>2
    <3> QED BY <3>1, <3>2, <3>3 DEF SingleAck
  <2>9. CASE op.kind = "read"
    <3>1. ReadAck(resps[a])
      BY <1>9, <2>9 DEF Ack, SingleKinds, ReadKinds
    <3>2. CASE resps[a].status # "ok" /\ Advance("err", toRecv - Chunk)
      <4>1. Judged("err")
        BY <1>6, <2>3, <2>9, <3>2, AdvanceEffect DEF Judged
      <4> QED BY <4>1
    <3>3. CASE pc' = "payload" /\ UNCHANGED <<toSend, final, rc>>
      <4>1. Acked' = Acked
        BY <1>3, <1>4, <1>9, <3>3 DEF Acked
      <4>2. Judged(final)
        BY <1>1, <1>6, <3>3, <4>1, VerdictType DEF Judged
      <4> QED BY <1>1, <4>2, VerdictType
    <3> QED BY <2>2, <3>1, <3>2, <3>3 DEF ReadAck
  <2> QED BY <2>5, <2>7, <2>8, <2>9 DEF DrainingKinds, SingleKinds
<1> QED BY <1>7, <1>8, <1>9

LEMMA RecvPayloadJudged ==
    ASSUME AInv, RecvPayload
    PROVE  \E f \in {"ok", "err"} : Judged(f)
<1>1. pc = "payload" /\ IInv
  BY DEF RecvPayload, AInv
<1>2. /\ taken = Acked + 1 /\ Acked \in Nat
      /\ taken \in 1..Len(resps) /\ resps[taken].status = "ok" /\ op.kind = "read"
  <2>1. TypeOK /\ StreamInv
    BY <1>1, Alive
  <2>2. taken > 0 /\ taken <= Len(resps) /\ resps[taken].status = "ok" /\ op.kind = "read"
    BY <1>1, <2>1 DEF StreamInv, AInv, Drains, DrainingKinds, ReadKinds
  <2> QED BY <1>1, <2>1, <2>2, AckedType, LengthType
<1>3. UNCHANGED <<calls, op, reqs, resps, link>> /\ taken' = taken
  BY DEF RecvPayload, call, up
<1>4. final \in {"ok", "err"} /\ (final = "err" => Failed) /\ (final = "ok" => AllOk(Acked))
  BY <1>1, VerdictType
<1>5. CASE UNCHANGED <<pc, toSend, final, rc>>
  <2>1. Acked' = Acked
    BY <1>3, <1>5 DEF Acked
  <2>2. Judged(final)
    BY <1>1, <1>3, <1>4, <1>5, <2>1 DEF Judged
  <2> QED BY <1>4, <2>2
<1>6. CASE Advance(final, toRecv - Chunk)
  <2>1. Acked' = taken
    BY <1>3, <1>6, AdvanceEffect DEF Acked
  <2>2. final = "ok" => AllOk(taken)
    BY <1>2, <1>4, OneMoreOk
  <2>3. Judged(final)
    BY <1>2, <1>3, <1>4, <1>6, <2>1, <2>2, AdvanceEffect DEF Judged
  <2> QED BY <1>4, <2>3
<1> QED BY <1>5, <1>6 DEF RecvPayload

-----------------------------------------------------------------------------
(* Each step keeps AnswerInv, and is a step of DeviceAccess or a stutter.   *)

LEMMA AliveParts ==
    ASSUME IInv, link # "dead"
    PROVE  TypeOK /\ ReqsInv /\ RespsInv /\ ServerInv /\ StreamInv /\ CallInv
BY DEF IInv, LinkInv

LEMMA AlivePartsNext ==
    ASSUME IInv', link' # "dead"
    PROVE  TypeOK' /\ ReqsInv' /\ RespsInv' /\ ServerInv' /\ StreamInv' /\ CallInv'
BY DEF IInv, LinkInv

(* Steps that give no answer and take none.                                 *)
LEMMA Quiet ==
    ASSUME AInv, IInv', link # "dead", link' # "dead",
           UNCHANGED <<calls, op, final, rc, resps>>, Acked' = Acked,
           (pc' = "idle") <=> (pc = "idle"), pc = "idle" => toSend' = toSend,
           Len(reqs) <= Len(reqs'), \A i \in 1..Len(reqs) : reqs'[i] = reqs[i],
           \A i \in 1..Len(reqs') : reqs'[i].call <= calls',
           Unexecuted' = Unexecuted
    PROVE  AnswerInv' /\ UNCHANGED Access!vars
<1>1. /\ TypeOK /\ TypeOK' /\ RespsInv /\ RespsInv' /\ StreamInv
      /\ Len(reqs) \in Nat /\ Len(resps) \in Nat /\ Len(reqs') \in Nat
  BY AliveParts, AlivePartsNext, LengthType, LengthTypeNext DEF AInv
<1>2. Len(resps) <= Len(reqs)
  BY <1>1 DEF RespsInv
<1>3. \A j \in 1..Len(resps) : j \in 1..Len(reqs) /\ j \in 1..Len(reqs') /\ reqs'[j] = reqs[j]
  BY <1>1, <1>2
<1>4. Failed' <=> Failed
  BY <1>1, <1>3, FailedIs, FailedIsNext
<1>5. AllOk(Acked) /\ pc # "idle" => AllOk(Acked)'
  <2> SUFFICES ASSUME AllOk(Acked), pc # "idle", NEW j \in 1..Acked', reqs'[j].call = calls'
               PROVE  resps'[j].status = "ok"
    BY DEF AllOk
  <2>1. Acked <= Len(resps) /\ Acked \in Nat
    BY <1>1, AckedType DEF StreamInv, AInv, Acked
  <2>2. j \in 1..Len(resps) /\ j \in 1..Acked
    BY <1>1, <2>1
  <2>3. reqs'[j] = reqs[j]
    BY <1>3, <2>2
  <2> QED BY <2>2, <2>3 DEF AllOk
<1>6. AnswerInv'
  BY <1>4, <1>5 DEF AInv, AnswerInv
<1> QED BY <1>4, <1>6, Unseen

LEMMA EncodeAccess ==
    ASSUME AInv, IInv', Encode
    PROVE  AnswerInv' /\ UNCHANGED Access!vars
<1>1. pc = "send" /\ IInv /\ UNCHANGED <<calls, op, pc, toSend, final, taken, rc, resps, link>>
  BY DEF Encode, AInv, call, down
<1>2. /\ link # "dead" /\ TypeOK /\ RespsInv
      /\ Len(reqs) \in Nat /\ Len(resps) \in Nat /\ Len(resps) <= Len(reqs)
  BY <1>1, Alive, LengthType DEF RespsInv
<1>3. PICK r : reqs' = Append(reqs, r) /\ r.call = calls /\ r.before = toSend
  BY DEF Encode
<1>4. /\ Len(reqs') = Len(reqs) + 1 /\ reqs'[Len(reqs) + 1] = r
      /\ \A i \in 1..Len(reqs) : reqs'[i] = reqs[i]
  BY <1>2, <1>3 DEF TypeOK
<1>5. \A i \in 1..Len(reqs') : reqs'[i].call <= calls'
  <2> TAKE i \in 1..Len(reqs')
  <2>1. i \in 1..Len(reqs) \/ i = Len(reqs) + 1
    BY <1>2, <1>4
  <2>2. calls \in Nat
    BY <1>2, ScalarType
  <2> QED BY <1>1, <1>3, <1>4, <2>1, <2>2 DEF AInv, AnswerInv
<1>6. Unexecuted' = Unexecuted
  <2>1. CASE Len(resps) < Len(reqs)
    <3>1. Len(resps) + 1 \in 1..Len(reqs) /\ Len(resps) < Len(reqs')
      BY <1>2, <1>4, <2>1
    <3> QED BY <1>1, <1>4, <2>1, <3>1 DEF Unexecuted
  <2>2. CASE Len(resps) = Len(reqs)
    BY <1>1, <1>2, <1>3, <1>4, <2>2 DEF Unexecuted
  <2> QED BY <1>2, <2>1, <2>2
<1>7. Acked' = Acked
  BY <1>1 DEF Acked
<1> QED BY <1>1, <1>2, <1>4, <1>5, <1>6, <1>7, Quiet

LEMMA TransmitAccess ==
    ASSUME AInv, IInv', Transmit
    PROVE  AnswerInv' /\ UNCHANGED Access!vars
<1>1. /\ pc = "send" /\ pc' \in {"send", "recv"} /\ remaining > 0 /\ IInv
      /\ UNCHANGED <<calls, op, final, taken, rc, reqs, resps, link>>
  BY DEF Transmit, AInv, call, down
<1>2. /\ link # "dead" /\ TypeOK /\ Len(reqs) \in Nat /\ Len(resps) \in Nat
      /\ Len(resps) <= Len(reqs) - 1
  BY <1>1, Alive, LengthType, AnsweredPosted DEF Posted
<1>3. Unexecuted' = Unexecuted
  BY <1>1, <1>2 DEF Unexecuted
<1>4. Acked' = Acked
  BY <1>1 DEF Acked
<1> QED BY <1>1, <1>2, <1>3, <1>4, Quiet DEF AInv, AnswerInv

LEMMA WouldBlockAccess ==
    ASSUME AInv, IInv', WouldBlock
    PROVE  AnswerInv' /\ UNCHANGED Access!vars
<1>1. /\ pc = "send" /\ pc' = "recv" /\ IInv
      /\ UNCHANGED <<calls, op, toSend, final, taken, rc, reqs, resps, link>>
  BY DEF WouldBlock, AInv, call, up, down
<1>2. link # "dead" /\ Len(reqs) \in Nat
  BY <1>1, Alive, LengthType
<1>3. Unexecuted' = Unexecuted /\ Acked' = Acked
  BY <1>1 DEF Unexecuted, Acked
<1> QED BY <1>1, <1>2, <1>3, Quiet DEF AInv, AnswerInv

(* The server's reading and sending, and the loss of its end.               *)
LEMMA SilentAccess ==
    ASSUME AInv, IInv', ReadRequestHeader \/ ReadRequestPayload \/ SendResponse \/ Close
    PROVE  AnswerInv' /\ UNCHANGED Access!vars
<1>1. /\ link = "up" /\ link' \in {"up", "eof", "reset"} /\ IInv
      /\ UNCHANGED <<calls, op, pc, toSend, final, taken, rc, reqs, resps>>
  BY LinkAssumption DEF ReadRequestHeader, ReadRequestPayload, SendResponse, Close, AInv,
                        call, client, up, down
<1>2. Len(reqs) \in Nat
  BY <1>1, ServerAlive, LengthType
<1>3. Unexecuted' = Unexecuted /\ Acked' = Acked
  BY <1>1 DEF Unexecuted, Acked
<1> QED BY <1>1, <1>2, <1>3, Quiet DEF AInv, AnswerInv

(* A call begins with everything it was asked for still to do.              *)
LEMMA BeginAccessStep ==
    ASSUME AInv, IInv', NEW k, NEW n \in 1..MaxOps, NEW most, Begin(k, n, most)
    PROVE  AnswerInv' /\ Access!BeginAccess
<1>1. /\ pc = "idle" /\ pc' = "send" /\ link # "dead" /\ link' = link /\ IInv
      /\ toSend' = n /\ final' = "ok" /\ calls' = calls + 1 /\ rc' = rc
      /\ UNCHANGED <<reqs, resps, taken>>
  BY DEF Begin, AInv, up, down
<1>2. /\ Len(resps) = Len(reqs) /\ Acked = Len(reqs) /\ taken = Len(reqs)
      /\ TypeOK /\ RespsInv' /\ Len(reqs) \in Nat
  BY <1>1, AtRest, AliveParts, AlivePartsNext, LengthType
<1>3. Acked' = Len(reqs)
  BY <1>1, <1>2 DEF Acked
<1>4. \A i \in 1..Len(reqs) : reqs[i].call <= calls' /\ reqs[i].call # calls'
  <2> TAKE i \in 1..Len(reqs)
  <2>1. reqs[i].call <= calls /\ reqs[i].call \in Nat /\ calls \in Nat
    BY <1>2, RequestType, ScalarType DEF AInv, AnswerInv
  <2> QED BY <1>1, <2>1
<1>5. ~Failed'
  BY <1>1, <1>2, <1>4, FailedIsNext
<1>6. AnswerInv'
  BY <1>1, <1>3, <1>4 DEF AnswerInv, AllOk
<1>7. Unexecuted' = n
  BY <1>1, <1>2 DEF Unexecuted
<1>8. (pc # "idle")' = TRUE /\ (pc # "idle" /\ Failed)' = FALSE
  BY <1>1, <1>5
<1>9. Access!BeginAccess
  BY <1>1, <1>7, <1>8 DEF Access!BeginAccess
<1> QED BY <1>6, <1>9

(* A request is executed only when its last unit was sent.                  *)
LEMMA ExecutedWhole ==
    ASSUME IInv, link = "up", sv = "execute", cur = Len(reqs)
    PROVE  remaining = 0
<1>1. TypeOK /\ ReqsInv /\ ServerInv
  BY ServerAlive
<1>2. /\ cur \in Nat /\ remaining \in Nat /\ upTail \in Nat /\ upHead \in Nat
      /\ Len(resps) \in Nat
  BY <1>1, ScalarType, LengthType
<1>3. cur = Len(resps) + 1 /\ cur \in 1..Len(reqs) /\ cur - 1 = Len(resps)
  BY <1>1, <1>2 DEF ServerInv
<1>4. PICK e \in Nat : e = UpEnd(cur)
  BY <1>1, <1>2, <1>3, UpEndType
<1>5. e = reqs[cur].start + ReqLen(reqs[cur]) /\ reqs[cur].start = UpEnd(Len(resps))
  BY <1>1, <1>3, <1>4 DEF UpEnd, ReqsInv
<1>6. upHead = e
  BY <1>1, <1>5 DEF ServerInv
<1>7. upHead <= upTail /\ upTail + remaining = e
  BY <1>1, <1>4 DEF ServerInv, ReqsInv
<1> QED BY <1>2, <1>6, <1>7

(* The device executes or refuses the oldest request not yet answered.      *)
LEMMA ExecuteAccess ==
    ASSUME AInv, IInv', Execute
    PROVE  AnswerInv' /\ Access!ExecutePart
<1>1. /\ link = "up" /\ link' = link /\ sv = "execute" /\ IInv
      /\ UNCHANGED <<calls, op, pc, toSend, remaining, final, taken, rc, reqs>>
  BY DEF Execute, AInv, call, client, up
<1>2. /\ TypeOK /\ ReqsInv /\ RespsInv /\ ServerInv /\ StreamInv /\ CallInv
      /\ TypeOK' /\ ReqsInv' /\ RespsInv' /\ ServerInv'
  BY <1>1, ServerAlive, AlivePartsNext
<1>3. PICK m \in Nat : m = Len(resps)
  BY <1>2, LengthType
<1>4. PICK s, x : s \in {"ok", "err"} /\ resps' = Append(resps, x) /\ x.status = s
  BY DEF Execute
<1>5. /\ Len(resps') = m + 1 /\ resps'[m + 1] = x
      /\ \A j \in 1..m : resps'[j] = resps[j]
  BY <1>2, <1>3, <1>4 DEF TypeOK
<1>6. /\ cur = m + 1 /\ cur \in 1..Len(reqs) /\ Len(reqs) \in Nat
      /\ taken \in Nat /\ taken <= m
  BY <1>1, <1>2, <1>3, LengthType, ScalarType DEF ServerInv, StreamInv
<1>7. pc # "idle"
  BY <1>2, <1>6 DEF StreamInv
<1>8. Acked \in Nat /\ Acked <= m /\ Acked' = Acked
  BY <1>1, <1>6, <1>7, AckedType DEF Acked
<1>9. /\ reqs[cur].before \in Nat \ {0} /\ reqs[cur].ops \in 1..reqs[cur].before
  BY <1>2, <1>6, RequestFacts
<1>10. Unexecuted = reqs[cur].before
  BY <1>3, <1>6, <1>7 DEF Unexecuted
<1>11. Unexecuted' = reqs[cur].before - reqs[cur].ops
  <2>1. CASE cur < Len(reqs)
    <3>1. /\ cur \in (Acked + 1)..Len(reqs) /\ cur + 1 \in (Acked + 1)..Len(reqs)
      BY <1>6, <1>8, <2>1
    <3>2. reqs[cur + 1].before = reqs[cur].before - reqs[cur].ops
      BY <1>2, <1>7, <3>1 DEF CallInv
    <3> QED BY <1>1, <1>5, <1>6, <1>7, <2>1, <3>2 DEF Unexecuted
  <2>2. CASE cur = Len(reqs)
    <3>1. remaining = 0
      BY <1>1, <2>2, ExecutedWhole
    <3>2. toSend = reqs[Len(reqs)].before - reqs[Len(reqs)].ops
      BY <1>2, <1>6, <1>7, <1>8, <2>2, <3>1 DEF CallInv
    <3> QED BY <1>1, <1>5, <1>6, <1>7, <2>2, <3>2 DEF Unexecuted
  <2> QED BY <1>6, <2>1, <2>2
<1>12. /\ Failed => Failed'
       /\ s = "ok" => (Failed' <=> Failed)
       /\ s = "err" => Failed'
  <2>1. cur \in (Acked + 1)..Len(reqs)
    BY <1>6, <1>8
  <2>2. reqs[cur].call = calls
    BY <1>2, <1>7, <2>1 DEF CallInv
  <2>3. \A j \in 1..Len(resps') : j \in 1..m \/ j = m + 1
    BY <1>3, <1>5
  <2>4. 1..m \subseteq 1..Len(resps') /\ m + 1 \in 1..Len(resps') /\ 1..Len(resps) = 1..m
    BY <1>3, <1>5
  <2>5. Failed => Failed'
    BY <1>1, <1>2, <1>3, <1>5, <2>4, FailedIs, FailedIsNext
  <2>6. s = "err" => Failed'
    BY <1>1, <1>2, <1>4, <1>5, <1>6, <2>2, <2>4, FailedIsNext
  <2>7. s = "ok" /\ Failed' => Failed
    BY <1>1, <1>2, <1>4, <1>5, <2>3, <2>4, FailedIs, FailedIsNext
  <2> QED BY <2>5, <2>6, <2>7
<1>13. AnswerInv'
  <2>1. AllOk(Acked) => AllOk(Acked)'
    <3> SUFFICES ASSUME AllOk(Acked), NEW j \in 1..Acked', reqs'[j].call = calls'
                 PROVE  resps'[j].status = "ok"
      BY DEF AllOk
    <3>1. j \in 1..Acked /\ j \in 1..m
      BY <1>8
    <3> QED BY <1>1, <1>5, <3>1 DEF AllOk
  <2> QED BY <1>1, <1>7, <1>12, <2>1 DEF AInv, AnswerInv
<1>14. Access!ExecutePart
  <2>1. (pc # "idle") = TRUE /\ (pc # "idle")' = TRUE
    BY <1>1, <1>7
  <2>2. (pc # "idle" /\ Failed)' \in {pc # "idle" /\ Failed, TRUE}
    BY <1>1, <1>7, <1>12
  <2>3. Unexecuted > 0 /\ \E n \in 1..Unexecuted : Unexecuted' = Unexecuted - n
    BY <1>9, <1>10, <1>11
  <2>4. /\ (op.kind = "write")' = (op.kind = "write")
        /\ (link = "dead")' = (link = "dead") /\ rc' = rc
    BY <1>1
  <2> QED BY <2>1, <2>2, <2>3, <2>4 DEF Access!ExecutePart
<1> QED BY <1>13, <1>14

(* Taking an answer is invisible until the call returns; then the call      *)
(* succeeded or failed as its answers say.                                  *)
LEMMA JudgedAccess ==
    ASSUME AInv, IInv', pc # "idle", NEW f \in {"ok", "err"}, Judged(f)
    PROVE  AnswerInv' /\ [Access!Next]_(Access!vars)
<1>1. IInv /\ link # "dead" /\ link' = link /\ UNCHANGED <<calls, op, reqs, resps, toSend>>
  BY Alive DEF AInv, Judged
<1>2. /\ TypeOK /\ TypeOK' /\ RespsInv /\ RespsInv' /\ StreamInv'
      /\ Len(reqs) \in Nat /\ Len(resps) \in Nat
  BY <1>1, AliveParts, AlivePartsNext, LengthType
<1>3. Failed' <=> Failed
  BY <1>1, <1>2, FailedIs, FailedIsNext
<1>4. CASE pc' # "idle"
  <2>1. AllOk(Acked') => AllOk(Acked)'
    BY <1>1 DEF AllOk
  <2>2. AnswerInv'
    BY <1>1, <1>3, <1>4, <2>1 DEF AInv, AnswerInv, Judged
  <2>3. Unexecuted' = Unexecuted
    BY <1>1, <1>4 DEF Unexecuted
  <2>4. UNCHANGED Access!vars
    BY <1>1, <1>3, <1>4, <2>3, Unseen DEF Judged
  <2> QED BY <2>2, <2>4
<1>5. CASE pc' = "idle"
  <2>1. /\ rc' = (IF op.kind = "write" THEN "ok" ELSE f)
        /\ f = "ok" => toSend = 0
    BY <1>5 DEF Judged
  <2>2. Acked' = Len(reqs) /\ Len(resps) = Len(reqs)
    <3>1. taken' = Len(reqs) /\ taken' <= Len(resps) /\ Len(resps) <= Len(reqs)
      BY <1>1, <1>2, <1>5 DEF StreamInv, RespsInv
    <3>2. Acked' = taken'
      BY <1>5 DEF Acked
    <3> QED BY <1>2, <3>1, <3>2
  <2>3. f = "ok" => ~Failed
    BY <1>2, <2>2, AllOkFailed DEF Judged
  <2>4. f = "err" => Failed
    BY DEF Judged
  <2>5. AnswerInv'
    BY <1>1, <1>3, <1>5, <2>1, <2>3, <2>4 DEF AInv, AnswerInv
  <2>6. Unexecuted' = 0 /\ (f = "ok" => Unexecuted = 0)
    BY <1>2, <1>5, <2>1, <2>2 DEF Unexecuted
  <2>7. (pc # "idle") = TRUE /\ (pc # "idle")' = FALSE /\ (pc # "idle" /\ Failed)' = FALSE
    BY <1>5
  <2>8. (pc # "idle" /\ Failed) <=> f = "err"
    BY <2>3, <2>4
  <2>9. (op.kind = "write")' = (op.kind = "write") /\ (link = "dead")' = (link = "dead")
    BY <1>1
  <2>10. CASE f = "ok"
    <3>1. rc' = "ok"
      BY <2>1, <2>10
    <3>2. Access!Succeed
      BY <2>6, <2>7, <2>8, <2>9, <2>10, <3>1 DEF Access!Succeed, Access!EndAccess
    <3> QED BY <2>5, <3>2 DEF Access!Next
  <2>11. CASE f = "err"
    <3>1. rc' = IF op.kind = "write" THEN "ok" ELSE "err"
      BY <2>1, <2>11
    <3>2. Access!Fail
      BY <2>6, <2>7, <2>8, <2>9, <2>11, <3>1 DEF Access!Fail, Access!EndAccess
    <3> QED BY <2>5, <3>2 DEF Access!Next
  <2> QED BY <2>10, <2>11
<1> QED BY <1>4, <1>5

LEMMA SocketErrorAccess ==
    ASSUME AInv, IInv', SocketError
    PROVE  AnswerInv' /\ Access!Lose
<1>1. /\ pc # "idle" /\ pc' = "idle" /\ link' = "dead" /\ rc' = "err"
      /\ UNCHANGED <<calls, op, reqs>>
  BY DEF SocketError, Return, call, up
<1>2. link # "dead"
  BY <1>1, Alive DEF AInv
<1>3. AnswerInv'
  BY <1>1 DEF AInv, AnswerInv
<1>4. Unexecuted' = 0 /\ (pc # "idle") = TRUE /\ (pc # "idle")' = FALSE
  BY <1>1 DEF Unexecuted
<1>5. /\ (pc # "idle" /\ Failed)' = FALSE /\ (op.kind = "write")' = (op.kind = "write")
      /\ (link = "dead") = FALSE /\ (link = "dead")' = TRUE
  BY <1>1, <1>2
<1>6. Access!Lose
  BY <1>1, <1>4, <1>5 DEF Access!Lose, Access!EndAccess
<1> QED BY <1>3, <1>6

-----------------------------------------------------------------------------
(* Every constant for which an rmw, which asks for one operation, is within *)
(* the bound on the operations of a call.                                   *)
Bounded == MaxOps > 0

LEMMA InvokeAccess ==
    ASSUME Bounded, AInv, IInv', Invoke
    PROVE  AnswerInv' /\ Access!BeginAccess
<1>1. MaxOps \in Nat /\ MaxChunk \in Nat /\ 1 \in 1..MaxOps
  BY LinkAssumption DEF Bounded
<1>2. PICK k \in AllKinds, n \in 1..MaxOps, most \in Nat : Begin(k, n, most)
  <2>1. \A n \in 1..Lesser(MaxChunk, MaxOps) : n \in 1..MaxOps
    BY <1>1, LesserType
  <2>2. CASE AccessReadRoi
    <3>1. PICK row \in 1..MaxChunk, rows \in 1..MaxRows :
             rows * row <= MaxOps /\ Begin("read", rows * row, row)
      BY <2>2 DEF AccessReadRoi
    <3>2. rows \in Nat /\ row \in Nat /\ rows > 0 /\ row > 0
      BY <1>1, LinkAssumption
    <3>3. rows * row \in Nat /\ rows * row > 0
      BY <3>2
    <3> QED BY <1>1, <3>1, <3>2, <3>3 DEF AllKinds, ReadKinds
  <2>3. CASE Invoke /\ ~AccessReadRoi
    BY <1>1, <2>1, <2>3 DEF Invoke, AccessWrite, AccessRead, AccessReadIntl, AccessMemzero,
                            AccessRmw, PersonalityRead, PersonalityWrite,
                            AllKinds, ReadKinds, SingleKinds
  <2> QED BY <2>2, <2>3
<1> QED BY <1>2, BeginAccessStep

LEMMA NextAccess ==
    ASSUME Bounded, AInv, IInv', [Next]_vars
    PROVE  AnswerInv' /\ [Access!Next]_(Access!vars)
<1>1. CASE Invoke
  BY <1>1, InvokeAccess DEF Access!Next
<1>2. CASE Encode \/ Transmit \/ WouldBlock
  BY <1>2, EncodeAccess, TransmitAccess, WouldBlockAccess
<1>3. CASE RecvHeader
  <2>1. pc # "idle"
    BY <1>3 DEF RecvHeader
  <2> QED BY <1>3, <2>1, RecvHeaderJudged, JudgedAccess
<1>4. CASE RecvPayload
  <2>1. pc # "idle"
    BY <1>4 DEF RecvPayload
  <2> QED BY <1>4, <2>1, RecvPayloadJudged, JudgedAccess
<1>5. CASE SocketError
  BY <1>5, SocketErrorAccess DEF Access!Next
<1>6. CASE Execute
  BY <1>6, ExecuteAccess DEF Access!Next
<1>7. CASE ReadRequestHeader \/ ReadRequestPayload \/ SendResponse \/ Close
  BY <1>7, SilentAccess
<1>8. CASE UNCHANGED vars
  <2>1. UNCHANGED <<calls, op, pc, toSend, final, taken, rc, reqs, resps, link>>
    BY <1>8 DEF vars, call, client, up, down
  <2>2. Failed' = Failed /\ Unexecuted' = Unexecuted /\ AllOk(Acked)' = AllOk(Acked)
    BY <2>1 DEF Failed, OfCall, Unexecuted, AllOk, Acked
  <2>3. AnswerInv'
    BY <2>1, <2>2 DEF AInv, AnswerInv
  <2> QED BY <2>1, <2>2, <2>3, Unseen
<1> QED BY <1>1, <1>2, <1>3, <1>4, <1>5, <1>6, <1>7, <1>8 DEF Next, ClientStep, ServerStep

LEMMA InitAccess ==
    ASSUME Init
    PROVE  AInv /\ Access!Init
<1>1. AnswerInv
  BY DEF Init, AnswerInv
<1>2. Access!Init
  BY DEF Init, Access!Init, Unexecuted
<1>3. Drains
  BY DEF Init, Drains
<1> QED BY <1>1, <1>2, <1>3, InitInv DEF AInv

(* The verdict a call carries is always that of the answers it has taken.   *)
THEOREM AnswerInvariant ==
    ASSUME Draining, Bounded
    PROVE  Spec => []AInv
<1>1. Init => AInv
  BY InitAccess
<1>2. AInv /\ IInv' /\ [Next]_vars => AnswerInv'
  BY NextAccess
<1>3. (AInv <=> IInv /\ Drains /\ AnswerInv) /\ (IInv <=> TypeOK /\ LinkInv)
  BY DEF AInv, IInv
<1> QED BY <1>1, <1>2, <1>3, LinkInvariant, DrainsAlways, PTL DEF Spec

(* zynqmp_access_read, zynqmp_access_rmw and zynqmp_personality_write return *)
(* 0 exactly when every request was executed without an error.              *)
THEOREM ResultTrueAlways ==
    ASSUME Draining, Bounded
    PROVE  Spec => []ResultTrue
<1>1. AInv => ResultTrue
  <2> SUFFICES ASSUME AInv, pc = "idle", link # "dead", calls > 0, op.kind # "write"
               PROVE  Truthful
    BY DEF ResultTrue
  <2>1. TypeOK /\ RespsInv /\ Len(resps) = Len(reqs)
    BY AliveParts, AtRest DEF AInv
  <2>2. \A i \in OfCall : \E j \in 1..Len(resps) : resps[j].req = i
    BY <2>1 DEF OfCall, RespsInv
  <2>3. rc \in {"ok", "err"}
    BY <2>1 DEF TypeOK
  <2> QED BY <2>2, <2>3 DEF AInv, AnswerInv, Truthful
<1> QED BY <1>1, AnswerInvariant, PTL

(* The posting protocol implements DeviceAccess: behind the chunks, the     *)
(* pipelined requests and the partial sends, accesses are executed front to *)
(* back, each part once and within its call, and reported truthfully.       *)
THEOREM ImplementsAccessAlways ==
    ASSUME Draining, Bounded
    PROVE  Spec => ImplementsAccess
<1>1. Init => Access!Init
  BY InitAccess
<1>2. AInv /\ AInv' /\ [Next]_vars => [Access!Next]_(Access!vars)
  BY NextAccess DEF AInv
<1> QED BY <1>1, <1>2, AnswerInvariant, PTL DEF Spec, ImplementsAccess, Access!Spec
=============================================================================
