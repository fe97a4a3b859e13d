------------------------------- MODULE CmdLink -------------------------------
(***************************************************************************)
(* One connection of the register/DMA command protocol.  The client is the *)
(* library libzynqmp/zynqmp_api.c: every access call holds the handle's     *)
(* mutex from start to end, cuts the access into chunks and POSTS them: it  *)
(* keeps sending requests without waiting, and only turns to the socket's  *)
(* read side when all is sent or when a non-blocking send would block.     *)
(* The server is the command_processor() loop of the Zynq board, which      *)
(* answers one request at a time, with blocking sends.                      *)
(*                                                                          *)
(* The two TCP streams are logs: reqs and resps hold every message, with   *)
(* the stream position of its first unit; upHead..upTail and               *)
(* dnHead..dnTail are the units in flight.  A header is HdrLen units and    *)
(* each operation of a payload one unit.                                    *)
(***************************************************************************)
EXTENDS Integers, Sequences

CONSTANTS
    Kinds,      \* the access functions the client calls
    Valid,      \* the verdicts of validateHeaderContents that may occur
    HdrLen,     \* units of a protocol header
    MaxChunk,   \* most operations one request carries (64K / width)
    EmbMax,     \* most operations embedded in the header itself (4)
    UpCap,      \* units the client-to-server stream can buffer
    DnCap,      \* units the server-to-client stream can buffer
    MaxOps,     \* bound: operations asked for by one call
    MaxRows,    \* bound: rows asked for by one call
    MaxCalls,   \* bound: calls made on the connection
    Closes      \* ways the server's end may go away: {"eof", "reset"}

ReadKinds   == {"read", "read_intl", "pers_read"}
SingleKinds == {"rmw", "pers_write"}
AllKinds    == ReadKinds \cup SingleKinds \cup {"write", "memzero"}

ASSUME LinkAssumption ==
    /\ Kinds \subseteq AllKinds \cup {"read_roi"}
    /\ Valid \subseteq BOOLEAN
    /\ HdrLen \in Nat \ {0} /\ MaxChunk \in Nat \ {0} /\ EmbMax \in Nat
    /\ UpCap \in Nat \ {0} /\ DnCap \in Nat \ {0}
    /\ MaxOps \in Nat /\ MaxRows \in Nat /\ MaxCalls \in Nat
    /\ Closes \subseteq {"eof", "reset"}

VARIABLES
    (* the client: the call in progress and its local variables *)
    calls,      \* number of calls begun so far
    op,         \* the call: its function, whether its header is acceptable,
                \* most operations a request of it carries (a chunk or a row)
    pc,         \* idle, send, recv (a header) or payload
    toSend,     \* ops_to_write / read_ops_to_send
    toRecv,     \* ops_to_ack / read_ops_to_recv
    remaining,  \* units of the current request not yet sent
    final,      \* final_rc: "ok" until a response reports a failure
    got,        \* units of the current response part already received
    taken,      \* index of the last response header the client accepted
    rc,         \* what the last call returned
    (* the streams *)
    reqs, upTail, upHead,
    resps, dnTail, dnHead,
    link,       \* "up", how the server's end was closed, or "dead"
    (* the server: the client's entry of state[] *)
    sv,         \* start (of a header), payload, execute, send
    cur,        \* request whose header was accepted
    rxd,        \* hdr_bytes_read + payload_bytes_read
    sendLeft    \* bytes_to_send

call   == <<calls, op>>
client == <<pc, toSend, toRecv, remaining, final, got, taken, rc>>
up     == <<reqs, upTail, upHead>>
down   == <<resps, dnTail, dnHead>>
server == <<sv, cur, rxd, sendLeft>>
vars   == <<call, client, up, down, link, server>>

Lesser(a, b) == IF a <= b THEN a ELSE b

(* A write of more than EmbMax operations carries its data as a payload;    *)
(* a smaller one embeds it in the header (WRITE_EMB).                       *)
ReqLen(r) ==
    HdrLen + IF r.kind \in {"write", "pers_write"} /\ r.ops > EmbMax THEN r.ops ELSE 0

(* Mutant of RespLen: the payload size is not cleared on failure.           *)
RespLenKept(kind, ops, status) ==
    HdrLen + IF kind \in ReadKinds THEN ops ELSE 0

(* payloadBytes of the reply: pTxHeader->payload_sz, which commandHandler   *)
(* clears on failure for READ only.                                         *)
RespLen(kind, ops, status) ==
    HdrLen + IF \/ kind = "read" /\ status = "ok"
                \/ kind \in {"read_intl", "pers_read"} THEN ops ELSE 0

Pending == upTail - upHead          \* units waiting for the server
Arrived == dnTail - dnHead          \* units waiting for the client
UpRoom  == UpCap - Pending
DnRoom  == DnCap - Arrived
ChunkFull == op.most                \* mutant of Chunk: the last, shorter chunk is forgotten
Chunk   == Lesser(toRecv, op.most)  \* chunk_size_ack / chunk_size_recv

-----------------------------------------------------------------------------
(* Client *)

Begin(k, n, most) ==
    /\ pc = "idle" /\ calls < MaxCalls /\ link # "dead"
    /\ \E ok \in Valid : op' = [kind |-> k, ok |-> ok, most |-> most]
    /\ calls' = calls + 1
    /\ pc' = "send"
    /\ toSend' = n /\ toRecv' = n
    /\ remaining' = 0 /\ final' = "ok" /\ got' = 0
    /\ UNCHANGED <<taken, rc, up, down, link, server>>

AccessWrite      == \E n \in 1..MaxOps : "write" \in Kinds /\ Begin("write", n, MaxChunk)
AccessRead       == \E n \in 1..MaxOps : "read" \in Kinds /\ Begin("read", n, MaxChunk)
(* A region of rows, one request for each: the loop of zynqmp_access_read    *)
(* counted in rows.  Rows too long for a request are read by a call of       *)
(* zynqmp_access_read each.                                                 *)
AccessReadRoi    ==
    \E row \in 1..MaxChunk, rows \in 1..MaxRows :
        "read_roi" \in Kinds /\ rows * row <= MaxOps /\ Begin("read", rows * row, row)
AccessReadIntl   == \E n \in 1..MaxOps : "read_intl" \in Kinds /\ Begin("read_intl", n, MaxChunk)
AccessMemzero    == \E n \in 1..MaxOps : "memzero" \in Kinds /\ Begin("memzero", n, MaxChunk)
AccessRmw        == "rmw" \in Kinds /\ Begin("rmw", 1, MaxChunk)
PersonalityRead  == \E n \in 1..MaxOps : "pers_read" \in Kinds /\ Begin("pers_read", n, MaxChunk)
PersonalityWrite ==
    \E n \in 1..Lesser(MaxChunk, MaxOps) : "pers_write" \in Kinds /\ Begin("pers_write", n, MaxChunk)

(* The next request is built in the transaction buffer.                     *)
Encode ==
    /\ pc = "send" /\ final = "ok" /\ remaining = 0 /\ toSend > 0
    /\ LET r == [call |-> calls, kind |-> op.kind, ok |-> op.ok, start |-> upTail,
                 before |-> toSend, ops |-> Lesser(toSend, op.most)]
       IN /\ reqs' = Append(reqs, r)
          /\ remaining' = ReqLen(r)
    /\ UNCHANGED <<call, pc, toSend, toRecv, final, got, taken, rc,
                   upTail, upHead, down, link, server>>

(* send() takes what the socket buffer has room for; when the last unit of  *)
(* the request is gone the next one is built, or a response is awaited.     *)
Transmit ==
    /\ pc = "send" /\ remaining > 0 /\ UpRoom > 0
    /\ LET k == Lesser(remaining, UpRoom)
           left == toSend - reqs[Len(reqs)].ops
       IN /\ upTail' = upTail + k
          /\ remaining' = remaining - k
          /\ IF k = remaining
             THEN /\ toSend' = left
                  /\ pc' = IF final = "ok" /\ left > 0 THEN "send" ELSE "recv"
             ELSE UNCHANGED <<toSend, pc>>
    /\ UNCHANGED <<call, toRecv, final, got, taken, rc, reqs, upHead, down, link, server>>

(* Mutants of Blocking: every send non-blocking, every send blocking.       *)
BlockingNever  == FALSE
BlockingAlways == TRUE

(* With requests outstanding the send is non-blocking.                      *)
Blocking == toSend = toRecv

WouldBlock ==
    /\ pc = "send" /\ remaining > 0 /\ UpRoom = 0
    /\ ~Blocking
    /\ pc' = "recv"
    /\ UNCHANGED <<call, toSend, toRecv, remaining, final, got, taken, rc,
                   up, down, link, server>>

(* A call returns value v and releases the mutex, whatever is still in the  *)
(* streams.                                                                 *)
Return(v) ==
    /\ pc' = "idle" /\ rc' = v
    /\ UNCHANGED <<toSend, toRecv, remaining, final>>

(* Mutants of Advance: a failure returns at once, without the drain; the    *)
(* call returns when all is sent.                                          *)
AdvanceNoDrain(f, left) ==
    \/ /\ f = "ok" /\ (toSend > 0 \/ left > 0)
       /\ pc' = (IF toSend > 0 THEN "send" ELSE "recv") /\ final' = f /\ toRecv' = left
       /\ UNCHANGED <<toSend, remaining, rc>>
    \/ /\ f # "ok" \/ (toSend = 0 /\ left = 0)
       /\ pc' = "idle" /\ final' = f /\ toRecv' = left
       /\ rc' = IF op.kind = "write" THEN "ok" ELSE f
       /\ UNCHANGED <<toSend, remaining>>
AdvanceSentAll(f, left) ==
    \/ /\ f = "ok" /\ toSend > 0
       /\ pc' = "send" /\ final' = f /\ toRecv' = left
       /\ UNCHANGED <<toSend, remaining, rc>>
    \/ /\ f # "ok" \/ toSend = 0
       /\ pc' = "idle" /\ final' = f /\ toRecv' = left
       /\ rc' = IF op.kind = "write" THEN "ok" ELSE f
       /\ UNCHANGED <<toSend, remaining>>

(* A chunk is dealt with.  While all is well the call goes on until nothing *)
(* is left; after a failure it only finishes the request it is sending and  *)
(* consumes the responses to those already posted.  zynqmp_access_write     *)
(* ends in "return 0", the reads return final_rc.                           *)
Advance(f, left) ==
    \/ /\ (f = "ok" /\ toSend > 0) \/ (f # "ok" /\ remaining > 0)
       /\ pc' = "send" /\ final' = f /\ toRecv' = left
       /\ UNCHANGED <<toSend, remaining, rc>>
    \/ /\ f = "ok" /\ toSend = 0 /\ left > 0
       /\ pc' = "recv" /\ final' = f /\ toRecv' = left
       /\ UNCHANGED <<toSend, remaining, rc>>
    \/ /\ f # "ok" /\ remaining = 0 /\ left > toSend
       /\ pc' = "recv" /\ final' = f /\ toRecv' = left
       /\ UNCHANGED <<toSend, remaining, rc>>
    \/ /\ \/ f = "ok" /\ toSend = 0 /\ left = 0
          \/ f # "ok" /\ remaining = 0 /\ left <= toSend
       /\ pc' = "idle" /\ final' = f /\ toRecv' = left
       /\ rc' = IF op.kind = "write" THEN "ok" ELSE f
       /\ UNCHANGED <<toSend, remaining>>

(* An answer is compared with the chunk it should acknowledge by its state  *)
(* and its num_ops; its sequence number is not looked at.                   *)
Bad(r) == r.status # "ok" \/ r.ops # Chunk

WriteAck(r) ==
    Advance(IF final # "ok" \/ Bad(r) THEN "err" ELSE "ok", toRecv - Chunk)

MemzeroAck(r) ==
    \/ Bad(r) /\ Return("err")
    \/ ~Bad(r) /\ Advance("ok", toRecv - Chunk)

SingleAckBlind(r) == Advance("ok", toRecv - Chunk)  \* mutant: the status is not looked at

SingleAck(r) ==
    \/ r.status # "ok" /\ Return("err")
    \/ r.status = "ok" /\ Advance("ok", toRecv - Chunk)

ReadAck(r) ==
    \/ r.status # "ok" /\ Advance("err", toRecv - Chunk)
    \/ r.status = "ok" /\ r.ops # Chunk /\ Return("err")
    \/ /\ r.status = "ok" /\ r.ops = Chunk
       /\ pc' = "payload"
       /\ UNCHANGED <<toSend, toRecv, remaining, final, rc>>

Ack(r) ==
    \/ op.kind = "write" /\ WriteAck(r)
    \/ op.kind = "memzero" /\ MemzeroAck(r)
    \/ op.kind \in SingleKinds /\ SingleAck(r)
    \/ op.kind \in ReadKinds /\ ReadAck(r)

(* responseTransaction2: HdrLen units are taken from the stream; where no    *)
(* response starts the magic number is wrong.                               *)
RecvHeader ==
    /\ pc = "recv" /\ Arrived > 0
    /\ LET k == Lesser(HdrLen - got, Arrived)
           at == dnHead - got
           starting == {j \in 1..Len(resps) : resps[j].start = at}
       IN /\ dnHead' = dnHead + k
          /\ \/ /\ got + k < HdrLen
                /\ got' = got + k
                /\ UNCHANGED <<pc, toSend, toRecv, remaining, final, taken, rc>>
             \/ /\ got + k = HdrLen
                /\ got' = 0
                /\ \/ starting = {} /\ Return("err") /\ UNCHANGED taken
                   \/ \E j \in starting : taken' = j /\ Ack(resps[j])
    /\ UNCHANGED <<call, up, resps, dnTail, link, server>>

(* responsePayload2: as many units as operations were asked for.            *)
RecvPayload ==
    /\ pc = "payload" /\ Arrived > 0
    /\ LET k == Lesser(Chunk - got, Arrived)
       IN /\ dnHead' = dnHead + k
          /\ \/ /\ got + k < Chunk
                /\ got' = got + k
                /\ UNCHANGED <<pc, toSend, toRecv, remaining, final, rc>>
             \/ /\ got + k = Chunk
                /\ got' = 0
                /\ Advance(final, toRecv - Chunk)
    /\ UNCHANGED <<call, taken, up, resps, dnTail, link, server>>

(* send() on a dead connection fails; recv() fails after a reset.  At end   *)
(* of file recv() returns 0 and the receive loops ask again, for ever: no   *)
(* action of the client.  A call that failed this way leaves a handle on    *)
(* which every later call fails too, which is not followed further.         *)
SocketError ==
    /\ \/ pc = "send" /\ remaining > 0 /\ link # "up"
       \/ pc \in {"recv", "payload"} /\ link = "reset"
    /\ Return("err")
    /\ link' = "dead"
    /\ UNCHANGED <<call, got, taken, up, down, server>>

-----------------------------------------------------------------------------
(* Server *)

(* A header is complete and passes validateHeaderContents when it starts    *)
(* where a request starts and no later request cut it short.  A rejected    *)
(* header is dropped without an answer, and the next HdrLen units are taken *)
(* as a header.                                                             *)
Accepted(at) ==
    {i \in 1..Len(reqs) : /\ reqs[i].start = at /\ reqs[i].ok
                          /\ i < Len(reqs) => reqs[i+1].start >= at + HdrLen}

ReadRequestHeader ==
    /\ link = "up" /\ sv = "start" /\ Pending > 0
    /\ LET k == Lesser(HdrLen - rxd, Pending)
           at == upHead - rxd
       IN /\ upHead' = upHead + k
          /\ \/ /\ rxd + k < HdrLen
                /\ rxd' = rxd + k
                /\ UNCHANGED <<sv, cur>>
             \/ /\ rxd + k = HdrLen /\ Accepted(at) = {}
                /\ rxd' = 0
                /\ UNCHANGED <<sv, cur>>
             \/ /\ rxd + k = HdrLen
                /\ \E i \in Accepted(at) :
                     /\ cur' = i
                     /\ rxd' = HdrLen
                     /\ sv' = IF ReqLen(reqs[i]) > HdrLen THEN "payload" ELSE "execute"
    /\ UNCHANGED <<call, client, reqs, upTail, down, link, sendLeft>>

ReadRequestPayload ==
    /\ link = "up" /\ sv = "payload" /\ Pending > 0
    /\ LET k == Lesser(ReqLen(reqs[cur]) - rxd, Pending)
       IN /\ upHead' = upHead + k
          /\ rxd' = rxd + k
          /\ sv' = IF rxd + k = ReqLen(reqs[cur]) THEN "execute" ELSE "payload"
    /\ UNCHANGED <<call, client, reqs, upTail, down, link, cur, sendLeft>>

(* commandHandler / handlePersonalityCommand and the reply header: the      *)
(* driver accepts the request or fails it.  Only a personality read returns *)
(* a num_ops that is the driver's own.                                      *)
Execute ==
    /\ link = "up" /\ sv = "execute"
    /\ \E status \in {"ok", "err"}, n \in 0..MaxChunk :
         /\ \/ status = "err" /\ n = 0
            \/ status = "ok" /\ n = reqs[cur].ops
            \/ status = "ok" /\ n = 0 /\ reqs[cur].kind = "pers_read"
         /\ resps' = Append(resps, [req |-> cur, status |-> status, ops |-> n,
                                    start |-> dnTail])
         /\ sendLeft' = RespLen(reqs[cur].kind, reqs[cur].ops, status)
    /\ sv' = "send" /\ rxd' = 0
    /\ UNCHANGED <<call, client, up, dnTail, dnHead, link, cur>>

SendResponse ==
    /\ link = "up" /\ sv = "send" /\ DnRoom > 0
    /\ LET k == Lesser(sendLeft, DnRoom)
       IN /\ dnTail' = dnTail + k
          /\ sendLeft' = sendLeft - k
          /\ sv' = IF k = sendLeft THEN "start" ELSE "send"
    /\ UNCHANGED <<call, client, up, resps, dnHead, link, cur, rxd>>

(* The server process or the board goes away.                               *)
Close ==
    /\ link = "up" /\ link' \in Closes
    /\ UNCHANGED <<call, client, up, down, server>>

-----------------------------------------------------------------------------
Init ==
    /\ calls = 0 /\ op = [kind |-> "none", ok |-> TRUE, most |-> MaxChunk]
    /\ pc = "idle" /\ toSend = 0 /\ toRecv = 0 /\ remaining = 0
    /\ final = "ok" /\ got = 0 /\ taken = 0 /\ rc = "ok"
    /\ reqs = <<>> /\ upTail = 0 /\ upHead = 0
    /\ resps = <<>> /\ dnTail = 0 /\ dnHead = 0
    /\ link = "up"
    /\ sv = "start" /\ cur = 0 /\ rxd = 0 /\ sendLeft = 0

Invoke ==
    \/ AccessWrite \/ AccessRead \/ AccessReadRoi \/ AccessReadIntl \/ AccessMemzero
    \/ AccessRmw \/ PersonalityRead \/ PersonalityWrite
ClientStep == Encode \/ Transmit \/ WouldBlock \/ RecvHeader \/ RecvPayload \/ SocketError
ServerStep == ReadRequestHeader \/ ReadRequestPayload \/ Execute \/ SendResponse

Next == Invoke \/ ClientStep \/ ServerStep \/ Close

Spec     == Init /\ [][Next]_vars
FairSpec == Spec /\ WF_vars(ClientStep) /\ WF_vars(ServerStep)
-----------------------------------------------------------------------------
(* Properties *)

Requests == [call : Nat, kind : AllKinds, ok : BOOLEAN, start : Nat,
             before : Nat, ops : Nat]
Responses == [req : Nat, status : {"ok", "err"}, ops : Nat, start : Nat]

(* Every variable has its type: the counters of both ends stay natural      *)
(* numbers, so no subtraction in zynqmp_api.c or command_processor wraps.   *)
TypeOK ==
    /\ calls \in Nat /\ op \in [kind : AllKinds \cup {"none"}, ok : BOOLEAN, most : Nat]
    /\ pc \in {"idle", "send", "recv", "payload"}
    /\ toSend \in Nat /\ toRecv \in Nat /\ remaining \in Nat
    /\ final \in {"ok", "err"} /\ got \in Nat /\ taken \in Nat /\ rc \in {"ok", "err"}
    /\ reqs \in Seq(Requests) /\ upTail \in Nat /\ upHead \in Nat
    /\ resps \in Seq(Responses) /\ dnTail \in Nat /\ dnHead \in Nat
    /\ link \in {"up", "eof", "reset", "dead"}
    /\ sv \in {"start", "payload", "execute", "send"}
    /\ cur \in Nat /\ rxd \in Nat /\ sendLeft \in Nat

(* The functions that read every response they posted a request for.        *)
DrainingKinds == {"write", "read", "rmw", "pers_write"}

(* Neither end ever waits for the other for ever: with the connection up,   *)
(* it never happens that the client is blocked (on a full socket buffer in  *)
(* a blocking send, or on an empty one in recv) while the server is too.    *)
(* This is what "non-blocking unless nothing is outstanding" in             *)
(* zynqmp_access_write and the reads is for.                                *)
ClientBlocked ==
    \/ pc = "send" /\ remaining > 0 /\ UpRoom = 0 /\ Blocking
    \/ pc \in {"recv", "payload"} /\ Arrived = 0
ServerBlocked ==
    \/ sv \in {"start", "payload"} /\ Pending = 0
    \/ sv = "send" /\ DnRoom = 0
NoDeadlock == link = "up" => ~(ClientBlocked /\ ServerBlocked)

(* A call leaves the connection as it found it: when it returns, with the   *)
(* socket alive, every request it posted was read whole and answered, every    *)
(* answer was consumed, and the server is back at the start of a header.    *)
CleanReturn ==
    pc = "idle" /\ link # "dead" =>
        /\ remaining = 0 /\ Pending = 0 /\ Arrived = 0
        /\ sv = "start" /\ rxd = 0

(* Whatever is called, only a request the server drops or the device refuses *)
(* can upset a connection: as long as all were accepted, every call of the   *)
(* library, zynqmp_access_memzero, zynqmp_access_read_intl and               *)
(* zynqmp_personality_read included, returns with the connection clean, and  *)
(* never waits for a server that waits for it.                               *)
AllAccepted ==
    /\ \A i \in 1..Len(reqs) : reqs[i].ok
    /\ \A j \in 1..Len(resps) :
         resps[j].status = "ok" /\ resps[j].ops = reqs[resps[j].req].ops
CleanUnlessRefused == AllAccepted => CleanReturn
FlowsUnlessRefused == AllAccepted => NoDeadlock

(* The posting protocol keeps step without looking at sequence numbers: a   *)
(* response header the client accepts answers the oldest request not yet    *)
(* answered, it belongs to the call in progress, and the chunk the client   *)
(* compares num_ops with is the chunk that request asked for.               *)
InStep ==
    taken' # taken =>
        /\ taken' = taken + 1
        /\ reqs[resps[taken'].req].call = calls
        /\ reqs[resps[taken'].req].ops = Chunk
InStepProp == [][InStep]_vars

(* What a call returns is what happened: it reports success exactly when    *)
(* every request it had to post was executed without error (for the         *)
(* functions that return final_rc).                                         *)
OfCall == {i \in 1..Len(reqs) : reqs[i].call = calls}
Failed == \E j \in 1..Len(resps) : resps[j].req \in OfCall /\ resps[j].status = "err"
Truthful == rc = "ok" <=> (~Failed /\ toSend = 0
                           /\ \A i \in OfCall : \E j \in 1..Len(resps) : resps[j].req = i)
ResultTrue ==
    pc = "idle" /\ link # "dead" /\ calls > 0 /\ op.kind # "write" => Truthful

(* "@return 0 on success of -1 error code" (zynqmp_api.c, the comment above *)
(* zynqmp_access_write): a write that returns 0 was executed.               *)
WriteResultTrue ==
    pc = "idle" /\ link # "dead" /\ calls > 0 /\ op.kind = "write" => Truthful

(* The connection implements DeviceAccess: the chunks of a call are         *)
(* executed in order, each once, none after the call has returned.          *)
Unexecuted ==
    IF pc = "idle" THEN 0
    ELSE IF Len(resps) < Len(reqs) THEN reqs[Len(resps) + 1].before
    ELSE toSend
Access == INSTANCE DeviceAccess WITH
    busy <- pc # "idle", todo <- Unexecuted, failed <- pc # "idle" /\ Failed,
    quiet <- op.kind = "write", lost <- link = "dead", result <- rc
ImplementsAccess == Access!Spec

(* Every call returns, unless the server has closed its end in good order: a *)
(* recv of nothing is tried again, for ever.                                *)
CallReturns == (pc # "idle") ~> (pc = "idle" \/ link = "eof")
-----------------------------------------------------------------------------
(* The inductive invariant behind the properties.  For the draining kinds,   *)
(* with acceptable headers, it always holds; for the others as long as none  *)
(* of their requests was refused or answered for another number of           *)
(* operations.                                                               *)

Smooth ==
    /\ \A i \in 1..Len(reqs) : reqs[i].ok
    /\ \A j \in 1..Len(resps) :
         \/ reqs[resps[j].req].kind \in DrainingKinds
         \/ resps[j].status = "ok" /\ resps[j].ops = reqs[resps[j].req].ops

UpEnd(n) == IF n = 0 THEN 0 ELSE reqs[n].start + ReqLen(reqs[n])
ReplyLen(j) == RespLen(reqs[resps[j].req].kind, reqs[resps[j].req].ops, resps[j].status)
DnEnd(n) == IF n = 0 THEN 0 ELSE resps[n].start + ReplyLen(n)

(* Requests fully sent, and requests whose answer was wholly consumed.      *)
Posted == IF remaining > 0 THEN Len(reqs) - 1 ELSE Len(reqs)
Acked  == IF pc = "payload" THEN taken - 1 ELSE taken

(* The requests lie end to end in their stream, no two overlap, and each    *)
(* carries something, and no more than a request can or its call had left.  *)
ReqsInv ==
    /\ \A i \in 1..Len(reqs) :
         /\ reqs[i].start = UpEnd(i - 1)
         /\ reqs[i].before > 0
         /\ reqs[i].ops \in 1..Lesser(reqs[i].before, MaxChunk)
    /\ \A i, j \in 1..Len(reqs) :
         i < j => reqs[i].start + ReqLen(reqs[i]) <= reqs[j].start
    /\ upTail + remaining = UpEnd(Len(reqs))
    /\ remaining > 0 => Len(reqs) > 0 /\ reqs[Len(reqs)].start <= upTail

(* The server answers the requests one by one, in order.                    *)
RespsInv ==
    /\ Len(resps) <= Len(reqs)
    /\ \A j \in 1..Len(resps) :
         /\ resps[j].req = j /\ resps[j].start = DnEnd(j - 1)
         /\ resps[j].status = "ok" => resps[j].ops = reqs[j].ops
    /\ \A i, j \in 1..Len(resps) :
         i < j => resps[i].start + ReplyLen(i) <= resps[j].start
    /\ dnTail + sendLeft = DnEnd(Len(resps))
    /\ sendLeft > 0 <=> sv = "send"

(* The server's place in the request stream.                                *)
ServerInv ==
    /\ upHead = UpEnd(Len(resps)) + rxd /\ upHead <= upTail
    /\ sv = "start" => rxd < HdrLen
    /\ sv = "send" => rxd = 0
    /\ sv \in {"payload", "execute"} => cur = Len(resps) + 1 /\ cur <= Len(reqs)
    /\ sv = "payload" => HdrLen <= rxd /\ rxd < ReqLen(reqs[cur])
    /\ sv = "execute" => rxd = ReqLen(reqs[cur])

(* The client's place in the response stream, and its counters, which tell  *)
(* what is outstanding.                                                     *)
StreamInv ==
    /\ taken <= Len(resps)
    /\ pc # "payload" => dnHead = DnEnd(Acked) + got
    /\ pc = "payload" => dnHead = DnEnd(Acked) + HdrLen + got
    /\ dnHead <= dnTail
    /\ pc = "idle" => remaining = 0 /\ got = 0 /\ taken = Len(reqs)
    /\ pc = "send" => got = 0 /\ (remaining > 0 \/ (final = "ok" /\ toSend > 0))
    /\ pc = "recv" => got < HdrLen /\ taken < Posted
    /\ pc = "payload" => /\ taken > 0 /\ resps[taken].status = "ok"
                         /\ op.kind \in ReadKinds /\ got < reqs[taken].ops

CallInv == pc # "idle" =>
    /\ op.kind \in AllKinds
    /\ op.most \in 1..MaxChunk
    /\ \A i \in (Acked + 1)..Len(reqs) :
         /\ reqs[i].call = calls /\ reqs[i].kind = op.kind
         /\ reqs[i].ops = Lesser(reqs[i].before, op.most)
    /\ \A i, j \in (Acked + 1)..Len(reqs) :
         /\ j = i + 1 => reqs[j].before = reqs[i].before - reqs[i].ops
         /\ i < j => reqs[j].before <= reqs[i].before - reqs[i].ops
    /\ toRecv = IF Acked < Len(reqs) THEN reqs[Acked + 1].before ELSE toSend
    /\ remaining > 0 => toSend = reqs[Len(reqs)].before
    /\ remaining = 0 /\ Acked < Len(reqs) =>
         toSend = reqs[Len(reqs)].before - reqs[Len(reqs)].ops
    /\ Acked <= Len(reqs)
    /\ op.kind \in SingleKinds =>
         toRecv <= op.most /\ final = "ok" /\ toSend \in {0, toRecv}

LinkInv ==
    /\ link = "dead" => pc = "idle"
    /\ link # "dead" => ReqsInv /\ RespsInv /\ ServerInv /\ StreamInv /\ CallInv
=============================================================================
