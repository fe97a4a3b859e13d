---------------------------- MODULE CmdLink_proofs ----------------------------
(***************************************************************************)
(* Proofs about CmdLink for every chunk size, header length, buffer          *)
(* capacity and number of calls.                                            *)
(*                                                                          *)
(* First, for all the functions of the library, with headers the server     *)
(* drops and connections that end: type correctness.  No counter of either  *)
(* end becomes negative even when the two are out of step; beside the types *)
(* one has to know how far each end is in the message it has in hand.       *)
(*                                                                          *)
(* Then, still for all functions: the two ends stay in step as long as      *)
(* nothing upset the connection.  The inductive invariant is TInv,          *)
(* Answers and Smooth => LinkInv.  LinkInv places both ends in both streams  *)
(* and ties the client's two counters to the requests not yet answered; the *)
(* properties follow from it by arithmetic on stream positions.  Smooth is  *)
(* a condition on the logs, which only grow, so a step that ends smoothly   *)
(* began smoothly.  The functions that read every response they posted a    *)
(* request for (DrainingKinds), with acceptable headers, are always smooth. *)
(***************************************************************************)
EXTENDS CmdLink, Integers, TLAPS

(* Neither end reads ahead of the stream.                                   *)
StreamsInv == upHead <= upTail /\ dnHead <= dnTail

(* The client: the request it is sending is no larger than what is left of  *)
(* the call, the response it is reading no further than to its end.         *)
ClientInv ==
    /\ pc # "idle" => op.kind \in AllKinds
    /\ pc # "idle" /\ remaining > 0 => Len(reqs) > 0 /\ reqs[Len(reqs)].ops <= toSend
    /\ pc = "send" => got = 0
    /\ pc = "recv" => got < HdrLen
    /\ pc = "payload" => got <= Chunk

(* The server: the request it has in hand exists, and no more of it was     *)
(* read than there is.                                                      *)
HandInv ==
    /\ sv = "start" => rxd < HdrLen
    /\ sv = "send" => rxd = 0
    /\ sv \in {"payload", "execute"} => cur \in 1..Len(reqs)
    /\ sv = "payload" => rxd <= ReqLen(reqs[cur])

TInv == TypeOK /\ StreamsInv /\ ClientInv /\ HandInv

-----------------------------------------------------------------------------
LEMMA LesserBounds ==
    ASSUME NEW a \in Nat, NEW b \in Nat
    PROVE  Lesser(a, b) \in Nat /\ Lesser(a, b) <= a /\ Lesser(a, b) <= b
BY DEF Lesser

LEMMA ChunkBounds == TypeOK => Chunk \in Nat /\ Chunk <= toRecv
<1> SUFFICES ASSUME TypeOK PROVE Chunk \in Nat /\ Chunk <= toRecv
  OBVIOUS
<1>1. toRecv \in Nat /\ op.most \in Nat
  BY DEF TypeOK
<1> QED BY <1>1, LesserBounds DEF Chunk

LEMMA ReqLenNat ==
    ASSUME NEW r \in Requests
    PROVE  ReqLen(r) \in Nat /\ ReqLen(r) >= HdrLen
BY LinkAssumption DEF Requests, ReqLen

LEMMA TInvInit == Init => TInv
<1> SUFFICES ASSUME Init PROVE TInv
  OBVIOUS
<1>1. TypeOK
  BY LinkAssumption DEF Init, TypeOK, AllKinds, ReadKinds, SingleKinds
<1>2. StreamsInv /\ ClientInv /\ HandInv
  BY LinkAssumption DEF Init, StreamsInv, ClientInv, HandInv
<1> QED BY <1>1, <1>2 DEF TInv

LEMMA BeginTypes ==
    ASSUME TInv, NEW k \in AllKinds, NEW n \in Nat, NEW m \in Nat, Begin(k, n, m)
    PROVE  TInv'
<1>1. TypeOK'
  <2>1. op' \in [kind : AllKinds \cup {"none"}, ok : BOOLEAN, most : Nat]
    BY LinkAssumption DEF Begin
  <2> QED BY <2>1 DEF TInv, TypeOK, Begin, up, down, server
<1>2. StreamsInv' /\ HandInv'
  BY DEF TInv, StreamsInv, HandInv, Begin, up, down, server, ReqLen
<1>3. ClientInv'
  BY DEF ClientInv, Begin
<1> QED BY <1>1, <1>2, <1>3 DEF TInv

LEMMA InvokeTypes == ASSUME TInv, Invoke PROVE TInv'
<1>1. MaxOps \in Nat /\ MaxChunk \in Nat
  BY LinkAssumption
<1>2. 1..MaxOps \subseteq Nat /\ 1..Lesser(MaxChunk, MaxOps) \subseteq Nat
  BY <1>1, LesserBounds
<1>3. \A row \in 1..MaxChunk, rows \in 1..MaxRows : row \in Nat /\ rows * row \in Nat
  BY <1>1, LinkAssumption
<1>4. PICK k \in AllKinds, n \in Nat, m \in Nat : Begin(k, n, m)
  BY <1>1, <1>2, <1>3 DEF Invoke, AccessReadRoi, AccessWrite, AccessRead, AccessReadIntl, AccessMemzero, AccessRmw,
              PersonalityRead, PersonalityWrite, AllKinds, ReadKinds, SingleKinds
<1> QED BY <1>4, BeginTypes

LEMMA EncodeTypes == ASSUME TInv, Encode PROVE TInv'
<1> DEFINE r == [call |-> calls, kind |-> op.kind, ok |-> op.ok, start |-> upTail,
                 before |-> toSend, ops |-> Lesser(toSend, op.most)]
<1>1. /\ calls \in Nat /\ op \in [kind : AllKinds \cup {"none"}, ok : BOOLEAN, most : Nat]
      /\ upTail \in Nat /\ toSend \in Nat /\ reqs \in Seq(Requests) /\ op.most \in Nat
  BY DEF TInv, TypeOK
<1>2. Lesser(toSend, op.most) \in Nat /\ Lesser(toSend, op.most) <= toSend
  BY <1>1, LesserBounds
<1>3. /\ op.kind \in AllKinds /\ op.ok \in BOOLEAN
  BY <1>1 DEF TInv, ClientInv, Encode
<1>4. r \in Requests
  BY <1>1, <1>2, <1>3 DEF Requests
<1>5. reqs' = Append(reqs, r) /\ remaining' = ReqLen(r)
  BY DEF Encode
<1> HIDE DEF r
<1>6. /\ reqs' \in Seq(Requests) /\ Len(reqs') = Len(reqs) + 1 /\ Len(reqs) \in Nat
      /\ reqs'[Len(reqs')] = r /\ \A i \in 1..Len(reqs) : reqs'[i] = reqs[i]
  BY <1>1, <1>4, <1>5
<1>7. TypeOK'
  <2>1. remaining' \in Nat
    BY <1>4, <1>5, ReqLenNat
  <2> QED BY <1>6, <2>1 DEF TInv, TypeOK, Encode, call, down, server
<1>8. StreamsInv'
  BY DEF TInv, StreamsInv, Encode, down
<1>9. ClientInv'
  <2>1. r.ops <= toSend
    BY <1>2 DEF r
  <2> QED BY <2>1, <1>3, <1>6 DEF TInv, ClientInv, Encode, Chunk, Lesser, call
<1>10. HandInv'
  BY <1>6 DEF TInv, HandInv, Encode, server, ReqLen
<1> QED BY <1>7, <1>8, <1>9, <1>10 DEF TInv

LEMMA TransmitTypes == ASSUME TInv, Transmit PROVE TInv'
<1> DEFINE k == Lesser(remaining, UpRoom)
           last == reqs[Len(reqs)].ops
<1>1. /\ remaining \in Nat /\ UpRoom \in Nat /\ upTail \in Nat /\ upHead \in Nat /\ toSend \in Nat
      /\ reqs \in Seq(Requests) /\ Len(reqs) \in Nat
  BY LinkAssumption DEF TInv, TypeOK, Transmit, UpRoom, Pending
<1>2. k \in Nat /\ k <= remaining
  BY <1>1, LesserBounds
<1>3. Len(reqs) > 0 /\ last <= toSend
  BY DEF TInv, ClientInv, Transmit
<1>4. last \in Nat
  <2>1. reqs[Len(reqs)] \in Requests
    BY <1>1, <1>3
  <2> QED BY <2>1 DEF Requests
<1>5. /\ upTail' = upTail + k /\ remaining' = remaining - k
      /\ toSend' \in {toSend, toSend - last} /\ pc' \in {"send", "recv"}
      /\ k # remaining => toSend' = toSend
      /\ k = remaining => remaining' = 0
      /\ UNCHANGED <<call, toRecv, final, got, taken, rc, reqs, upHead, down, link, server>>
  BY <1>1, <1>2, LinkAssumption DEF Transmit
<1> HIDE DEF k, last
<1>6. toSend' \in Nat /\ remaining' \in Nat /\ upTail' \in Nat /\ upHead <= upTail'
  BY <1>1, <1>2, <1>3, <1>4, <1>5 DEF TInv, StreamsInv
<1>7. TypeOK'
  BY <1>5, <1>6 DEF TInv, TypeOK, call, down, server
<1>8. StreamsInv'
  BY <1>5, <1>6 DEF TInv, StreamsInv, down
<1>9. ClientInv'
  <2>1. remaining' > 0 => toSend' = toSend
    BY <1>5
  <2>2. got' = 0 /\ HdrLen \in Nat \ {0}
    BY <1>5, LinkAssumption DEF TInv, ClientInv, Transmit
  <2>3. op'.kind \in AllKinds
    BY <1>5 DEF TInv, ClientInv, Transmit, call
  <2> QED BY <1>3, <1>5, <2>1, <2>2, <2>3 DEF ClientInv, last
<1>10. HandInv'
  BY <1>5 DEF TInv, HandInv, server, ReqLen
<1> QED BY <1>7, <1>8, <1>9, <1>10 DEF TInv

LEMMA WouldBlockTypes == ASSUME TInv, WouldBlock PROVE TInv'
<1>1. TypeOK'
  BY DEF TInv, TypeOK, WouldBlock, call, up, down, server
<1>2. StreamsInv' /\ HandInv'
  BY DEF TInv, StreamsInv, HandInv, WouldBlock, up, down, server, ReqLen
<1>3. ClientInv'
  BY LinkAssumption DEF TInv, ClientInv, WouldBlock, call, up
<1> QED BY <1>1, <1>2, <1>3 DEF TInv

-----------------------------------------------------------------------------
(* What the client does when it has a header or a payload, as far as types  *)
(* go: it has a next state, its counters shrink, and a payload is awaited   *)
(* only with nothing of it read.                                            *)
Turn ==
    /\ pc' \in {"idle", "send", "recv", "payload"}
    /\ toSend' = toSend /\ remaining' = remaining /\ toRecv' \in Nat
    /\ final' \in {"ok", "err"} /\ rc' \in {"ok", "err"}

LEMMA AdvanceTurn ==
    ASSUME TypeOK, NEW f \in {"ok", "err"}, Advance(f, toRecv - Chunk)
    PROVE  Turn
<1>1. toRecv - Chunk \in Nat
  BY ChunkBounds DEF TypeOK
<1>2. rc \in {"ok", "err"}
  BY DEF TypeOK
<1> QED BY <1>1, <1>2 DEF Advance, Turn

LEMMA ReturnTurn == ASSUME TypeOK, Return("err") PROVE Turn
BY DEF TypeOK, Return, Turn

LEMMA AckTurn == ASSUME TypeOK, NEW r, Ack(r) PROVE Turn
<1>1. CASE WriteAck(r)
  BY <1>1, AdvanceTurn DEF WriteAck
<1>2. CASE MemzeroAck(r)
  BY <1>2, AdvanceTurn, ReturnTurn DEF MemzeroAck
<1>3. CASE SingleAck(r)
  BY <1>3, AdvanceTurn, ReturnTurn DEF SingleAck
<1>4. CASE ReadAck(r)
  <2>1. CASE Advance("err", toRecv - Chunk)
    BY <2>1, AdvanceTurn
  <2>2. CASE Return("err")
    BY <2>2, ReturnTurn
  <2>3. CASE pc' = "payload" /\ UNCHANGED <<toSend, toRecv, remaining, final, rc>>
    BY <2>3 DEF Turn, TypeOK
  <2> QED BY <1>4, <2>1, <2>2, <2>3 DEF ReadAck
<1> QED BY <1>1, <1>2, <1>3, <1>4 DEF Ack

(* A turn that leaves the streams consistent preserves the invariant.       *)
LEMMA TurnTypes ==
    ASSUME TInv, pc # "idle", Turn, dnHead' \in Nat, dnHead' <= dnTail, got' = 0,
           taken' \in Nat, UNCHANGED <<call, up, resps, dnTail, link, server>>
    PROVE  TInv'
<1>1. TypeOK'
  BY DEF TInv, TypeOK, Turn, call, up, server
<1>2. StreamsInv'
  BY DEF TInv, StreamsInv, up
<1>3. HandInv'
  BY DEF TInv, HandInv, up, server, ReqLen
<1>4. ClientInv'
  <2>1. Chunk' \in Nat
    BY <1>1, ChunkBounds, LinkAssumption, LesserBounds DEF TypeOK, Chunk
  <2> QED BY <2>1, LinkAssumption DEF TInv, ClientInv, Turn, call, up
<1> QED BY <1>1, <1>2, <1>3, <1>4 DEF TInv

(* So does reading one part more of a message that is not complete.         *)
LEMMA PartTypes ==
    ASSUME TInv, pc \in {"recv", "payload"}, dnHead' \in Nat, dnHead' <= dnTail, got' \in Nat,
           pc = "recv" => got' < HdrLen, pc = "payload" => got' <= Chunk,
           UNCHANGED <<pc, toSend, toRecv, remaining, final, rc, taken>>,
           UNCHANGED <<call, up, resps, dnTail, link, server>>
    PROVE  TInv'
<1>1. TypeOK'
  BY DEF TInv, TypeOK, call, up, server
<1>2. StreamsInv'
  BY DEF TInv, StreamsInv, up
<1>3. HandInv'
  BY DEF TInv, HandInv, up, server, ReqLen
<1>4. ClientInv'
  BY DEF TInv, ClientInv, Chunk, Lesser, call, up
<1> QED BY <1>1, <1>2, <1>3, <1>4 DEF TInv

LEMMA RecvHeaderTypes == ASSUME TInv, RecvHeader PROVE TInv'
<1> DEFINE k == Lesser(HdrLen - got, Arrived)
           starting == {j \in 1..Len(resps) : resps[j].start = dnHead - got}
<1>1. /\ HdrLen \in Nat /\ got \in Nat /\ got < HdrLen /\ pc = "recv"
      /\ dnHead \in Nat /\ dnTail \in Nat /\ dnHead <= dnTail /\ taken \in Nat
  BY LinkAssumption DEF TInv, TypeOK, StreamsInv, ClientInv, RecvHeader
<1>2. Arrived \in Nat /\ HdrLen - got \in Nat /\ dnHead + Arrived = dnTail
  BY <1>1 DEF Arrived
<1>3. k \in Nat /\ k <= HdrLen - got /\ k <= Arrived
  BY <1>2, LesserBounds
<1>4. /\ dnHead' = dnHead + k
      /\ UNCHANGED <<call, up, resps, dnTail, link, server>>
      /\ \/ /\ got + k < HdrLen /\ got' = got + k
            /\ UNCHANGED <<pc, toSend, toRecv, remaining, final, taken, rc>>
         \/ /\ got' = 0 /\ Return("err") /\ UNCHANGED taken
         \/ /\ got' = 0 /\ \E j \in starting : taken' = j /\ Ack(resps[j])
  BY DEF RecvHeader
<1>5. \A j \in starting : j \in Nat
  OBVIOUS
<1> HIDE DEF k, starting
<1>6. dnHead' \in Nat /\ dnHead' <= dnTail
  BY <1>1, <1>2, <1>3, <1>4
<1>7. CASE /\ got + k < HdrLen /\ got' = got + k
           /\ UNCHANGED <<pc, toSend, toRecv, remaining, final, taken, rc>>
  <2>1. got' \in Nat
    BY <1>1, <1>3, <1>7
  <2> QED BY <1>1, <1>4, <1>6, <1>7, <2>1, PartTypes
<1>8. CASE got' = 0 /\ Return("err") /\ UNCHANGED taken
  BY <1>1, <1>4, <1>6, <1>8, ReturnTurn, TurnTypes DEF TInv
<1>9. CASE got' = 0 /\ \E j \in starting : taken' = j /\ Ack(resps[j])
  <2>1. PICK j \in starting : taken' = j /\ Ack(resps[j])
    BY <1>9
  <2>2. Turn
    BY <2>1, AckTurn DEF TInv
  <2> QED BY <1>1, <1>4, <1>5, <1>6, <1>9, <2>1, <2>2, TurnTypes
<1> QED BY <1>4, <1>7, <1>8, <1>9

LEMMA RecvPayloadTypes == ASSUME TInv, RecvPayload PROVE TInv'
<1> DEFINE k == Lesser(Chunk - got, Arrived)
<1>1. /\ got \in Nat /\ Chunk \in Nat /\ got <= Chunk /\ pc = "payload"
      /\ dnHead \in Nat /\ dnTail \in Nat /\ dnHead <= dnTail /\ taken \in Nat
      /\ final \in {"ok", "err"}
  BY ChunkBounds DEF TInv, TypeOK, StreamsInv, ClientInv, RecvPayload
<1>2. Arrived \in Nat /\ Chunk - got \in Nat /\ dnHead + Arrived = dnTail
  BY <1>1 DEF Arrived
<1>3. k \in Nat /\ k <= Chunk - got /\ k <= Arrived
  BY <1>2, LesserBounds
<1>4. /\ dnHead' = dnHead + k
      /\ UNCHANGED <<call, taken, up, resps, dnTail, link, server>>
      /\ \/ /\ got + k < Chunk /\ got' = got + k
            /\ UNCHANGED <<pc, toSend, toRecv, remaining, final, rc>>
         \/ /\ got' = 0 /\ Advance(final, toRecv - Chunk)
  BY DEF RecvPayload
<1> HIDE DEF k
<1>5. dnHead' \in Nat /\ dnHead' <= dnTail
  BY <1>1, <1>2, <1>3, <1>4
<1>6. CASE /\ got + k < Chunk /\ got' = got + k
           /\ UNCHANGED <<pc, toSend, toRecv, remaining, final, rc>>
  <2>1. got' \in Nat /\ got' <= Chunk
    BY <1>1, <1>3, <1>6
  <2> QED BY <1>1, <1>4, <1>5, <1>6, <2>1, PartTypes
<1>7. CASE got' = 0 /\ Advance(final, toRecv - Chunk)
  <2>1. Turn
    BY <1>1, <1>7, AdvanceTurn DEF TInv
  <2> QED BY <1>1, <1>4, <1>5, <1>7, <2>1, TurnTypes
<1> QED BY <1>4, <1>6, <1>7

LEMMA SocketErrorTypes == ASSUME TInv, SocketError PROVE TInv'
<1>1. TypeOK'
  BY DEF TInv, TypeOK, SocketError, Return, call, up, down, server
<1>2. StreamsInv' /\ HandInv'
  BY DEF TInv, StreamsInv, HandInv, SocketError, up, down, server, ReqLen
<1>3. ClientInv'
  BY DEF ClientInv, SocketError, Return
<1> QED BY <1>1, <1>2, <1>3 DEF TInv

-----------------------------------------------------------------------------
(* The server's steps leave the client's part alone.                        *)
LEMMA ClientSame ==
    ASSUME ClientInv, UNCHANGED <<call, client, reqs>>
    PROVE  ClientInv'
BY DEF ClientInv, call, client, Chunk, Lesser

LEMMA ReadRequestHeaderTypes == ASSUME TInv, ReadRequestHeader PROVE TInv'
<1> DEFINE k == Lesser(HdrLen - rxd, Pending)
<1>1. /\ HdrLen \in Nat \ {0} /\ rxd \in Nat /\ rxd < HdrLen
      /\ upHead \in Nat /\ upTail \in Nat /\ upHead <= upTail /\ reqs \in Seq(Requests)
  BY LinkAssumption DEF TInv, TypeOK, StreamsInv, HandInv, ReadRequestHeader
<1>2. Pending \in Nat /\ HdrLen - rxd \in Nat /\ upHead + Pending = upTail
  BY <1>1 DEF Pending
<1>3. k \in Nat /\ k <= HdrLen - rxd /\ k <= Pending
  BY <1>2, LesserBounds
<1>4. /\ upHead' = upHead + k
      /\ UNCHANGED <<call, client, reqs, upTail, down, link, sendLeft>>
      /\ \/ rxd + k < HdrLen /\ rxd' = rxd + k /\ sv' = "start" /\ cur' = cur
         \/ rxd' = 0 /\ sv' = "start" /\ cur' = cur
         \/ \E i \in 1..Len(reqs) :
              cur' = i /\ rxd' = HdrLen /\ sv' \in {"payload", "execute"}
  BY DEF ReadRequestHeader, Accepted
<1> HIDE DEF k
<1>5. upHead' \in Nat /\ upHead' <= upTail
  BY <1>1, <1>2, <1>3, <1>4
<1>6. /\ rxd' \in Nat /\ cur' \in Nat /\ sv' \in {"start", "payload", "execute"}
      /\ sv' = "start" => rxd' < HdrLen
      /\ sv' # "start" => cur' \in 1..Len(reqs) /\ rxd' = HdrLen
  BY <1>1, <1>3, <1>4 DEF TInv, TypeOK
<1>7. TypeOK'
  BY <1>4, <1>5, <1>6 DEF TInv, TypeOK, call, client, down
<1>8. StreamsInv'
  BY <1>4, <1>5 DEF TInv, StreamsInv, down
<1>9. ClientInv'
  BY <1>4, ClientSame DEF TInv
<1>10. HandInv'
  <2>1. sv' # "start" => ReqLen(reqs'[cur']) >= HdrLen
    <3> SUFFICES ASSUME sv' # "start" PROVE ReqLen(reqs'[cur']) >= HdrLen
      OBVIOUS
    <3>1. reqs'[cur'] \in Requests
      BY <1>1, <1>4, <1>6
    <3> QED BY <3>1, ReqLenNat
  <2> QED BY <1>1, <1>4, <1>6, <2>1 DEF HandInv, ReqLen
<1> QED BY <1>7, <1>8, <1>9, <1>10 DEF TInv

LEMMA ReadRequestPayloadTypes == ASSUME TInv, ReadRequestPayload PROVE TInv'
<1> DEFINE n == ReqLen(reqs[cur])
           k == Lesser(n - rxd, Pending)
<1>1. /\ rxd \in Nat /\ cur \in 1..Len(reqs) /\ rxd <= n
      /\ upHead \in Nat /\ upTail \in Nat /\ upHead <= upTail /\ reqs \in Seq(Requests)
  BY DEF TInv, TypeOK, StreamsInv, HandInv, ReadRequestPayload
<1>2. n \in Nat
  BY <1>1, ReqLenNat
<1>3. Pending \in Nat /\ n - rxd \in Nat /\ upHead + Pending = upTail
  BY <1>1, <1>2 DEF Pending
<1>4. k \in Nat /\ k <= n - rxd /\ k <= Pending
  BY <1>3, LesserBounds
<1>5. /\ upHead' = upHead + k /\ rxd' = rxd + k /\ sv' \in {"payload", "execute"}
      /\ UNCHANGED <<call, client, reqs, upTail, down, link, cur, sendLeft>>
  BY DEF ReadRequestPayload
<1>6. ReqLen(reqs[cur])' = n
  BY <1>5 DEF ReqLen
<1> HIDE DEF n, k
<1>7. upHead' \in Nat /\ upHead' <= upTail /\ rxd' \in Nat /\ rxd' <= n
  BY <1>1, <1>2, <1>3, <1>4, <1>5
<1>8. TypeOK'
  BY <1>5, <1>7 DEF TInv, TypeOK, call, client, down
<1>9. StreamsInv'
  BY <1>5, <1>7 DEF TInv, StreamsInv, down
<1>10. ClientInv'
  BY <1>5, ClientSame DEF TInv
<1>11. HandInv'
  BY <1>1, <1>5, <1>6, <1>7 DEF HandInv
<1> QED BY <1>8, <1>9, <1>10, <1>11 DEF TInv

LEMMA ExecuteTypes == ASSUME TInv, Execute PROVE TInv'
<1>1. PICK status \in {"ok", "err"}, n \in 0..MaxChunk :
        /\ resps' = Append(resps, [req |-> cur, status |-> status, ops |-> n, start |-> dnTail])
        /\ sendLeft' = RespLen(reqs[cur].kind, reqs[cur].ops, status)
  BY DEF Execute
<1>2. /\ sv' = "send" /\ rxd' = 0
      /\ UNCHANGED <<call, client, up, dnTail, dnHead, link, cur>>
  BY DEF Execute
<1>3. /\ cur \in 1..Len(reqs) /\ reqs \in Seq(Requests) /\ resps \in Seq(Responses)
      /\ dnTail \in Nat /\ cur \in Nat
  BY DEF TInv, TypeOK, HandInv, Execute
<1>4. reqs[cur].ops \in Nat
  <2>1. reqs[cur] \in Requests
    BY <1>3
  <2> QED BY <2>1 DEF Requests
<1>5. sendLeft' \in Nat
  BY <1>1, <1>4, LinkAssumption DEF RespLen
<1>6. resps' \in Seq(Responses)
  <2>1. n \in Nat
    BY LinkAssumption
  <2>2. [req |-> cur, status |-> status, ops |-> n, start |-> dnTail] \in Responses
    BY <1>3, <2>1 DEF Responses
  <2> QED BY <1>1, <1>3, <2>2
<1>7. TypeOK'
  BY <1>2, <1>5, <1>6 DEF TInv, TypeOK, call, client, up
<1>8. StreamsInv' /\ HandInv'
  BY <1>2 DEF TInv, StreamsInv, HandInv, up
<1>9. ClientInv'
  BY <1>2, ClientSame DEF TInv, up
<1> QED BY <1>7, <1>8, <1>9 DEF TInv

LEMMA SendResponseTypes == ASSUME TInv, SendResponse PROVE TInv'
<1> DEFINE k == Lesser(sendLeft, DnRoom)
<1>1. /\ sendLeft \in Nat /\ DnRoom \in Nat /\ dnTail \in Nat /\ dnHead \in Nat
      /\ dnHead <= dnTail /\ sv = "send" /\ HdrLen \in Nat \ {0}
  BY LinkAssumption DEF TInv, TypeOK, StreamsInv, SendResponse, DnRoom, Arrived
<1>2. k \in Nat /\ k <= sendLeft
  BY <1>1, LesserBounds
<1>3. /\ dnTail' = dnTail + k /\ sendLeft' = sendLeft - k /\ sv' \in {"start", "send"}
      /\ UNCHANGED <<call, client, up, resps, dnHead, link, cur, rxd>>
  BY DEF SendResponse
<1> HIDE DEF k
<1>4. dnTail' \in Nat /\ sendLeft' \in Nat /\ dnHead <= dnTail'
  BY <1>1, <1>2, <1>3
<1>5. TypeOK'
  BY <1>3, <1>4 DEF TInv, TypeOK, call, client, up
<1>6. StreamsInv' /\ HandInv'
  BY <1>1, <1>3, <1>4 DEF TInv, StreamsInv, HandInv, up
<1>7. ClientInv'
  BY <1>3, ClientSame DEF TInv, up
<1> QED BY <1>5, <1>6, <1>7 DEF TInv

LEMMA CloseTypes == ASSUME TInv, Close PROVE TInv'
<1>1. TypeOK'
  BY LinkAssumption DEF TInv, TypeOK, Close, call, client, up, down, server
<1>2. StreamsInv' /\ HandInv'
  BY DEF TInv, StreamsInv, HandInv, Close, up, down, server, ReqLen
<1>3. ClientInv'
  BY ClientSame DEF TInv, Close, up
<1> QED BY <1>1, <1>2, <1>3 DEF TInv

LEMMA StutterTypes == ASSUME TInv, UNCHANGED vars PROVE TInv'
<1>1. TypeOK'
  BY DEF TInv, TypeOK, vars, call, client, up, down, server
<1>2. StreamsInv' /\ HandInv'
  BY DEF TInv, StreamsInv, HandInv, vars, up, down, server, ReqLen
<1>3. ClientInv'
  BY ClientSame DEF TInv, vars, up
<1> QED BY <1>1, <1>2, <1>3 DEF TInv

LEMMA TInvNext == TInv /\ [Next]_vars => TInv'
<1> SUFFICES ASSUME TInv, [Next]_vars PROVE TInv'
  OBVIOUS
<1>1. CASE Invoke
  BY <1>1, InvokeTypes
<1>2. CASE ClientStep
  BY <1>2, EncodeTypes, TransmitTypes, WouldBlockTypes, RecvHeaderTypes, RecvPayloadTypes,
     SocketErrorTypes DEF ClientStep
<1>3. CASE ServerStep
  BY <1>3, ReadRequestHeaderTypes, ReadRequestPayloadTypes, ExecuteTypes, SendResponseTypes
     DEF ServerStep
<1>4. CASE Close
  BY <1>4, CloseTypes
<1>5. CASE UNCHANGED vars
  BY <1>5, StutterTypes
<1> QED BY <1>1, <1>2, <1>3, <1>4, <1>5 DEF Next

(* For all the functions of the library and whatever the server rejects,    *)
(* every variable keeps its type: the subtractions on counters and sizes in *)
(* zynqmp_api.c and command_processor never go below zero, also on a        *)
(* connection that is out of step.                                          *)
THEOREM TypeCorrect == Spec => []TypeOK
<1>1. Init => TInv
  BY TInvInit
<1>2. TInv /\ [Next]_vars => TInv'
  BY TInvNext
<1>3. TInv => TypeOK
  BY DEF TInv
<1> QED BY <1>1, <1>2, <1>3, PTL DEF Spec

-----------------------------------------------------------------------------
(* Both ends in step.                                                       *)
Draining == Kinds \subseteq DrainingKinds \cup {"read_roi"} /\ Valid \subseteq {TRUE}

IInv == TypeOK /\ LinkInv

-----------------------------------------------------------------------------
(* Lengths are natural numbers, and a message is at least a header.         *)
LEMMA ReqLenType ==
    ASSUME NEW r \in Requests
    PROVE  ReqLen(r) \in Nat /\ ReqLen(r) >= HdrLen
BY LinkAssumption DEF Requests, ReqLen

LEMMA RespLenType ==
    ASSUME NEW k, NEW n \in Nat, NEW s
    PROVE  RespLen(k, n, s) \in Nat /\ RespLen(k, n, s) >= HdrLen
BY LinkAssumption DEF RespLen

LEMMA LengthType == TypeOK => Len(reqs) \in Nat /\ Len(resps) \in Nat
BY DEF TypeOK

LEMMA LengthTypeNext == TypeOK' => Len(reqs') \in Nat /\ Len(resps') \in Nat
<1>1. TypeOK' => reqs' \in Seq(Requests) /\ resps' \in Seq(Responses)
  BY DEF TypeOK
<1> QED BY <1>1

LEMMA ScalarType ==
    TypeOK => /\ calls \in Nat /\ toSend \in Nat /\ toRecv \in Nat /\ remaining \in Nat
              /\ got \in Nat /\ taken \in Nat /\ upTail \in Nat /\ upHead \in Nat
              /\ dnTail \in Nat /\ dnHead \in Nat
              /\ cur \in Nat /\ rxd \in Nat /\ sendLeft \in Nat
BY DEF TypeOK

LEMMA ScalarTypeNext ==
    TypeOK' => /\ calls' \in Nat /\ toSend' \in Nat /\ toRecv' \in Nat /\ remaining' \in Nat
               /\ got' \in Nat /\ taken' \in Nat /\ upTail' \in Nat /\ upHead' \in Nat
               /\ dnTail' \in Nat /\ dnHead' \in Nat
               /\ cur' \in Nat /\ rxd' \in Nat /\ sendLeft' \in Nat
BY DEF TypeOK

LEMMA RequestType ==
    ASSUME TypeOK, NEW i \in 1..Len(reqs)
    PROVE  /\ reqs[i] \in Requests
           /\ reqs[i].call \in Nat /\ reqs[i].kind \in AllKinds /\ reqs[i].start \in Nat
           /\ reqs[i].before \in Nat /\ reqs[i].ops \in Nat
<1>1. reqs[i] \in Requests
  BY DEF TypeOK
<1> QED BY <1>1 DEF Requests

LEMMA ResponseType ==
    ASSUME TypeOK, NEW j \in 1..Len(resps)
    PROVE  /\ resps[j] \in Responses
           /\ resps[j].req \in Nat /\ resps[j].status \in {"ok", "err"}
           /\ resps[j].ops \in Nat /\ resps[j].start \in Nat
<1>1. resps[j] \in Responses
  BY DEF TypeOK
<1> QED BY <1>1 DEF Responses

LEMMA UpEndType ==
    ASSUME TypeOK, NEW n \in 0..Len(reqs)
    PROVE  UpEnd(n) \in Nat /\ (n > 0 => UpEnd(n) >= reqs[n].start + HdrLen)
<1>1. n > 0 => reqs[n] \in Requests
  BY DEF TypeOK
<1> QED BY <1>1, ReqLenType, LinkAssumption DEF UpEnd, Requests

LEMMA ReplyLenType ==
    ASSUME TypeOK, RespsInv, NEW j \in 1..Len(resps)
    PROVE  ReplyLen(j) \in Nat /\ ReplyLen(j) >= HdrLen
<1>1. resps[j].req = j /\ j \in 1..Len(reqs)
  BY LengthType DEF RespsInv
<1>2. reqs[j].ops \in Nat
  BY <1>1, RequestType
<1> QED BY <1>1, <1>2, RespLenType DEF ReplyLen

LEMMA DnEndType ==
    ASSUME TypeOK, RespsInv, NEW n \in 0..Len(resps)
    PROVE  DnEnd(n) \in Nat /\ (n > 0 => DnEnd(n) >= resps[n].start + HdrLen)
<1>1. n > 0 => resps[n] \in Responses
  BY DEF TypeOK
<1> QED BY <1>1, ReplyLenType, LinkAssumption DEF DnEnd, Responses

-----------------------------------------------------------------------------
(* Steps that leave a part of the state alone leave its invariant alone.    *)

LEMMA FrameReqs ==
    ASSUME TypeOK, TypeOK', ReqsInv, reqs' = reqs,
           upTail' + remaining' = upTail + remaining, remaining' <= remaining, upTail <= upTail'
    PROVE  ReqsInv'
<1>1. UpEnd(Len(reqs))' = UpEnd(Len(reqs))
  BY DEF UpEnd, ReqLen
<1>2. \A i \in 1..Len(reqs) : UpEnd(i - 1)' = UpEnd(i - 1) /\ ReqLen(reqs[i])' = ReqLen(reqs[i])
  BY DEF UpEnd, ReqLen
<1>3. upTail \in Nat /\ upTail' \in Nat /\ remaining \in Nat /\ remaining' \in Nat
  BY DEF TypeOK
<1>4. remaining > 0 => /\ Len(reqs) > 0 /\ reqs[Len(reqs)].start \in Nat
                       /\ reqs[Len(reqs)].start <= upTail
  BY LengthType, RequestType DEF ReqsInv
<1>5. (\A i \in 1..Len(reqs) :
         /\ reqs[i].start = UpEnd(i - 1)
         /\ reqs[i].before > 0
         /\ reqs[i].ops \in 1..Lesser(reqs[i].before, MaxChunk))'
  BY <1>2 DEF ReqsInv
<1>6. (\A i, j \in 1..Len(reqs) :
         i < j => reqs[i].start + ReqLen(reqs[i]) <= reqs[j].start)'
  BY <1>2 DEF ReqsInv
<1>7. (upTail + remaining = UpEnd(Len(reqs)))'
  BY <1>1 DEF ReqsInv
<1>8. (remaining > 0 => Len(reqs) > 0 /\ reqs[Len(reqs)].start <= upTail)'
  <2> SUFFICES ASSUME remaining' > 0
               PROVE  Len(reqs) > 0 /\ reqs[Len(reqs)].start <= upTail'
    OBVIOUS
  <2>1. remaining > 0
    BY <1>3
  <2> DEFINE at == reqs[Len(reqs)].start
  <2>2. at \in Nat /\ at <= upTail /\ Len(reqs) > 0
    BY <1>4, <2>1
  <2> HIDE DEF at
  <2>3. at <= upTail'
    BY <1>3, <2>2
  <2> QED BY <2>2, <2>3 DEF at
<1> QED BY <1>5, <1>6, <1>7, <1>8 DEF ReqsInv

LEMMA FrameResps ==
    ASSUME TypeOK, TypeOK', RespsInv, resps' = resps, Len(reqs) <= Len(reqs'),
           \A i \in 1..Len(reqs) : reqs'[i] = reqs[i],
           dnTail' + sendLeft' = dnTail + sendLeft,
           sendLeft' > 0 <=> sv' = "send"
    PROVE  RespsInv'
<1>1. Len(resps) \in Nat /\ Len(reqs) \in Nat /\ Len(reqs') \in Nat
  BY LengthType, LengthTypeNext
<1>2. \A j \in 1..Len(resps) : resps[j].req = j /\ j \in 1..Len(reqs)
  BY <1>1 DEF RespsInv
<1>3. \A j \in 1..Len(resps) : ReplyLen(j)' = ReplyLen(j)
  BY <1>2 DEF ReplyLen, RespLen
<1>4. \A j \in 0..Len(resps) : DnEnd(j)' = DnEnd(j)
  BY <1>1, <1>3 DEF DnEnd
<1>5. \A j \in 1..Len(resps) : DnEnd(j - 1)' = DnEnd(j - 1)
  BY <1>1, <1>4
<1> QED BY <1>1, <1>2, <1>3, <1>4, <1>5 DEF RespsInv

LEMMA FrameServer ==
    ASSUME TypeOK, TypeOK', ServerInv, RespsInv, resps' = resps, Len(reqs) <= Len(reqs'),
           \A i \in 1..Len(reqs) : reqs'[i] = reqs[i],
           UNCHANGED <<sv, cur, rxd, upHead>>, upTail <= upTail'
    PROVE  ServerInv'
<1>1. Len(resps) \in Nat /\ Len(reqs) \in Nat /\ Len(reqs') \in Nat
  BY LengthType, LengthTypeNext
<1>2. UpEnd(Len(resps))' = UpEnd(Len(resps))
  BY <1>1 DEF UpEnd, ReqLen, RespsInv
<1>3. sv \in {"payload", "execute"} => ReqLen(reqs[cur])' = ReqLen(reqs[cur])
  BY <1>1 DEF ReqLen, ServerInv
<1>4. (upHead = UpEnd(Len(resps)) + rxd)'
  BY <1>2 DEF ServerInv
<1>6. (upHead <= upTail)'
  <2>1. upHead <= upTail
    BY DEF ServerInv
  <2>2. upHead \in Nat /\ upTail \in Nat /\ upTail' \in Nat
    BY ScalarType, ScalarTypeNext
  <2> QED BY <2>1, <2>2
<1>5. (sv \in {"payload", "execute"} => cur = Len(resps) + 1 /\ cur <= Len(reqs))'
  <2>1. sv \in {"payload", "execute"} => cur = Len(resps) + 1 /\ cur <= Len(reqs)
    BY DEF ServerInv
  <2> QED BY <2>1, <1>1, ScalarType
<1> QED BY <1>3, <1>4, <1>5, <1>6 DEF ServerInv

LEMMA FrameStream ==
    ASSUME TypeOK, TypeOK', StreamInv, RespsInv, reqs' = reqs, Len(resps) <= Len(resps'),
           \A j \in 1..Len(resps) : resps'[j] = resps[j],
           UNCHANGED <<pc, got, taken, remaining, final, toSend, op, dnHead>>,
           dnTail <= dnTail'
    PROVE  StreamInv'
<1>1. Len(resps) \in Nat /\ Len(reqs) \in Nat /\ Len(resps') \in Nat
  BY LengthType, LengthTypeNext
<1>2. Acked' = Acked /\ Posted' = Posted
  BY DEF Acked, Posted
<1>3. Acked \in 0..Len(resps)
  <2>1. taken <= Len(resps) /\ (pc = "payload" => taken > 0)
    BY DEF StreamInv
  <2> QED BY <1>1, <2>1, ScalarType DEF Acked
<1>4. DnEnd(Acked)' = DnEnd(Acked)
  BY <1>1, <1>2, <1>3 DEF DnEnd, ReplyLen, RespLen, RespsInv
<1>5. (taken <= Len(resps) /\ dnHead <= dnTail)'
  <2>1. taken <= Len(resps) /\ dnHead <= dnTail
    BY DEF StreamInv
  <2>2. dnHead \in Nat /\ dnTail \in Nat /\ dnTail' \in Nat /\ taken \in Nat
    BY ScalarType, ScalarTypeNext
  <2> QED BY <2>1, <2>2, <1>1
<1>6. (pc = "payload" => resps[taken].status = "ok")'
  <2>1. pc = "payload" => taken > 0 /\ taken <= Len(resps) /\ resps[taken].status = "ok"
    BY DEF StreamInv
  <2> QED BY <2>1, <1>1, ScalarType
<1>7. /\ (pc # "payload" => dnHead = DnEnd(Acked) + got)'
      /\ (pc = "payload" => dnHead = DnEnd(Acked) + HdrLen + got)'
  <2>1. /\ pc # "payload" => dnHead = DnEnd(Acked) + got
        /\ pc = "payload" => dnHead = DnEnd(Acked) + HdrLen + got
    BY DEF StreamInv
  <2> QED BY <2>1, <1>4
<1>8. (/\ pc = "idle" => remaining = 0 /\ got = 0 /\ taken = Len(reqs)
       /\ pc = "send" => got = 0 /\ (remaining > 0 \/ (final = "ok" /\ toSend > 0))
       /\ pc = "recv" => got < HdrLen /\ taken < Posted)'
  BY <1>2 DEF StreamInv
<1>9. (pc = "payload" => /\ taken > 0 /\ resps[taken].status = "ok"
                         /\ op.kind \in ReadKinds /\ got < reqs[taken].ops)'
  BY <1>6 DEF StreamInv
<1> QED BY <1>5, <1>7, <1>8, <1>9 DEF StreamInv

LEMMA FrameCall ==
    ASSUME CallInv, UNCHANGED <<reqs, pc, taken, remaining, final, toSend, toRecv, op, calls>>
    PROVE  CallInv'
BY DEF CallInv, Acked
-----------------------------------------------------------------------------
(* What the invariant says at each end.                                     *)

LEMMA LesserType ==
    ASSUME NEW a \in Nat, NEW b \in Nat
    PROVE  /\ Lesser(a, b) \in Nat /\ Lesser(a, b) <= a /\ Lesser(a, b) <= b
           /\ (a > 0 /\ b > 0 => Lesser(a, b) > 0)
           /\ Lesser(a, b) \in {a, b}
BY DEF Lesser

(* A posted request carries between one operation and all that was left.    *)
LEMMA RequestFacts ==
    ASSUME TypeOK, ReqsInv, NEW i \in 1..Len(reqs)
    PROVE  /\ reqs[i].before \in Nat \ {0} /\ reqs[i].ops \in Nat \ {0}
           /\ reqs[i].ops <= reqs[i].before /\ reqs[i].ops <= MaxChunk
<1>1. reqs[i].before > 0 /\ reqs[i].ops \in 1..Lesser(reqs[i].before, MaxChunk)
  BY DEF ReqsInv
<1>2. reqs[i].before \in Nat /\ MaxChunk \in Nat /\ MaxChunk > 0
  BY RequestType, LinkAssumption
<1> QED BY <1>1, <1>2 DEF Lesser

(* The server answers no request before its last unit was sent.             *)
LEMMA AnsweredPosted ==
    ASSUME TypeOK, ReqsInv, RespsInv, ServerInv
    PROVE  Len(resps) <= Posted
<1>1. Len(resps) <= Len(reqs)
  BY DEF RespsInv
<1>2. CASE remaining > 0
  <2>1. Len(resps) # Len(reqs)
    <3>1. upTail + remaining = UpEnd(Len(reqs)) BY DEF ReqsInv
    <3>2. upHead = UpEnd(Len(resps)) + rxd /\ upHead <= upTail BY DEF ServerInv
    <3>3. UpEnd(Len(reqs)) \in Nat BY UpEndType, LengthType
    <3>4. upTail \in Nat /\ upHead \in Nat /\ rxd \in Nat /\ remaining \in Nat BY ScalarType
    <3> QED BY <1>2, <3>1, <3>2, <3>3, <3>4
  <2> QED BY <1>1, <1>2, <2>1, LengthType DEF Posted
<1>3. CASE ~(remaining > 0)
  BY <1>1, <1>3 DEF Posted
<1> QED BY <1>2, <1>3

(* While the client receives, the oldest unanswered request is wholly sent, *)
(* and Chunk is what that request asked for.                                *)
LEMMA Outstanding ==
    ASSUME IInv, pc \in {"recv", "payload"}
    PROVE  /\ link # "dead" /\ Acked + 1 \in 1..Len(reqs) /\ Acked + 1 <= Posted
           /\ toRecv = reqs[Acked + 1].before
           /\ Chunk = reqs[Acked + 1].ops
           /\ Chunk \in 1..toRecv
<1>1. /\ link # "dead" /\ TypeOK /\ ReqsInv /\ RespsInv /\ ServerInv /\ StreamInv /\ CallInv
  BY DEF IInv, LinkInv
<1>2. Len(resps) <= Posted
  BY <1>1, AnsweredPosted
<1>3. taken <= Len(resps) /\ (pc = "recv" => taken < Posted) /\ (pc = "payload" => taken > 0)
  BY <1>1 DEF StreamInv
<1>4. Posted \in Int /\ Posted <= Len(reqs) /\ taken \in Nat
  BY <1>1, LengthType, ScalarType DEF Posted
<1>5. Acked + 1 \in 1..Len(reqs) /\ Acked + 1 <= Posted
  <2>1. CASE pc = "recv"
    BY <1>1, <1>3, <1>4, <2>1, LengthType DEF Acked
  <2>2. CASE pc = "payload"
    BY <1>1, <1>2, <1>3, <1>4, <2>2, LengthType DEF Acked
  <2> QED BY <2>1, <2>2
<1>6. toRecv = IF Acked < Len(reqs) THEN reqs[Acked + 1].before ELSE toSend
  BY <1>1 DEF CallInv
<1>7. Acked \in Int
  BY <1>4 DEF Acked
<1>8. toRecv = reqs[Acked + 1].before
  BY <1>5, <1>6, <1>7, <1>1, LengthType
<1>9. Chunk = reqs[Acked + 1].ops
  <2>1. Acked + 1 \in (Acked + 1)..Len(reqs)
    BY <1>5, <1>7
  <2>2. reqs[Acked + 1].ops = Lesser(reqs[Acked + 1].before, op.most)
    BY <1>1, <2>1 DEF CallInv
  <2> QED BY <1>8, <2>2 DEF Chunk
<1> QED BY <1>1, <1>5, <1>8, <1>9, RequestFacts
(* With units waiting at the client, the next response in the stream is the *)
(* one after the last it took, and no other starts where it reads.          *)
LEMMA NextResponse ==
    ASSUME IInv, pc = "recv", Arrived > 0
    PROVE  /\ taken + 1 \in 1..Len(resps)
           /\ {j \in 1..Len(resps) : resps[j].start = dnHead - got} = {taken + 1}
<1>1. TypeOK /\ RespsInv /\ StreamInv
  BY DEF IInv, LinkInv
<1>2. taken <= Len(resps) /\ dnHead = DnEnd(taken) + got
  BY <1>1 DEF StreamInv, Acked
<1>3. taken \in Nat /\ got \in Nat /\ dnHead \in Nat /\ dnTail \in Nat /\ sendLeft \in Nat
  BY <1>1, ScalarType
<1>4. taken \in 0..Len(resps) /\ Len(resps) \in Nat
  BY <1>1, <1>2, <1>3, LengthType
<1>5. DnEnd(taken) \in Nat
  BY <1>1, <1>4, DnEndType
<1>6. taken # Len(resps)
  <2>1. dnTail + sendLeft = DnEnd(Len(resps))
    BY <1>1 DEF RespsInv
  <2>2. dnTail > dnHead
    BY <1>3 DEF Arrived
  <2> QED BY <2>1, <2>2, <1>2, <1>3, <1>5
<1>7. taken + 1 \in 1..Len(resps)
  BY <1>4, <1>6
<1>8. resps[taken + 1].start = dnHead - got
  <2>1. resps[taken + 1].start = DnEnd((taken + 1) - 1)
    BY <1>1, <1>7 DEF RespsInv
  <2>2. (taken + 1) - 1 = taken
    BY <1>3
  <2> QED BY <2>1, <2>2, <1>2, <1>3, <1>5
<1>9. \A j \in 1..Len(resps) : j # taken + 1 => resps[j].start # resps[taken + 1].start
  <2> TAKE j \in 1..Len(resps)
  <2>1. ReplyLen(j) \in Nat /\ ReplyLen(j) > 0 /\ ReplyLen(taken + 1) \in Nat /\ ReplyLen(taken + 1) > 0
    BY <1>1, <1>7, ReplyLenType, LinkAssumption
  <2>2. resps[j].start \in Nat /\ resps[taken + 1].start \in Nat
    BY <1>1, <1>7, ResponseType
  <2>3. /\ j < taken + 1 => resps[j].start + ReplyLen(j) <= resps[taken + 1].start
        /\ taken + 1 < j => resps[taken + 1].start + ReplyLen(taken + 1) <= resps[j].start
    BY <1>1, <1>7 DEF RespsInv
  <2> QED BY <2>1, <2>2, <2>3, <1>3
<1> QED BY <1>7, <1>8, <1>9

(* With units waiting at the server between two messages, the next request  *)
(* in the stream is the one after the last it answered.                     *)
LEMMA NextRequest ==
    ASSUME IInv, Smooth, sv = "start", Pending > 0, link # "dead"
    PROVE  /\ Len(resps) + 1 \in 1..Len(reqs)
           /\ Accepted(upHead - rxd) = {Len(resps) + 1}
<1>1. TypeOK /\ ReqsInv /\ RespsInv /\ ServerInv
  BY DEF IInv, LinkInv
<1> DEFINE n == Len(resps)
<1>2. n <= Len(reqs) /\ upHead = UpEnd(n) + rxd
  BY <1>1 DEF RespsInv, ServerInv
<1>3. rxd \in Nat /\ upHead \in Nat /\ upTail \in Nat /\ remaining \in Nat
  BY <1>1, ScalarType
<1>4. n \in 0..Len(reqs) /\ Len(reqs) \in Nat
  BY <1>1, <1>2, LengthType
<1>5. UpEnd(n) \in Nat
  BY <1>1, <1>4, UpEndType
<1>6. n # Len(reqs)
  <2>1. upTail + remaining = UpEnd(Len(reqs))
    BY <1>1 DEF ReqsInv
  <2>2. upTail > upHead
    BY <1>3 DEF Pending
  <2> QED BY <2>1, <2>2, <1>2, <1>3, <1>5
<1>7. n + 1 \in 1..Len(reqs)
  BY <1>4, <1>6
<1>8. reqs[n + 1].start = upHead - rxd
  <2>1. reqs[n + 1].start = UpEnd((n + 1) - 1)
    BY <1>1, <1>7 DEF ReqsInv
  <2>2. (n + 1) - 1 = n
    BY <1>4
  <2> QED BY <2>1, <2>2, <1>2, <1>3, <1>5
<1>9. \A i, j \in 1..Len(reqs) : i < j => reqs[i].start + HdrLen <= reqs[j].start
  <2> TAKE i, j \in 1..Len(reqs)
  <2>1. ReqLen(reqs[i]) \in Nat /\ ReqLen(reqs[i]) >= HdrLen
    BY <1>1, RequestType, ReqLenType
  <2>2. reqs[i].start \in Nat /\ reqs[j].start \in Nat
    BY <1>1, RequestType
  <2>3. i < j => reqs[i].start + ReqLen(reqs[i]) <= reqs[j].start
    BY <1>1 DEF ReqsInv
  <2> QED BY <2>1, <2>2, <2>3, LinkAssumption
<1>10. \A i \in 1..Len(reqs) : reqs[i].start \in Nat /\ reqs[i].ok
  BY <1>1, RequestType DEF Smooth
<1>11. n + 1 < Len(reqs) => reqs[(n + 1) + 1].start >= upHead - rxd + HdrLen
  <2> SUFFICES ASSUME n + 1 < Len(reqs)
               PROVE  reqs[(n + 1) + 1].start >= upHead - rxd + HdrLen
    OBVIOUS
  <2>1. (n + 1) + 1 \in 1..Len(reqs) /\ n + 1 < (n + 1) + 1
    BY <1>4
  <2>2. reqs[n + 1].start + HdrLen <= reqs[(n + 1) + 1].start
    BY <2>1, <1>7, <1>9
  <2> QED BY <2>1, <2>2, <1>3, <1>8, <1>10, LinkAssumption
<1>12. \A i \in 1..Len(reqs) : i # n + 1 => reqs[i].start # reqs[n + 1].start
  <2> TAKE i \in 1..Len(reqs)
  <2>1. /\ i < n + 1 => reqs[i].start + HdrLen <= reqs[n + 1].start
        /\ n + 1 < i => reqs[n + 1].start + HdrLen <= reqs[i].start
    BY <1>7, <1>9
  <2> QED BY <2>1, <1>4, <1>7, <1>10, LinkAssumption
<1> QED BY <1>7, <1>8, <1>10, <1>11, <1>12 DEF Accepted
-----------------------------------------------------------------------------
(* Each action of the client keeps the invariant.                           *)

LEMMA DnEndSame ==
    ASSUME reqs' = reqs, resps' = resps
    PROVE  \A n \in Nat : DnEnd(n)' = DnEnd(n)
BY DEF DnEnd, ReplyLen

(* A function of the library may be called with up to MaxOps operations; a  *)
(* single-request one with no more than a request can carry.                *)
LEMMA BeginInv ==
    ASSUME IInv, NEW k \in AllKinds, NEW n \in Nat \ {0},
           NEW most \in 1..MaxChunk, Begin(k, n, most), k \in SingleKinds => n <= most
    PROVE  IInv'
<1>1. /\ pc = "idle" /\ link # "dead"
      /\ TypeOK /\ ReqsInv /\ RespsInv /\ ServerInv /\ StreamInv /\ CallInv
  BY DEF IInv, LinkInv, Begin
<1>2. remaining = 0 /\ got = 0 /\ taken = Len(reqs)
  BY <1>1 DEF StreamInv
<1>3. UNCHANGED <<taken, rc, reqs, upTail, upHead, resps, dnTail, dnHead, link,
                  sv, cur, rxd, sendLeft>>
  BY DEF Begin, up, down, server
<1>4. /\ \E ok \in BOOLEAN : op' = [kind |-> k, ok |-> ok, most |-> most]
      /\ calls' = calls + 1 /\ pc' = "send"
      /\ toSend' = n /\ toRecv' = n /\ remaining' = 0 /\ final' = "ok" /\ got' = 0
  BY LinkAssumption DEF Begin
<1>5. k \in AllKinds /\ most \in Nat
  BY LinkAssumption
<1>6. TypeOK'
  BY <1>1, <1>3, <1>4, <1>5 DEF TypeOK
<1>7. ReqsInv'
  BY <1>1, <1>2, <1>3, <1>4, <1>6, ScalarType, FrameReqs
<1>8. RespsInv'
  <2>1. sendLeft' > 0 <=> sv' = "send"
    BY <1>1, <1>3 DEF RespsInv
  <2> QED BY <1>1, <1>3, <1>6, <2>1, LengthType, FrameResps
<1>9. ServerInv'
  BY <1>1, <1>3, <1>6, LengthType, ScalarType, FrameServer
<1>10. StreamInv'
  <2>1. \A m \in Nat : DnEnd(m)' = DnEnd(m)
    BY <1>3, DnEndSame
  <2>2. taken \in Nat /\ Acked = taken /\ Acked' = taken
    BY <1>1, <1>3, <1>4, ScalarType DEF Acked
  <2>3. dnHead = DnEnd(taken) + got /\ dnHead <= dnTail /\ taken <= Len(resps)
    BY <1>1, <2>2 DEF StreamInv
  <2>4. DnEnd(Acked)' = DnEnd(taken)
    BY <2>1, <2>2
  <2> QED BY <1>2, <1>3, <1>4, <2>2, <2>3, <2>4 DEF StreamInv
<1>11. CallInv'
  <2>1. Acked' = Len(reqs') /\ Len(reqs') \in Nat
    BY <1>1, <1>2, <1>3, <1>4, LengthType DEF Acked
  <2> QED BY <1>4, <1>5, <2>1 DEF CallInv
<1> QED BY <1>1, <1>3, <1>6, <1>7, <1>8, <1>9, <1>10, <1>11 DEF IInv, LinkInv
LEMMA EncodeInv ==
    ASSUME IInv, Encode
    PROVE  IInv'
<1>0. PICK n \in Nat : n = Len(reqs)
  BY LengthType DEF IInv
<1> DEFINE r == [call |-> calls, kind |-> op.kind, ok |-> op.ok, start |-> upTail,
                 before |-> toSend, ops |-> Lesser(toSend, op.most)]
<1>1. /\ pc = "send" /\ final = "ok" /\ remaining = 0 /\ toSend > 0 /\ link # "dead"
      /\ TypeOK /\ ReqsInv /\ RespsInv /\ ServerInv /\ StreamInv /\ CallInv
  BY DEF IInv, LinkInv, Encode
<1>2. UNCHANGED <<calls, op, pc, toSend, toRecv, final, got, taken, rc, upTail, upHead,
                  resps, dnTail, dnHead, link, sv, cur, rxd, sendLeft>>
  BY DEF Encode, call, down, server
<1>3. reqs' = Append(reqs, r) /\ remaining' = ReqLen(r)
  BY DEF Encode
<1>4. /\ n \in Nat /\ Len(resps) \in Nat /\ toSend \in Nat /\ MaxChunk \in Nat /\ MaxChunk > 0
      /\ op.most \in 1..MaxChunk /\ upTail \in Nat /\ taken \in Nat /\ n = Len(reqs)
  BY <1>0, <1>1, LengthType, ScalarType, LinkAssumption DEF CallInv
<1>5. op.kind \in AllKinds
  BY <1>1 DEF CallInv
<1>6. /\ r \in Requests /\ ReqLen(r) \in Nat /\ ReqLen(r) >= HdrLen /\ ReqLen(r) > 0
      /\ r.ops \in 1..Lesser(toSend, MaxChunk)
  <2>1. calls \in Nat /\ op.ok \in BOOLEAN
    BY <1>1, <1>5 DEF TypeOK
  <2>2. Lesser(toSend, op.most) \in Nat /\ r.ops \in 1..Lesser(toSend, MaxChunk)
    BY <1>1, <1>4 DEF Lesser
  <2>3. r \in Requests
    BY <1>4, <1>5, <2>1, <2>2 DEF Requests
  <2> QED BY <2>2, <2>3, ReqLenType, LinkAssumption
<1>7. Len(reqs') = n + 1 /\ reqs'[n + 1] = r /\ \A i \in 1..n : reqs'[i] = reqs[i]
  BY <1>1, <1>3, <1>4 DEF TypeOK
<1>8. TypeOK'
  <2>1. reqs' \in Seq(Requests)
    BY <1>1, <1>3, <1>6 DEF TypeOK
  <2> QED BY <1>1, <1>2, <1>3, <1>6, <2>1 DEF TypeOK
<1>9. UpEnd(n) = upTail /\ UpEnd(n)' = upTail /\ UpEnd(n + 1)' = upTail + ReqLen(r)
  <2>1. UpEnd(n) = upTail
    BY <1>1, <1>4 DEF ReqsInv
  <2>2. UpEnd(n)' = UpEnd(n)
    BY <1>4, <1>7 DEF UpEnd
  <2>3. UpEnd(n + 1)' = upTail + ReqLen(r)
    BY <1>4, <1>7 DEF UpEnd
  <2> QED BY <2>1, <2>2, <2>3
<1>10. ReqsInv'
  <2>1. \A i \in 1..(n + 1) :
          /\ reqs'[i].start = UpEnd(i - 1)'
          /\ reqs'[i].before > 0
          /\ reqs'[i].ops \in 1..Lesser(reqs'[i].before, MaxChunk)
    <3> TAKE i \in 1..(n + 1)
    <3>1. CASE i = n + 1
      <4>1. i - 1 = n
        BY <1>4, <3>1
      <4> QED BY <1>1, <1>5, <1>6, <1>7, <1>9, <3>1, <4>1
    <3>2. CASE i # n + 1
      <4>1. i \in 1..n
        BY <1>4, <3>2
      <4>2. UpEnd(i - 1)' = UpEnd(i - 1)
        BY <1>4, <1>7, <4>1 DEF UpEnd
      <4> QED BY <1>1, <1>4, <1>7, <4>1, <4>2 DEF ReqsInv
    <3> QED BY <3>1, <3>2
  <2>2. \A i, j \in 1..(n + 1) :
          i < j => reqs'[i].start + ReqLen(reqs'[i]) <= reqs'[j].start
    <3> SUFFICES ASSUME NEW i \in 1..(n + 1), NEW j \in 1..(n + 1), i < j
                 PROVE  reqs'[i].start + ReqLen(reqs'[i]) <= reqs'[j].start
      OBVIOUS
    <3>1. i \in 1..n /\ reqs'[i] = reqs[i]
      BY <1>4, <1>7
    <3>2. CASE j = n + 1
      <4>1. reqs[i].start \in Nat /\ ReqLen(reqs[i]) \in Nat
        BY <1>1, <1>4, <3>1, RequestType, ReqLenType
      <4>2. n \in 1..n /\ UpEnd(n) = reqs[n].start + ReqLen(reqs[n])
        BY <1>4, <3>1 DEF UpEnd
      <4>3. reqs[n].start \in Nat /\ ReqLen(reqs[n]) \in Nat
        BY <1>1, <1>4, <4>2, RequestType, ReqLenType
      <4>4. i < n => reqs[i].start + ReqLen(reqs[i]) <= reqs[n].start
        BY <1>1, <1>4, <3>1, <4>2 DEF ReqsInv
      <4>5. reqs[i].start + ReqLen(reqs[i]) <= upTail
        BY <1>4, <1>9, <3>1, <4>1, <4>2, <4>3, <4>4
      <4> QED BY <1>7, <3>1, <3>2, <4>5
    <3>3. CASE j # n + 1
      <4>1. j \in 1..n /\ reqs'[j] = reqs[j]
        BY <1>4, <1>7, <3>3
      <4> QED BY <1>1, <1>4, <3>1, <4>1 DEF ReqsInv
    <3> QED BY <3>2, <3>3
  <2>3. upTail' + remaining' = UpEnd(n + 1)'
    BY <1>2, <1>3, <1>9
  <2>4. reqs'[n + 1].start <= upTail' /\ n + 1 > 0
    BY <1>2, <1>4, <1>7
  <2> QED BY <1>7, <2>1, <2>2, <2>3, <2>4 DEF ReqsInv
<1>11. RespsInv'
  <2>1. sendLeft' > 0 <=> sv' = "send"
    BY <1>1, <1>2 DEF RespsInv
  <2> QED BY <1>1, <1>2, <1>4, <1>7, <1>8, <2>1, FrameResps
<1>12. ServerInv'
  BY <1>1, <1>2, <1>4, <1>7, <1>8, FrameServer
<1>13. StreamInv'
  <2>1. Acked = taken /\ Acked' = taken
    BY <1>1, <1>2 DEF Acked
  <2>2. taken \in 0..Len(resps) /\ Len(resps) <= n
    BY <1>1, <1>4 DEF StreamInv, RespsInv
  <2>3. DnEnd(taken)' = DnEnd(taken)
    BY <1>1, <1>2, <1>4, <1>7, <2>2 DEF DnEnd, ReplyLen, RespsInv
  <2>4. dnHead = DnEnd(taken) + got /\ dnHead <= dnTail /\ got = 0
    BY <1>1, <1>4, <2>1 DEF StreamInv
  <2>5. DnEnd(Acked)' = DnEnd(taken)
    BY <1>2, <2>1, <2>3
  <2> QED BY <1>1, <1>2, <1>3, <1>6, <2>1, <2>2, <2>4, <2>5 DEF StreamInv
<1>14. CallInv'
  <2>1. Acked = taken /\ Acked' = taken /\ taken \in 0..n
    <3>1. taken <= Len(resps) /\ Len(resps) <= n
      BY <1>1, <1>4 DEF StreamInv, RespsInv
    <3> QED BY <1>1, <1>2, <1>4, <3>1 DEF Acked
  <2>2. /\ \A i \in (taken + 1)..n :
             /\ reqs[i].call = calls /\ reqs[i].kind = op.kind
             /\ reqs[i].ops = Lesser(reqs[i].before, op.most)
        /\ \A i, j \in (taken + 1)..n :
             /\ j = i + 1 => reqs[j].before = reqs[i].before - reqs[i].ops
             /\ i < j => reqs[j].before <= reqs[i].before - reqs[i].ops
        /\ toRecv = IF taken < n THEN reqs[taken + 1].before ELSE toSend
        /\ taken < n => toSend = reqs[n].before - reqs[n].ops
        /\ op.kind \in SingleKinds =>
             toRecv <= op.most /\ final = "ok" /\ toSend \in {0, toRecv}
    BY <1>1, <1>4, <2>1 DEF CallInv
  <2>3. \A i \in (taken + 1)..n : i \in 1..n /\ taken < n
    BY <1>4, <2>1
  <2>4. \A i \in (taken + 1)..(n + 1) :
          /\ reqs'[i].call = calls /\ reqs'[i].kind = op.kind
          /\ reqs'[i].ops = Lesser(reqs'[i].before, op.most)
    <3> TAKE i \in (taken + 1)..(n + 1)
    <3>1. i = n + 1 \/ i \in (taken + 1)..n
      BY <1>4, <2>1
    <3> QED BY <1>7, <2>2, <2>3, <3>1
  <2>5. \A i, j \in (taken + 1)..(n + 1) :
          /\ j = i + 1 => reqs'[j].before = reqs'[i].before - reqs'[i].ops
          /\ i < j => reqs'[j].before <= reqs'[i].before - reqs'[i].ops
    <3> SUFFICES ASSUME NEW i \in (taken + 1)..(n + 1), NEW j \in (taken + 1)..(n + 1), i < j
                 PROVE  /\ j = i + 1 => reqs'[j].before = reqs'[i].before - reqs'[i].ops
                        /\ reqs'[j].before <= reqs'[i].before - reqs'[i].ops
      BY <1>4, <2>1
    <3>1. i \in (taken + 1)..n /\ i \in 1..n /\ n \in (taken + 1)..n /\ n \in 1..n
      BY <1>4, <2>1
    <3>2. CASE j = n + 1
      <4>1. toSend = reqs[n].before - reqs[n].ops
        BY <2>2, <2>3, <3>1
      <4>2. reqs'[j].before = toSend /\ reqs'[i] = reqs[i]
        BY <1>7, <3>1, <3>2
      <4>3. i < n => reqs[n].before <= reqs[i].before - reqs[i].ops
        BY <2>2, <3>1
      <4>4. /\ reqs[n].before \in Nat /\ reqs[n].ops \in Nat
            /\ reqs[i].before \in Nat /\ reqs[i].ops \in Nat
        BY <1>1, <1>4, <3>1, RequestType
      <4>5. toSend <= reqs[i].before - reqs[i].ops
        <5>1. CASE i = n
          BY <4>1, <4>4, <5>1
        <5>2. CASE i < n
          BY <4>1, <4>3, <4>4, <5>2
        <5> QED BY <5>1, <5>2, <3>1
      <4>6. j = i + 1 => i = n
        BY <3>1, <3>2, <1>4
      <4> QED BY <4>1, <4>2, <4>5, <4>6
    <3>3. CASE j # n + 1
      <4>1. j \in (taken + 1)..n /\ j \in 1..n
        BY <1>4, <2>1, <3>3
      <4> QED BY <1>7, <2>2, <3>1, <4>1
    <3> QED BY <3>2, <3>3
  <2>6. toRecv = reqs'[taken + 1].before
    <3>1. CASE taken < n
      BY <1>4, <1>7, <2>1, <2>2, <3>1
    <3>2. CASE taken = n
      BY <1>4, <1>7, <2>1, <2>2, <3>2
    <3> QED BY <2>1, <3>1, <3>2
  <2>7. taken < n + 1 /\ taken <= n + 1
    BY <1>4, <2>1
  <2>8. (op.kind \in AllKinds /\ op.most \in 1..MaxChunk)'
    BY <1>2, <1>4, <1>5
  <2>9. /\ (\A i \in (Acked + 1)..Len(reqs) :
               /\ reqs[i].call = calls /\ reqs[i].kind = op.kind
               /\ reqs[i].ops = Lesser(reqs[i].before, op.most))'
        /\ (\A i, j \in (Acked + 1)..Len(reqs) :
               /\ j = i + 1 => reqs[j].before = reqs[i].before - reqs[i].ops
               /\ i < j => reqs[j].before <= reqs[i].before - reqs[i].ops)'
    <3>1. (Acked + 1)' = taken + 1 /\ Len(reqs') = n + 1
      BY <1>7, <2>1
    <3>2. (\A i \in (Acked + 1)..Len(reqs) :
               /\ reqs[i].call = calls /\ reqs[i].kind = op.kind
               /\ reqs[i].ops = Lesser(reqs[i].before, op.most))'
      BY <1>2, <2>4, <3>1
    <3>3. (\A i, j \in (Acked + 1)..Len(reqs) :
               /\ j = i + 1 => reqs[j].before = reqs[i].before - reqs[i].ops
               /\ i < j => reqs[j].before <= reqs[i].before - reqs[i].ops)'
      BY <2>5, <3>1
    <3> QED BY <3>2, <3>3
  <2>10. (toRecv = IF Acked < Len(reqs) THEN reqs[Acked + 1].before ELSE toSend)'
    BY <1>2, <1>7, <2>1, <2>6, <2>7
  <2>11. remaining' > 0 /\ toSend' = reqs'[Len(reqs')].before
    BY <1>2, <1>3, <1>6, <1>7
  <2>12. (Acked <= Len(reqs))'
    BY <1>7, <2>1, <2>7
  <2>13. (op.kind \in SingleKinds =>
            toRecv <= op.most /\ final = "ok" /\ toSend \in {0, toRecv})'
    BY <1>2, <2>2
  <2>14. ~(remaining' = 0)
    BY <1>3, <1>6
  <2> QED BY <2>8, <2>9, <2>10, <2>11, <2>12, <2>13, <2>14 DEF CallInv
<1> QED BY <1>1, <1>2, <1>8, <1>10, <1>11, <1>12, <1>13, <1>14 DEF IInv, LinkInv

(* What every step of the call in progress starts from.                     *)
LEMMA Alive ==
    ASSUME IInv, pc # "idle"
    PROVE  /\ link # "dead" /\ TypeOK
           /\ ReqsInv /\ RespsInv /\ ServerInv /\ StreamInv /\ CallInv
BY DEF IInv, LinkInv

LEMMA CallSame ==
    ASSUME CallInv, pc # "idle", Acked' = Acked,
           UNCHANGED <<reqs, calls, op, toSend, toRecv, final, remaining>>
    PROVE  CallInv'
BY DEF CallInv

LEMMA TransmitInv ==
    ASSUME IInv, Transmit
    PROVE  IInv'
<1>1. pc = "send" /\ remaining > 0 /\ UpRoom > 0
  BY DEF Transmit
<1>2. /\ link # "dead" /\ TypeOK
      /\ ReqsInv /\ RespsInv /\ ServerInv /\ StreamInv /\ CallInv
  BY <1>1, Alive
<1>3. PICK n \in Nat : n = Len(reqs)
  BY <1>2, LengthType
<1>4. /\ toSend \in Nat /\ toRecv \in Nat /\ remaining \in Nat /\ taken \in Nat
      /\ upTail \in Nat /\ upHead \in Nat /\ Len(resps) \in Nat
  BY <1>2, ScalarType, LengthType
<1>5. n \in 1..n /\ n > 0 /\ toSend = reqs[n].before
  BY <1>1, <1>2, <1>3 DEF ReqsInv, CallInv
<1>6. /\ reqs[n].before \in Nat \ {0} /\ reqs[n].ops \in Nat \ {0}
      /\ reqs[n].ops <= reqs[n].before
  BY <1>2, <1>3, <1>5, RequestFacts
<1>7. PICK k \in Nat \ {0} : k = Lesser(remaining, UpRoom) /\ k <= remaining
  <2>1. UpRoom \in Nat
    BY <1>1, <1>4, LinkAssumption DEF UpRoom, Pending
  <2> QED BY <1>1, <1>4, <2>1, LesserType
<1>8. PICK left \in Nat : left = reqs[n].before - reqs[n].ops
  BY <1>6
<1>9. /\ upTail' = upTail + k /\ remaining' = remaining - k
      /\ \/ k = remaining /\ toSend' = left
            /\ pc' = IF final = "ok" /\ left > 0 THEN "send" ELSE "recv"
         \/ k # remaining /\ toSend' = toSend /\ pc' = pc
      /\ UNCHANGED <<calls, op, toRecv, final, got, taken, rc, reqs, upHead, resps, dnTail,
                     dnHead, link, sv, cur, rxd, sendLeft>>
  <2>1. UNCHANGED <<calls, op, toRecv, final, got, taken, rc, reqs, upHead, resps, dnTail,
                    dnHead, link, sv, cur, rxd, sendLeft>>
    BY DEF Transmit, call, down, server
  <2>2. toSend - reqs[Len(reqs)].ops = left
    BY <1>3, <1>5, <1>8
  <2>3. upTail' = upTail + k /\ remaining' = remaining - k
    BY <1>7 DEF Transmit
  <2>4. ASSUME k = remaining
        PROVE  /\ toSend' = left
               /\ pc' = IF final = "ok" /\ left > 0 THEN "send" ELSE "recv"
    <3>1. /\ toSend' = toSend - reqs[Len(reqs)].ops
          /\ pc' = IF final = "ok" /\ toSend - reqs[Len(reqs)].ops > 0 THEN "send" ELSE "recv"
      BY <1>7, <2>4 DEF Transmit
    <3> QED BY <2>2, <3>1
  <2>5. k # remaining => toSend' = toSend /\ pc' = pc
    BY <1>7 DEF Transmit
  <2> QED BY <2>1, <2>3, <2>4, <2>5
<1>10. TypeOK'
  <2>1. upTail' \in Nat /\ remaining' \in Nat /\ toSend' \in Nat
    <3>1. upTail' \in Nat
      BY <1>4, <1>7, <1>9
    <3>2. remaining' \in Nat
      BY <1>4, <1>7, <1>9
    <3>3. toSend' = left \/ toSend' = toSend
      BY <1>9
    <3> QED BY <1>4, <1>8, <3>1, <3>2, <3>3
  <2>2. pc' \in {"send", "recv"}
    BY <1>1, <1>9
  <2> QED BY <1>2, <1>9, <2>1, <2>2 DEF TypeOK
<1>11. ReqsInv'
  <2>1. /\ upTail' + remaining' = upTail + remaining
        /\ remaining' <= remaining /\ upTail <= upTail'
    BY <1>4, <1>7, <1>9
  <2> QED BY <1>2, <1>9, <1>10, <2>1, FrameReqs
<1>12. RespsInv'
  <2>1. sendLeft' > 0 <=> sv' = "send"
    BY <1>2, <1>9 DEF RespsInv
  <2> QED BY <1>2, <1>3, <1>9, <1>10, <2>1, FrameResps
<1>13. ServerInv'
  <2>1. upTail <= upTail'
    BY <1>4, <1>7, <1>9
  <2> QED BY <1>2, <1>3, <1>9, <1>10, <2>1, FrameServer
<1>14. taken < n /\ taken <= Len(resps)
  <2>1. taken <= Len(resps)
    BY <1>2 DEF StreamInv
  <2>2. Len(resps) <= Posted
    BY <1>2, AnsweredPosted
  <2>3. Posted = n - 1
    BY <1>1, <1>3 DEF Posted
  <2> QED BY <1>4, <2>1, <2>2, <2>3
<1>15. Acked = taken /\ Acked' = taken
  BY <1>1, <1>9 DEF Acked
<1>16. StreamInv'
  <2>1. \A m \in Nat : DnEnd(m)' = DnEnd(m)
    BY <1>9, DnEndSame
  <2>2. dnHead = DnEnd(taken) + got /\ dnHead <= dnTail /\ got = 0
    BY <1>1, <1>2, <1>15 DEF StreamInv
  <2>3. DnEnd(Acked)' = DnEnd(taken)
    BY <1>4, <1>9, <1>15, <2>1
  <2>4. pc' = "send" => remaining' > 0 \/ (final' = "ok" /\ toSend' > 0)
    BY <1>1, <1>4, <1>7, <1>9
  <2>5. pc' = "recv" => taken' < Posted'
    <3>1. pc' = "recv" => remaining' = 0
      BY <1>1, <1>4, <1>9
    <3> QED BY <1>3, <1>9, <1>14, <3>1 DEF Posted
  <2>6. pc' \in {"send", "recv"} /\ got' < HdrLen
    BY <1>1, <1>9, <2>2, LinkAssumption
  <2> QED BY <1>9, <1>14, <1>15, <2>2, <2>3, <2>4, <2>5, <2>6 DEF StreamInv
<1>17. CallInv'
  <2>1. remaining' > 0 => toSend' = reqs[n].before
    BY <1>4, <1>5, <1>9
  <2>2. remaining' = 0 => toSend' = reqs[n].before - reqs[n].ops
    BY <1>4, <1>7, <1>8, <1>9
  <2>3. op.kind \in SingleKinds => toSend' = 0 \/ toSend' = toRecv
    <3>1. /\ op.kind \in SingleKinds => toRecv <= op.most /\ toSend \in {0, toRecv}
          /\ op.most \in 1..MaxChunk
      BY <1>1, <1>2 DEF CallInv
    <3>2. reqs[n].ops = Lesser(reqs[n].before, op.most)
      <4>1. Acked = taken /\ n \in (Acked + 1)..Len(reqs)
        BY <1>3, <1>4, <1>14, <1>15
      <4> QED BY <1>1, <1>2, <4>1 DEF CallInv
    <3> QED BY <1>4, <1>5, <1>6, <1>8, <1>9, <3>1, <3>2, LinkAssumption DEF Lesser
  <2> QED BY <1>1, <1>2, <1>3, <1>9, <1>14, <1>15, <2>1, <2>2, <2>3 DEF CallInv
<1> QED BY <1>2, <1>9, <1>10, <1>11, <1>12, <1>13, <1>16, <1>17 DEF IInv, LinkInv

LEMMA WouldBlockInv ==
    ASSUME IInv, WouldBlock
    PROVE  IInv'
<1>1. pc = "send" /\ remaining > 0 /\ toSend # toRecv /\ pc' = "recv"
  BY DEF WouldBlock, Blocking
<1>2. /\ link # "dead" /\ TypeOK
      /\ ReqsInv /\ RespsInv /\ ServerInv /\ StreamInv /\ CallInv
  BY <1>1, Alive
<1>3. UNCHANGED <<calls, op, toSend, toRecv, remaining, final, got, taken, rc, reqs, upTail,
                  upHead, resps, dnTail, dnHead, link, sv, cur, rxd, sendLeft>>
  BY DEF WouldBlock, call, up, down, server
<1>4. Len(reqs) \in Nat /\ Len(resps) \in Nat /\ taken \in Nat
  BY <1>2, ScalarType, LengthType
<1>5. TypeOK'
  BY <1>1, <1>2, <1>3 DEF TypeOK
<1>6. ReqsInv' /\ RespsInv' /\ ServerInv'
  <2>1. ReqsInv'
    BY <1>2, <1>3, <1>5, ScalarType, FrameReqs
  <2>2. sendLeft' > 0 <=> sv' = "send"
    BY <1>2, <1>3 DEF RespsInv
  <2>3. RespsInv'
    BY <1>2, <1>3, <1>4, <1>5, <2>2, FrameResps
  <2>4. ServerInv'
    BY <1>2, <1>3, <1>4, <1>5, ScalarType, FrameServer
  <2> QED BY <2>1, <2>3, <2>4
<1>7. Acked = taken /\ Acked' = taken /\ Posted = Len(reqs) - 1 /\ Posted' = Posted
  BY <1>1, <1>3 DEF Acked, Posted
<1>8. taken < Posted
  <2>1. taken <= Len(resps) /\ Len(resps) <= Posted
    BY <1>2, AnsweredPosted DEF StreamInv
  <2>2. taken # Posted
    <3>1. toSend = reqs[Len(reqs)].before
      BY <1>1, <1>2 DEF CallInv
    <3>2. taken < Len(reqs) => toRecv = reqs[taken + 1].before
      BY <1>1, <1>2, <1>7 DEF CallInv
    <3> QED BY <1>1, <1>4, <1>7, <3>1, <3>2
  <2> QED BY <1>4, <1>7, <2>1, <2>2
<1>9. StreamInv'
  <2>1. \A m \in Nat : DnEnd(m)' = DnEnd(m)
    BY <1>3, DnEndSame
  <2>2. dnHead = DnEnd(taken) + got /\ dnHead <= dnTail /\ got = 0 /\ taken <= Len(resps)
    BY <1>1, <1>2, <1>7 DEF StreamInv
  <2>3. DnEnd(Acked)' = DnEnd(taken)
    BY <1>3, <1>4, <1>7, <2>1
  <2> QED BY <1>1, <1>3, <1>7, <1>8, <2>2, <2>3, LinkAssumption DEF StreamInv
<1>10. CallInv'
  BY <1>1, <1>2, <1>3, <1>7, CallSame
<1> QED BY <1>2, <1>3, <1>5, <1>6, <1>9, <1>10 DEF IInv, LinkInv

(* What the counters say of the oldest request a not yet acknowledged: left *)
(* operations stay to be acknowledged after it, which is what the next      *)
(* request took as its share, or what is still to be sent.                  *)
LEMMA LeftOver ==
    ASSUME IInv, pc \in {"recv", "payload"}, NEW a \in Nat, a = Acked + 1
    PROVE  /\ toRecv - Chunk \in Nat /\ toRecv - Chunk = reqs[a].before - reqs[a].ops
           /\ a \in 1..Len(reqs) /\ a <= Posted
           /\ a < Len(reqs) => /\ toRecv - Chunk = reqs[a + 1].before
                               /\ toRecv - Chunk > 0
                               /\ remaining = 0 => toSend < toRecv - Chunk
           /\ a = Len(reqs) => remaining = 0 /\ toSend = toRecv - Chunk
           /\ toSend = 0 => remaining = 0
           /\ op.kind \in SingleKinds => /\ toRecv - Chunk = 0 /\ toSend = 0
                                         /\ a = Len(reqs) /\ remaining = 0
<1>1. TypeOK /\ ReqsInv /\ CallInv
  BY Alive
<1>2. /\ a \in 1..Len(reqs) /\ a <= Posted /\ toRecv = reqs[a].before
      /\ Chunk = reqs[a].ops /\ Chunk \in 1..toRecv
  BY Outstanding
<1>3. Len(reqs) \in Nat /\ toSend \in Nat /\ toRecv \in Nat /\ remaining \in Nat
  BY <1>1, LengthType, ScalarType
<1>4. toRecv - Chunk \in Nat /\ toRecv - Chunk = reqs[a].before - reqs[a].ops
  BY <1>2, <1>3
<1>5. a = Len(reqs) => remaining = 0
  BY <1>2, <1>3 DEF Posted
<1>6. remaining = 0 => toSend = reqs[Len(reqs)].before - reqs[Len(reqs)].ops
  <2>1. Acked < Len(reqs)
    <3>1. Acked \in Int
      BY <1>1, ScalarType DEF Acked
    <3> QED BY <1>2, <1>3, <3>1
  <2> QED BY <1>1, <2>1 DEF CallInv
<1>7. remaining > 0 => toSend = reqs[Len(reqs)].before /\ toSend > 0
  <2>1. Len(reqs) \in 1..Len(reqs)
    BY <1>2, <1>3
  <2>2. reqs[Len(reqs)].before > 0
    BY <1>1, <2>1 DEF ReqsInv
  <2> QED BY <1>1, <2>2 DEF CallInv
<1>8. ASSUME a < Len(reqs)
      PROVE  /\ toRecv - Chunk = reqs[a + 1].before /\ toRecv - Chunk > 0
             /\ remaining = 0 => toSend < toRecv - Chunk
  <2>1. /\ a \in (Acked + 1)..Len(reqs) /\ a + 1 \in (Acked + 1)..Len(reqs)
        /\ Len(reqs) \in (Acked + 1)..Len(reqs) /\ a + 1 \in 1..Len(reqs)
        /\ Len(reqs) \in 1..Len(reqs) /\ a + 1 <= Len(reqs)
    BY <1>2, <1>3, <1>8
  <2>2. reqs[a + 1].before = reqs[a].before - reqs[a].ops
    BY <1>1, <2>1 DEF CallInv
  <2>3. /\ reqs[a + 1].before \in Nat \ {0} /\ reqs[a + 1].ops \in Nat \ {0}
        /\ reqs[Len(reqs)].before \in Nat /\ reqs[Len(reqs)].ops \in Nat \ {0}
    BY <1>1, <2>1, RequestFacts
  <2>4. a + 1 < Len(reqs) => reqs[Len(reqs)].before <= reqs[a + 1].before - reqs[a + 1].ops
    BY <1>1, <2>1 DEF CallInv
  <2>5. reqs[Len(reqs)].before <= reqs[a + 1].before
    <3>1. CASE a + 1 = Len(reqs)
      BY <2>3, <3>1
    <3>2. CASE a + 1 < Len(reqs)
      BY <2>3, <2>4, <3>2
    <3> QED BY <2>1, <1>3, <3>1, <3>2
  <2> QED BY <1>4, <1>6, <2>2, <2>3, <2>5
<1>9. a = Len(reqs) => toSend = toRecv - Chunk
  BY <1>4, <1>5, <1>6
<1>10. toSend = 0 => remaining = 0
  BY <1>3, <1>7
<1>11. ASSUME op.kind \in SingleKinds
       PROVE  toRecv - Chunk = 0 /\ toSend = 0 /\ a = Len(reqs) /\ remaining = 0
  <2>1. toRecv <= op.most /\ op.most \in 1..MaxChunk
    BY <1>1, <1>11 DEF CallInv
  <2>2. toRecv - Chunk = 0
    BY <1>3, <2>1, LinkAssumption DEF Chunk, Lesser
  <2>3. a = Len(reqs)
    BY <1>2, <1>3, <1>8, <2>2
  <2> QED BY <1>5, <1>9, <2>2, <2>3
<1> QED BY <1>2, <1>4, <1>5, <1>8, <1>9, <1>10, <1>11

(* The step in which a response has been consumed and the call goes on.     *)
LEMMA AdvanceInv ==
    ASSUME IInv, pc \in {"recv", "payload"}, NEW a \in Nat, a = Acked + 1,
           NEW f \in {"ok", "err"}, Advance(f, toRecv - Chunk),
           op.kind \in SingleKinds => f = "ok",
           taken' = a, a <= Len(resps), got' = 0, dnHead' = DnEnd(a), dnHead' <= dnTail,
           UNCHANGED <<call, up, resps, dnTail, link, server>>
    PROVE  IInv'
<1>1. /\ link # "dead" /\ TypeOK
      /\ ReqsInv /\ RespsInv /\ ServerInv /\ StreamInv /\ CallInv
  BY Alive
<1>2. PICK left \in Nat : left = toRecv - Chunk
  BY LeftOver
<1>3. PICK n \in Nat : n = Len(reqs)
  BY <1>1, LengthType
<1>4. /\ a \in 1..n /\ a <= Posted
      /\ a < n => /\ left = reqs[a + 1].before /\ left > 0
                  /\ remaining = 0 => toSend < left
      /\ a = n => remaining = 0 /\ toSend = left
      /\ toSend = 0 => remaining = 0
      /\ op.kind \in SingleKinds => left = 0 /\ toSend = 0 /\ a = n /\ remaining = 0
  BY <1>2, <1>3, LeftOver
<1>5. /\ toSend \in Nat /\ remaining \in Nat /\ Len(resps) \in Nat
  BY <1>1, LengthType, ScalarType
<1>6. /\ UNCHANGED <<calls, op, toSend, remaining, reqs, upTail, upHead, resps, dnTail, link,
                     sv, cur, rxd, sendLeft>>
      /\ pc' \in {"send", "recv", "idle"} /\ final' = f /\ toRecv' = left
      /\ rc' \in {rc, "ok", f}
  BY <1>2 DEF Advance, call, up, server
<1>7. /\ pc' = "send" => remaining > 0 \/ (f = "ok" /\ toSend > 0)
      /\ pc' = "recv" => \/ f = "ok" /\ toSend = 0 /\ left > 0
                         \/ f # "ok" /\ remaining = 0 /\ left > toSend
      /\ pc' = "idle" => \/ f = "ok" /\ toSend = 0 /\ left = 0
                         \/ f # "ok" /\ remaining = 0 /\ left <= toSend
  BY <1>2, <1>6 DEF Advance
<1>8. TypeOK'
  <2>1. rc' \in {"ok", "err"}
    BY <1>1, <1>6 DEF TypeOK
  <2>2. dnHead' \in Nat
    BY <1>1, <1>5, DnEndType
  <2> QED BY <1>1, <1>6, <2>1, <2>2 DEF TypeOK
<1>9. ReqsInv' /\ RespsInv' /\ ServerInv'
  <2>1. ReqsInv'
    BY <1>1, <1>6, <1>8, ScalarType, FrameReqs
  <2>2. sendLeft' > 0 <=> sv' = "send"
    BY <1>1, <1>6 DEF RespsInv
  <2>3. RespsInv'
    BY <1>1, <1>3, <1>6, <1>8, <2>2, FrameResps
  <2>4. ServerInv'
    BY <1>1, <1>3, <1>6, <1>8, ScalarType, FrameServer
  <2> QED BY <2>1, <2>3, <2>4
<1>10. Acked' = a /\ Posted' = Posted
  BY <1>6 DEF Acked, Posted
<1>11. remaining = 0 => Posted = n
  BY <1>3, <1>5 DEF Posted
<1>12. StreamInv'
  <2>1. DnEnd(Acked)' = DnEnd(a)
    BY <1>6, <1>10, DnEndSame
  <2>2. pc' = "idle" => remaining = 0 /\ a = n
    <3>1. CASE f = "ok"
      BY <1>3, <1>4, <1>5, <1>7, <3>1
    <3>2. CASE f # "ok"
      BY <1>3, <1>4, <1>5, <1>7, <3>2
    <3> QED BY <3>1, <3>2
  <2>3. pc' = "recv" => a < Posted
    <3>1. pc' = "recv" => remaining = 0 /\ a # n
      BY <1>4, <1>5, <1>7
    <3> QED BY <1>3, <1>4, <1>11, <3>1
  <2>4. dnHead' = DnEnd(Acked)' + got'
    <3>1. DnEnd(a) \in Nat
      BY <1>1, <1>5, DnEndType
    <3> QED BY <2>1, <3>1
  <2>5. got' < HdrLen /\ pc' # "payload"
    BY <1>6, LinkAssumption
  <2> QED BY <1>3, <1>6, <1>7, <1>10, <2>2, <2>3, <2>4, <2>5 DEF StreamInv
<1>13. CallInv'
  <2> SUFFICES ASSUME pc' # "idle" PROVE CallInv'
    BY DEF CallInv
  <2>1. op.kind \in AllKinds
    BY <1>1 DEF CallInv
  <2>2. \A i \in (a + 1)..n : i \in (Acked + 1)..n
    BY <1>4
  <2>3. /\ \A i \in (a + 1)..n :
              /\ reqs[i].call = calls /\ reqs[i].kind = op.kind
              /\ reqs[i].ops = Lesser(reqs[i].before, op.most)
        /\ \A i, j \in (a + 1)..n :
              /\ j = i + 1 => reqs[j].before = reqs[i].before - reqs[i].ops
              /\ i < j => reqs[j].before <= reqs[i].before - reqs[i].ops
    BY <1>1, <1>3, <2>2 DEF CallInv
  <2>4. left = IF a < n THEN reqs[a + 1].before ELSE toSend
    BY <1>3, <1>4
  <2>5. /\ remaining > 0 => toSend = reqs[n].before
        /\ remaining = 0 => toSend = reqs[n].before - reqs[n].ops
    <3>1. Acked < n
      <4>1. Acked \in Int
        BY <1>1, ScalarType DEF Acked
      <4> QED BY <1>4, <4>1
    <3> QED BY <1>1, <1>3, <3>1 DEF CallInv
  <2>6. /\ op.kind \in SingleKinds => left <= op.most /\ f = "ok" /\ toSend \in {0, left}
        /\ op.most \in 1..MaxChunk
    BY <1>1, <1>4, LinkAssumption DEF CallInv
  <2> QED BY <1>3, <1>4, <1>6, <1>10, <2>1, <2>3, <2>4, <2>5, <2>6 DEF CallInv
<1> QED BY <1>1, <1>6, <1>8, <1>9, <1>12, <1>13 DEF IInv, LinkInv

(* Consuming units that stay within the part being received.                *)
LEMMA PartialInv ==
    ASSUME IInv, pc \in {"recv", "payload"}, NEW k \in Nat,
           dnHead' = dnHead + k, k <= Arrived, got' = got + k,
           pc = "recv" => got + k < HdrLen, pc = "payload" => got + k < Chunk,
           UNCHANGED <<pc, toSend, toRecv, remaining, final, taken, rc>>,
           UNCHANGED <<call, up, resps, dnTail, link, server>>
    PROVE  IInv'
<1>1. /\ link # "dead" /\ TypeOK
      /\ ReqsInv /\ RespsInv /\ ServerInv /\ StreamInv /\ CallInv
  BY Alive
<1>2. UNCHANGED <<calls, op, reqs, upTail, upHead, sv, cur, rxd, sendLeft>>
  BY DEF call, up, server
<1>3. /\ dnHead \in Nat /\ dnTail \in Nat /\ got \in Nat /\ taken \in Nat
      /\ Len(reqs) \in Nat /\ Len(resps) \in Nat
  BY <1>1, ScalarType, LengthType
<1>4. TypeOK'
  <2>1. dnHead' \in Nat /\ got' \in Nat
    BY <1>3
  <2> QED BY <1>1, <1>2, <2>1 DEF TypeOK
<1>5. ReqsInv' /\ RespsInv' /\ ServerInv'
  <2>1. ReqsInv'
    BY <1>1, <1>2, <1>4, ScalarType, FrameReqs
  <2>2. sendLeft' > 0 <=> sv' = "send"
    BY <1>1, <1>2 DEF RespsInv
  <2>3. RespsInv'
    BY <1>1, <1>2, <1>3, <1>4, <2>2, FrameResps
  <2>4. ServerInv'
    BY <1>1, <1>2, <1>3, <1>4, ScalarType, FrameServer
  <2> QED BY <2>1, <2>3, <2>4
<1>6. Acked' = Acked /\ Posted' = Posted
  BY <1>2 DEF Acked, Posted
<1>7. StreamInv'
  <2>1. taken <= Len(resps) /\ Acked \in 0..Len(resps)
    <3>1. taken <= Len(resps) /\ (pc = "payload" => taken > 0)
      BY <1>1 DEF StreamInv
    <3> QED BY <1>3, <3>1 DEF Acked
  <2>2. DnEnd(Acked) \in Nat /\ DnEnd(Acked)' = DnEnd(Acked)
    BY <1>1, <1>2, <1>6, <2>1, DnEndType, DnEndSame
  <2>3. /\ pc = "recv" => dnHead = DnEnd(Acked) + got /\ taken < Posted
        /\ pc = "payload" => dnHead = DnEnd(Acked) + HdrLen + got
    BY <1>1 DEF StreamInv
  <2>4. (/\ pc # "payload" => dnHead = DnEnd(Acked) + got
         /\ pc = "payload" => dnHead = DnEnd(Acked) + HdrLen + got)'
    BY <1>3, <2>2, <2>3, LinkAssumption
  <2>5. dnHead' <= dnTail'
    BY <1>3 DEF Arrived
  <2>6. pc = "payload" => /\ taken > 0 /\ resps[taken].status = "ok"
                          /\ op.kind \in ReadKinds /\ got' < reqs[taken].ops
    <3>1. pc = "payload" => Chunk = reqs[Acked + 1].ops /\ Acked + 1 = taken
      BY <1>3, Outstanding DEF Acked
    <3> QED BY <1>1, <3>1 DEF StreamInv
  <2> QED BY <1>2, <1>6, <2>1, <2>3, <2>4, <2>5, <2>6 DEF StreamInv
<1>8. CallInv'
  BY <1>1, <1>2, <1>6, CallSame
<1> QED BY <1>1, <1>4, <1>5, <1>7, <1>8 DEF IInv, LinkInv

LEMMA RecvHeaderInv ==
    ASSUME IInv, Smooth, RecvHeader
    PROVE  IInv'
<1>1. pc = "recv" /\ Arrived > 0
  BY DEF RecvHeader
<1>2. /\ link # "dead" /\ TypeOK
      /\ ReqsInv /\ RespsInv /\ ServerInv /\ StreamInv /\ CallInv
  BY <1>1, Alive
<1>3. /\ got \in Nat /\ dnHead \in Nat /\ dnTail \in Nat /\ taken \in Nat
      /\ Len(resps) \in Nat /\ Len(reqs) \in Nat /\ HdrLen \in Nat
  BY <1>2, ScalarType, LengthType, LinkAssumption
<1>4. got < HdrLen /\ dnHead = DnEnd(taken) + got /\ Acked = taken
  BY <1>1, <1>2 DEF StreamInv, Acked
<1>5. PICK k \in Nat : k = Lesser(HdrLen - got, Arrived) /\ k <= Arrived
  <2>1. Arrived \in Nat /\ HdrLen - got \in Nat
    BY <1>1, <1>3, <1>4 DEF Arrived
  <2> QED BY <2>1, LesserType
<1>6. PICK a \in Nat : a = taken + 1
  BY <1>3
<1>7. a \in 1..Len(resps) /\ {j \in 1..Len(resps) : resps[j].start = dnHead - got} = {a}
  BY <1>1, <1>6, NextResponse
<1>8. /\ dnHead' = dnHead + k
      /\ UNCHANGED <<call, up, resps, dnTail, link, server>>
      /\ \/ /\ got + k < HdrLen /\ got' = got + k
            /\ UNCHANGED <<pc, toSend, toRecv, remaining, final, taken, rc>>
         \/ /\ got + k = HdrLen /\ got' = 0
            /\ taken' = a /\ Ack(resps[a])
  BY <1>5, <1>7 DEF RecvHeader
<1>9. CASE got + k < HdrLen
  BY <1>1, <1>3, <1>5, <1>8, <1>9, PartialInv
<1>10. CASE got + k = HdrLen
  <2>1. got' = 0 /\ taken' = a /\ Ack(resps[a])
    BY <1>3, <1>8, <1>10
  <2>2. /\ a = Acked + 1 /\ a \in 1..Len(reqs) /\ a <= Posted
        /\ Chunk = reqs[a].ops /\ Chunk \in Nat \ {0}
    <3>1. Chunk \in 1..toRecv /\ toRecv \in Nat
      BY <1>1, <1>2, Outstanding, ScalarType
    <3> QED BY <1>1, <1>4, <1>6, <3>1, Outstanding
  <2>3. /\ resps[a].start = DnEnd(taken) /\ resps[a].req = a
        /\ resps[a].status = "ok" => resps[a].ops = Chunk
    <3>1. a - 1 = taken
      BY <1>3, <1>6
    <3> QED BY <1>2, <1>7, <2>2, <3>1 DEF RespsInv
  <2>4. resps[a].start \in Nat /\ resps[a].status \in {"ok", "err"}
    BY <1>2, <1>7, ResponseType
  <2>5. dnHead' = resps[a].start + HdrLen
    BY <1>3, <1>4, <1>5, <1>8, <1>10, <2>3, <2>4
  <2>6. dnHead' <= dnTail
    BY <1>3, <1>5, <1>8 DEF Arrived
  <2>7. /\ op.kind \in AllKinds /\ reqs[a].kind = op.kind
        /\ op.kind \in DrainingKinds \/ (resps[a].status = "ok" /\ resps[a].ops = Chunk)
    <3>1. a \in (Acked + 1)..Len(reqs)
      BY <1>3, <2>2
    <3>2. op.kind \in AllKinds /\ reqs[a].kind = op.kind
      BY <1>1, <1>2, <3>1 DEF CallInv
    <3> QED BY <1>7, <2>2, <2>3, <3>2 DEF Smooth
  <2>8. (op.kind \in ReadKinds /\ resps[a].status = "ok") \/ dnHead' = DnEnd(a)
    <3> SUFFICES ASSUME ~(op.kind \in ReadKinds /\ resps[a].status = "ok")
                 PROVE  dnHead' = DnEnd(a)
      OBVIOUS
    <3>1. RespLen(reqs[a].kind, reqs[a].ops, resps[a].status) = HdrLen
      BY <1>3, <2>7 DEF RespLen, DrainingKinds, ReadKinds
    <3> QED BY <1>6, <2>3, <2>5, <3>1, <1>3 DEF DnEnd, ReplyLen
  <2>9. a <= Len(resps)
    BY <1>7
  <2>10. CASE op.kind = "write"
    <3>1. PICK f \in {"ok", "err"} : Advance(f, toRecv - Chunk)
      BY <2>1, <2>10 DEF Ack, WriteAck, SingleKinds, ReadKinds
    <3>2. dnHead' = DnEnd(a) /\ op.kind \notin SingleKinds
      BY <2>8, <2>10 DEF SingleKinds, ReadKinds
    <3> QED BY <1>1, <1>8, <2>1, <2>2, <2>6, <2>9, <3>1, <3>2, AdvanceInv
  <2>13. CASE op.kind = "memzero"
    <3>1. ~Bad(resps[a])
      BY <2>7, <2>13 DEF Bad, DrainingKinds
    <3>2. Advance("ok", toRecv - Chunk)
      BY <2>1, <2>13, <3>1 DEF Ack, MemzeroAck, SingleKinds, ReadKinds
    <3>3. dnHead' = DnEnd(a) /\ op.kind \notin SingleKinds
      BY <2>8, <2>13 DEF SingleKinds, ReadKinds
    <3> QED BY <1>1, <1>8, <2>1, <2>2, <2>6, <2>9, <3>2, <3>3, AdvanceInv
  <2>11. CASE op.kind \in SingleKinds
    <3>1. dnHead' = DnEnd(a)
      BY <2>8, <2>11 DEF SingleKinds, ReadKinds
    <3>2. CASE resps[a].status = "ok"
      <4>1. Advance("ok", toRecv - Chunk)
        BY <2>1, <2>11, <3>2 DEF Ack, SingleAck, SingleKinds, ReadKinds
      <4> QED BY <1>1, <1>8, <2>1, <2>2, <2>6, <2>9, <3>1, <4>1, AdvanceInv
    <3>3. CASE resps[a].status # "ok"
      <4>1. Return("err")
        BY <2>1, <2>11, <3>3 DEF Ack, SingleAck, SingleKinds, ReadKinds
      <4>2. a = Len(reqs) /\ remaining = 0
        BY <1>1, <2>2, <2>11, LeftOver
      <4>3. /\ UNCHANGED <<calls, op, toSend, toRecv, remaining, final, reqs, upTail, upHead,
                           resps, dnTail, link, sv, cur, rxd, sendLeft>>
            /\ pc' = "idle" /\ rc' = "err"
        BY <1>8, <4>1 DEF Return, call, up, server
      <4>4. TypeOK'
        <5>1. dnHead' \in Nat
          BY <1>3, <1>5, <1>8
        <5> QED BY <1>2, <2>1, <4>3, <5>1 DEF TypeOK
      <4>5. ReqsInv' /\ RespsInv' /\ ServerInv'
        <5>1. ReqsInv'
          BY <1>2, <4>3, <4>4, ScalarType, FrameReqs
        <5>2. sendLeft' > 0 <=> sv' = "send"
          BY <1>2, <4>3 DEF RespsInv
        <5>3. RespsInv'
          BY <1>2, <1>3, <4>3, <4>4, <5>2, FrameResps
        <5>4. ServerInv'
          BY <1>2, <1>3, <4>3, <4>4, ScalarType, FrameServer
        <5> QED BY <5>1, <5>3, <5>4
      <4>6. StreamInv'
        <5>1. Acked' = a
          BY <2>1, <4>3 DEF Acked
        <5>2. DnEnd(Acked)' = DnEnd(a)
          BY <4>3, <5>1, DnEndSame
        <5>3. DnEnd(a) \in Nat
          BY <1>2, <1>7, DnEndType
        <5>4. dnHead' = DnEnd(Acked)' + got'
          BY <2>1, <3>1, <5>2, <5>3
        <5> QED BY <2>1, <2>6, <2>9, <4>2, <4>3, <5>4 DEF StreamInv
      <4>7. CallInv'
        BY <4>3 DEF CallInv
      <4> QED BY <1>2, <4>3, <4>4, <4>5, <4>6, <4>7 DEF IInv, LinkInv
    <3> QED BY <3>2, <3>3
  <2>12. CASE op.kind \in ReadKinds
    <3>1. ReadAck(resps[a])
      BY <2>1, <2>12 DEF Ack, SingleKinds, ReadKinds
    <3>2. CASE resps[a].status # "ok"
      <4>1. Advance("err", toRecv - Chunk)
        BY <3>1, <3>2 DEF ReadAck
      <4>2. dnHead' = DnEnd(a) /\ op.kind \notin SingleKinds
        BY <2>8, <2>12, <3>2 DEF SingleKinds, ReadKinds
      <4> QED BY <1>1, <1>8, <2>1, <2>2, <2>6, <2>9, <4>1, <4>2, AdvanceInv
    <3>3. CASE resps[a].status = "ok"
      <4>1. pc' = "payload" /\ UNCHANGED <<toSend, toRecv, remaining, final, rc>>
        BY <2>3, <3>1, <3>3 DEF ReadAck
      <4>2. UNCHANGED <<calls, op, reqs, upTail, upHead, resps, dnTail, link,
                        sv, cur, rxd, sendLeft>>
        BY <1>8 DEF call, up, server
      <4>3. TypeOK'
        <5>1. dnHead' \in Nat
          BY <1>3, <1>5, <1>8
        <5> QED BY <1>2, <2>1, <4>1, <4>2, <5>1 DEF TypeOK
      <4>4. ReqsInv' /\ RespsInv' /\ ServerInv'
        <5>1. ReqsInv'
          BY <1>2, <4>1, <4>2, <4>3, ScalarType, FrameReqs
        <5>2. sendLeft' > 0 <=> sv' = "send"
          BY <1>2, <4>2 DEF RespsInv
        <5>3. RespsInv'
          BY <1>2, <1>3, <4>2, <4>3, <5>2, FrameResps
        <5>4. ServerInv'
          BY <1>2, <1>3, <4>2, <4>3, ScalarType, FrameServer
        <5> QED BY <5>1, <5>3, <5>4
      <4>5. Acked' = Acked
        BY <1>3, <1>4, <1>6, <2>1, <4>1 DEF Acked
      <4>6. StreamInv'
        <5>1. DnEnd(Acked)' = DnEnd(taken)
          BY <1>3, <1>4, <4>2, <4>5, DnEndSame
        <5>2. dnHead' = DnEnd(Acked)' + HdrLen + got'
          BY <1>3, <2>1, <2>3, <2>4, <2>5, <5>1
        <5>3. a > 0
          BY <1>7
        <5>4. got' < reqs[a].ops
          BY <2>1, <2>2
        <5> QED BY <2>1, <2>6, <2>9, <2>12, <3>3, <4>1, <4>2, <5>2, <5>3, <5>4 DEF StreamInv
      <4>7. CallInv'
        BY <1>1, <1>2, <4>1, <4>2, <4>5, CallSame
      <4> QED BY <1>2, <4>2, <4>3, <4>4, <4>6, <4>7 DEF IInv, LinkInv
    <3> QED BY <3>2, <3>3
  <2> QED BY <2>7, <2>10, <2>11, <2>12, <2>13 DEF AllKinds
<1> QED BY <1>3, <1>8, <1>9, <1>10

LEMMA RecvPayloadInv ==
    ASSUME IInv, RecvPayload
    PROVE  IInv'
<1>1. pc = "payload" /\ Arrived > 0
  BY DEF RecvPayload
<1>2. /\ link # "dead" /\ TypeOK
      /\ ReqsInv /\ RespsInv /\ ServerInv /\ StreamInv /\ CallInv
  BY <1>1, Alive
<1>3. /\ got \in Nat /\ dnHead \in Nat /\ dnTail \in Nat /\ taken \in Nat
      /\ Len(resps) \in Nat /\ Len(reqs) \in Nat /\ HdrLen \in Nat /\ toRecv \in Nat
  BY <1>2, ScalarType, LengthType, LinkAssumption
<1>4. /\ dnHead = DnEnd(Acked) + HdrLen + got /\ taken > 0 /\ taken <= Len(resps)
      /\ resps[taken].status = "ok" /\ op.kind \in ReadKinds /\ got < reqs[taken].ops
  BY <1>1, <1>2 DEF StreamInv
<1>5. Acked = taken - 1 /\ taken = Acked + 1
  BY <1>1, <1>3 DEF Acked
<1>6. Chunk = reqs[taken].ops /\ Chunk \in Nat /\ taken \in 1..Len(reqs)
  <2>1. Chunk \in 1..toRecv
    BY <1>1, Outstanding
  <2> QED BY <1>1, <1>3, <1>5, <2>1, Outstanding
<1>7. PICK k \in Nat : k = Lesser(Chunk - got, Arrived) /\ k <= Arrived
  <2>1. Arrived \in Nat /\ Chunk - got \in Nat
    BY <1>1, <1>3, <1>4, <1>6 DEF Arrived
  <2> QED BY <2>1, LesserType
<1>8. /\ dnHead' = dnHead + k
      /\ UNCHANGED <<call, taken, up, resps, dnTail, link, server>>
      /\ \/ /\ got + k < Chunk /\ got' = got + k
            /\ UNCHANGED <<pc, toSend, toRecv, remaining, final, rc>>
         \/ /\ got + k = Chunk /\ got' = 0
            /\ Advance(final, toRecv - Chunk)
  BY <1>7 DEF RecvPayload
<1>9. CASE got + k < Chunk
  BY <1>1, <1>3, <1>6, <1>7, <1>8, <1>9, PartialInv
<1>10. CASE got + k = Chunk
  <2>1. got' = 0 /\ Advance(final, toRecv - Chunk)
    BY <1>3, <1>6, <1>8, <1>10
  <2>2. dnHead' = DnEnd(taken)
    <3>1. taken \in 1..Len(resps)
      BY <1>3, <1>4
    <3>2. resps[taken].req = taken /\ resps[taken].start = DnEnd(Acked)
      BY <1>2, <1>5, <3>1 DEF RespsInv
    <3>3. reqs[taken].kind \in ReadKinds
      <4>1. taken \in (Acked + 1)..Len(reqs)
        BY <1>5, <1>6
      <4> QED BY <1>1, <1>2, <1>4, <4>1 DEF CallInv
    <3>4. ReplyLen(taken) = HdrLen + Chunk
      BY <1>4, <1>6, <3>2, <3>3 DEF ReplyLen, RespLen, ReadKinds
    <3>5. resps[taken].start \in Nat
      BY <1>2, <3>1, ResponseType
    <3>6. dnHead' = resps[taken].start + (HdrLen + Chunk)
      <4>1. dnHead = resps[taken].start + HdrLen + got
        BY <1>4, <3>2
      <4>2. dnHead' = resps[taken].start + HdrLen + got + k /\ k \in Nat
        BY <1>8, <4>1
      <4> QED BY <1>3, <1>10, <3>5, <4>2
    <3> QED BY <1>4, <3>4, <3>6 DEF DnEnd
  <2>3. dnHead' <= dnTail
    BY <1>3, <1>7, <1>8 DEF Arrived
  <2>4. final \in {"ok", "err"} /\ op.kind \notin SingleKinds /\ pc \in {"recv", "payload"}
    BY <1>1, <1>2, <1>4 DEF TypeOK, SingleKinds, ReadKinds
  <2>5. UNCHANGED <<call, up, resps, dnTail, link, server>> /\ taken' = taken
    BY <1>8
  <2> QED BY <1>3, <1>4, <1>5, <2>1, <2>2, <2>3, <2>4, <2>5, AdvanceInv
<1> QED BY <1>3, <1>6, <1>8, <1>9, <1>10

LEMMA SocketErrorInv ==
    ASSUME IInv, SocketError
    PROVE  IInv'
<1>1. link' = "dead" /\ pc' = "idle"
  BY DEF SocketError, Return
<1>2. TypeOK'
  BY DEF IInv, TypeOK, SocketError, Return, call, up, down, server
<1> QED BY <1>1, <1>2 DEF IInv, LinkInv

-----------------------------------------------------------------------------
(* Each action of the server keeps the invariant.                           *)

LEMMA ServerAlive ==
    ASSUME IInv, link = "up"
    PROVE  /\ TypeOK /\ link # "dead"
           /\ ReqsInv /\ RespsInv /\ ServerInv /\ StreamInv /\ CallInv
BY DEF IInv, LinkInv

(* A step that leaves the client and the request stream's tail alone.       *)
LEMMA ServerStepInv ==
    ASSUME IInv, link # "dead", TypeOK', RespsInv', ServerInv',
           UNCHANGED <<call, client, reqs, upTail, dnHead, link>>,
           Len(resps) <= Len(resps'), \A j \in 1..Len(resps) : resps'[j] = resps[j],
           dnTail <= dnTail'
    PROVE  IInv'
<1>1. /\ TypeOK
      /\ ReqsInv /\ RespsInv /\ ServerInv /\ StreamInv /\ CallInv
  BY DEF IInv, LinkInv
<1>2. UNCHANGED <<calls, op, pc, toSend, toRecv, remaining, final, got, taken, rc>>
  BY DEF call, client
<1>3. ReqsInv'
  BY <1>1, <1>2, ScalarType, FrameReqs
<1>4. StreamInv'
  BY <1>1, <1>2, FrameStream
<1>5. CallInv'
  BY <1>1, <1>2, FrameCall
<1> QED BY <1>3, <1>4, <1>5 DEF IInv, LinkInv

LEMMA ReadRequestHeaderInv ==
    ASSUME IInv, Smooth, ReadRequestHeader
    PROVE  IInv'
<1>1. link = "up" /\ sv = "start" /\ Pending > 0
  BY DEF ReadRequestHeader
<1>2. /\ TypeOK /\ link # "dead"
      /\ ReqsInv /\ RespsInv /\ ServerInv /\ StreamInv /\ CallInv
  BY <1>1, ServerAlive
<1>3. /\ rxd \in Nat /\ upHead \in Nat /\ upTail \in Nat /\ sendLeft \in Nat
      /\ Len(resps) \in Nat /\ Len(reqs) \in Nat /\ HdrLen \in Nat /\ HdrLen > 0
  BY <1>2, ScalarType, LengthType, LinkAssumption
<1>4. rxd < HdrLen /\ upHead = UpEnd(Len(resps)) + rxd
  BY <1>1, <1>2 DEF ServerInv
<1>5. PICK k \in Nat : k = Lesser(HdrLen - rxd, Pending) /\ k <= Pending
  <2>1. Pending \in Nat /\ HdrLen - rxd \in Nat
    BY <1>1, <1>3, <1>4 DEF Pending
  <2> QED BY <2>1, LesserType
<1>6. PICK m \in Nat : m = Len(resps) + 1
  BY <1>3
<1>7. m \in 1..Len(reqs) /\ Accepted(upHead - rxd) = {m}
  BY <1>1, <1>2, <1>6, NextRequest
<1>8. /\ upHead' = upHead + k
      /\ UNCHANGED <<call, client, reqs, upTail, down, link, sendLeft>>
      /\ \/ got' = got /\ rxd + k < HdrLen /\ rxd' = rxd + k /\ UNCHANGED <<sv, cur>>
         \/ /\ rxd + k = HdrLen /\ cur' = m /\ rxd' = HdrLen
            /\ sv' = IF ReqLen(reqs[m]) > HdrLen THEN "payload" ELSE "execute"
  BY <1>5, <1>7 DEF ReadRequestHeader, client
<1>9. UNCHANGED <<resps, dnTail, dnHead>>
  BY <1>8 DEF down
<1>10. upHead' <= upTail /\ upHead' \in Nat /\ rxd' \in Nat
  BY <1>3, <1>5, <1>8 DEF Pending
<1>11. TypeOK'
  BY <1>2, <1>8, <1>9, <1>10 DEF TypeOK, call, client
<1>12. RespsInv'
  <2>1. sendLeft' > 0 <=> sv' = "send"
    BY <1>1, <1>2, <1>8 DEF RespsInv
  <2> QED BY <1>2, <1>3, <1>8, <1>9, <1>11, <2>1, FrameResps
<1>13. ServerInv'
  <2>1. UpEnd(Len(resps))' = UpEnd(Len(resps)) /\ UpEnd(Len(resps)) \in Nat
    <3>1. Len(resps) \in 0..Len(reqs)
      BY <1>2, <1>3 DEF RespsInv
    <3>2. UpEnd(Len(resps)) \in Nat
      BY <1>2, <3>1, UpEndType
    <3> QED BY <1>8, <1>9, <3>2 DEF UpEnd
  <2>2. ReqLen(reqs[m]) \in Nat /\ ReqLen(reqs[m]) >= HdrLen
    BY <1>2, <1>7, RequestType, ReqLenType
  <2>3. upHead' = UpEnd(Len(resps))' + rxd'
    <3>1. upHead' = upHead + k /\ rxd' = rxd + k
      BY <1>8
    <3> QED BY <1>3, <1>4, <2>1, <3>1
  <2>4. CASE rxd + k < HdrLen
    <3>1. rxd' < HdrLen /\ sv' = "start"
      BY <1>1, <1>3, <1>8, <2>4
    <3> QED BY <1>8, <1>10, <2>3, <3>1 DEF ServerInv
  <2>5. CASE rxd + k = HdrLen
    <3>1. /\ cur' = m /\ rxd' = HdrLen
          /\ sv' = IF ReqLen(reqs[m]) > HdrLen THEN "payload" ELSE "execute"
      BY <1>3, <1>8, <2>5
    <3>2. cur' = Len(resps') + 1 /\ cur' <= Len(reqs')
      BY <1>6, <1>7, <1>8, <1>9, <3>1
    <3>3. sv' = "execute" => rxd' = ReqLen(reqs[m])
      BY <1>3, <2>2, <3>1
    <3>4. sv' \in {"payload", "execute"} /\ (sv' = "payload" => HdrLen <= rxd' /\ rxd' < ReqLen(reqs[m]))
      BY <1>3, <2>2, <3>1
    <3> QED BY <1>8, <1>10, <2>3, <3>1, <3>2, <3>3, <3>4 DEF ServerInv, ReqLen
  <2> QED BY <1>3, <1>8, <2>4, <2>5
<1> QED BY <1>2, <1>3, <1>8, <1>9, <1>11, <1>12, <1>13, ScalarType, ServerStepInv

LEMMA ReadRequestPayloadInv ==
    ASSUME IInv, ReadRequestPayload
    PROVE  IInv'
<1>1. link = "up" /\ sv = "payload" /\ Pending > 0
  BY DEF ReadRequestPayload
<1>2. /\ TypeOK /\ link # "dead"
      /\ ReqsInv /\ RespsInv /\ ServerInv /\ StreamInv /\ CallInv
  BY <1>1, ServerAlive
<1>3. /\ rxd \in Nat /\ upHead \in Nat /\ upTail \in Nat /\ sendLeft \in Nat
      /\ Len(resps) \in Nat /\ Len(reqs) \in Nat /\ cur \in Nat
  BY <1>2, ScalarType, LengthType
<1>4. /\ upHead = UpEnd(Len(resps)) + rxd /\ HdrLen <= rxd /\ rxd < ReqLen(reqs[cur])
      /\ cur = Len(resps) + 1 /\ cur <= Len(reqs)
  BY <1>1, <1>2 DEF ServerInv
<1>5. ReqLen(reqs[cur]) \in Nat /\ cur \in 1..Len(reqs)
  <2>1. cur \in 1..Len(reqs)
    BY <1>3, <1>4
  <2> QED BY <1>2, <2>1, RequestType, ReqLenType
<1>6. PICK k \in Nat : /\ k = Lesser(ReqLen(reqs[cur]) - rxd, Pending)
                       /\ k <= Pending /\ k <= ReqLen(reqs[cur]) - rxd
  <2>1. Pending \in Nat /\ ReqLen(reqs[cur]) - rxd \in Nat
    BY <1>1, <1>3, <1>4, <1>5 DEF Pending
  <2> QED BY <2>1, LesserType
<1>7. /\ upHead' = upHead + k /\ rxd' = rxd + k
      /\ sv' = IF rxd + k = ReqLen(reqs[cur]) THEN "execute" ELSE "payload"
      /\ UNCHANGED <<call, client, reqs, upTail, resps, dnTail, dnHead, link, cur, sendLeft>>
  BY <1>6 DEF ReadRequestPayload, down
<1>8. upHead' <= upTail /\ upHead' \in Nat /\ rxd' \in Nat /\ rxd' <= ReqLen(reqs[cur])
  <2>1. k <= upTail - upHead /\ k <= ReqLen(reqs[cur]) - rxd
    BY <1>6 DEF Pending
  <2>2. upHead' = upHead + k /\ rxd' = rxd + k
    BY <1>7
  <2> QED BY <1>3, <1>5, <2>1, <2>2
<1>9. TypeOK'
  <2>1. sv' \in {"execute", "payload"}
    BY <1>7
  <2> QED BY <1>2, <1>7, <1>8, <2>1 DEF TypeOK, call, client
<1>10. RespsInv'
  <2>1. sendLeft' > 0 <=> sv' = "send"
    BY <1>1, <1>2, <1>7 DEF RespsInv
  <2> QED BY <1>2, <1>3, <1>7, <1>9, <2>1, FrameResps
<1>11. ServerInv'
  <2>1. UpEnd(Len(resps))' = UpEnd(Len(resps)) /\ UpEnd(Len(resps)) \in Nat
    <3>1. Len(resps) \in 0..Len(reqs)
      BY <1>2, <1>3 DEF RespsInv
    <3>2. UpEnd(Len(resps)) \in Nat
      BY <1>2, <3>1, UpEndType
    <3> QED BY <1>7, <3>2 DEF UpEnd
  <2>2. upHead' = UpEnd(Len(resps))' + rxd'
    BY <1>3, <1>4, <1>7, <2>1
  <2>3. HdrLen <= rxd'
    BY <1>3, <1>4, <1>7, LinkAssumption
  <2>4. /\ sv' \in {"payload", "execute"}
        /\ sv' = "payload" => rxd' < ReqLen(reqs[cur])
        /\ sv' = "execute" => rxd' = ReqLen(reqs[cur])
    BY <1>5, <1>7, <1>8
  <2> QED BY <1>4, <1>7, <1>8, <2>2, <2>3, <2>4 DEF ServerInv, ReqLen
<1> QED BY <1>2, <1>3, <1>7, <1>9, <1>10, <1>11, ScalarType, ServerStepInv

LEMMA ExecuteInv ==
    ASSUME IInv, Smooth', Execute
    PROVE  IInv'
<1>1. link = "up" /\ sv = "execute"
  BY DEF Execute
<1>2. /\ TypeOK /\ link # "dead"
      /\ ReqsInv /\ RespsInv /\ ServerInv /\ StreamInv /\ CallInv
  BY <1>1, ServerAlive
<1>3. PICK m \in Nat : m = Len(resps)
  BY <1>2, LengthType
<1>4. /\ rxd \in Nat /\ upHead \in Nat /\ upTail \in Nat /\ sendLeft \in Nat
      /\ dnTail \in Nat /\ Len(reqs) \in Nat /\ cur \in Nat
  BY <1>2, ScalarType, LengthType
<1>5. /\ upHead = UpEnd(m) + rxd /\ rxd = ReqLen(reqs[cur]) /\ upHead <= upTail
      /\ cur = m + 1 /\ cur \in 1..Len(reqs)
  BY <1>1, <1>2, <1>3, <1>4 DEF ServerInv
<1>6. reqs[cur].ops \in Nat /\ reqs[cur].start \in Nat
  BY <1>2, <1>5, RequestType
<1>7. PICK status \in {"ok", "err"}, c \in 0..MaxChunk :
        /\ reqs[cur].kind # "pers_read" /\ status = "ok" => c = reqs[cur].ops
        /\ resps' = Append(resps, [req |-> cur, status |-> status, ops |-> c, start |-> dnTail])
        /\ sendLeft' = RespLen(reqs[cur].kind, reqs[cur].ops, status)
  BY <1>6 DEF Execute
<1> DEFINE r == [req |-> cur, status |-> status, ops |-> c, start |-> dnTail]
<1>8. /\ sv' = "send" /\ rxd' = 0
      /\ UNCHANGED <<call, client, reqs, upTail, upHead, dnTail, dnHead, link, cur>>
  BY DEF Execute, up
<1>9. sendLeft' \in Nat /\ sendLeft' > 0
  BY <1>6, <1>7, RespLenType, LinkAssumption
<1>10. r \in Responses
  BY <1>4, LinkAssumption DEF Responses
<1>11. Len(resps') = m + 1 /\ resps'[m + 1] = r /\ \A j \in 1..m : resps'[j] = resps[j]
  BY <1>2, <1>3, <1>7 DEF TypeOK
<1>21. status = "ok" => c = reqs[cur].ops
  <2>1. m + 1 \in 1..Len(resps') /\ resps'[m + 1].req = cur
    BY <1>11
  <2>2. reqs'[cur].kind \in DrainingKinds
          \/ (resps'[m + 1].status = "ok" /\ resps'[m + 1].ops = reqs'[cur].ops)
    BY <2>1 DEF Smooth
  <2>3. reqs' = reqs
    BY <1>8
  <2> QED BY <1>7, <1>11, <2>2, <2>3 DEF DrainingKinds
<1>12. TypeOK'
  <2>1. resps' \in Seq(Responses)
    BY <1>2, <1>7, <1>10 DEF TypeOK
  <2> QED BY <1>2, <1>8, <1>9, <2>1 DEF TypeOK, call, client
<1>13. /\ \A j \in 1..m : resps[j].req = j /\ j \in 1..Len(reqs)
       /\ dnTail + sendLeft = DnEnd(m) /\ sendLeft = 0
  <2>1. m <= Len(reqs) /\ \A j \in 1..m : resps[j].req = j
    BY <1>2, <1>3 DEF RespsInv
  <2>2. dnTail + sendLeft = DnEnd(m) /\ ~(sendLeft > 0)
    BY <1>1, <1>2, <1>3 DEF RespsInv
  <2> QED BY <1>3, <1>4, <2>1, <2>2
<1>14. \A j \in 1..m : ReplyLen(j)' = ReplyLen(j)
  BY <1>8, <1>11, <1>13 DEF ReplyLen
<1>15. ReplyLen(m + 1)' = sendLeft'
  BY <1>5, <1>7, <1>8, <1>11 DEF ReplyLen
<1>16. \A j \in 0..m : DnEnd(j)' = DnEnd(j)
  BY <1>11, <1>14 DEF DnEnd
<1>17. DnEnd(m + 1)' = dnTail + sendLeft' /\ DnEnd(m) = dnTail
  <2>1. DnEnd(m) = dnTail
    BY <1>4, <1>13
  <2>2. m + 1 # 0
    OBVIOUS
  <2> QED BY <1>11, <1>15, <2>1, <2>2 DEF DnEnd
<1>18. RespsInv'
  <2>1. m + 1 <= Len(reqs)
    BY <1>5
  <2>2. \A j \in 1..(m + 1) :
          /\ resps'[j].req = j /\ resps'[j].start = DnEnd(j - 1)'
          /\ resps'[j].status = "ok" => resps'[j].ops = reqs'[j].ops
    <3> TAKE j \in 1..(m + 1)
    <3>1. CASE j = m + 1
      <4>1. j - 1 = m /\ DnEnd(m)' = dnTail
        BY <1>16, <1>17, <3>1
      <4> QED BY <1>5, <1>8, <1>11, <1>21, <3>1, <4>1
    <3>2. CASE j # m + 1
      <4>1. j \in 1..m /\ j - 1 \in 0..m
        BY <3>2
      <4>2. resps[j].start = DnEnd(j - 1)
        BY <1>2, <1>3, <4>1 DEF RespsInv
      <4>3. resps[j].status = "ok" => resps[j].ops = reqs[j].ops
        BY <1>2, <1>3, <4>1 DEF RespsInv
      <4> QED BY <1>8, <1>11, <1>13, <1>16, <4>1, <4>2, <4>3
    <3> QED BY <3>1, <3>2
  <2>3. \A i, j \in 1..(m + 1) :
          i < j => resps'[i].start + ReplyLen(i)' <= resps'[j].start
    <3> SUFFICES ASSUME NEW i \in 1..(m + 1), NEW j \in 1..(m + 1), i < j
                 PROVE  resps'[i].start + ReplyLen(i)' <= resps'[j].start
      OBVIOUS
    <3>1. i \in 1..m /\ resps'[i] = resps[i] /\ ReplyLen(i)' = ReplyLen(i)
      BY <1>11, <1>14
    <3>2. CASE j = m + 1
      <4>1. resps[i].start \in Nat /\ ReplyLen(i) \in Nat
        BY <1>2, <1>3, <3>1, ResponseType, ReplyLenType
      <4>2. m \in 1..m /\ DnEnd(m) = resps[m].start + ReplyLen(m)
        BY <3>1 DEF DnEnd
      <4>3. resps[m].start \in Nat /\ ReplyLen(m) \in Nat
        BY <1>2, <1>3, <4>2, ResponseType, ReplyLenType
      <4>4. i < m => resps[i].start + ReplyLen(i) <= resps[m].start
        BY <1>2, <1>3, <3>1, <4>2 DEF RespsInv
      <4>5. resps[i].start + ReplyLen(i) <= dnTail
        BY <1>17, <3>1, <4>1, <4>2, <4>3, <4>4
      <4> QED BY <1>11, <3>1, <3>2, <4>5
    <3>3. CASE j # m + 1
      <4>1. j \in 1..m /\ resps'[j] = resps[j]
        BY <1>11, <3>3
      <4> QED BY <1>2, <1>3, <3>1, <4>1 DEF RespsInv
    <3> QED BY <3>2, <3>3
  <2>4. dnTail' + sendLeft' = DnEnd(m + 1)'
    BY <1>8, <1>17
  <2> QED BY <1>8, <1>9, <1>11, <2>1, <2>2, <2>3, <2>4 DEF RespsInv
<1>19. ServerInv'
  <2>1. m + 1 # 0 /\ UpEnd(m + 1)' = reqs[m + 1].start + ReqLen(reqs[m + 1])
    BY <1>8 DEF UpEnd
  <2>2. reqs[m + 1].start = UpEnd(m)
    <3>1. (m + 1) - 1 = m
      OBVIOUS
    <3> QED BY <1>2, <1>5, <3>1 DEF ReqsInv
  <2>3. upHead = UpEnd(m + 1)'
    BY <1>5, <2>1, <2>2
  <2>4. UpEnd(Len(resps))' = upHead
    BY <1>8, <1>11, <2>3 DEF UpEnd
  <2>5. upHead' = UpEnd(Len(resps))' + rxd'
    BY <1>4, <1>8, <2>4
  <2> QED BY <1>5, <1>8, <2>5 DEF ServerInv
<1>20. Len(resps) <= Len(resps') /\ dnTail <= dnTail'
  BY <1>3, <1>4, <1>8, <1>11
<1> QED BY <1>2, <1>3, <1>8, <1>11, <1>12, <1>18, <1>19, <1>20, ServerStepInv

LEMMA SendResponseInv ==
    ASSUME IInv, SendResponse
    PROVE  IInv'
<1>1. link = "up" /\ sv = "send" /\ DnRoom > 0
  BY DEF SendResponse
<1>2. /\ TypeOK /\ link # "dead"
      /\ ReqsInv /\ RespsInv /\ ServerInv /\ StreamInv /\ CallInv
  BY <1>1, ServerAlive
<1>3. /\ sendLeft \in Nat /\ dnTail \in Nat /\ dnHead \in Nat
      /\ Len(resps) \in Nat /\ Len(reqs) \in Nat
  BY <1>2, ScalarType, LengthType
<1>4. PICK k \in Nat : k = Lesser(sendLeft, DnRoom) /\ k <= sendLeft
  <2>1. DnRoom \in Nat
    BY <1>1, <1>3, LinkAssumption DEF DnRoom, Arrived
  <2> QED BY <1>3, <2>1, LesserType
<1>5. /\ dnTail' = dnTail + k /\ sendLeft' = sendLeft - k
      /\ sv' = IF k = sendLeft THEN "start" ELSE "send"
      /\ UNCHANGED <<call, client, reqs, upTail, upHead, resps, dnHead, link, cur, rxd>>
  BY <1>4 DEF SendResponse, up
<1>6. TypeOK'
  <2>1. dnTail' \in Nat /\ sendLeft' \in Nat /\ sv' \in {"start", "send"}
    BY <1>3, <1>4, <1>5
  <2> QED BY <1>2, <1>5, <2>1 DEF TypeOK, call, client
<1>7. RespsInv'
  <2>1. sendLeft' > 0 <=> sv' = "send"
    BY <1>3, <1>4, <1>5
  <2>2. dnTail' + sendLeft' = dnTail + sendLeft
    BY <1>3, <1>4, <1>5
  <2> QED BY <1>2, <1>3, <1>5, <1>6, <2>1, <2>2, FrameResps
<1>8. ServerInv'
  <2>1. UpEnd(Len(resps))' = UpEnd(Len(resps))
    BY <1>5 DEF UpEnd
  <2>2. rxd = 0 /\ upHead = UpEnd(Len(resps)) + rxd /\ upHead <= upTail
    BY <1>1, <1>2 DEF ServerInv
  <2> QED BY <1>5, <2>1, <2>2, LinkAssumption DEF ServerInv
<1>9. dnTail <= dnTail'
  BY <1>3, <1>4, <1>5
<1> QED BY <1>2, <1>3, <1>5, <1>6, <1>7, <1>8, <1>9, ServerStepInv

LEMMA CloseInv ==
    ASSUME IInv, Close
    PROVE  IInv'
<1>1. link' \in {"eof", "reset"} /\ link = "up"
  BY LinkAssumption DEF Close
<1>2. /\ TypeOK
      /\ ReqsInv /\ RespsInv /\ ServerInv /\ StreamInv /\ CallInv
  BY <1>1, ServerAlive
<1>3. UNCHANGED <<calls, op, pc, toSend, toRecv, remaining, final, got, taken, rc, reqs, upTail,
                  upHead, resps, dnTail, dnHead, sv, cur, rxd, sendLeft>>
  BY DEF Close, call, client, up, down, server
<1>4. TypeOK'
  BY <1>1, <1>2, <1>3 DEF TypeOK
<1>5. ReqsInv'
  BY <1>2, <1>3, <1>4, ScalarType, FrameReqs
<1>6. RespsInv'
  <2>1. sendLeft' > 0 <=> sv' = "send"
    BY <1>2, <1>3 DEF RespsInv
  <2> QED BY <1>2, <1>3, <1>4, <2>1, LengthType, FrameResps
<1>7. ServerInv'
  BY <1>2, <1>3, <1>4, LengthType, ScalarType, FrameServer
<1>8. StreamInv'
  BY <1>2, <1>3, <1>4, LengthType, ScalarType, FrameStream
<1>9. CallInv'
  BY <1>2, <1>3, FrameCall
<1> QED BY <1>1, <1>4, <1>5, <1>6, <1>7, <1>8, <1>9 DEF IInv, LinkInv

-----------------------------------------------------------------------------
(* The invariant, and the properties that follow from it.                   *)

LEMMA InitInv ==
    ASSUME Init
    PROVE  IInv
<1>1. TypeOK
  BY LinkAssumption DEF Init, TypeOK
<1>2. Acked = 0 /\ Posted = 0 /\ UpEnd(0) = 0 /\ DnEnd(0) = 0 /\ Len(reqs) = 0 /\ Len(resps) = 0
  BY DEF Init, Acked, Posted, UpEnd, DnEnd
<1>3. ReqsInv
  BY <1>2 DEF Init, ReqsInv
<1>4. RespsInv
  BY <1>2 DEF Init, RespsInv
<1>5. ServerInv
  BY <1>2, LinkAssumption DEF Init, ServerInv
<1>6. StreamInv /\ CallInv
  BY <1>2 DEF Init, StreamInv, CallInv
<1> QED BY <1>1, <1>3, <1>4, <1>5, <1>6 DEF Init, IInv, LinkInv

LEMMA StutterInv ==
    ASSUME IInv, UNCHANGED vars
    PROVE  IInv'
<1>1. UNCHANGED <<calls, op, pc, toSend, toRecv, remaining, final, got, taken, rc, reqs, upTail,
                  upHead, resps, dnTail, dnHead, link, sv, cur, rxd, sendLeft>>
  BY DEF vars, call, client, up, down, server
<1>2. TypeOK'
  BY <1>1 DEF IInv, TypeOK
<1>3. CASE link = "dead"
  BY <1>1, <1>2, <1>3 DEF IInv, LinkInv
<1>4. CASE link # "dead"
  <2>1. TypeOK /\ ReqsInv /\ RespsInv /\ ServerInv /\ StreamInv /\ CallInv
    BY <1>4 DEF IInv, LinkInv
  <2>2. ReqsInv'
    BY <1>1, <1>2, <2>1, ScalarType, FrameReqs
  <2>3. sendLeft' > 0 <=> sv' = "send"
    BY <1>1, <2>1 DEF RespsInv
  <2>4. RespsInv'
    BY <1>1, <1>2, <2>1, <2>3, LengthType, FrameResps
  <2>5. ServerInv' /\ StreamInv' /\ CallInv'
    BY <1>1, <1>2, <2>1, LengthType, ScalarType, FrameServer, FrameStream, FrameCall
  <2> QED BY <1>1, <1>2, <1>4, <2>2, <2>4, <2>5 DEF IInv, LinkInv
<1> QED BY <1>3, <1>4

LEMMA NextInv ==
    ASSUME IInv, Smooth, Smooth', [Next]_vars
    PROVE  IInv'
<1>1. CASE Invoke
  <2>1. /\ MaxOps \in Nat /\ MaxChunk \in Nat /\ MaxChunk \in 1..MaxChunk
        /\ \A n \in 1..MaxOps : n \in Nat \ {0}
    BY LinkAssumption
  <2>2. PICK k \in AllKinds, n \in Nat \ {0}, most \in 1..MaxChunk :
           Begin(k, n, most) /\ (k \in SingleKinds => n <= most)
    <3>1. CASE AccessWrite
      BY <2>1, <3>1 DEF AccessWrite, SingleKinds, AllKinds
    <3>2. CASE AccessRead
      BY <2>1, <3>2 DEF AccessRead, SingleKinds, AllKinds, ReadKinds
    <3>3. CASE AccessReadRoi
      <4>1. PICK row \in 1..MaxChunk, rows \in 1..MaxRows : Begin("read", rows * row, row)
        BY <3>3 DEF AccessReadRoi
      <4>2. rows * row \in Nat \ {0}
        <5>1. rows \in Nat /\ row \in Nat /\ rows > 0 /\ row > 0
          BY <2>1, LinkAssumption
        <5> QED BY <5>1
      <4> QED BY <4>1, <4>2 DEF SingleKinds, AllKinds, ReadKinds
    <3>4. CASE AccessReadIntl
      BY <2>1, <3>4 DEF AccessReadIntl, SingleKinds, AllKinds, ReadKinds
    <3>5. CASE AccessMemzero
      BY <2>1, <3>5 DEF AccessMemzero, SingleKinds, AllKinds
    <3>6. CASE PersonalityRead
      BY <2>1, <3>6 DEF PersonalityRead, SingleKinds, AllKinds, ReadKinds
    <3>7. CASE AccessRmw
      BY <2>1, <3>7 DEF AccessRmw, AllKinds, SingleKinds
    <3>8. CASE PersonalityWrite
      BY <2>1, <3>8 DEF PersonalityWrite, Lesser, AllKinds, SingleKinds
    <3> QED BY <1>1, <3>1, <3>2, <3>3, <3>4, <3>5, <3>6, <3>7, <3>8 DEF Invoke
  <2> QED BY <2>2, BeginInv
<1>2. CASE ClientStep
  BY <1>2, EncodeInv, TransmitInv, WouldBlockInv, RecvHeaderInv, RecvPayloadInv, SocketErrorInv
     DEF ClientStep
<1>3. CASE ServerStep
  BY <1>3, ReadRequestHeaderInv, ReadRequestPayloadInv, ExecuteInv, SendResponseInv DEF ServerStep
<1>4. CASE Close
  BY <1>4, CloseInv
<1>5. CASE UNCHANGED vars
  BY <1>5, StutterInv
<1> QED BY <1>1, <1>2, <1>3, <1>4, <1>5 DEF Next

(* What upsets a connection can not be undone: the messages stay in the      *)
(* logs.  That needs every answer to be one to a request there is.           *)
Answers == \A j \in 1..Len(resps) : resps[j].req \in 1..Len(reqs)

(* A step appends at most one request, one of the call in progress, ...      *)
LEMMA RequestsGrow ==
    ASSUME TInv, [Next]_vars
    PROVE  \/ reqs' = reqs
           \/ \E r \in Requests : /\ reqs' = Append(reqs, r) /\ resps' = resps
                                  /\ pc # "idle" /\ r.kind = op.kind /\ r.ok = op.ok
<1>1. CASE Encode
  <2> DEFINE r == [call |-> calls, kind |-> op.kind, ok |-> op.ok, start |-> upTail,
                   before |-> toSend, ops |-> Lesser(toSend, op.most)]
  <2>1. /\ calls \in Nat /\ op \in [kind : AllKinds \cup {"none"}, ok : BOOLEAN, most : Nat]
        /\ upTail \in Nat /\ toSend \in Nat /\ op.most \in Nat /\ op.kind \in AllKinds
    BY <1>1 DEF TInv, TypeOK, ClientInv, Encode
  <2>2. r \in Requests
    BY <2>1, LesserBounds DEF Requests
  <2>3. reqs' = Append(reqs, r) /\ resps' = resps /\ pc # "idle"
    BY <1>1 DEF Encode, down
  <2> QED BY <2>2, <2>3
<1>2. CASE Invoke
  BY <1>2 DEF Invoke, AccessWrite, AccessRead, AccessReadRoi, AccessReadIntl, AccessMemzero,
     AccessRmw, PersonalityRead, PersonalityWrite, Begin, up
<1>3. CASE ClientStep /\ ~Encode
  BY <1>3 DEF ClientStep, Transmit, WouldBlock, RecvHeader, RecvPayload, SocketError, up
<1>4. CASE ServerStep
  BY <1>4 DEF ServerStep, ReadRequestHeader, ReadRequestPayload, Execute, SendResponse, up
<1>5. CASE Close \/ UNCHANGED vars
  BY <1>5 DEF Close, vars, up
<1> QED BY <1>1, <1>2, <1>3, <1>4, <1>5 DEF Next

(* ... and at most one answer, to the request the server has in hand.        *)
LEMMA ResponsesGrow ==
    ASSUME TInv, [Next]_vars
    PROVE  \/ resps' = resps
           \/ \E r \in Responses : /\ resps' = Append(resps, r) /\ reqs' = reqs
                                   /\ r.req \in 1..Len(reqs)
<1>1. CASE Execute
  <2>1. PICK status \in {"ok", "err"}, n \in 0..MaxChunk :
          resps' = Append(resps, [req |-> cur, status |-> status, ops |-> n, start |-> dnTail])
    BY <1>1 DEF Execute
  <2>2. /\ cur \in 1..Len(reqs) /\ cur \in Nat /\ dnTail \in Nat /\ n \in Nat /\ reqs' = reqs
    BY <1>1, LinkAssumption DEF TInv, TypeOK, HandInv, Execute, up
  <2>3. [req |-> cur, status |-> status, ops |-> n, start |-> dnTail] \in Responses
    BY <2>2 DEF Responses
  <2> QED BY <2>1, <2>2, <2>3
<1>2. CASE Invoke
  BY <1>2 DEF Invoke, AccessWrite, AccessRead, AccessReadRoi, AccessReadIntl, AccessMemzero,
     AccessRmw, PersonalityRead, PersonalityWrite, Begin, down
<1>3. CASE ClientStep
  BY <1>3 DEF ClientStep, Encode, Transmit, WouldBlock, RecvHeader, RecvPayload, SocketError, down
<1>4. CASE ServerStep /\ ~Execute
  BY <1>4 DEF ServerStep, ReadRequestHeader, ReadRequestPayload, SendResponse, down
<1>5. CASE Close \/ UNCHANGED vars
  BY <1>5 DEF Close, vars, down
<1> QED BY <1>1, <1>2, <1>3, <1>4, <1>5 DEF Next

(* What is in a log stays there.                                             *)
LEMMA LogsKept ==
    ASSUME TInv, [Next]_vars
    PROVE  /\ Len(reqs) \in Nat /\ Len(reqs') \in Nat /\ Len(reqs) <= Len(reqs')
           /\ Len(resps) \in Nat /\ Len(resps') \in Nat /\ Len(resps) <= Len(resps')
           /\ \A i \in 1..Len(reqs) : reqs'[i] = reqs[i]
           /\ \A j \in 1..Len(resps) : resps'[j] = resps[j]
<1>1. reqs \in Seq(Requests) /\ resps \in Seq(Responses)
  BY DEF TInv, TypeOK
<1>2. /\ Len(reqs) \in Nat /\ Len(reqs') \in Nat /\ Len(reqs) <= Len(reqs')
      /\ \A i \in 1..Len(reqs) : reqs'[i] = reqs[i]
  BY <1>1, RequestsGrow
<1>3. /\ Len(resps) \in Nat /\ Len(resps') \in Nat /\ Len(resps) <= Len(resps')
      /\ \A j \in 1..Len(resps) : resps'[j] = resps[j]
  BY <1>1, ResponsesGrow
<1> QED BY <1>2, <1>3

LEMMA AnswersNext ==
    ASSUME TInv, Answers, [Next]_vars
    PROVE  Answers'
<1>1. resps \in Seq(Responses)
  BY DEF TInv, TypeOK
<1>2. CASE resps' = resps
  BY <1>2, LogsKept DEF Answers
<1>3. CASE resps' # resps
  <2>1. PICK r \in Responses : resps' = Append(resps, r) /\ reqs' = reqs /\ r.req \in 1..Len(reqs)
    BY <1>3, ResponsesGrow
  <2> QED BY <1>1, <2>1 DEF Answers
<1> QED BY <1>2, <1>3

LEMMA SmoothBefore ==
    ASSUME TInv, Answers, [Next]_vars, Smooth'
    PROVE  Smooth
<1>1. ASSUME NEW i \in 1..Len(reqs) PROVE reqs[i].ok
  BY <1>1, LogsKept DEF Smooth
<1>2. ASSUME NEW j \in 1..Len(resps)
      PROVE  \/ reqs[resps[j].req].kind \in DrainingKinds
             \/ resps[j].status = "ok" /\ resps[j].ops = reqs[resps[j].req].ops
  <2>1. j \in 1..Len(resps') /\ resps'[j] = resps[j]
    BY <1>2, LogsKept
  <2>2. reqs'[resps[j].req] = reqs[resps[j].req]
    BY <1>2, LogsKept DEF Answers
  <2>3. \/ reqs'[resps'[j].req].kind \in DrainingKinds
        \/ resps'[j].status = "ok" /\ resps'[j].ops = reqs'[resps'[j].req].ops
    BY <2>1 DEF Smooth
  <2> QED BY <2>1, <2>2, <2>3
<1> QED BY <1>1, <1>2 DEF Smooth

(* Whatever is called, both ends stay where the invariant puts them in the   *)
(* two streams as long as nothing upset the connection (zynqmp_api.c,        *)
(* command_processor).                                                       *)
THEOREM LinkUnlessUpset == Spec => [](TypeOK /\ (Smooth => LinkInv))
<1> DEFINE J == TInv /\ Answers /\ (Smooth => LinkInv)
<1>1. Init => J
  <2>1. Init => Answers
    BY DEF Init, Answers
  <2> QED BY <2>1, TInvInit, InitInv DEF IInv
<1>2. J /\ [Next]_vars => J'
  <2> SUFFICES ASSUME J, [Next]_vars PROVE J'
    OBVIOUS
  <2>1. TInv' /\ Answers'
    BY TInvNext, AnswersNext
  <2>2. ASSUME Smooth' PROVE LinkInv'
    <3>1. Smooth
      BY <2>2, SmoothBefore
    <3>2. IInv
      BY <3>1 DEF IInv, TInv
    <3> QED BY <2>2, <3>1, <3>2, NextInv DEF IInv
  <2> QED BY <2>1, <2>2
<1>3. J => TypeOK /\ (Smooth => LinkInv)
  BY DEF TInv
<1> QED BY <1>1, <1>2, <1>3, PTL DEF Spec

(* The draining functions with acceptable headers upset nothing.             *)
Drains ==
    /\ op.ok /\ (pc # "idle" => op.kind \in DrainingKinds)
    /\ \A i \in 1..Len(reqs) : reqs[i].ok /\ reqs[i].kind \in DrainingKinds

LEMMA CallKept ==
    ASSUME [Next]_vars, ~Invoke
    PROVE  op' = op /\ (pc = "idle" => pc' = "idle")
<1>1. CASE ClientStep
  BY <1>1 DEF ClientStep, Encode, Transmit, WouldBlock, RecvHeader, RecvPayload, SocketError, call
<1>2. CASE ServerStep
  BY <1>2 DEF ServerStep, ReadRequestHeader, ReadRequestPayload, Execute, SendResponse,
     call, client
<1>3. CASE Close \/ UNCHANGED vars
  BY <1>3 DEF Close, vars, call, client
<1> QED BY <1>1, <1>2, <1>3 DEF Next

LEMMA InvokeDrains ==
    ASSUME Draining, Invoke
    PROVE  op'.ok /\ op'.kind \in DrainingKinds
<1>1. PICK k, n, most : k \in DrainingKinds /\ Begin(k, n, most)
  BY DEF Invoke, AccessWrite, AccessRead, AccessReadRoi, AccessReadIntl, AccessMemzero,
     AccessRmw, PersonalityRead, PersonalityWrite, Draining, DrainingKinds
<1>2. PICK ok \in Valid : op' = [kind |-> k, ok |-> ok, most |-> most]
  BY <1>1 DEF Begin
<1> QED BY <1>1, <1>2 DEF Draining

LEMMA DrainsNext ==
    ASSUME Draining, TInv, Drains, [Next]_vars
    PROVE  Drains'
<1>1. op'.ok /\ (pc' # "idle" => op'.kind \in DrainingKinds)
  BY CallKept, InvokeDrains DEF Drains
<1>2. \A i \in 1..Len(reqs') : reqs'[i].ok /\ reqs'[i].kind \in DrainingKinds
  <2>1. CASE reqs' = reqs
    BY <2>1 DEF Drains
  <2>2. CASE reqs' # reqs
    <3>1. PICK r \in Requests : reqs' = Append(reqs, r) /\ r.kind \in DrainingKinds /\ r.ok
      BY <2>2, RequestsGrow DEF Drains
    <3>2. reqs \in Seq(Requests)
      BY DEF TInv, TypeOK
    <3> QED BY <3>1, <3>2 DEF Drains
  <2> QED BY <2>1, <2>2
<1> QED BY <1>1, <1>2 DEF Drains

LEMMA DrainsAlways ==
    ASSUME Draining
    PROVE  Spec => [](Drains /\ Smooth)
<1> DEFINE J == TInv /\ Answers /\ Drains
<1>1. Init => J
  <2>1. Init => Answers /\ Drains
    BY DEF Init, Answers, Drains
  <2> QED BY <2>1, TInvInit
<1>2. J /\ [Next]_vars => J'
  BY TInvNext, AnswersNext, DrainsNext
<1>3. J => Drains /\ Smooth
  BY DEF Answers, Drains, Smooth
<1> QED BY <1>1, <1>2, <1>3, PTL DEF Spec

(* In every execution of theirs both ends stay where the invariant puts them *)
(* in the two streams (zynqmp_api.c, command_processor).                     *)
THEOREM LinkInvariant ==
    ASSUME Draining
    PROVE  Spec => [](TypeOK /\ LinkInv)
BY DrainsAlways, LinkUnlessUpset, PTL

(* A response is taken only while one is outstanding, and it is the oldest. *)
LEMMA OwnAnswer ==
    ASSUME IInv, [Next]_vars, taken' # taken
    PROVE  /\ taken' = taken + 1 /\ taken' \in 1..Len(resps)
           /\ pc = "recv" /\ resps' = resps /\ reqs' = reqs /\ calls' = calls
<1>1. RecvHeader
  <2>1. ~Invoke
    BY DEF Invoke, AccessWrite, AccessRead, AccessReadRoi, AccessReadIntl, AccessMemzero, AccessRmw,
           PersonalityRead, PersonalityWrite, Begin
  <2>2. ~(Encode \/ Transmit \/ WouldBlock \/ RecvPayload \/ SocketError)
    BY DEF Encode, Transmit, WouldBlock, RecvPayload, SocketError
  <2>3. ~ServerStep /\ ~Close /\ ~UNCHANGED vars
    BY DEF ServerStep, ReadRequestHeader, ReadRequestPayload, Execute, SendResponse, Close,
           client, vars
  <2> QED BY <2>1, <2>2, <2>3 DEF Next, ClientStep
<1>2. pc = "recv" /\ Arrived > 0
  BY <1>1 DEF RecvHeader
<1>3. /\ taken + 1 \in 1..Len(resps)
      /\ {j \in 1..Len(resps) : resps[j].start = dnHead - got} = {taken + 1}
  BY <1>2, NextResponse
<1>4. taken' = taken + 1
  BY <1>1, <1>3 DEF RecvHeader
<1> QED BY <1>1, <1>2, <1>3, <1>4 DEF RecvHeader, up, call

(* zynqmp_access_write and _read never look at a response's sequence        *)
(* number; still every header they accept is the answer to their own        *)
(* oldest unanswered request, of the size they compare it with.             *)
THEOREM InStepAlways ==
    ASSUME Draining
    PROVE  Spec => InStepProp
<1>1. IInv /\ [Next]_vars => [InStep]_vars
  <2> SUFFICES ASSUME IInv, [Next]_vars, taken' # taken
               PROVE  InStep
    BY DEF InStep
  <2>1. /\ taken' = taken + 1 /\ taken' \in 1..Len(resps)
        /\ pc = "recv" /\ resps' = resps /\ reqs' = reqs /\ calls' = calls
    BY OwnAnswer
  <2>2. TypeOK /\ RespsInv /\ CallInv
    BY <2>1, Alive
  <2>3. Acked = taken /\ taken \in Nat
    BY <2>1, <2>2, ScalarType DEF Acked
  <2>4. taken' \in 1..Len(reqs) /\ Chunk = reqs[taken'].ops
    BY <2>1, <2>3, Outstanding
  <2>5. resps[taken'].req = taken'
    BY <2>1, <2>2 DEF RespsInv
  <2>6. reqs[taken'].call = calls
    <3>1. taken' \in (Acked + 1)..Len(reqs)
      BY <2>1, <2>3, <2>4
    <3> QED BY <2>1, <2>2, <3>1 DEF CallInv
  <2> QED BY <2>1, <2>4, <2>5, <2>6 DEF InStep
<1>2. Spec => []IInv
  BY LinkInvariant DEF IInv
<1> QED BY <1>1, <1>2, PTL DEF Spec, InStepProp

(* A call that returns leaves nothing behind in either stream, and the      *)
(* server between two headers: the drain loops of zynqmp_access_write and   *)
(* _read do what their comments say.                                        *)
LEMMA IdleIsClean ==
    ASSUME IInv
    PROVE  CleanReturn
<1> SUFFICES ASSUME pc = "idle", link # "dead"
             PROVE  remaining = 0 /\ Pending = 0 /\ Arrived = 0 /\ sv = "start" /\ rxd = 0
  BY DEF CleanReturn
<1>1. TypeOK /\ ReqsInv /\ RespsInv /\ ServerInv /\ StreamInv
  BY DEF IInv, LinkInv
<1>2. /\ rxd \in Nat /\ upHead \in Nat /\ upTail \in Nat /\ sendLeft \in Nat
      /\ dnTail \in Nat /\ dnHead \in Nat /\ Len(reqs) \in Nat /\ Len(resps) \in Nat
  BY <1>1, ScalarType, LengthType
<1>3. remaining = 0 /\ got = 0 /\ taken = Len(reqs)
  BY <1>1 DEF StreamInv
<1>4. PICK n \in Nat : n = Len(reqs) /\ n = Len(resps) /\ taken = n
  <2>1. taken <= Len(resps) /\ Len(resps) <= Len(reqs)
    BY <1>1 DEF StreamInv, RespsInv
  <2> QED BY <1>2, <1>3, <2>1
<1>5. UpEnd(n) \in Nat /\ DnEnd(n) \in Nat
  BY <1>1, <1>4, UpEndType, DnEndType
<1>6. upHead = UpEnd(n) + rxd /\ upHead <= upTail /\ upTail + remaining = UpEnd(n)
  BY <1>1, <1>4 DEF ServerInv, ReqsInv
<1>7. rxd = 0 /\ Pending = 0
  BY <1>2, <1>3, <1>5, <1>6 DEF Pending
<1>8. dnHead = DnEnd(n) + got /\ dnHead <= dnTail /\ dnTail + sendLeft = DnEnd(n)
  BY <1>1, <1>4 DEF StreamInv, RespsInv, Acked
<1>9. sendLeft = 0 /\ Arrived = 0
  BY <1>2, <1>3, <1>5, <1>8 DEF Arrived
<1>10. sv = "start"
  <2>1. sv \in {"start", "payload", "execute", "send"}
    BY <1>1 DEF TypeOK
  <2>2. sv # "send"
    BY <1>1, <1>9 DEF RespsInv
  <2>3. sv \notin {"payload", "execute"}
    <3>1. sv \in {"payload", "execute"} => cur = n + 1 /\ cur <= n
      BY <1>1, <1>4 DEF ServerInv
    <3> QED BY <3>1
  <2> QED BY <2>1, <2>2, <2>3
<1> QED BY <1>3, <1>7, <1>9, <1>10

THEOREM CleanReturnAlways ==
    ASSUME Draining
    PROVE  Spec => []CleanReturn
<1>1. IInv => CleanReturn
  BY IdleIsClean
<1> QED BY <1>1, LinkInvariant, PTL DEF IInv

(* Positions in the streams grow with the message.                          *)
LEMMA UpEndMonotone ==
    ASSUME TypeOK, ReqsInv, NEW i \in 1..Len(reqs), NEW j \in 1..Len(reqs), i <= j
    PROVE  UpEnd(i) <= UpEnd(j)
<1>1. /\ reqs[i].start \in Nat /\ ReqLen(reqs[i]) \in Nat
      /\ reqs[j].start \in Nat /\ ReqLen(reqs[j]) \in Nat
  BY RequestType, ReqLenType
<1>2. i < j => reqs[i].start + ReqLen(reqs[i]) <= reqs[j].start
  BY DEF ReqsInv
<1>3. UpEnd(i) = reqs[i].start + ReqLen(reqs[i]) /\ UpEnd(j) = reqs[j].start + ReqLen(reqs[j])
  BY DEF UpEnd
<1> QED BY <1>1, <1>2, <1>3

LEMMA DnEndMonotone ==
    ASSUME TypeOK, RespsInv, NEW i \in 1..Len(resps), NEW j \in 1..Len(resps), i <= j
    PROVE  DnEnd(i) <= DnEnd(j)
<1>1. /\ resps[i].start \in Nat /\ ReplyLen(i) \in Nat
      /\ resps[j].start \in Nat /\ ReplyLen(j) \in Nat
  BY ResponseType, ReplyLenType
<1>2. i < j => resps[i].start + ReplyLen(i) <= resps[j].start
  BY DEF RespsInv
<1>3. DnEnd(i) = resps[i].start + ReplyLen(i) /\ DnEnd(j) = resps[j].start + ReplyLen(j)
  BY DEF DnEnd
<1> QED BY <1>1, <1>2, <1>3

(* A client blocked in send() has nothing outstanding, so the server is not *)
(* blocked in its own send().                                               *)
LEMMA SendersNotBothBlocked ==
    ASSUME IInv, link = "up", pc = "send", remaining > 0, Blocking
    PROVE  sv # "send"
<1>1. TypeOK /\ ReqsInv /\ RespsInv /\ ServerInv /\ StreamInv /\ CallInv
  BY ServerAlive
<1>2. /\ remaining \in Nat /\ taken \in Nat /\ sendLeft \in Nat /\ dnTail \in Nat
      /\ dnHead \in Nat /\ Len(reqs) \in Nat /\ Len(resps) \in Nat
  BY <1>1, ScalarType, LengthType
<1>3. Acked = taken /\ Posted = Len(reqs) - 1
  BY DEF Acked, Posted
<1>4. /\ taken <= Len(resps) /\ Len(resps) <= Len(reqs) - 1
      /\ dnHead = DnEnd(taken) + got /\ got = 0 /\ dnHead <= dnTail
  BY <1>1, <1>3, AnsweredPosted DEF StreamInv
<1>5. /\ toSend = reqs[Len(reqs)].before /\ toRecv = toSend
      /\ taken < Len(reqs) => toRecv = reqs[taken + 1].before
  BY <1>1, <1>3 DEF CallInv, Blocking
<1>6. ~(taken + 1 < Len(reqs))
  <2> SUFFICES ASSUME taken + 1 < Len(reqs) PROVE FALSE
    OBVIOUS
  <2>1. /\ taken + 1 \in (Acked + 1)..Len(reqs) /\ Len(reqs) \in (Acked + 1)..Len(reqs)
        /\ taken + 1 \in 1..Len(reqs) /\ Len(reqs) \in 1..Len(reqs) /\ taken < Len(reqs)
    BY <1>2, <1>3
  <2>2. reqs[Len(reqs)].before <= reqs[taken + 1].before - reqs[taken + 1].ops
    BY <1>1, <2>1 DEF CallInv
  <2>3. /\ reqs[taken + 1].before \in Nat /\ reqs[taken + 1].ops \in Nat \ {0}
    BY <1>1, <2>1, RequestFacts
  <2> QED BY <1>5, <2>1, <2>2, <2>3
<1>7. taken = Len(resps)
  BY <1>2, <1>4, <1>6
<1>8. dnTail + sendLeft = DnEnd(taken) /\ (sv = "send" => sendLeft > 0)
  BY <1>1, <1>7 DEF RespsInv
<1>9. DnEnd(taken) \in Nat
  BY <1>1, <1>2, <1>7, DnEndType
<1> QED BY <1>2, <1>4, <1>8, <1>9

(* A client waiting for a response with none on its way has a request       *)
(* outstanding whose last unit the server has still to read.                *)
LEMMA SomethingToRead ==
    ASSUME IInv, link = "up", pc \in {"recv", "payload"}, Arrived = 0,
           sv \in {"start", "payload"}
    PROVE  Pending # 0
<1> SUFFICES ASSUME Pending = 0 PROVE FALSE
  OBVIOUS
<1>1. TypeOK /\ ReqsInv /\ RespsInv /\ ServerInv /\ StreamInv /\ CallInv
  BY ServerAlive
<1>2. PICK m \in Nat : m = Len(resps)
  BY <1>1, LengthType
<1>3. /\ remaining \in Nat /\ taken \in Nat /\ sendLeft \in Nat /\ dnTail \in Nat /\ got \in Nat
      /\ dnHead \in Nat /\ upHead \in Nat /\ upTail \in Nat /\ rxd \in Nat
      /\ Len(reqs) \in Nat /\ HdrLen \in Nat /\ HdrLen > 0
  BY <1>1, ScalarType, LengthType, LinkAssumption
<1>4. dnTail = DnEnd(m) /\ dnHead = dnTail /\ upHead = upTail
  <2>1. dnTail + sendLeft = DnEnd(m) /\ ~(sendLeft > 0)
    BY <1>1, <1>2 DEF RespsInv
  <2> QED BY <1>3, <2>1 DEF Arrived, Pending
<1>5. taken <= m
  BY <1>1, <1>2 DEF StreamInv
<1>6. CASE pc = "payload"
  <2>1. /\ dnHead = DnEnd(Acked) + HdrLen + got /\ taken > 0
        /\ resps[taken].status = "ok" /\ op.kind \in ReadKinds /\ got < reqs[taken].ops
    BY <1>1, <1>6 DEF StreamInv
  <2>2. Acked = taken - 1 /\ taken \in 1..Len(resps) /\ m \in 1..Len(resps)
    BY <1>2, <1>3, <1>5, <1>6, <2>1 DEF Acked
  <2>3. resps[taken].req = taken /\ resps[taken].start = DnEnd(Acked)
    BY <1>1, <2>2 DEF RespsInv
  <2>4. taken \in 1..Len(reqs) /\ Acked + 1 = taken
    BY <1>6, <1>3, <2>2, Outstanding
  <2>5. reqs[taken].kind \in ReadKinds /\ reqs[taken].ops \in Nat
    <3>1. taken \in (Acked + 1)..Len(reqs)
      BY <1>3, <2>4
    <3> QED BY <1>1, <1>6, <2>1, <2>4, <3>1, RequestType DEF CallInv
  <2>6. ReplyLen(taken) = HdrLen + reqs[taken].ops
    BY <2>1, <2>3, <2>5 DEF ReplyLen, RespLen, ReadKinds
  <2>7. DnEnd(taken) = DnEnd(Acked) + (HdrLen + reqs[taken].ops)
    BY <1>3, <2>1, <2>3, <2>6 DEF DnEnd
  <2>8. DnEnd(taken) <= DnEnd(m)
    BY <1>1, <1>5, <2>2, DnEndMonotone
  <2>9. DnEnd(Acked) \in Nat
    BY <1>1, <2>2, <2>3, ResponseType
  <2> QED BY <1>3, <1>4, <2>1, <2>5, <2>7, <2>8, <2>9
<1>7. CASE pc = "recv"
  <2>1. taken < Posted /\ dnHead = DnEnd(taken) + got /\ got < HdrLen
    BY <1>1, <1>7 DEF StreamInv, Acked
  <2>2. m = taken
    <3> SUFFICES ASSUME taken < m PROVE FALSE
      BY <1>3, <1>5
    <3>1. taken + 1 \in 1..Len(resps) /\ m \in 1..Len(resps) /\ taken + 1 <= m
      BY <1>2, <1>3
    <3>2. resps[taken + 1].start = DnEnd((taken + 1) - 1)
      BY <1>1, <3>1 DEF RespsInv
    <3>3. (taken + 1) - 1 = taken /\ DnEnd(taken) \in Nat
      BY <1>1, <1>2, <1>3, <1>5, DnEndType
    <3>4. DnEnd(taken + 1) >= resps[taken + 1].start + HdrLen /\ DnEnd(taken + 1) \in Nat
      BY <1>1, <3>1, DnEndType
    <3>5. DnEnd(taken + 1) <= DnEnd(m) /\ DnEnd(m) \in Nat
      BY <1>1, <3>1, DnEndMonotone, DnEndType
    <3> QED BY <1>3, <1>4, <2>1, <3>2, <3>3, <3>4, <3>5
  <2>3. PICK i \in Nat : i = m + 1
    BY <1>2
  <2>4. i \in 1..Len(reqs) /\ i <= Posted
    BY <1>3, <2>1, <2>2, <2>3 DEF Posted
  <2>5. UpEnd(i) = reqs[i].start + ReqLen(reqs[i]) /\ reqs[i].start = UpEnd(m)
    <3>1. i - 1 = m
      BY <2>3
    <3> QED BY <1>1, <2>3, <2>4, <3>1 DEF UpEnd, ReqsInv
  <2>6. UpEnd(i) \in Nat /\ UpEnd(m) \in Nat /\ ReqLen(reqs[i]) \in Nat /\ ReqLen(reqs[i]) >= HdrLen
    BY <1>1, <2>4, <2>5, RequestType, ReqLenType, UpEndType
  <2>7. UpEnd(i) <= upTail
    <3>1. upTail + remaining = UpEnd(Len(reqs)) /\ Len(reqs) \in 1..Len(reqs)
      BY <1>1, <1>3, <2>4 DEF ReqsInv
    <3>2. CASE remaining = 0
      <4>1. UpEnd(i) <= UpEnd(Len(reqs)) /\ UpEnd(Len(reqs)) \in Nat
        BY <1>1, <2>4, <3>1, UpEndMonotone, UpEndType
      <4> QED BY <1>3, <3>1, <3>2, <4>1
    <3>3. CASE remaining > 0
      <4>1. i < Len(reqs) /\ reqs[Len(reqs)].start <= upTail
        BY <1>1, <1>3, <2>4, <3>3 DEF Posted, ReqsInv
      <4>2. reqs[i].start + ReqLen(reqs[i]) <= reqs[Len(reqs)].start
        BY <1>1, <2>4, <3>1, <4>1 DEF ReqsInv
      <4>3. reqs[Len(reqs)].start \in Nat
        BY <1>1, <3>1, RequestType
      <4> QED BY <1>3, <2>5, <2>6, <4>1, <4>2, <4>3
    <3> QED BY <1>3, <3>2, <3>3
  <2>8. upHead = UpEnd(m) + rxd
    BY <1>1, <1>2 DEF ServerInv
  <2>9. rxd >= ReqLen(reqs[i])
    BY <1>3, <1>4, <2>5, <2>6, <2>7, <2>8
  <2>10. sv = "start" => rxd < HdrLen
    BY <1>1 DEF ServerInv
  <2>11. sv = "payload" => rxd < ReqLen(reqs[i])
    BY <1>1, <1>2, <2>3 DEF ServerInv
  <2> QED BY <1>3, <2>6, <2>9, <2>10, <2>11
<1> QED BY <1>6, <1>7

(* So a connection that is in step does not wait on itself.                  *)
LEMMA NeverBothBlocked ==
    ASSUME IInv
    PROVE  NoDeadlock
<1> SUFFICES ASSUME link = "up", ClientBlocked, ServerBlocked
             PROVE  FALSE
  BY DEF NoDeadlock
<1>1. upTail \in Nat /\ upHead \in Nat /\ dnTail \in Nat /\ dnHead \in Nat
  BY ServerAlive, ScalarType
<1>2. CASE pc = "send" /\ remaining > 0 /\ UpRoom = 0 /\ Blocking
  <2>1. sv # "send"
    BY <1>2, SendersNotBothBlocked
  <2>2. Pending # 0
    BY <1>1, <1>2, LinkAssumption DEF UpRoom, Pending
  <2> QED BY <2>1, <2>2 DEF ServerBlocked
<1>3. CASE pc \in {"recv", "payload"} /\ Arrived = 0
  <2>1. ~(sv \in {"start", "payload"} /\ Pending = 0)
    BY <1>3, SomethingToRead
  <2>2. DnRoom # 0
    BY <1>1, <1>3, LinkAssumption DEF DnRoom, Arrived
  <2> QED BY <2>1, <2>2 DEF ServerBlocked
<1> QED BY <1>2, <1>3 DEF ClientBlocked

(* With a live connection the client and the server never wait for each     *)
(* other: the rule "non-blocking unless nothing is outstanding" of          *)
(* zynqmp_access_write and the reads is enough, whatever the buffers hold.  *)
THEOREM NoDeadlockAlways ==
    ASSUME Draining
    PROVE  Spec => []NoDeadlock
<1>1. IInv => NoDeadlock
  BY NeverBothBlocked
<1> QED BY <1>1, LinkInvariant, PTL DEF IInv

-----------------------------------------------------------------------------
(* All functions of the library, while no request was refused.               *)
LEMMA AcceptedIsSmooth == AllAccepted => Smooth
BY DEF AllAccepted, Smooth

(* As long as the server accepted and executed every request, any call,      *)
(* zynqmp_access_memzero, zynqmp_access_read_intl and zynqmp_personality_read *)
(* included, returns with both streams empty and the server between two      *)
(* headers.                                                                  *)
THEOREM CleanUnlessRefusedAlways == Spec => []CleanUnlessRefused
<1>1. TypeOK /\ (Smooth => LinkInv) => CleanUnlessRefused
  BY AcceptedIsSmooth, IdleIsClean DEF CleanUnlessRefused, IInv
<1> QED BY <1>1, LinkUnlessUpset, PTL

(* As long as the server accepted and executed every request, no call waits  *)
(* for a server that waits for it, whatever the two sockets buffer.          *)
THEOREM FlowsUnlessRefusedAlways == Spec => []FlowsUnlessRefused
<1>1. TypeOK /\ (Smooth => LinkInv) => FlowsUnlessRefused
  BY AcceptedIsSmooth, NeverBothBlocked DEF FlowsUnlessRefused, IInv
<1> QED BY <1>1, LinkUnlessUpset, PTL
=============================================================================
