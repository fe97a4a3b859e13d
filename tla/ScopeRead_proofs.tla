-------------------------- MODULE ScopeRead_proofs --------------------------
(***************************************************************************)
(* Type correctness of ScopeRead, and its properties Delivered, InRegion and *)
(* RoomForAll, for every buffer, page size, queue, number of tries and of    *)
(* faults.                                                                  *)
(***************************************************************************)
EXTENDS ScopeRead, SequenceTheorems, TLAPS

Pages == [from : Nat, len : Nat]

Types ==
    /\ TypeOK
    /\ queue \in Seq(Pages)
    /\ \A i \in 1..Len(queue) : queue[i].from + queue[i].len <= Top
    /\ fw \in [on : BOOLEAN, at : Nat, last : Nat, since : Nat, paused : BOOLEAN]
    /\ regs \in [first : Nat, last : Nat, pause : Nat]
    /\ fw.last < Top /\ regs.last < Top

Reading == {"loop", "query", "low", "high", "collect", "done"}
Working == {"setup", "stream", "arm"} \cup Reading

(* The request is inside what the checks let through, and the chunk inside   *)
(* the request.                                                              *)
End == chunk.start + chunk.num

ChunkInv ==
    /\ pc # "idle" => asked.num >= 1
    /\ pc \in Working \cup {"alloc"} => asked.start \in First..Last /\ asked.num <= Size
    /\ pc \in Working =>
        /\ asked.start <= chunk.start /\ chunk.num >= 1
        /\ End <= asked.start + asked.num
        /\ mode # "chunks" => chunk.start = asked.start /\ chunk.num = asked.num

(* What is counted down is what is left of the chunk from dst on.            *)
CountInv ==
    /\ pc \in Reading => chunk.start <= dst /\ dst + toCollect = End
    /\ pc = "done" => toCollect = 0
    /\ pc = "collect" => filled \in 1..Len(queue)

(* The firmware is on while the run bit is up; the call begins with it off.  *)
DeviceInv ==
    /\ runBit <=> fw.on
    /\ fw.on => fw.at <= fw.last + 1
    /\ pc \in {"stop", "alloc"} => ~runBit
    /\ pc \in Reading => runBit
    /\ pc \in Reading \cup {"arm"} => streaming
    /\ pc \in {"stream", "arm"} => regs.first = chunk.start /\ regs.last = End - 1

(* An address of the chunk where the firmware may be: its start, or at least *)
(* a page behind it.                                                         *)
Place(a) == fw.last = End - 1 /\ (a = chunk.start \/ a >= chunk.start + PageLen)

(* A firmware that still has something to send is in the chunk.              *)
PlaceInv == pc \in Working /\ fw.on /\ fw.at <= fw.last => Place(fw.at)

(* So is every page queued.  As long as none is lost they follow each other  *)
(* up to where the firmware is.                                              *)
QueueInv ==
    pc \in Reading \cup {"arm"} =>
        /\ ~runBit => queue = <<>> /\ ~overflow
        /\ \A i \in 1..Len(queue) :
              /\ queue[i].from <= fw.last /\ Place(queue[i].from)
              /\ queue[i].len = Min2(PageLen, 1 + fw.last - queue[i].from)
        /\ ~overflow =>
              /\ \A i \in 1..(Len(queue) - 1) :
                    queue[i + 1].from = queue[i].from + queue[i].len
              /\ queue # <<>> =>
                    queue[Len(queue)].from + queue[Len(queue)].len = fw.at

Next1 == IF queue = <<>> THEN fw.at ELSE queue[1].from

InPlace(lo, hi) == \A a \in lo..(hi - 1) : mod[a] = a

(* The page that comes next is the one that belongs at dst, ...              *)
Aligned ==
    /\ fw.last = End - 1 /\ Next1 = dst
    /\ InPlace(asked.start, dst)

(* ... or so much less is still to come than the host waits for that the     *)
(* chunk will never be complete: the run bit was up when it was raised.      *)
Short ==
    IF Next1 > fw.last THEN toCollect >= 1
    ELSE toCollect >= 1 + fw.last - Next1 + PageLen

MatchInv ==
    /\ pc \in Reading /\ ~overflow => Aligned \/ Short
    /\ pc = "done" => ~overflow /\ Aligned

(* The chunks before this one are in the scope module, and nothing else that *)
(* was not asked for.                                                        *)
GoodInv ==
    /\ pc \in Working => InPlace(asked.start, chunk.start)
    /\ InRegion
    /\ result = "ok" /\ calls > 0 => pc = "idle" /\ InPlace(asked.start, asked.start + asked.num)

IInv ==
    /\ Types /\ ChunkInv /\ CountInv /\ DeviceInv /\ PlaceInv /\ QueueInv /\ MatchInv
    /\ GoodInv

-----------------------------------------------------------------------------
LEMMA Consts ==
    /\ First \in Nat /\ First >= 1 /\ Last \in Nat /\ First <= Last
    /\ PageLen \in Nat /\ PageLen >= 1 /\ BuffStart \in Nat /\ BuffStart > 2
    /\ QueueMax \in Nat /\ QueueMax >= 1 /\ FlowPages \in 1..QueueMax
    /\ MaxTries \in Nat /\ MaxTries >= 1
    /\ Top \in Nat /\ Top = 2 * Last + PageLen /\ Size = 1 + Last - First
BY ReadAssumption DEF ReadAssumption, Top, Size

LEMMA Positive ==
    ASSUME NEW a \in Nat, NEW b \in Nat, a >= 1, b >= 1
    PROVE  a * b \in Nat /\ a * b >= 1
OBVIOUS

LEMMA Monotone ==
    ASSUME NEW a \in Nat, NEW b \in Nat, NEW c \in Nat, a <= b
    PROVE  a * c \in Nat /\ b * c \in Nat /\ a * c <= b * c
OBVIOUS

LEMMA ChunkWordsPositive ==
    ASSUME NEW n \in 3..BuffStart
    PROVE  ChunkWords(n) \in Nat /\ ChunkWords(n) >= 1
<1>1. Min2(n, QueueMax) \in Nat /\ Min2(n, QueueMax) >= 1
  BY Consts DEF Min2
<1> QED BY <1>1, Consts, Positive DEF ChunkWords

LEMMA PauseBounded ==
    ASSUME NEW n \in 3..BuffStart
    PROVE  PauseWords(n) \in 0..MaxPause
<1> DEFINE k == IF n > FlowPages THEN FlowPages ELSE n \div 2
<1>1. k \in Nat /\ k <= FlowPages
  BY Consts
<1>2. k * PageLen \in Nat /\ k * PageLen <= FlowPages * PageLen
  <2> HIDE DEF k
  <2> QED BY <1>1, Consts, Monotone
<1> QED BY <1>2, Consts DEF PauseWords, MaxPause

LEMMA MaxPauseNat == MaxPause \in Nat
BY Consts, Monotone DEF MaxPause

-----------------------------------------------------------------------------
LEMMA InitInv == Init => IInv
<1> SUFFICES ASSUME Init PROVE IInv
  OBVIOUS
<1>1. Types
  <2>1. [a \in First..Top |-> 0] \in [First..Top -> 0..Top]
    BY Consts
  <2>2. Len(queue) = 0 /\ queue \in Seq(Pages) /\ Min2(numBuff, QueueMax) >= 0
    BY Consts DEF Init, Min2
  <2>3. TypeOK
    <3>1. {runBit, contBit, streaming, overflow, noRoom, noEdge} \subseteq BOOLEAN
      BY DEF Init
    <3>2. /\ chunk \in [start : 0..Top, num : 0..Top, pause : 0..MaxPause, tries : 0..MaxTries]
          /\ dst \in 0..Top
      BY Consts, MaxPauseNat DEF Init
    <3>3. mod \in [First..Top -> 0..Top]
      BY <2>1 DEF Init
    <3> QED BY <2>2, <3>1, <3>2, <3>3, Consts DEF Init, TypeOK, Modes
  <2>4. /\ fw \in [on : BOOLEAN, at : Nat, last : Nat, since : Nat, paused : BOOLEAN]
        /\ regs \in [first : Nat, last : Nat, pause : Nat] /\ fw.last < Top /\ regs.last < Top
    BY Consts DEF Init, Idle
  <2> QED BY <2>2, <2>3, <2>4 DEF Types
<1>2. ChunkInv /\ CountInv /\ DeviceInv /\ PlaceInv /\ QueueInv /\ MatchInv
  BY DEF Init, ChunkInv, CountInv, DeviceInv, PlaceInv, QueueInv, MatchInv, Working, Reading, Idle
<1>3. GoodInv
  BY DEF Init, GoodInv, Working, Reading, InRegion
<1> QED BY <1>1, <1>2, <1>3 DEF IInv

(* What ChunkReturns makes of a result: back to the same chunk, on to the    *)
(* next one, or the end of the call.                                         *)
Again    == pc' = "setup" /\ chunk' = [chunk EXCEPT !.tries = @ + 1] /\ result' = result
                /\ chunk.tries + 1 < MaxTries
Onwards  == /\ pc' = "setup" /\ result' = result /\ mode = "chunks"
            /\ End < asked.start + asked.num
            /\ chunk'.start = End /\ chunk'.pause = 0 /\ chunk'.tries = 0
            /\ chunk'.num \in 1..(asked.start + asked.num - End)
            /\ chunk' = [start |-> chunk'.start, num |-> chunk'.num, pause |-> 0, tries |-> 0]
Ends(rc) == pc' = "idle" /\ chunk' = chunk /\ result' = rc
                /\ (rc = "ok" => mode # "chunks" \/ End = asked.start + asked.num)

LEMMA ChunkReturnsCases ==
    ASSUME Types, ChunkInv, pc \in Working, NEW rc \in {"ok", "error", "overrun"}, ChunkReturns(rc)
    PROVE  (rc # "ok" /\ Again) \/ (rc = "ok" /\ Onwards) \/ Ends(rc)
<1> DEFINE left == asked.start + asked.num - (chunk.start + chunk.num)
           next == [start |-> chunk.start + chunk.num, pause |-> 0, tries |-> 0,
                    num |-> Min2(left, ChunkWords(numBuff))]
<1>0. /\ asked.start \in Nat /\ asked.num \in Nat /\ chunk.start \in Nat /\ chunk.num \in Nat
      /\ numBuff \in 3..BuffStart
  BY Consts DEF Types, TypeOK
<1>1. left \in Nat /\ left = asked.start + asked.num - End
  BY <1>0 DEF ChunkInv, End
<1>2. CASE /\ mode = "chunks" /\ rc # "ok" /\ chunk.tries + 1 < MaxTries
           /\ chunk' = [chunk EXCEPT !.tries = @ + 1]
           /\ pc' = "setup" /\ UNCHANGED result
  BY <1>2 DEF Again
<1>3. CASE mode = "chunks" /\ rc = "ok" /\ left > 0 /\ chunk' = next /\ pc' = "setup" /\ UNCHANGED result
  <2>1. ChunkWords(numBuff) \in Nat /\ ChunkWords(numBuff) >= 1
    BY <1>0, ChunkWordsPositive
  <2>2. Min2(left, ChunkWords(numBuff)) \in 1..left
    BY <1>1, <1>3, <2>1 DEF Min2
  <2>3. End < asked.start + asked.num
    BY <1>0, <1>1, <1>3 DEF End
  <2> QED BY <1>0, <1>1, <1>3, <2>2, <2>3 DEF Onwards, End
<1>4. CASE (mode # "chunks" \/ rc # "ok" \/ left = 0) /\ Return(rc) /\ UNCHANGED chunk
  BY <1>0, <1>1, <1>4 DEF Ends, Return, End
<1> QED BY <1>2, <1>3, <1>4 DEF ChunkReturns

-----------------------------------------------------------------------------
(* Type correctness, an action at a time.                                    *)
LEMMA ReturnsTypes ==
    ASSUME Types, ChunkInv, pc \in Working, NEW rc \in {"ok", "error", "overrun"}, ChunkReturns(rc)
    PROVE  /\ chunk' \in [start : 0..Top, num : 0..Top, pause : 0..MaxPause, tries : 0..MaxTries]
           /\ pc' \in {"setup", "idle"} /\ result' \in {"none", "ok", "error", "overrun"}
<1>1. /\ asked.start \in Nat /\ asked.num \in Nat
      /\ chunk \in [start : 0..Top, num : 0..Top, pause : 0..MaxPause, tries : 0..MaxTries]
      /\ result \in {"none", "ok", "error", "overrun"}
  BY DEF Types, TypeOK
<1>5. asked.start \in First..Last /\ asked.num <= Size /\ asked.start <= chunk.start
        /\ End <= asked.start + asked.num
  BY DEF ChunkInv
<1>6. asked.start + asked.num <= Top /\ End <= Top
  BY <1>1, <1>5, Consts DEF End
<1>2. CASE Again
  BY <1>1, <1>2, Consts DEF Again
<1>3. CASE Onwards
  <2>1. chunk'.start \in 0..Top /\ chunk'.num \in 0..Top
    BY <1>1, <1>3, <1>6, Consts DEF Onwards, End
  <2> QED BY <1>1, <1>3, <2>1, Consts, MaxPauseNat DEF Onwards
<1>4. CASE Ends(rc)
  BY <1>1, <1>4 DEF Ends
<1> QED BY <1>2, <1>3, <1>4, ChunkReturnsCases

FirmwareTypes ==
    /\ fw \in [on : BOOLEAN, at : Nat, last : Nat, since : Nat, paused : BOOLEAN]
    /\ fw.last < Top /\ runBit \in BOOLEAN

LEMMA TurnedOff ==
    ASSUME WriteRun(FALSE)
    PROVE  ~runBit' /\ fw' = Idle /\ ~fw'.on /\ FirmwareTypes'
<1>1. ~runBit' /\ fw' = Idle
  BY DEF WriteRun
<1>2. runBit' \in BOOLEAN
  BY DEF WriteRun
<1> QED BY <1>1, <1>2, Consts DEF Idle, FirmwareTypes

LEMMA TurnedOn ==
    ASSUME Types, WriteRun(TRUE)
    PROVE  /\ runBit'
           /\ runBit => fw' = fw
           /\ ~runBit => fw' = [on |-> TRUE, at |-> regs.first, last |-> regs.last, since |-> 0,
                               paused |-> FALSE]
           /\ FirmwareTypes'
<1>1. FirmwareTypes /\ regs \in [first : Nat, last : Nat, pause : Nat] /\ regs.last < Top
  BY DEF Types, TypeOK, FirmwareTypes
<1>2. CASE runBit
  BY <1>1, <1>2 DEF WriteRun, FirmwareTypes
<1>3. CASE ~runBit
  BY <1>1, <1>3 DEF WriteRun, FirmwareTypes
<1> QED BY <1>2, <1>3

LEMMA Cleared ==
    ASSUME IInv, ClearRun \/ ClearRunToo
    PROVE  /\ FirmwareTypes'
           /\ (~runBit' /\ ~fw'.on /\ fw' = Idle) \/ (runBit' = runBit /\ fw' = fw)
<1>1. CASE WriteRun(FALSE)
  BY <1>1, TurnedOff
<1>2. CASE UNCHANGED <<runBit, fw>>
  BY <1>2 DEF IInv, Types, TypeOK, FirmwareTypes
<1> QED BY <1>1, <1>2 DEF ClearRun, ClearRunToo, WriteRunFails

LEMMA CallTypes == ASSUME IInv, Call PROVE Types'
<1>1. PICK q \in Requests, m \in Modes :
        /\ asked' = [start |-> IF q[1] = 0 THEN First ELSE q[1],
                     num   |-> IF q[2] = 0 THEN Size ELSE q[2]]
        /\ mode' = m
  BY DEF Call
<1>2. q[1] \in Nat /\ q[2] \in Nat
  BY <1>1, ReadAssumption DEF ReadAssumption
<1>3. asked' \in [start : Nat, num : Nat] /\ mode' \in Modes
  BY <1>1, <1>2, Consts
<1>4. mod' \in [First..Top -> 0..Top]
  BY Consts DEF Call
<1>5. FirmwareTypes'
  <2>1. FirmwareTypes
    BY DEF IInv, Types, TypeOK, FirmwareTypes
  <2>2. CASE WriteRun(FALSE)
    BY <2>2, TurnedOff
  <2>3. CASE UNCHANGED <<runBit, fw>>
    BY <2>1, <2>3 DEF FirmwareTypes
  <2> QED BY <2>2, <2>3 DEF Call
<1>6. TypeOK'
  BY <1>3, <1>4, <1>5 DEF Call, IInv, Types, TypeOK, Return, FirmwareTypes
<1> QED BY <1>5, <1>6 DEF Call, IInv, Types, FirmwareTypes

LEMMA StopAndCheckTypes == ASSUME IInv, StopAndCheck PROVE Types'
<1>1. TypeOK'
  BY DEF StopAndCheck, IInv, Types, TypeOK, Return, host
<1> QED BY <1>1 DEF StopAndCheck, IInv, Types, host

LEMMA AllocateTypes == ASSUME IInv, Allocate PROVE Types'
<1>1. CASE Fault /\ Return("error") /\ UNCHANGED <<numBuff, chunk, queue>>
  <2>1. TypeOK'
    BY <1>1 DEF Allocate, IInv, Types, TypeOK, Return
  <2> QED BY <1>1, <2>1 DEF Allocate, IInv, Types
<1>2. CASE \E n \in BuffCounts :
             /\ numBuff' = n /\ chunk' = FirstChunk(n) /\ queue' = <<>>
             /\ pc' = "setup" /\ NoFault /\ UNCHANGED result
  <2>1. PICK n \in BuffCounts : numBuff' = n /\ chunk' = FirstChunk(n)
    BY <1>2
  <2>2. n \in 3..BuffStart
    BY DEF BuffCounts
  <2>a. asked.start \in First..Last /\ asked.num <= Size
    BY DEF Allocate, IInv, ChunkInv
  <2>b. asked.num \in Nat
    BY DEF IInv, Types, TypeOK
  <2>3. /\ asked.num \in Nat /\ asked.num <= Top /\ asked.start \in 0..Top
        /\ ChunkWords(n) \in Nat /\ PauseWords(n) \in 0..MaxPause
    BY <2>2, <2>a, <2>b, Consts, ChunkWordsPositive, PauseBounded
  <2>4. FirstChunk(n).num \in 0..Top /\ FirstChunk(n).pause \in 0..MaxPause
    BY <2>3, Consts, MaxPauseNat DEF FirstChunk, Min2
  <2>5. chunk' \in [start : 0..Top, num : 0..Top, pause : 0..MaxPause, tries : 0..MaxTries]
    <3>1. FirstChunk(n) = [start |-> asked.start, tries |-> 0, pause |-> FirstChunk(n).pause,
                           num |-> FirstChunk(n).num]
      BY DEF FirstChunk
    <3> QED BY <2>1, <2>3, <2>4, <3>1, Consts
  <2>6. queue' = <<>> /\ Len(queue') = 0 /\ queue' \in Seq(Pages) /\ Min2(numBuff', QueueMax) >= 0
    BY <1>2, <2>1, <2>2, Consts DEF Min2
  <2>7. TypeOK'
    BY <1>2, <2>1, <2>2, <2>5, <2>6 DEF Allocate, IInv, Types, TypeOK
  <2> QED BY <2>6, <2>7 DEF Allocate, IInv, Types
<1> QED BY <1>1, <1>2 DEF Allocate

(* What an action owes that changes no page, no buffer and no word.          *)
LEMMA OtherTypes ==
    ASSUME IInv, UNCHANGED <<mode, asked, numBuff, mod, queue>>,
           pc' \in Working \cup {"idle"}, result' \in {"none", "ok", "error", "overrun"},
           chunk' \in [start : 0..Top, num : 0..Top, pause : 0..MaxPause, tries : 0..MaxTries],
           dst' \in 0..Top, toCollect' \in 0..Top, nextPause' \in 0..Top, filled' \in 0..QueueMax,
           {contBit', streaming', overflow', noRoom', noEdge'} \subseteq BOOLEAN,
           FirmwareTypes', regs' \in [first : Nat, last : Nat, pause : Nat], regs'.last < Top
    PROVE  Types'
<1>1. TypeOK'
  BY DEF IInv, Types, TypeOK, Working, Reading, FirmwareTypes
<1> QED BY <1>1 DEF IInv, Types, FirmwareTypes

LEMMA SetupTypes == ASSUME IInv, Setup PROVE Types'
<1>1. CASE /\ regs' = [first |-> chunk.start, last |-> chunk.start + chunk.num - 1,
                       pause |-> chunk.pause]
           /\ WriteContinue(FALSE)
           /\ pc' = "stream" /\ NoFault /\ UNCHANGED <<chunk, result>>
  <2>1. /\ asked.start \in First..Last /\ asked.num <= Size /\ asked.start <= chunk.start
        /\ End <= asked.start + asked.num /\ chunk.num >= 1
    BY DEF Setup, IInv, ChunkInv, Working
  <2>2. /\ asked.start \in Nat /\ asked.num \in Nat /\ chunk.start \in Nat /\ chunk.num \in Nat
        /\ chunk.pause \in Nat
    BY Consts, MaxPauseNat DEF IInv, Types, TypeOK
  <2>3. regs' \in [first : Nat, last : Nat, pause : Nat] /\ regs'.last < Top
    BY <1>1, <2>1, <2>2, Consts DEF End
  <2>4. FirmwareTypes' /\ contBit' = FALSE
    BY <1>1 DEF Setup, WriteContinue, IInv, Types, TypeOK, FirmwareTypes
  <2> QED BY <1>1, <2>3, <2>4, OtherTypes DEF Setup, IInv, Types, TypeOK, Working
<1>2. CASE Fault /\ ChunkReturns("error") /\ UNCHANGED <<regs, contBit, fw>>
  <2>1. pc \in Working
    BY DEF Setup, Working
  <2>2. FirmwareTypes'
    BY <1>2 DEF Setup, IInv, Types, TypeOK, FirmwareTypes
  <2> QED BY <1>2, <2>1, <2>2, ReturnsTypes, OtherTypes DEF Setup, IInv, Types, TypeOK, Working
<1> QED BY <1>1, <1>2 DEF Setup

(* The plain types of the variables, where a step needs no more of them.     *)
LEMMA Plain ==
    ASSUME IInv
    PROVE  /\ asked.start \in Nat /\ asked.num \in Nat
           /\ chunk.start \in Nat /\ chunk.num \in Nat /\ chunk.pause \in Nat /\ chunk.tries \in Nat
           /\ dst \in 0..Top /\ toCollect \in 0..Top /\ nextPause \in 0..Top /\ filled \in 0..QueueMax
           /\ chunk \in [start : 0..Top, num : 0..Top, pause : 0..MaxPause, tries : 0..MaxTries]
           /\ {runBit, contBit, streaming, overflow, noRoom, noEdge} \subseteq BOOLEAN
           /\ result \in {"none", "ok", "error", "overrun"}
           /\ FirmwareTypes /\ regs \in [first : Nat, last : Nat, pause : Nat] /\ regs.last < Top
           /\ queue \in Seq(Pages) /\ Len(queue) \in Nat
<1>1. Types
  BY DEF IInv
<1>2. /\ chunk \in [start : 0..Top, num : 0..Top, pause : 0..MaxPause, tries : 0..MaxTries]
      /\ asked \in [start : Nat, num : Nat]
  BY <1>1 DEF Types, TypeOK
<1>3. /\ chunk.start \in Nat /\ chunk.num \in Nat /\ chunk.pause \in Nat /\ chunk.tries \in Nat
  BY <1>2, Consts, MaxPauseNat
<1> QED BY <1>1, <1>2, <1>3 DEF Types, TypeOK, FirmwareTypes

LEMMA Numbers ==
    ASSUME IInv, pc \in Working
    PROVE  /\ asked.start \in First..Last /\ asked.num \in 1..Size
           /\ chunk.start \in asked.start..Top /\ chunk.num \in 1..Top
           /\ End = chunk.start + chunk.num /\ End <= asked.start + asked.num
           /\ asked.start + asked.num <= Top
           /\ mode # "chunks" => chunk.start = asked.start /\ chunk.num = asked.num
<1>1. /\ asked.start \in First..Last /\ asked.num <= Size /\ asked.num >= 1
      /\ asked.start <= chunk.start /\ chunk.num >= 1 /\ End <= asked.start + asked.num
      /\ mode # "chunks" => chunk.start = asked.start /\ chunk.num = asked.num
  BY DEF IInv, ChunkInv, Working, Reading
<1>2. asked.start \in Nat /\ asked.num \in Nat /\ chunk.start \in 0..Top /\ chunk.num \in 0..Top
  BY Plain
<1> QED BY <1>1, <1>2, Consts DEF End

LEMMA StartStreamTypes == ASSUME IInv, StartStream PROVE Types'
<1>1. pc \in Working /\ Types /\ ChunkInv
  BY DEF StartStream, Working, IInv
<1>2. CASE /\ streaming' = TRUE /\ queue' = <<>> /\ overflow' = FALSE
           /\ pc' = "arm" /\ NoFault /\ UNCHANGED <<chunk, result, runBit, fw>>
  <2>1. queue' \in Seq(Pages) /\ Len(queue') = 0 /\ Min2(numBuff, QueueMax) >= 0
    BY <1>1, <1>2, Consts DEF Types, TypeOK, Min2
  <2>2. TypeOK'
    BY <1>1, <1>2, <2>1 DEF StartStream, Types, TypeOK
  <2> QED BY <1>1, <1>2, <2>1, <2>2 DEF StartStream, Types
<1>3. CASE ClearRunToo /\ Abort("error") /\ UNCHANGED <<queue, overflow>>
  BY <1>1, <1>3, ReturnsTypes, Cleared, Plain, OtherTypes DEF StartStream, Abort, Working, Reading
<1> QED BY <1>2, <1>3 DEF StartStream

LEMMA NextPauseType ==
    ASSUME IInv, NEW n \in 0..Top PROVE NextPause(n) \in 0..Top
<1>1. chunk.pause \in Nat /\ n \in Nat /\ n <= Top
  BY Plain, Consts
<1> QED BY <1>1, Consts DEF NextPause

LEMMA ArmTypes == ASSUME IInv, Arm PROVE Types'
<1>1. pc \in Working /\ Types /\ ChunkInv
  BY DEF Arm, Working, IInv
<1>2. CASE /\ WriteRun(TRUE)
           /\ dst' = chunk.start /\ toCollect' = chunk.num
           /\ nextPause' = NextPause(chunk.num)
           /\ noEdge' = runBit
           /\ pc' = "loop" /\ NoFault /\ UNCHANGED <<chunk, result>>
  BY <1>1, <1>2, TurnedOn, Plain, NextPauseType, OtherTypes DEF Arm, Working, Reading
<1>3. CASE /\ WriteRunFails(TRUE) /\ ChunkReturns("error")
           /\ UNCHANGED <<dst, toCollect, nextPause, noEdge>>
  <2>1. FirmwareTypes'
    <3>1. CASE WriteRun(TRUE)
      BY <1>1, <3>1, TurnedOn
    <3>2. CASE UNCHANGED <<runBit, fw>>
      BY <3>2, Plain DEF FirmwareTypes
    <3> QED BY <1>3, <3>1, <3>2 DEF WriteRunFails
  <2> QED BY <1>1, <1>3, <2>1, ReturnsTypes, Plain, OtherTypes DEF Arm, Working, Reading
<1> QED BY <1>2, <1>3 DEF Arm

LEMMA LoopTypes == ASSUME IInv, Loop PROVE Types'
<1>1. pc \in Working /\ Types /\ ChunkInv
  BY DEF Loop, Working, Reading, IInv
<1>2. FirmwareTypes'
  BY Plain DEF Loop, device, FirmwareTypes
<1>3. CASE pc' \in {"query", "low"} /\ UNCHANGED <<chunk, result>>
  BY <1>1, <1>2, <1>3, Plain, OtherTypes DEF Loop, device, Working, Reading
<1>4. CASE ChunkReturns("error")
  BY <1>1, <1>2, <1>4, ReturnsTypes, Plain, OtherTypes DEF Loop, device, Working, Reading
<1> QED BY <1>3, <1>4 DEF Loop

LEMMA ContinueTypes ==
    ASSUME IInv, NEW on \in BOOLEAN, WriteContinue(on)
    PROVE  /\ contBit' = on /\ fw'.on = fw.on /\ fw'.at = fw.at /\ fw'.last = fw.last
           /\ runBit' = runBit => FirmwareTypes'
<1>1. FirmwareTypes
  BY Plain
<1>2. CASE on /\ ~contBit /\ fw.paused
  BY <1>1, <1>2 DEF WriteContinue, FirmwareTypes
<1>3. CASE ~(on /\ ~contBit /\ fw.paused)
  BY <1>1, <1>3 DEF WriteContinue, FirmwareTypes
<1> QED BY <1>2, <1>3

LEMMA ContinueLowTypes == ASSUME IInv, ContinueLow PROVE Types'
<1>1. pc \in Working /\ Types /\ ChunkInv
  BY DEF ContinueLow, Working, Reading, IInv
<1>2. CASE WriteContinue(FALSE) /\ pc' = "high" /\ NoFault /\ UNCHANGED <<chunk, result>>
  BY <1>1, <1>2, ContinueTypes, Plain, OtherTypes DEF ContinueLow, Working, Reading
<1>3. CASE Fault /\ ChunkReturns("error") /\ UNCHANGED <<contBit, fw>>
  <2>1. FirmwareTypes'
    BY <1>3, Plain DEF ContinueLow, FirmwareTypes
  <2> QED BY <1>1, <1>3, <2>1, ReturnsTypes, Plain, OtherTypes DEF ContinueLow, Working, Reading
<1> QED BY <1>2, <1>3 DEF ContinueLow

LEMMA ContinueHighTypes == ASSUME IInv, ContinueHigh PROVE Types'
<1>1. pc \in Working /\ Types /\ ChunkInv
  BY DEF ContinueHigh, Working, Reading, IInv
<1>2. CASE /\ WriteContinue(TRUE) /\ nextPause' = NextPause(toCollect)
           /\ pc' = "query" /\ NoFault /\ UNCHANGED <<chunk, result>>
  BY <1>1, <1>2, ContinueTypes, NextPauseType, Plain, OtherTypes DEF ContinueHigh, Working, Reading
<1>3. CASE /\ Fault /\ ChunkReturns("error") /\ UNCHANGED nextPause
           /\ WriteContinue(TRUE) \/ UNCHANGED <<contBit, fw>>
  <2>1. FirmwareTypes' /\ contBit' \in BOOLEAN
    BY <1>3, ContinueTypes, Plain DEF ContinueHigh, FirmwareTypes
  <2> QED BY <1>1, <1>3, <2>1, ReturnsTypes, Plain, OtherTypes DEF ContinueHigh, Working, Reading
<1> QED BY <1>2, <1>3 DEF ContinueHigh

LEMMA QueryTypes == ASSUME IInv, Query PROVE Types'
<1>1. pc \in Working /\ Types /\ ChunkInv
  BY DEF Query, Working, Reading, IInv
<1>2. CASE /\ filled' = Len(queue)
           /\ pc' = (IF queue = <<>> THEN "loop" ELSE "collect")
           /\ NoFault /\ UNCHANGED <<chunk, result, runBit, fw, streaming>>
  <2>1. FirmwareTypes'
    BY <1>2, Plain DEF FirmwareTypes
  <2>2. filled' \in 0..QueueMax
    BY <1>1, <1>2, Plain, Consts DEF Types, TypeOK, Min2
  <2> QED BY <1>1, <1>2, <2>1, <2>2, Plain, OtherTypes DEF Query, Working, Reading
<1>3. CASE ClearRunToo /\ Abort("error") /\ UNCHANGED filled
  BY <1>1, <1>3, ReturnsTypes, Cleared, Plain, OtherTypes DEF Query, Abort, Working, Reading
<1> QED BY <1>2, <1>3 DEF Query

(* The pages of the queue, one by one.                                       *)
LEMMA PageTypes ==
    ASSUME IInv, NEW i \in 1..Len(queue)
    PROVE  /\ queue[i].from \in Nat /\ queue[i].len \in Nat
           /\ queue[i].from + queue[i].len <= Top
<1>1. queue[i] \in Pages
  BY Plain, ElementOfSeq
<1> QED BY <1>1 DEF IInv, Types, Pages

LEMMA TailOf ==
    ASSUME IInv, queue # <<>>
    PROVE  /\ Head(queue) = queue[1] /\ Len(queue) >= 1
           /\ Tail(queue) \in Seq(Pages) /\ Len(Tail(queue)) = Len(queue) - 1
           /\ \A i \in 1..Len(Tail(queue)) : Tail(queue)[i] = queue[i + 1]
BY Plain, HeadTailProperties, EmptySeq

(* What a page puts in its words.                                            *)
LEMMA WordType ==
    ASSUME IInv, queue # <<>>, NEW i \in Nat
    PROVE  Word(Head(queue), i) \in 0..Top
<1>1. /\ queue[1].from \in Nat /\ queue[1].len \in Nat
      /\ queue[1].from + queue[1].len <= Top /\ Head(queue) = queue[1]
  BY TailOf, PageTypes, Plain
<1> QED BY <1>1, Consts DEF Word

LEMMA CollectTypes == ASSUME IInv, Collect PROVE Types'
<1>1. pc \in Working /\ Types /\ ChunkInv /\ pc = "collect"
  BY DEF Collect, Working, Reading, IInv
<1>2. filled \in 1..Len(queue) /\ queue # <<>>
  BY <1>1, Plain DEF IInv, CountInv
<1>3. /\ queue' \in Seq(Pages) /\ Len(queue') = Len(queue) - 1 /\ Len(queue) \in Nat
      /\ \A i \in 1..Len(queue') : queue'[i] = queue[i + 1]
  BY <1>2, TailOf, Plain DEF Collect
<1>4. \A i \in 1..Len(queue') : queue'[i].from + queue'[i].len <= Top
  <2> TAKE i \in 1..Len(queue')
  <2>1. i + 1 \in 1..Len(queue)
    BY <1>3
  <2> QED BY <1>3, <2>1, PageTypes
<1>5. Len(queue') <= Min2(numBuff, QueueMax)
  <2>1. Len(queue) <= Min2(numBuff, QueueMax) /\ numBuff \in 3..BuffStart
    BY <1>1 DEF Types, TypeOK
  <2>2. numBuff' = numBuff
    BY DEF Collect
  <2> QED BY <1>3, <2>1, <2>2, Consts DEF Min2
<1>6. mod' \in [First..Top -> 0..Top] /\ dst' \in 0..Top /\ toCollect' \in 0..Top /\ filled' \in 0..QueueMax
  <2>1. CASE UNCHANGED <<mod, dst, toCollect>> /\ filled' = 0
    <3>1. mod \in [First..Top -> 0..Top]
      BY <1>1 DEF Types, TypeOK
    <3>2. dst \in 0..Top /\ toCollect \in 0..Top
      BY Plain
    <3>3. 0 \in 0..QueueMax
      BY Consts
    <3> QED BY <2>1, <3>1, <3>2, <3>3
  <2>2. CASE LET n == WordsInBuffer
             IN  /\ mod' = [a \in DOMAIN mod |-> IF a \in dst..(dst + n - 1)
                                                 THEN Word(Head(queue), a - dst) ELSE mod[a]]
                 /\ dst' = dst + n /\ toCollect' = toCollect - n /\ filled' = filled - 1
    <3>1. /\ WordsInBuffer \in 0..toCollect /\ dst + toCollect = End /\ End <= Top
          /\ dst \in 0..Top /\ toCollect \in 0..Top /\ filled \in 0..QueueMax
      <4>1. dst \in 0..Top /\ toCollect \in 0..Top /\ filled \in 0..QueueMax
        BY Plain
      <4>2. dst + toCollect = End /\ End <= Top
        BY <1>1, <4>1, Numbers, Consts DEF IInv, CountInv, Reading
      <4> QED BY <4>1, <4>2, Consts DEF WordsInBuffer, Min2
    <3>2. mod \in [First..Top -> 0..Top]
      BY <1>1 DEF Types, TypeOK
    <3>3. \A a \in First..Top : a \in dst..(dst + WordsInBuffer - 1) => Word(Head(queue), a - dst) \in 0..Top
      <4> TAKE a \in First..Top
      <4> HAVE a \in dst..(dst + WordsInBuffer - 1)
      <4>1. a - dst \in Nat
        BY <3>1, Consts
      <4> QED BY <4>1, <1>2, WordType
    <3>4. mod' \in [First..Top -> 0..Top]
      BY <2>2, <3>2, <3>3
    <3> QED BY <1>2, <2>2, <3>1, <3>4, Consts
  <2> QED BY <2>1, <2>2 DEF Collect
<1>7. /\ FirmwareTypes' /\ streaming' \in BOOLEAN
      /\ chunk' \in [start : 0..Top, num : 0..Top, pause : 0..MaxPause, tries : 0..MaxTries]
      /\ pc' \in Working \cup {"idle"} /\ result' \in {"none", "ok", "error", "overrun"}
  <2>1. CASE /\ pc' \in {"collect", "done", "loop"} /\ UNCHANGED <<chunk, result, runBit, fw, streaming>>
    BY <2>1, Plain DEF FirmwareTypes, Working, Reading
  <2>2. CASE ClearRun /\ Abort("overrun")
    BY <1>1, <2>2, Cleared, ReturnsTypes DEF Abort, Working, Reading
  <2>3. CASE ClearRunToo /\ Abort("error")
    BY <1>1, <2>3, Cleared, ReturnsTypes DEF Abort, Working, Reading
  <2> QED BY <2>1, <2>2, <2>3 DEF Collect
<1>8. TypeOK'
  BY <1>1, <1>5, <1>6, <1>7 DEF Collect, Types, TypeOK, Working, Reading, FirmwareTypes
<1> QED BY <1>1, <1>3, <1>4, <1>7, <1>8 DEF Collect, Types, FirmwareTypes

LEMMA ChunkDoneTypes == ASSUME IInv, ChunkDone PROVE Types'
<1>1. pc \in Working /\ Types /\ ChunkInv
  BY DEF ChunkDone, Working, Reading, IInv
<1>2. CASE ClearRun /\ Abort("ok")
  BY <1>1, <1>2, ReturnsTypes, Cleared, Plain, OtherTypes DEF ChunkDone, Abort, Working, Reading
<1>3. CASE ClearRunToo /\ Abort("error")
  BY <1>1, <1>3, ReturnsTypes, Cleared, Plain, OtherTypes DEF ChunkDone, Abort, Working, Reading
<1> QED BY <1>2, <1>3 DEF ChunkDone

LEMMA PauseHereTypes == ASSUME IInv, PauseHere PROVE Types'
<1>1. Types /\ FirmwareTypes
  BY Plain DEF IInv
<1>2. fw' \in [on : BOOLEAN, at : Nat, last : Nat, since : Nat, paused : BOOLEAN] /\ fw'.last < Top
  BY <1>1 DEF PauseHere, FirmwareTypes
<1>3. TypeOK'
  BY <1>1 DEF PauseHere, Types, TypeOK, host
<1> QED BY <1>1, <1>2, <1>3 DEF PauseHere, Types

LEMMA SendPageTypes == ASSUME IInv, SendPage PROVE Types'
<1> DEFINE n == Min2(PageLen, 1 + fw.last - fw.at)
           page == [from |-> fw.at, len |-> n]
<1>1. Types /\ FirmwareTypes /\ fw.at \in Nat /\ fw.last \in Nat /\ fw.since \in Nat
  BY Plain DEF IInv, FirmwareTypes
<1>2. fw.on /\ fw.at <= fw.last /\ fw.last < Top
  BY <1>1 DEF SendPage, Sends, FirmwareTypes
<1>3. n \in Nat /\ fw.at + n <= Top /\ page \in Pages
  BY <1>1, <1>2, Consts DEF Min2, Pages
<1>4. fw' \in [on : BOOLEAN, at : Nat, last : Nat, since : Nat, paused : BOOLEAN] /\ fw'.last < Top
  <2>1. fw' = [fw EXCEPT !.at = @ + n, !.since = @ + n]
    BY DEF SendPage
  <2>2. fw \in [on : BOOLEAN, at : Nat, last : Nat, since : Nat, paused : BOOLEAN] /\ n \in Nat
    BY <1>1, <1>3 DEF FirmwareTypes
  <2> HIDE DEF n
  <2>3. fw.at + n \in Nat /\ fw.since + n \in Nat
    BY <1>1, <2>2
  <2> QED BY <1>2, <2>1, <2>2, <2>3
<1>5. /\ queue' \in Seq(Pages) /\ Len(queue') <= Min2(numBuff, QueueMax)
      /\ \A i \in 1..Len(queue') : queue'[i].from + queue'[i].len <= Top
  <2>1. Len(queue) <= Min2(numBuff, QueueMax) /\ numBuff \in 3..BuffStart
        /\ queue \in Seq(Pages) /\ Len(queue) \in Nat
    BY <1>1, Plain DEF Types, TypeOK
  <2>2. CASE UNCHANGED queue
    BY <1>1, <2>1, <2>2 DEF Types
  <2>3. CASE Len(queue) # Min2(numBuff, QueueMax) /\ queue' = Append(queue, page)
    <3> HIDE DEF page, n
    <3>1. /\ queue' \in Seq(Pages) /\ Len(queue') = Len(queue) + 1
          /\ \A i \in 1..Len(queue) : queue'[i] = queue[i]
          /\ queue'[Len(queue) + 1] = page
      BY <1>3, <2>1, <2>3, AppendProperties
    <3>2. page.from + page.len <= Top
      BY <1>3 DEF page
    <3>3. Len(queue') <= Min2(numBuff, QueueMax)
      BY <2>1, <2>3, <3>1, Consts DEF Min2
    <3>4. ASSUME NEW i \in 1..Len(queue') PROVE queue'[i].from + queue'[i].len <= Top
      <4>1. CASE i \in 1..Len(queue)
        BY <3>1, <4>1, PageTypes
      <4>2. CASE i = Len(queue) + 1
        BY <3>1, <3>2, <4>2
      <4> QED BY <2>1, <3>1, <4>1, <4>2
    <3> QED BY <3>1, <3>3, <3>4
  <2> QED BY <2>2, <2>3 DEF SendPage
<1>6. overflow' \in BOOLEAN /\ noRoom' \in BOOLEAN
  BY Plain DEF SendPage
<1>7. TypeOK'
  BY <1>1, <1>5, <1>6 DEF SendPage, Types, TypeOK, host
<1> QED BY <1>1, <1>4, <1>5, <1>7 DEF SendPage, Types

-----------------------------------------------------------------------------
(* Steps of the host that leave the data alone.                              *)
Firmware == <<fw.on, fw.at, fw.last>>

LEMMA FailStep ==
    ASSUME IInv, Types', pc \in Working, NEW rc \in {"error", "overrun"}, ChunkReturns(rc),
           UNCHANGED <<mode, asked, mod, calls>>,
           \/ ~runBit' /\ ~fw'.on
           \/ runBit' = runBit /\ Firmware' = Firmware
           \/ runBit' /\ fw'.on /\ fw'.at = chunk.start /\ fw'.last = End - 1
    PROVE  IInv'
<1>1. Again \/ Ends(rc)
  BY ChunkReturnsCases DEF IInv
<1>2. chunk'.start = chunk.start /\ chunk'.num = chunk.num /\ End' = End
  BY <1>1, Plain DEF Again, Ends, End
<1>3. pc' \in {"setup", "idle"} /\ (pc' = "setup" => result' = result) /\ (pc' = "idle" => result' = rc)
  BY <1>1 DEF Again, Ends
<1>4. ChunkInv'
  BY <1>2, <1>3 DEF IInv, ChunkInv, Working, Reading
<1>5. CountInv' /\ QueueInv' /\ MatchInv'
  BY <1>3 DEF CountInv, QueueInv, MatchInv, Reading
<1>6. DeviceInv'
  <2>1. DeviceInv
    BY DEF IInv
  <2>2. chunk.start <= End - 1 + 1
    BY Numbers, Consts
  <2> QED BY <1>3, <2>1, <2>2 DEF DeviceInv, Reading, Firmware
<1>7. PlaceInv'
  BY <1>2, <1>3 DEF IInv, PlaceInv, Place, Firmware
<1>8. GoodInv'
  BY <1>2, <1>3 DEF IInv, GoodInv, InPlace, InRegion, Asked, Working, Reading
<1> QED BY <1>4, <1>5, <1>6, <1>7, <1>8 DEF IInv

LEMMA QuietStep ==
    ASSUME IInv, Types', pc \in Reading \ {"done"}, pc' \in Reading \ {"done"},
           UNCHANGED <<mode, asked, chunk, dst, toCollect, mod, queue, overflow, runBit,
                       streaming, result, calls>>,
           Firmware' = Firmware,
           pc' = "collect" => filled' \in 1..Len(queue)
    PROVE  IInv'
<1>1. End' = End /\ fw'.on = fw.on /\ fw'.at = fw.at /\ fw'.last = fw.last
  BY DEF End, Firmware
<1>2. ChunkInv' /\ CountInv'
  BY <1>1 DEF IInv, ChunkInv, CountInv, Working, Reading
<1>3. DeviceInv' /\ PlaceInv'
  BY <1>1 DEF IInv, DeviceInv, PlaceInv, Place, Working, Reading
<1>4. QueueInv'
  BY <1>1 DEF IInv, QueueInv, Place, Reading
<1>5. MatchInv'
  BY <1>1 DEF IInv, MatchInv, Aligned, Short, Next1, InPlace, Reading
<1>6. GoodInv'
  BY DEF IInv, GoodInv, InPlace, InRegion, Asked, Working, Reading
<1> QED BY <1>2, <1>3, <1>4, <1>5, <1>6 DEF IInv

LEMMA LoopStep == ASSUME IInv, Loop PROVE IInv'
<1>1. pc \in Working /\ pc \in Reading \ {"done"} /\ Types'
  BY LoopTypes DEF Loop, Working, Reading
<1>2. Firmware' = Firmware /\ UNCHANGED <<mode, asked, dst, toCollect, mod, queue, overflow, runBit, streaming, calls>>
  BY DEF Loop, device, Firmware, NoFault, Fault, bounds
<1>3. CASE pc' \in {"query", "low"} /\ UNCHANGED <<chunk, result>>
  BY <1>1, <1>2, <1>3, QuietStep DEF Reading
<1>4. CASE ChunkReturns("error")
  BY <1>1, <1>2, <1>4, FailStep
<1> QED BY <1>3, <1>4 DEF Loop

LEMMA ContinueLowStep == ASSUME IInv, ContinueLow PROVE IInv'
<1>1. pc \in Working /\ pc \in Reading \ {"done"} /\ Types'
  BY ContinueLowTypes DEF ContinueLow, Working, Reading
<1>2. Firmware' = Firmware /\ UNCHANGED <<mode, asked, dst, toCollect, mod, queue, overflow, runBit, streaming, calls>>
  BY ContinueTypes DEF ContinueLow, Firmware, NoFault, Fault, bounds
<1>3. CASE pc' = "high" /\ UNCHANGED <<chunk, result>>
  BY <1>1, <1>2, <1>3, QuietStep DEF Reading
<1>4. CASE ChunkReturns("error")
  BY <1>1, <1>2, <1>4, FailStep
<1> QED BY <1>3, <1>4 DEF ContinueLow

LEMMA ContinueHighStep == ASSUME IInv, ContinueHigh PROVE IInv'
<1>1. pc \in Working /\ pc \in Reading \ {"done"} /\ Types'
  BY ContinueHighTypes DEF ContinueHigh, Working, Reading
<1>2. Firmware' = Firmware /\ UNCHANGED <<mode, asked, dst, toCollect, mod, queue, overflow, runBit, streaming, calls>>
  BY ContinueTypes DEF ContinueHigh, Firmware, NoFault, Fault, bounds
<1>3. CASE pc' = "query" /\ UNCHANGED <<chunk, result>>
  BY <1>1, <1>2, <1>3, QuietStep DEF Reading
<1>4. CASE ChunkReturns("error")
  BY <1>1, <1>2, <1>4, FailStep
<1> QED BY <1>3, <1>4 DEF ContinueHigh

LEMMA QueryStep == ASSUME IInv, Query PROVE IInv'
<1>1. pc \in Working /\ pc \in Reading \ {"done"} /\ Types'
  BY QueryTypes DEF Query, Working, Reading
<1>2. UNCHANGED <<mode, asked, dst, toCollect, mod, queue, overflow, calls>>
  BY DEF Query, NoFault, ClearRunToo, Fault, bounds
<1>3. CASE /\ filled' = Len(queue)
           /\ pc' = (IF queue = <<>> THEN "loop" ELSE "collect")
           /\ NoFault /\ UNCHANGED <<chunk, result, runBit, fw, streaming>>
  <2>1. pc' \in Reading \ {"done"} /\ Firmware' = Firmware
    BY <1>3 DEF Reading, Firmware
  <2>2. pc' = "collect" => filled' \in 1..Len(queue)
    BY <1>3, Plain, EmptySeq
  <2> QED BY <1>1, <1>2, <1>3, <2>1, <2>2, QuietStep
<1>4. CASE ClearRunToo /\ Abort("error") /\ UNCHANGED filled
  BY <1>1, <1>2, <1>4, Cleared, FailStep DEF Abort, Firmware
<1> QED BY <1>3, <1>4 DEF Query

-----------------------------------------------------------------------------
(* The steps up to the start of a chunk.                                     *)
LEMMA CallStep == ASSUME IInv, Call PROVE IInv'
<1>1. \/ WriteRun(FALSE) /\ pc' = "stop" /\ result' = "none"
      \/ (WriteRun(FALSE) \/ UNCHANGED <<runBit, fw>>) /\ pc' = "idle" /\ result' = "error"
  BY DEF Call, Return
<1>2. asked' \in [start : Nat, num : Nat] /\ asked'.num >= 1
  <2>1. PICK q \in Requests, m \in Modes :
          asked' = [start |-> IF q[1] = 0 THEN First ELSE q[1],
                    num   |-> IF q[2] = 0 THEN Size ELSE q[2]]
    BY DEF Call
  <2>2. q[1] \in Nat /\ q[2] \in Nat
    BY <2>1, ReadAssumption DEF ReadAssumption
  <2> QED BY <2>1, <2>2, Consts
<1>3. ChunkInv' /\ CountInv' /\ PlaceInv' /\ QueueInv' /\ MatchInv'
  BY <1>1, <1>2 DEF ChunkInv, CountInv, PlaceInv, QueueInv, MatchInv, Working, Reading
<1>4. DeviceInv'
  <2>1. DeviceInv
    BY DEF IInv
  <2>2. CASE WriteRun(FALSE)
    BY <1>1, <2>2, TurnedOff DEF DeviceInv, Reading
  <2>3. CASE UNCHANGED <<runBit, fw>> /\ pc' = "idle"
    BY <2>1, <2>3 DEF DeviceInv, Reading
  <2> QED BY <1>1, <2>2, <2>3
<1>5. GoodInv'
  <2>1. \A a \in First..Top : mod'[a] = 0
    BY DEF Call
  <2>2. DOMAIN mod' = First..Top
    BY DEF Call
  <2> QED BY <1>1, <2>1, <2>2 DEF GoodInv, InRegion, Working, Reading
<1> QED BY <1>3, <1>4, <1>5, CallTypes DEF IInv

LEMMA StopAndCheckStep == ASSUME IInv, StopAndCheck PROVE IInv'
<1>1. \/ pc' = "idle" /\ result' = "error"
      \/ /\ pc' = "alloc" /\ result' = result
         /\ asked.start \in First..Last /\ asked.num <= Size
  BY DEF StopAndCheck, Return
<1>2. UNCHANGED <<asked, mod, runBit, fw>> /\ pc = "stop"
  BY DEF StopAndCheck, host
<1>3. ChunkInv' /\ CountInv' /\ PlaceInv' /\ QueueInv' /\ MatchInv' /\ DeviceInv'
  BY <1>1, <1>2 DEF IInv, ChunkInv, CountInv, PlaceInv, QueueInv, MatchInv, DeviceInv,
                    Working, Reading
<1>4. calls' = calls
  BY DEF StopAndCheck, Fault, NoFault, bounds
<1>5. GoodInv'
  BY <1>1, <1>2, <1>4 DEF IInv, GoodInv, InRegion, Asked, Working, Reading
<1> QED BY <1>3, <1>5, StopAndCheckTypes DEF IInv

LEMMA AllocateStep == ASSUME IInv, Allocate PROVE IInv'
<1>1. UNCHANGED <<mode, asked, mod, runBit, fw, calls>> /\ pc = "alloc"
  BY DEF Allocate, Fault, NoFault, bounds
<1>2. CASE pc' = "idle" /\ result' = "error" /\ chunk' = chunk
  <2>1. ChunkInv' /\ CountInv' /\ PlaceInv' /\ QueueInv' /\ MatchInv' /\ DeviceInv'
    BY <1>1, <1>2 DEF IInv, ChunkInv, CountInv, PlaceInv, QueueInv, MatchInv, DeviceInv,
                      Working, Reading
  <2>2. GoodInv'
    BY <1>1, <1>2 DEF IInv, GoodInv, InRegion, Asked, Working, Reading
  <2> QED BY <2>1, <2>2, AllocateTypes DEF IInv
<1>3. CASE \E n \in BuffCounts :
             /\ numBuff' = n /\ chunk' = FirstChunk(n) /\ queue' = <<>>
             /\ pc' = "setup" /\ NoFault /\ UNCHANGED result
  <2>1. PICK n \in BuffCounts : chunk' = FirstChunk(n) /\ pc' = "setup" /\ result' = result
    BY <1>3
  <2>2. n \in 3..BuffStart
    BY DEF BuffCounts
  <2>3. ChunkWords(n) \in Nat /\ ChunkWords(n) >= 1
    BY <2>2, ChunkWordsPositive
  <2>4. asked.start \in First..Last /\ asked.num <= Size /\ asked.num >= 1
        /\ asked.num \in Nat /\ asked.start \in Nat
    BY <1>1, Plain DEF IInv, ChunkInv
  <2>5. /\ chunk'.start = asked.start /\ chunk'.num \in 1..asked.num
        /\ mode # "chunks" => chunk'.num = asked.num
    BY <2>1, <2>3, <2>4 DEF FirstChunk, Min2
  <2>6. ChunkInv'
    BY <1>1, <2>1, <2>4, <2>5, Consts DEF ChunkInv, End
  <2>7. CountInv' /\ QueueInv' /\ MatchInv'
    BY <2>1 DEF CountInv, QueueInv, MatchInv, Reading
  <2>8. DeviceInv' /\ PlaceInv'
    BY <1>1, <2>1 DEF IInv, DeviceInv, PlaceInv, Reading
  <2>9. GoodInv'
    BY <1>1, <2>1, <2>4, <2>5 DEF IInv, GoodInv, InRegion, Asked, InPlace, Working, Reading
  <2> QED BY <2>6, <2>7, <2>8, <2>9, AllocateTypes DEF IInv
<1> QED BY <1>2, <1>3 DEF Allocate, Return

LEMMA SetupStep == ASSUME IInv, Setup PROVE IInv'
<1>1. UNCHANGED <<mode, asked, mod, runBit, calls>> /\ pc = "setup" /\ pc \in Working
  BY DEF Setup, Fault, NoFault, bounds, Working
<1>2. Firmware' = Firmware
  BY ContinueTypes DEF Setup, Firmware
<1>3. CASE /\ regs' = [first |-> chunk.start, last |-> chunk.start + chunk.num - 1,
                       pause |-> chunk.pause]
           /\ pc' = "stream" /\ UNCHANGED <<chunk, result>>
  <2>1. End' = End /\ fw'.on = fw.on /\ fw'.at = fw.at /\ fw'.last = fw.last
        /\ regs'.first = chunk.start /\ regs'.last = End - 1
    BY <1>2, <1>3, Plain DEF End, Firmware
  <2>2. ChunkInv' /\ CountInv' /\ QueueInv' /\ MatchInv'
    BY <1>1, <1>3, <2>1 DEF IInv, ChunkInv, CountInv, QueueInv, MatchInv, Working, Reading
  <2>3. DeviceInv' /\ PlaceInv'
    BY <1>1, <1>3, <2>1 DEF IInv, DeviceInv, PlaceInv, Place, Working, Reading
  <2>4. GoodInv'
    BY <1>1, <1>3 DEF IInv, GoodInv, InRegion, Asked, InPlace, Working, Reading
  <2> QED BY <2>2, <2>3, <2>4, SetupTypes DEF IInv
<1>4. CASE ChunkReturns("error")
  BY <1>1, <1>2, <1>4, SetupTypes, FailStep
<1> QED BY <1>3, <1>4 DEF Setup

LEMMA StartStreamStep == ASSUME IInv, StartStream PROVE IInv'
<1>1. UNCHANGED <<mode, asked, mod, calls, regs>> /\ pc = "stream" /\ pc \in Working
  BY DEF StartStream, ClearRunToo, Fault, NoFault, bounds, Working
<1>2. CASE /\ streaming' = TRUE /\ queue' = <<>> /\ overflow' = FALSE
           /\ pc' = "arm" /\ UNCHANGED <<chunk, result, runBit, fw>>
  <2>1. End' = End /\ Len(queue') = 0
    BY <1>2 DEF End
  <2>2. ChunkInv' /\ CountInv' /\ MatchInv'
    BY <1>1, <1>2, <2>1 DEF IInv, ChunkInv, CountInv, MatchInv, Working, Reading
  <2>3. DeviceInv' /\ PlaceInv'
    BY <1>1, <1>2, <2>1 DEF IInv, DeviceInv, PlaceInv, Place, Working, Reading
  <2>4. QueueInv'
    BY <1>2, <2>1 DEF QueueInv
  <2>5. GoodInv'
    BY <1>1, <1>2 DEF IInv, GoodInv, InRegion, Asked, InPlace, Working, Reading
  <2> QED BY <2>2, <2>3, <2>4, <2>5, StartStreamTypes DEF IInv
<1>3. CASE ClearRunToo /\ Abort("error") /\ UNCHANGED <<queue, overflow>>
  BY <1>1, <1>3, Cleared, StartStreamTypes, FailStep DEF Abort, Firmware
<1> QED BY <1>2, <1>3 DEF StartStream

LEMMA FirstNat == ASSUME IInv PROVE Next1 \in Nat
<1>1. CASE queue = <<>>
  BY <1>1, Plain DEF Next1, FirmwareTypes
<1>2. CASE queue # <<>>
  <2>1. Len(queue) >= 1 /\ Len(queue) \in Nat
    BY <1>2, TailOf, Plain
  <2>2. queue[1].from \in Nat
    BY <2>1, PageTypes
  <2> QED BY <1>2, <2>2 DEF Next1
<1> QED BY <1>1, <1>2

LEMMA ArmStep == ASSUME IInv, Arm PROVE IInv'
<1>1. UNCHANGED <<mode, asked, mod, calls, queue, overflow, streaming>> /\ pc = "arm" /\ pc \in Working
  BY DEF Arm, Fault, NoFault, WriteRunFails, bounds, Working
<1>2. regs.first = chunk.start /\ regs.last = End - 1 /\ streaming
  BY <1>1 DEF IInv, DeviceInv
<1>3. CASE /\ WriteRun(TRUE)
           /\ dst' = chunk.start /\ toCollect' = chunk.num
           /\ pc' = "loop" /\ UNCHANGED <<chunk, result>>
  <2>1. End' = End /\ Types /\ runBit'
    BY <1>3, TurnedOn DEF End, IInv
  <2>2. ChunkInv' /\ CountInv'
    BY <1>1, <1>3, <2>1, Plain DEF IInv, ChunkInv, CountInv, End, Working, Reading
  <2>3. GoodInv'
    BY <1>1, <1>3 DEF IInv, GoodInv, InRegion, Asked, InPlace, Working, Reading
  <2>4. InPlace(asked.start, dst)'
    BY <1>1, <1>3 DEF IInv, GoodInv, InPlace
  <2>5. CASE ~runBit
    <3>1. fw'.on /\ fw'.at = chunk.start /\ fw'.last = End - 1 /\ queue = <<>> /\ ~overflow
      BY <1>1, <1>2, <1>3, <2>1, <2>5, TurnedOn DEF IInv, QueueInv
    <3>2. DeviceInv' /\ PlaceInv'
      BY <1>1, <1>2, <1>3, <2>1, <3>1, Numbers, Consts
         DEF DeviceInv, PlaceInv, Place, Reading
    <3>3. QueueInv'
      BY <1>1, <2>1, <3>1, EmptySeq DEF QueueInv
    <3>4. MatchInv'
      BY <1>1, <1>3, <2>1, <2>4, <3>1 DEF MatchInv, Aligned, Next1
    <3> QED BY <2>2, <2>3, <3>2, <3>3, <3>4, ArmTypes DEF IInv
  <2>6. CASE runBit
    <3>1. fw' = fw
      BY <1>3, <2>1, <2>6, TurnedOn
    <3>2. DeviceInv' /\ PlaceInv'
      BY <1>1, <1>2, <1>3, <2>1, <2>6, <3>1 DEF IInv, DeviceInv, PlaceInv, Place, Working, Reading
    <3>3. QueueInv'
      BY <1>1, <1>3, <2>1, <3>1 DEF IInv, QueueInv, Place, Reading
    <3>4. Aligned' \/ Short'
      <4>1. Next1' = Next1 /\ Next1 \in Nat
        BY <1>1, <3>1, FirstNat DEF Next1
      <4>2. CASE Next1 > fw.last
        BY <1>1, <1>3, <3>1, <4>1, <4>2, Numbers DEF Short
      <4>3. CASE ~(Next1 > fw.last)
        <5>1. Place(Next1)
          <6>1. CASE queue = <<>>
            BY <1>1, <2>6, <4>1, <4>3, <6>1, Plain
               DEF IInv, PlaceInv, DeviceInv, Next1, FirmwareTypes
          <6>2. CASE queue # <<>>
            BY <1>1, <6>2, Plain, EmptySeq, TailOf DEF IInv, QueueInv, Next1
          <6> QED BY <6>1, <6>2
        <5>2. CASE Next1 = chunk.start
          BY <1>3, <2>1, <2>4, <3>1, <4>1, <5>1, <5>2 DEF Aligned, Place
        <5>3. CASE Next1 >= chunk.start + PageLen
          <6>1. chunk.num >= 1 + fw.last - Next1 + PageLen
            BY <1>1, <4>1, <5>1, <5>3, Numbers, Consts DEF Place
          <6> QED BY <1>3, <3>1, <4>1, <4>3, <6>1 DEF Short
        <5> QED BY <5>1, <5>2, <5>3 DEF Place
      <4> QED BY <4>2, <4>3
    <3>5. MatchInv'
      BY <1>3, <3>4 DEF MatchInv
    <3> QED BY <2>2, <2>3, <3>2, <3>3, <3>5, ArmTypes DEF IInv
  <2> QED BY <2>5, <2>6
<1>4. CASE WriteRunFails(TRUE) /\ ChunkReturns("error")
  <2>1. Types
    BY DEF IInv
  <2>2. CASE WriteRun(TRUE) /\ ~runBit
    <3>1. runBit' /\ fw'.on /\ fw'.at = chunk.start /\ fw'.last = End - 1
      BY <1>2, <2>1, <2>2, TurnedOn
    <3> QED BY <1>1, <1>4, <3>1, ArmTypes, FailStep
  <2>3. CASE WriteRun(TRUE) /\ runBit
    <3>1. runBit' = runBit /\ fw' = fw
      BY <2>1, <2>3, TurnedOn DEF WriteRun
    <3> QED BY <1>1, <1>4, <3>1, ArmTypes, FailStep DEF Firmware
  <2>4. CASE UNCHANGED <<runBit, fw>>
    BY <1>1, <1>4, <2>4, ArmTypes, FailStep DEF Firmware
  <2> QED BY <1>4, <2>2, <2>3, <2>4 DEF WriteRunFails
<1> QED BY <1>3, <1>4 DEF Arm

-----------------------------------------------------------------------------
(* The steps that move data.  A host that waits for at least a page too much *)
(* still does so after a page: l words came, up to the last address w.       *)
LEMMA ShortLeft ==
    ASSUME NEW t \in Nat, NEW w \in Nat, NEW x \in Nat, NEW l \in Nat, NEW p \in Nat,
           p >= 1, x <= w, t >= 1 + w - x + p, (l = p /\ p <= 1 + w - x) \/ l = 1 + w - x
    PROVE  /\ x + l \in Nat
           /\ x + l > w \/ t - p >= 1 + w - (x + l) + p
           /\ t - p >= 1
OBVIOUS

LEMMA CollectStep == ASSUME IInv, Collect PROVE IInv'
<1>1. UNCHANGED <<mode, asked, calls>> /\ pc = "collect" /\ pc \in Working /\ pc \in Reading
  BY DEF Collect, Fault, NoFault, ClearRun, ClearRunToo, WriteRunFails, bounds, Working, Reading
<1>2. CASE overflow /\ ClearRun /\ Abort("overrun") /\ mod' = mod
  BY <1>1, <1>2, Cleared, CollectTypes, FailStep DEF Abort, Firmware
<1>3. CASE ClearRunToo /\ Abort("error") /\ mod' = mod
  BY <1>1, <1>3, Cleared, CollectTypes, FailStep DEF Abort, Firmware
<1>4. CASE /\ ~overflow
           /\ LET n == WordsInBuffer
              IN  /\ mod' = [a \in DOMAIN mod |-> IF a \in dst..(dst + n - 1)
                                                  THEN Word(Head(queue), a - dst) ELSE mod[a]]
                  /\ dst' = dst + n /\ toCollect' = toCollect - n
           /\ filled' = filled - 1
           /\ pc' = (IF filled > 1 THEN "collect" ELSE IF toCollect' = 0 THEN "done" ELSE "loop")
           /\ UNCHANGED <<chunk, result, runBit, fw, streaming>>
  <2> DEFINE n == WordsInBuffer
  <2>1. /\ filled \in 1..Len(queue) /\ queue # <<>> /\ Len(queue) \in Nat /\ overflow' = overflow
        /\ chunk.start <= dst /\ dst + toCollect = End /\ dst \in Nat /\ toCollect \in Nat
        /\ End' = End
    BY <1>1, <1>4, Plain, Consts DEF Collect, IInv, CountInv, End
  <2>2. /\ queue' \in Seq(Pages) /\ Len(queue') = Len(queue) - 1
        /\ \A i \in 1..Len(queue') : queue'[i] = queue[i + 1]
        /\ Head(queue) = queue[1]
    BY <2>1, TailOf DEF Collect
  <2>3. /\ queue[1].from = Next1 /\ Next1 \in Nat /\ queue[1].len \in Nat
        /\ Next1 <= fw.last /\ fw.last = End - 1
        /\ queue[1].len = Min2(PageLen, 1 + fw.last - Next1)
        /\ fw.last \in Nat
    <3>1. Len(queue) >= 1 /\ 1 \in 1..Len(queue)
      BY <2>1
    <3>2. queue[1].from = Next1 /\ Next1 \in Nat /\ fw.last \in Nat /\ queue[1].len \in Nat
      BY <2>1, <3>1, FirstNat, PageTypes, Plain DEF Next1, FirmwareTypes
    <3>3. QueueInv
      BY DEF IInv
    <3>4. /\ queue[1].from <= fw.last /\ Place(queue[1].from)
          /\ queue[1].len = Min2(PageLen, 1 + fw.last - queue[1].from)
      BY <1>1, <3>1, <3>3 DEF QueueInv
    <3> QED BY <3>2, <3>4 DEF Place
  <2>4. Next1' = Next1 + queue[1].len
    <3>1. CASE Len(queue) = 1
      <4>1. queue' = <<>>
        BY <2>2, <3>1, EmptySeq
      <4>2. queue[1].from + queue[1].len = fw.at
        BY <1>1, <1>4, <2>1, <3>1 DEF IInv, QueueInv
      <4> QED BY <1>4, <2>3, <4>1, <4>2 DEF Next1
    <3>2. CASE Len(queue) > 1
      <4>1. queue' # <<>> /\ queue'[1] = queue[2]
        BY <2>1, <2>2, <3>2, EmptySeq
      <4>2. queue[2].from = queue[1].from + queue[1].len
        <5>1. 1 \in 1..(Len(queue) - 1) /\ 1 + 1 = 2
          BY <2>1, <3>2
        <5>2. QueueInv
          BY DEF IInv
        <5> QED BY <1>1, <1>4, <5>1, <5>2 DEF QueueInv
      <4> QED BY <2>3, <4>1, <4>2 DEF Next1
    <3>3. Len(queue) = 1 \/ Len(queue) > 1
      <4>1. filled \in 1..Len(queue) /\ Len(queue) \in Nat
        BY <2>1
      <4> QED BY <4>1
    <3> QED BY <3>1, <3>2, <3>3
  <2>5. Aligned \/ Short
    BY <1>1, <1>4 DEF IInv, MatchInv
  <2>6. n \in 0..toCollect
    BY <2>1, Consts DEF WordsInBuffer, Min2
  <2>7. InPlace(asked.start, chunk.start)' /\ InRegion'
    <3>1. \A a \in DOMAIN mod' : a \notin dst..(dst + n - 1) => mod'[a] = mod[a]
      BY <1>4
    <3>2. DOMAIN mod' = DOMAIN mod /\ DOMAIN mod = First..Top
      BY <1>4 DEF IInv, Types, TypeOK
    <3>3. asked.start..(chunk.start - 1) \subseteq First..Top
      BY <1>1, Numbers, Consts
    <3>4. \A a \in dst..(dst + n - 1) : a \in Asked /\ a \notin asked.start..(chunk.start - 1)
      <4>1. /\ asked.start \in Nat /\ asked.num \in Nat /\ chunk.start \in Nat
            /\ asked.start <= chunk.start /\ End <= asked.start + asked.num /\ End \in Nat
        BY <1>1, Numbers, Consts
      <4>2. n \in Nat /\ n <= toCollect
        BY <2>1, <2>6
      <4> HIDE DEF n
      <4>3. dst + n <= asked.start + asked.num /\ asked.start <= dst
        BY <2>1, <4>1, <4>2
      <4> QED BY <2>1, <4>1, <4>2, <4>3 DEF Asked
    <3>5. InPlace(asked.start, chunk.start) /\ InRegion
      BY <1>1 DEF IInv, GoodInv
    <3>6. InPlace(asked.start, chunk.start)'
      BY <1>1, <1>4, <3>1, <3>2, <3>3, <3>4, <3>5 DEF InPlace
    <3>7. InRegion'
      BY <1>1, <3>1, <3>2, <3>4, <3>5 DEF InRegion, Asked
    <3> QED BY <3>6, <3>7
  <2>8. Aligned' \/ Short'
    <3>1. CASE Aligned
      <4>1. n = queue[1].len /\ dst' = Next1'
        <5>1. fw.last = End - 1 /\ Next1 = dst
          BY <3>1 DEF Aligned
        <5>2. dst + toCollect = End /\ dst \in Nat /\ toCollect \in Nat
          BY <2>1
        <5>3. 1 + fw.last - Next1 = toCollect
          BY <5>1, <5>2
        <5>4. n = queue[1].len
          BY <2>3, <5>3 DEF WordsInBuffer
        <5> QED BY <1>4, <2>4, <5>1, <5>4
      <4>2. ASSUME NEW a \in asked.start..(dst' - 1) PROVE mod'[a] = a
        <5>1. a \in First..Top /\ a \in Nat
          BY <1>1, <1>4, <2>1, <2>6, <4>2, Numbers, Consts
        <5>2. DOMAIN mod = First..Top
          BY DEF IInv, Types, TypeOK
        <5>3. CASE a < dst
          <6>1. mod[a] = a
            BY <1>1, <2>1, <3>1, <4>2, <5>3, Numbers, Consts DEF Aligned, InPlace
          <6> QED BY <1>4, <2>1, <5>1, <5>2, <5>3, <6>1
        <5>4. CASE a >= dst
          <6>1. a \in dst..(dst + n - 1) /\ a - dst < queue[1].len
            <7>1. dst' = dst + n /\ n \in Nat /\ a < dst' /\ asked.start \in Nat
              BY <1>1, <1>4, <2>1, <2>6, <4>2, Plain
            <7>2. n = queue[1].len /\ dst \in Nat
              BY <2>1, <4>1
            <7> HIDE DEF n
            <7>3. a \in dst..(dst + n - 1) /\ a - dst < n
              BY <5>1, <5>4, <7>1, <7>2
            <7> QED BY <7>2, <7>3
          <6>2. Word(Head(queue), a - dst) = a
            BY <2>1, <2>2, <2>3, <3>1, <5>1, <6>1 DEF Word, Aligned
          <6> QED BY <1>4, <5>1, <5>2, <6>1, <6>2
        <5> QED BY <2>1, <5>1, <5>3, <5>4
      <4>3. InPlace(asked.start, dst)'
        BY <1>1, <4>2 DEF InPlace
      <4> QED BY <1>4, <2>1, <2>3, <4>1, <4>3 DEF Aligned
    <3>2. CASE Short
      <4>1. toCollect >= 1 + fw.last - Next1 + PageLen
        BY <2>3, <3>2 DEF Short
      <4>2. n = PageLen
        <5>1. toCollect \in Nat /\ fw.last \in Nat /\ Next1 \in Nat /\ Next1 <= fw.last
          BY <2>1, <2>3
        <5>2. toCollect >= PageLen
          BY <4>1, <5>1, Consts
        <5> QED BY <5>1, <5>2, Consts DEF WordsInBuffer, Min2
      <4>3. toCollect' = toCollect - PageLen /\ fw'.last = fw.last
        BY <1>4, <4>2
      <4>4. /\ queue[1].len = PageLen /\ PageLen <= 1 + fw.last - Next1
            \/ queue[1].len = 1 + fw.last - Next1
        BY <2>3, Consts DEF Min2
      <4>5. /\ Next1' \in Nat
            /\ Next1' > fw.last \/ toCollect' >= 1 + fw.last - Next1' + PageLen
            /\ toCollect' >= 1
        <5>1. /\ toCollect \in Nat /\ fw.last \in Nat /\ Next1 \in Nat /\ queue[1].len \in Nat
              /\ Next1 <= fw.last
          BY <2>1, <2>3
        <5> QED BY <2>4, <4>1, <4>3, <4>4, <5>1, Consts, ShortLeft
      <4> QED BY <4>3, <4>5 DEF Short
    <3> QED BY <2>5, <3>1, <3>2
  <2>9. pc' \in Reading /\ (pc' = "done" => toCollect' = 0) /\ (pc' = "collect" => filled' \in 1..Len(queue'))
    BY <1>4, <2>1, <2>2 DEF Reading
  <2>10. ChunkInv' /\ CountInv'
    <3>1. chunk' = chunk /\ dst' = dst + n /\ toCollect' = toCollect - n /\ n \in Nat
      BY <1>4, <2>1, <2>6
    <3>2. chunk.start \in Nat
      BY Plain
    <3>3. chunk'.start <= dst' /\ dst' + toCollect' = End'
      <4> HIDE DEF n
      <4> QED BY <2>1, <3>1, <3>2
    <3>4. CountInv'
      BY <2>9, <3>3 DEF CountInv
    <3>5. ChunkInv'
      BY <1>1, <2>1, <2>9, <3>1 DEF IInv, ChunkInv, Working, Reading
    <3> QED BY <3>4, <3>5
  <2>11. DeviceInv' /\ PlaceInv'
    BY <1>1, <1>4, <2>1, <2>9 DEF Collect, IInv, DeviceInv, PlaceInv, Place, Working, Reading
  <2>12. QueueInv'
    <3>1. QueueInv /\ runBit' = runBit /\ fw' = fw /\ runBit
      BY <1>1, <1>4 DEF IInv, DeviceInv
    <3>2. \A i \in 1..Len(queue') : i + 1 \in 1..Len(queue)
      BY <2>1, <2>2
    <3>3. \A i \in 1..Len(queue') :
              /\ queue'[i].from <= fw.last /\ Place(queue'[i].from)
              /\ queue'[i].len = Min2(PageLen, 1 + fw.last - queue'[i].from)
      BY <1>1, <2>2, <3>1, <3>2 DEF QueueInv
    <3>4. \A i \in 1..(Len(queue') - 1) : queue'[i + 1].from = queue'[i].from + queue'[i].len
      <4> TAKE i \in 1..(Len(queue') - 1)
      <4>1. i + 1 \in 1..(Len(queue) - 1) /\ i \in 1..Len(queue') /\ i + 1 \in 1..Len(queue')
        BY <2>1, <2>2
      <4> QED BY <1>1, <1>4, <2>2, <3>1, <4>1 DEF QueueInv
    <3>5. queue' # <<>> => queue'[Len(queue')].from + queue'[Len(queue')].len = fw.at
      <4> HAVE queue' # <<>>
      <4>1. Len(queue') \in 1..Len(queue') /\ Len(queue') + 1 = Len(queue)
        BY <2>1, <2>2, EmptySeq
      <4> QED BY <1>1, <1>4, <2>1, <2>2, <3>1, <4>1 DEF QueueInv
    <3> QED BY <1>4, <2>1, <3>1, <3>3, <3>4, <3>5 DEF QueueInv, Place
  <2>13. MatchInv'
    <3>1. pc' = "done" => Aligned'
      <4> SUFFICES ASSUME toCollect' = 0, Short' PROVE FALSE
        BY <2>8, <2>9
      <4>1. Next1' \in Nat /\ fw'.last \in Nat
        BY <1>4, <2>3, <2>4
      <4> QED BY <4>1, Consts DEF Short
    <3> QED BY <1>4, <2>1, <2>8, <3>1 DEF MatchInv
  <2>14. GoodInv'
    BY <1>1, <1>4, <2>7, <2>9 DEF IInv, GoodInv, Working, Reading
  <2> QED BY <2>10, <2>11, <2>12, <2>13, <2>14, CollectTypes DEF IInv
<1> QED BY <1>2, <1>3, <1>4 DEF Collect

(* A chunk that is complete leaves nothing in the queue or to be sent.       *)
LEMMA DoneEmpty ==
    ASSUME IInv, pc = "done"
    PROVE  queue = <<>> /\ fw.at > fw.last /\ dst = End /\ InPlace(asked.start, End)
<1>1. pc \in Working /\ pc \in Reading
  BY DEF Working, Reading
<1>2. /\ ~overflow /\ fw.last = End - 1 /\ Next1 = dst /\ InPlace(asked.start, dst)
      /\ toCollect = 0 /\ dst + toCollect = End
  BY <1>1 DEF IInv, MatchInv, Aligned, CountInv
<1>3. dst \in Nat /\ fw.last \in Nat /\ End = chunk.start + chunk.num /\ fw.at \in Nat
  BY <1>1, Plain DEF End, FirmwareTypes
<1>4. chunk.start \in Nat /\ chunk.num \in Nat
  BY Plain
<1>5. dst = End /\ fw.last < Next1
  BY <1>2, <1>3, <1>4
<1>6. queue = <<>>
  <2>1. SUFFICES ASSUME queue # <<>> PROVE FALSE
    OBVIOUS
  <2>2. 1 \in 1..Len(queue)
    BY <2>1, Plain, EmptySeq
  <2>3. queue[1].from <= fw.last /\ queue[1].from \in Nat /\ Next1 = queue[1].from
    BY <1>1, <2>1, <2>2, PageTypes DEF IInv, QueueInv, Next1
  <2> QED BY <1>3, <1>5, <2>3
<1> QED BY <1>2, <1>3, <1>5, <1>6 DEF Next1

(* So much more of the call has been read.                                   *)
LEMMA ChunkDoneStep == ASSUME IInv, ChunkDone PROVE IInv'
<1>1. UNCHANGED <<mode, asked, mod, calls>> /\ pc = "done" /\ pc \in Working /\ pc \in Reading
  BY DEF ChunkDone, Fault, NoFault, ClearRun, ClearRunToo, WriteRunFails, bounds, Working, Reading
<1>2. CASE ClearRunToo /\ Abort("error")
  BY <1>1, <1>2, Cleared, ChunkDoneTypes, FailStep DEF Abort, Firmware
<1>3. CASE ClearRun /\ Abort("ok")
  <2>1. /\ fw.at > fw.last /\ fw.at \in Nat /\ fw.last \in Nat
        /\ \A a \in asked.start..(End - 1) : mod[a] = a
    BY <1>1, DoneEmpty, Plain DEF FirmwareTypes, InPlace
  <2>6. /\ DeviceInv
        /\ (~runBit' /\ ~fw'.on) \/ (runBit' = runBit /\ fw' = fw)
    BY <1>3, Cleared DEF IInv
  <2>7. ~(fw'.on /\ fw'.at <= fw'.last)
    BY <2>1, <2>6
  <2>8. pc' \in {"setup", "idle"} /\ (Onwards \/ Ends("ok"))
    BY <1>1, <1>3, ChunkReturnsCases DEF Abort, IInv, Onwards, Ends
  <2>9. CountInv' /\ QueueInv' /\ MatchInv' /\ PlaceInv'
    BY <2>7, <2>8 DEF CountInv, QueueInv, MatchInv, PlaceInv, Reading
  <2>10. DeviceInv'
    BY <2>6, <2>8 DEF DeviceInv, Reading
  <2>12. CASE Onwards
    <3>1. ChunkInv'
      <4>1. /\ asked.start \in Nat /\ asked.num \in Nat /\ chunk.start \in Nat
            /\ chunk.num \in Nat /\ asked.start <= chunk.start /\ End = chunk.start + chunk.num
        BY <1>1, Plain, Numbers, Consts
      <4>2. chunk'.start = End /\ chunk'.num \in 1..(asked.start + asked.num - End)
        BY <2>12 DEF Onwards
      <4>3. /\ asked.start <= chunk'.start /\ chunk'.num >= 1
            /\ chunk'.start + chunk'.num <= asked.start + asked.num
        BY <4>1, <4>2
      <4>4. mode = "chunks" /\ pc' = "setup"
        BY <2>12 DEF Onwards
      <4>5. asked.num >= 1 /\ asked.start \in First..Last /\ asked.num <= Size
        BY <1>1 DEF IInv, ChunkInv
      <4> QED BY <1>1, <4>3, <4>4, <4>5 DEF ChunkInv, End, Working
    <3>2. GoodInv'
      <4>1. pc' = "setup" /\ chunk'.start = End /\ result' = result
        BY <2>12 DEF Onwards
      <4>2. InPlace(asked.start, chunk.start)'
        BY <1>1, <2>1, <4>1 DEF InPlace
      <4>3. InRegion'
        BY <1>1 DEF IInv, GoodInv, InRegion, Asked
      <4> QED BY <1>1, <4>1, <4>2, <4>3 DEF IInv, GoodInv
    <3> QED BY <2>9, <2>10, <3>1, <3>2, ChunkDoneTypes DEF IInv
  <2>13. CASE Ends("ok")
    <3>1. End = asked.start + asked.num
      BY <1>1, <2>13, Numbers DEF Ends
    <3>2. pc' = "idle" /\ chunk' = chunk
      BY <2>13 DEF Ends
    <3>3. ChunkInv'
      BY <3>2 DEF ChunkInv, Working, Reading
    <3>4. InPlace(asked.start, asked.start + asked.num)'
      BY <1>1, <2>1, <3>1 DEF InPlace
    <3>5. InRegion'
      BY <1>1 DEF IInv, GoodInv, InRegion, Asked
    <3>6. GoodInv'
      BY <3>2, <3>4, <3>5 DEF GoodInv, Working, Reading
    <3> QED BY <2>9, <2>10, <3>3, <3>6, ChunkDoneTypes DEF IInv
  <2> QED BY <2>8, <2>12, <2>13
<1> QED BY <1>2, <1>3 DEF ChunkDone

-----------------------------------------------------------------------------
(* The steps of the firmware.                                                *)
LEMMA PauseHereStep == ASSUME IInv, PauseHere PROVE IInv'
<1>1. /\ UNCHANGED <<pc, mode, asked, chunk, dst, toCollect, filled, mod, queue, overflow, runBit,
                     regs, streaming, result, calls>>
      /\ fw'.on = fw.on /\ fw'.at = fw.at /\ fw'.last = fw.last
  BY Plain DEF PauseHere, host, bounds, FirmwareTypes
<1>2. ChunkInv' /\ CountInv' /\ DeviceInv' /\ PlaceInv'
  BY <1>1 DEF IInv, ChunkInv, CountInv, DeviceInv, PlaceInv, Place, End
<1>3. QueueInv'
  BY <1>1 DEF IInv, QueueInv, Place, End
<1>4. MatchInv' /\ GoodInv'
  BY <1>1 DEF IInv, MatchInv, Aligned, Short, Next1, GoodInv, InPlace, InRegion, Asked, End
<1> QED BY <1>2, <1>3, <1>4, PauseHereTypes DEF IInv

LEMMA SendPageStep == ASSUME IInv, SendPage PROVE IInv'
<1> DEFINE n == Min2(PageLen, 1 + fw.last - fw.at)
           page == [from |-> fw.at, len |-> n]
<1>1. /\ UNCHANGED <<pc, mode, asked, chunk, dst, toCollect, filled, mod, runBit, regs, streaming,
                     result, calls>>
      /\ End' = End
  BY DEF SendPage, host, bounds, Fault, End
<1>2. /\ fw \in [on : BOOLEAN, at : Nat, last : Nat, since : Nat, paused : BOOLEAN]
      /\ fw.on /\ fw.at \in Nat /\ fw.last \in Nat /\ fw.at <= fw.last
      /\ queue \in Seq(Pages) /\ Len(queue) \in Nat
      /\ End \in Nat /\ chunk.start \in Nat
  <2>1. FirmwareTypes /\ queue \in Seq(Pages) /\ Len(queue) \in Nat
    BY Plain
  <2>2. chunk.start \in Nat /\ chunk.num \in Nat
    BY Plain
  <2>3. End \in Nat
    BY <2>2 DEF End
  <2>4. fw.on /\ fw.at <= fw.last
    BY DEF SendPage, Sends
  <2> QED BY <2>1, <2>2, <2>3, <2>4 DEF FirmwareTypes
<1>3. n \in Nat /\ n >= 1 /\ n <= 1 + fw.last - fw.at
      /\ (n = PageLen \/ n = 1 + fw.last - fw.at)
  BY <1>2, Consts DEF Min2
<1>4. fw'.on = fw.on /\ fw'.last = fw.last /\ fw'.at = fw.at + n /\ fw'.at \in Nat
  <2>1. fw' = [fw EXCEPT !.at = @ + n, !.since = @ + n]
    BY DEF SendPage
  <2>2. fw.since \in Nat
    BY <1>2
  <2> HIDE DEF n
  <2>3. fw.at + n \in Nat /\ fw.since + n \in Nat
    BY <1>2, <1>3, <2>2
  <2> QED BY <1>2, <2>1, <2>3
<1> HIDE DEF n
<1>5. \/ streaming /\ queue' = Append(queue, page) /\ overflow' = overflow
      \/ streaming /\ overflow' /\ queue' = queue
      \/ ~streaming
  BY DEF SendPage, page, n
<1> HIDE DEF page
<1>6. ChunkInv'
  BY <1>1 DEF IInv, ChunkInv
<1>7. pc \in Working => Place(fw.at)
  BY <1>2 DEF IInv, PlaceInv
<1>8. PlaceInv'
  <2>1. SUFFICES ASSUME pc \in Working, fw.at + n <= fw.last PROVE Place(fw.at)'
    BY <1>1, <1>4 DEF PlaceInv
  <2>2. n = PageLen
    BY <1>2, <1>3, <2>1
  <2>3. fw.last = End - 1 /\ fw.at >= chunk.start
    BY <1>2, <1>7, <2>1, Consts DEF Place
  <2>4. chunk' = chunk /\ fw'.last = End' - 1 /\ fw'.at >= chunk.start + PageLen
    BY <1>1, <1>2, <1>4, <2>2, <2>3, Consts
  <2> QED BY <2>4 DEF Place
<1>9. DeviceInv'
  <2>1. fw'.at <= fw'.last + 1
    BY <1>2, <1>3, <1>4
  <2> QED BY <1>1, <1>4, <2>1 DEF IInv, DeviceInv
<1>10. GoodInv'
  BY <1>1 DEF IInv, GoodInv, InPlace, InRegion, Asked
<1>11. CASE pc \in Reading \cup {"arm"}
  <2>1. streaming /\ Place(fw.at) /\ QueueInv /\ runBit
    BY <1>2, <1>7, <1>11 DEF IInv, DeviceInv, Working, Reading
  <2>2. CASE overflow' /\ queue' = queue
    <3>1. CountInv'
      BY <1>1, <2>2 DEF IInv, CountInv
    <3>2. QueueInv'
      BY <1>1, <1>4, <1>11, <2>1, <2>2 DEF QueueInv, Place
    <3>3. pc # "done"
      BY <1>2, DoneEmpty
    <3>4. MatchInv'
      BY <1>1, <2>2, <3>3 DEF MatchInv
    <3> QED BY <1>6, <1>8, <1>9, <1>10, <3>1, <3>2, <3>4, SendPageTypes DEF IInv
  <2>3. CASE queue' = Append(queue, page) /\ overflow' = overflow
    <3>1. /\ Len(queue') = Len(queue) + 1 /\ queue'[Len(queue) + 1] = page
          /\ \A i \in 1..Len(queue) : queue'[i] = queue[i]
      <4>1. page \in Pages
        BY <1>2, <1>3 DEF page, Pages
      <4> QED BY <1>2, <2>3, <4>1, AppendProperties
    <3>2. page.from = fw.at /\ page.len = n /\ n = Min2(PageLen, 1 + fw.last - fw.at)
      BY DEF page, n
    <3>3. CountInv'
      <4>1. pc = "collect" => filled \in 1..Len(queue')
        BY <1>2, <3>1 DEF IInv, CountInv
      <4> QED BY <1>1, <4>1 DEF IInv, CountInv
    <3>4. \A i \in 1..Len(queue') :
              /\ queue'[i].from <= fw.last /\ Place(queue'[i].from)
              /\ queue'[i].len = Min2(PageLen, 1 + fw.last - queue'[i].from)
      <4> TAKE i \in 1..Len(queue')
      <4>1. CASE i \in 1..Len(queue)
        BY <1>11, <2>1, <3>1, <4>1 DEF QueueInv
      <4>2. CASE i = Len(queue) + 1
        BY <1>2, <2>1, <3>1, <3>2, <4>2
      <4> QED BY <1>2, <3>1, <4>1, <4>2
    <3>5. ~overflow => \A i \in 1..(Len(queue') - 1) :
                          queue'[i + 1].from = queue'[i].from + queue'[i].len
      <4> HAVE ~overflow
      <4> TAKE i \in 1..(Len(queue') - 1)
      <4>1. i \in 1..Len(queue)
        BY <1>2, <3>1
      <4>2. CASE i \in 1..(Len(queue) - 1)
        <5>1. i + 1 \in 1..Len(queue)
          BY <1>2, <4>2
        <5> QED BY <1>11, <2>1, <3>1, <4>1, <4>2, <5>1 DEF QueueInv
      <4>3. CASE i = Len(queue)
        <5>1. queue # <<>>
          BY <1>2, <4>1, <4>3, EmptySeq
        <5>2. queue[Len(queue)].from + queue[Len(queue)].len = fw.at
          BY <1>11, <2>1, <5>1 DEF QueueInv
        <5> QED BY <3>1, <3>2, <4>1, <4>3, <5>2
      <4> QED BY <1>2, <4>1, <4>2, <4>3
    <3>6. queue'[Len(queue')].from + queue'[Len(queue')].len = fw'.at
      BY <1>4, <3>1, <3>2
    <3>7. QueueInv'
      BY <1>1, <1>4, <2>1, <2>3, <3>4, <3>5, <3>6 DEF QueueInv, Place
    <3>8. Next1' = Next1 /\ Next1 \in Nat
      <4>1. CASE queue = <<>>
        <5>1. Len(queue) = 0 /\ queue'[1] = page /\ queue' # <<>>
          BY <3>1, <4>1, EmptySeq
        <5> QED BY <3>2, <4>1, <5>1, FirstNat DEF Next1
      <4>2. CASE queue # <<>>
        <5>1. 1 \in 1..Len(queue) /\ queue' # <<>>
          BY <1>2, <3>1, <4>2, EmptySeq
        <5> QED BY <3>1, <4>2, <5>1, FirstNat DEF Next1
      <4> QED BY <4>1, <4>2
    <3>9. pc # "done"
      BY <1>2, DoneEmpty
    <3>10. MatchInv'
      BY <1>1, <1>4, <2>3, <3>8, <3>9 DEF IInv, MatchInv, Aligned, Short, InPlace
    <3> QED BY <1>6, <1>8, <1>9, <1>10, <3>3, <3>7, <3>10, SendPageTypes DEF IInv
  <2> QED BY <1>5, <2>1, <2>2, <2>3
<1>12. CASE pc \notin Reading \cup {"arm"}
  <2>1. CountInv' /\ QueueInv' /\ MatchInv'
    BY <1>1, <1>12 DEF CountInv, QueueInv, MatchInv, Reading
  <2> QED BY <1>6, <1>8, <1>9, <1>10, <2>1, SendPageTypes DEF IInv
<1> QED BY <1>11, <1>12


-----------------------------------------------------------------------------
LEMMA StutterStep == ASSUME IInv, UNCHANGED vars PROVE IInv'
<1>1. UNCHANGED <<pc, mode, asked, numBuff, chunk, dst, toCollect, nextPause, filled, runBit, contBit,
                  regs, fw, streaming, queue, overflow, mod, result, noRoom, noEdge, calls>>
  BY DEF vars, host, device, bounds
<1>2. Types'
  BY <1>1 DEF IInv, Types, TypeOK
<1>3. ChunkInv' /\ CountInv' /\ DeviceInv' /\ PlaceInv' /\ QueueInv'
  BY <1>1 DEF IInv, ChunkInv, CountInv, DeviceInv, PlaceInv, QueueInv, Place, End
<1>4. MatchInv' /\ GoodInv'
  BY <1>1 DEF IInv, MatchInv, Aligned, Short, Next1, GoodInv, InPlace, InRegion, Asked, End
<1> QED BY <1>2, <1>3, <1>4 DEF IInv

LEMMA StepInv == IInv /\ [Next]_vars => IInv'
<1> SUFFICES ASSUME IInv, [Next]_vars PROVE IInv'
  OBVIOUS
<1>1. CASE Call
  BY <1>1, CallStep
<1>2. CASE HostStep
  BY <1>2, StopAndCheckStep, AllocateStep, SetupStep, StartStreamStep, ArmStep, LoopStep,
     ContinueLowStep, ContinueHighStep, QueryStep, CollectStep, ChunkDoneStep DEF HostStep
<1>3. CASE DeviceStep
  BY <1>3, SendPageStep, PauseHereStep DEF DeviceStep
<1>4. CASE UNCHANGED vars
  BY <1>4, StutterStep
<1> QED BY <1>1, <1>2, <1>3, <1>4 DEF Next

(* The invariant of the read-out.                                            *)
THEOREM ReadInvariant == Spec => []IInv
<1> QED BY InitInv, StepInv, PTL DEF Spec

(* Every variable of the read-out keeps its type; in particular a pause, a   *)
(* chunk and the place written to never pass what the buffer and the         *)
(* registers hold.                                                           *)
THEOREM TypeCorrect == Spec => []TypeOK
<1>1. IInv => TypeOK
  BY DEF IInv, Types
<1> QED BY <1>1, ReadInvariant, PTL

(* ngpd_dma_read_scope writes nothing outside the region asked for, whatever *)
(* fails, overflows or is tried again.                                       *)
THEOREM InRegionAlways == Spec => []InRegion
<1>1. IInv => InRegion
  BY DEF IInv, GoodInv
<1> QED BY <1>1, ReadInvariant, PTL

(* A call of ngpd_dma_read_scope that returns 0 has put each word of the     *)
(* region in its place, for every size of buffer, page and queue, every      *)
(* number of tries, and whatever failed or overflowed on the way.            *)
THEOREM DeliveredAlways == Spec => []Delivered
<1>1. IInv => Delivered
  <2> SUFFICES ASSUME IInv, result = "ok", calls > 0, NEW a \in Asked PROVE mod[a] = a
    BY DEF Delivered
  <2>1. InPlace(asked.start, asked.start + asked.num)
    BY DEF IInv, GoodInv
  <2>2. a \in asked.start..(asked.start + asked.num - 1)
    BY DEF Asked
  <2>3. asked.start + (asked.num - 1) = (asked.start + asked.num) - 1
    BY Plain
  <2> QED BY <2>1, <2>2, <2>3 DEF InPlace
<1> QED BY <1>1, ReadInvariant, PTL
-----------------------------------------------------------------------------
(* RoomForAll.  What the pages in the queue hold, at most: with chunks it is *)
(* behind the firmware in the chunk; with pauses it is behind it in what it  *)
(* has sent since it went on, less what the host has collected since then.   *)
Held == Len(queue) * PageLen

HeldInv ==
    pc \in Reading \cup {"arm"} /\ fw.on /\ fw.at <= fw.last =>
        /\ chunk.start + Held <= fw.at
        /\ mode = "flow" =>
              /\ Held <= fw.since /\ fw.since < chunk.pause + PageLen
              /\ nextPause > 0 =>
                    /\ toCollect <= nextPause + chunk.pause
                    /\ Held + nextPause + chunk.pause <= fw.since + toCollect

(* The chunk and the pauses fit the buffers there are; only a chunk that is  *)
(* tried again can find the firmware on; the host lets it go on when what    *)
(* came before the pause is collected.                                       *)
RoomInv ==
    /\ pc \in Working /\ mode = "chunks" => chunk.num <= ChunkWords(numBuff)
    /\ pc \in Working /\ mode = "flow" => chunk.pause = PauseWords(numBuff)
    /\ pc \in {"setup", "stream", "arm"} /\ mode # "chunks" => ~runBit
    /\ pc \in {"stream", "arm"} \cup Reading /\ mode = "flow" => regs.pause = chunk.pause
    /\ pc \in {"low", "high"} => nextPause > 0 /\ toCollect <= nextPause
    /\ HeldInv
    /\ RoomForAll

LEMMA TimesNext ==
    ASSUME NEW l \in Nat, NEW p \in Nat
    PROVE  l * p \in Nat /\ (l + 1) * p = l * p + p
OBVIOUS

LEMMA TimesLess ==
    ASSUME NEW l \in Nat, NEW k \in Nat, NEW p \in Nat, l * p < k * p
    PROVE  l < k
<1> SUFFICES ASSUME k <= l PROVE FALSE
  OBVIOUS
<1>1. k * p \in Nat /\ l * p \in Nat /\ k * p <= l * p
  BY Monotone
<1> QED BY <1>1

(* A page of p words less, and one more, in the inequality of the pauses.    *)
LEMMA OnePageLess ==
    ASSUME NEW h2 \in Nat, NEW p \in Nat, NEW m \in Nat, NEW q \in Nat,
           NEW s \in Nat, NEW t \in Nat, NEW t2 \in Nat,
           t <= t2 + p, (h2 + p) + m + q <= s + t
    PROVE  h2 + m + q <= s + t2
OBVIOUS

LEMMA OnePageMore ==
    ASSUME NEW h \in Nat, NEW h2 \in Nat, NEW p \in Nat, NEW m \in Nat, NEW q \in Nat,
           NEW s \in Nat, NEW t \in Nat, h2 <= h + p, h + m + q <= s + t
    PROVE  h2 + m + q <= (s + p) + t
OBVIOUS

LEMMA HeldNat == ASSUME IInv PROVE Held \in Nat
BY Plain, Consts, TimesNext DEF Held

(* A chunk that returns is tried again, goes on to the next, or ends the     *)
(* call: all that is asked then is the size of the next one.                 *)
LEMMA RoomReturns ==
    ASSUME IInv, RoomInv, pc \in Working, NEW rc \in {"ok", "error", "overrun"}, ChunkReturns(rc),
           UNCHANGED <<mode, asked, numBuff, noRoom>>
    PROVE  RoomInv'
<1> DEFINE left == asked.start + asked.num - (chunk.start + chunk.num)
           next == [start |-> chunk.start + chunk.num, pause |-> 0, tries |-> 0,
                    num |-> Min2(left, ChunkWords(numBuff))]
<1>1. numBuff \in 3..BuffStart
  BY DEF IInv, Types, TypeOK
<1>2. ChunkWords(numBuff)' = ChunkWords(numBuff) /\ ChunkWords(numBuff) \in Nat
  BY <1>1, ChunkWordsPositive
<1>3. left \in Int
  BY Plain
<1>4. Min2(left, ChunkWords(numBuff)) <= ChunkWords(numBuff)
  BY <1>2, <1>3 DEF Min2
<1> HIDE DEF left
<1>5. CASE /\ mode = "chunks" /\ chunk' = [chunk EXCEPT !.tries = @ + 1] /\ pc' = "setup"
  <2>1. chunk'.num = chunk.num
    BY <1>5, Plain
  <2> QED BY <1>2, <1>5, <2>1 DEF RoomInv, HeldInv, RoomForAll, Reading
<1>6. CASE mode = "chunks" /\ chunk' = next /\ pc' = "setup"
  BY <1>2, <1>4, <1>6 DEF RoomInv, HeldInv, RoomForAll, Reading
<1>7. CASE pc' = "idle"
  BY <1>7 DEF RoomInv, HeldInv, RoomForAll, Reading, Working
<1> QED BY <1>5, <1>6, <1>7 DEF ChunkReturns, Return, left

(* A step of the host that neither moves data nor lets the firmware go on.   *)
LEMMA RoomQuiet ==
    ASSUME IInv, RoomInv, pc \in Reading, pc' \in Reading,
           UNCHANGED <<mode, numBuff, chunk, regs, runBit, fw, queue, toCollect, nextPause, noRoom>>,
           pc' \in {"low", "high"} => nextPause > 0 /\ toCollect <= nextPause
    PROVE  RoomInv'
<1>1. HeldInv'
  BY DEF RoomInv, HeldInv, Held
<1>2. ChunkWords(numBuff)' = ChunkWords(numBuff) /\ PauseWords(numBuff)' = PauseWords(numBuff)
  OBVIOUS
<1> QED BY <1>1, <1>2 DEF RoomInv, RoomForAll, Reading, Working

LEMMA CallRoom == ASSUME Call PROVE RoomInv'
<1>1. pc' \in {"idle", "stop"} /\ ~noRoom'
  BY DEF Call, Return
<1> QED BY <1>1 DEF RoomInv, HeldInv, RoomForAll, Reading, Working

LEMMA StopAndCheckRoom == ASSUME RoomInv, StopAndCheck PROVE RoomInv'
<1>1. pc' \in {"idle", "alloc"} /\ UNCHANGED <<mode, noRoom>>
  BY DEF StopAndCheck, Return, host
<1> QED BY <1>1 DEF RoomInv, HeldInv, RoomForAll, Reading, Working

LEMMA AllocateRoom == ASSUME IInv, RoomInv, Allocate PROVE RoomInv'
<1>1. UNCHANGED <<mode, asked, runBit, noRoom>> /\ pc = "alloc" /\ ~runBit
  BY DEF Allocate, IInv, DeviceInv
<1>2. CASE pc' = "idle"
  BY <1>1, <1>2 DEF RoomInv, HeldInv, RoomForAll, Reading, Working
<1>3. CASE \E n \in BuffCounts : numBuff' = n /\ chunk' = FirstChunk(n) /\ pc' = "setup"
  <2>1. PICK n \in BuffCounts : numBuff' = n /\ chunk' = FirstChunk(n) /\ pc' = "setup"
    BY <1>3
  <2>2. ChunkWords(n) \in Nat
    BY ChunkWordsPositive DEF BuffCounts
  <2>3. mode = "chunks" => chunk'.num <= ChunkWords(n)
    BY <2>1, <2>2, Plain DEF FirstChunk, Min2
  <2>4. mode = "flow" => chunk'.pause = PauseWords(n)
    BY <2>1 DEF FirstChunk
  <2>5. ChunkWords(numBuff)' = ChunkWords(n) /\ PauseWords(numBuff)' = PauseWords(n)
    BY <2>1
  <2> QED BY <1>1, <2>1, <2>3, <2>4, <2>5 DEF RoomInv, HeldInv, RoomForAll, Reading
<1> QED BY <1>2, <1>3 DEF Allocate, Return

LEMMA SetupRoom == ASSUME IInv, RoomInv, Setup PROVE RoomInv'
<1>1. UNCHANGED <<mode, asked, numBuff, runBit, noRoom>> /\ pc = "setup" /\ pc \in Working
  BY DEF Setup, Working
<1>2. CASE /\ regs' = [first |-> chunk.start, last |-> chunk.start + chunk.num - 1,
                       pause |-> chunk.pause]
           /\ pc' = "stream" /\ UNCHANGED <<chunk, result>>
  <2>1. ChunkWords(numBuff)' = ChunkWords(numBuff) /\ PauseWords(numBuff)' = PauseWords(numBuff)
    BY <1>1
  <2>2. regs'.pause = chunk.pause /\ chunk' = chunk
    BY <1>2
  <2> QED BY <1>1, <1>2, <2>1, <2>2 DEF RoomInv, HeldInv, RoomForAll, Reading, Working
<1>3. CASE ChunkReturns("error")
  BY <1>1, <1>3, RoomReturns
<1> QED BY <1>2, <1>3 DEF Setup

LEMMA StartStreamRoom == ASSUME IInv, RoomInv, StartStream PROVE RoomInv'
<1>1. UNCHANGED <<mode, asked, numBuff, noRoom, regs>> /\ pc = "stream" /\ pc \in Working
  BY DEF StartStream, Working
<1>2. CASE queue' = <<>> /\ pc' = "arm" /\ UNCHANGED <<chunk, runBit, fw>>
  <2>1. ChunkWords(numBuff)' = ChunkWords(numBuff) /\ PauseWords(numBuff)' = PauseWords(numBuff)
    BY <1>1
  <2>2. Held' = 0
    <3>1. Len(queue') = 0
      BY <1>2
    <3> QED BY <3>1, Consts DEF Held
  <2>3. fw.on /\ fw.at <= fw.last => chunk.start <= fw.at
    <3>1. fw.on /\ fw.at <= fw.last => fw.at = chunk.start \/ fw.at >= chunk.start + PageLen
      BY <1>1 DEF IInv, PlaceInv, Place
    <3>2. fw.at \in Nat /\ chunk.start \in Nat
      BY Plain DEF FirmwareTypes
    <3> QED BY <3>1, <3>2, Consts
  <2>4. mode = "flow" => ~fw.on
    BY <1>1 DEF RoomInv, IInv, DeviceInv
  <2>5. HeldInv'
    <3>1. chunk.start + 0 = chunk.start
      BY Plain
    <3> QED BY <1>1, <1>2, <2>2, <2>3, <2>4, <3>1 DEF HeldInv
  <2> QED BY <1>1, <1>2, <2>1, <2>5 DEF RoomInv, RoomForAll, Reading, Working
<1>3. CASE Abort("error")
  BY <1>1, <1>3, RoomReturns DEF Abort
<1> QED BY <1>2, <1>3 DEF StartStream

LEMMA ArmRoom == ASSUME IInv, RoomInv, Arm PROVE RoomInv'
<1>1. UNCHANGED <<mode, asked, numBuff, noRoom, regs, queue>> /\ pc = "arm" /\ pc \in Working
  BY DEF Arm, Working
<1>2. CASE /\ WriteRun(TRUE) /\ toCollect' = chunk.num /\ nextPause' = NextPause(chunk.num)
           /\ pc' = "loop" /\ UNCHANGED chunk
  <2>1. ChunkWords(numBuff)' = ChunkWords(numBuff) /\ PauseWords(numBuff)' = PauseWords(numBuff)
    BY <1>1
  <2>2. CASE ~runBit
    <3>1. queue = <<>> /\ regs.first = chunk.start
      BY <1>1, <2>2 DEF IInv, QueueInv, DeviceInv
    <3>2. fw'.at = chunk.start /\ fw'.since = 0
      BY <1>2, <2>2, <3>1, TurnedOn DEF IInv
    <3>3. Held' = 0
      <4>1. Len(queue') = 0
        BY <1>1, <3>1
      <4> QED BY <4>1, Consts DEF Held
    <3>4. /\ chunk.num \in Nat /\ chunk.pause \in Nat /\ chunk.start \in Nat
      BY Plain
    <3>5. nextPause' > 0 => nextPause' = chunk.num - chunk.pause
      BY <1>2 DEF NextPause
    <3>6. HeldInv'
      BY <1>2, <3>2, <3>3, <3>4, <3>5, Consts DEF HeldInv
    <3> QED BY <1>1, <1>2, <2>1, <3>6 DEF RoomInv, RoomForAll, Reading, Working
  <2>3. CASE runBit
    <3>1. fw' = fw /\ mode # "flow"
      BY <1>1, <1>2, <2>3, TurnedOn DEF RoomInv, IInv
    <3>2. HeldInv'
      BY <1>1, <1>2, <3>1 DEF RoomInv, HeldInv, Held
    <3> QED BY <1>1, <1>2, <2>1, <3>2 DEF RoomInv, RoomForAll, Reading, Working
  <2> QED BY <2>2, <2>3
<1>3. CASE ChunkReturns("error")
  BY <1>1, <1>3, RoomReturns
<1> QED BY <1>2, <1>3 DEF Arm

LEMMA LoopRoom == ASSUME IInv, RoomInv, Loop PROVE RoomInv'
<1>1. /\ UNCHANGED <<mode, asked, numBuff, noRoom, regs, runBit, fw, queue, toCollect, nextPause>>
      /\ pc = "loop" /\ pc \in Working /\ pc \in Reading /\ toCollect > 0
  BY DEF Loop, device, Working, Reading
<1>2. CASE pc' = "query" /\ UNCHANGED chunk
  BY <1>1, <1>2, RoomQuiet DEF Reading
<1>3. CASE pc' = "low" /\ toCollect <= nextPause /\ UNCHANGED chunk
  <2>1. nextPause > 0
    BY <1>1, <1>3, Plain, Consts
  <2> QED BY <1>1, <1>3, <2>1, RoomQuiet DEF Reading
<1>4. CASE ChunkReturns("error")
  BY <1>1, <1>4, RoomReturns
<1> QED BY <1>2, <1>3, <1>4 DEF Loop

LEMMA ContinueLowRoom == ASSUME IInv, RoomInv, ContinueLow PROVE RoomInv'
<1>1. /\ UNCHANGED <<mode, asked, numBuff, noRoom, regs, runBit, queue, toCollect, nextPause>>
      /\ pc = "low" /\ pc \in Working /\ pc \in Reading
  BY DEF ContinueLow, Working, Reading
<1>2. CASE WriteContinue(FALSE) /\ pc' = "high" /\ UNCHANGED chunk
  <2>1. fw' = fw
    BY <1>2 DEF WriteContinue
  <2>2. nextPause > 0 /\ toCollect <= nextPause
    BY <1>1 DEF RoomInv
  <2> QED BY <1>1, <1>2, <2>1, <2>2, RoomQuiet DEF Reading
<1>3. CASE ChunkReturns("error")
  BY <1>1, <1>3, RoomReturns
<1> QED BY <1>2, <1>3 DEF ContinueLow

(* When the firmware goes on, all it sent before the pause is collected.     *)
LEMMA ContinueHighRoom == ASSUME IInv, RoomInv, ContinueHigh PROVE RoomInv'
<1>1. /\ UNCHANGED <<mode, asked, numBuff, noRoom, regs, runBit, queue, toCollect>>
      /\ pc = "high" /\ pc \in Working /\ pc \in Reading
  BY DEF ContinueHigh, Working, Reading
<1>2. CASE /\ WriteContinue(TRUE) /\ nextPause' = NextPause(toCollect)
           /\ pc' = "query" /\ UNCHANGED chunk
  <2>1. ChunkWords(numBuff)' = ChunkWords(numBuff) /\ PauseWords(numBuff)' = PauseWords(numBuff)
    BY <1>1
  <2>2. /\ fw'.on = fw.on /\ fw'.at = fw.at /\ fw'.last = fw.last /\ Held' = Held
        /\ fw.since \in Nat /\ Held \in Nat /\ chunk.pause \in Nat /\ toCollect \in Nat
        /\ nextPause \in Nat
    <3>1. fw'.on = fw.on /\ fw'.at = fw.at /\ fw'.last = fw.last
      BY <1>2, ContinueTypes
    <3>2. Held' = Held
      BY <1>1 DEF Held
    <3>3. fw.since \in Nat
      BY Plain DEF FirmwareTypes
    <3> QED BY <3>1, <3>2, <3>3, HeldNat, Plain, Consts
  <2>3. fw'.since = fw.since \/ fw'.since = 0
    BY <1>2, Plain DEF WriteContinue, FirmwareTypes
  <2>4. nextPause > 0 /\ toCollect <= nextPause
    BY <1>1 DEF RoomInv
  <2>5. ASSUME mode = "flow", fw.on, fw.at <= fw.last PROVE Held = 0 /\ fw.since < chunk.pause + PageLen
    <3>1. /\ fw.since < chunk.pause + PageLen
          /\ Held + nextPause + chunk.pause <= fw.since + toCollect
      BY <1>1, <2>4, <2>5 DEF RoomInv, HeldInv
    <3>2. Held < PageLen
      BY <2>2, <2>4, <3>1, Consts
    <3>3. Len(queue) * PageLen < 1 * PageLen
      BY <3>2, Consts DEF Held
    <3>4. Len(queue) < 1
      BY <3>3, TimesLess, Plain, Consts
    <3>5. Len(queue) = 0
      BY <3>4, Plain
    <3> QED BY <3>1, <3>5, Consts DEF Held
  <2>6. nextPause' > 0 => nextPause' = toCollect - chunk.pause
    BY <1>2 DEF NextPause
  <2>7. HeldInv'
    <3> SUFFICES ASSUME fw.on, fw.at <= fw.last
                 PROVE  /\ chunk.start + Held <= fw.at
                        /\ mode = "flow" =>
                              /\ Held <= fw'.since /\ fw'.since < chunk.pause + PageLen
                              /\ nextPause' > 0 =>
                                    /\ toCollect <= nextPause' + chunk.pause
                                    /\ Held + nextPause' + chunk.pause <= fw'.since + toCollect
      BY <1>1, <1>2, <2>2 DEF HeldInv
    <3>1. chunk.start + Held <= fw.at
      BY <1>1 DEF RoomInv, HeldInv
    <3>2. ASSUME mode = "flow"
          PROVE  /\ Held <= fw'.since /\ fw'.since < chunk.pause + PageLen
                 /\ nextPause' > 0 =>
                       /\ toCollect <= nextPause' + chunk.pause
                       /\ Held + nextPause' + chunk.pause <= fw'.since + toCollect
      BY <2>2, <2>3, <2>5, <2>6, <3>2, Consts
    <3> QED BY <3>1, <3>2
  <2> QED BY <1>1, <1>2, <2>1, <2>7 DEF RoomInv, RoomForAll, Reading, Working
<1>3. CASE ChunkReturns("error")
  BY <1>1, <1>3, RoomReturns
<1> QED BY <1>2, <1>3 DEF ContinueHigh

LEMMA QueryRoom == ASSUME IInv, RoomInv, Query PROVE RoomInv'
<1>1. /\ UNCHANGED <<mode, asked, numBuff, noRoom, regs, queue, toCollect, nextPause>>
      /\ pc = "query" /\ pc \in Working /\ pc \in Reading
  BY DEF Query, Working, Reading
<1>2. CASE pc' \in {"loop", "collect"} /\ UNCHANGED <<chunk, runBit, fw>>
  BY <1>1, <1>2, RoomQuiet DEF Reading
<1>3. CASE Abort("error")
  BY <1>1, <1>3, RoomReturns DEF Abort
<1> QED BY <1>2, <1>3 DEF Query

LEMMA CollectRoom == ASSUME IInv, RoomInv, Collect PROVE RoomInv'
<1>1. /\ UNCHANGED <<mode, asked, numBuff, noRoom, regs, nextPause>> /\ queue' = Tail(queue)
      /\ pc = "collect" /\ pc \in Working /\ pc \in Reading
  BY DEF Collect, Working, Reading
<1>2. CASE /\ toCollect' = toCollect - WordsInBuffer
           /\ pc' \in Reading \ {"low", "high"} /\ UNCHANGED <<chunk, runBit, fw>>
  <2>1. ChunkWords(numBuff)' = ChunkWords(numBuff) /\ PauseWords(numBuff)' = PauseWords(numBuff)
    BY <1>1
  <2>2. queue # <<>>
    BY <1>1, Plain, EmptySeq DEF IInv, CountInv
  <2>3. Len(queue') \in Nat /\ Len(queue) = Len(queue') + 1
    BY <1>1, <2>2, TailOf, Plain
  <2>4. Held' \in Nat /\ Held = Held' + PageLen
    BY <2>3, TimesNext, Consts DEF Held
  <2>5. toCollect \in Nat /\ toCollect' \in Nat /\ toCollect' <= toCollect /\ toCollect <= toCollect' + PageLen
    <3>1. toCollect \in Nat
      BY Plain, Consts
    <3>2. WordsInBuffer \in Nat /\ WordsInBuffer <= toCollect /\ WordsInBuffer <= PageLen
      BY <3>1, Consts DEF WordsInBuffer, Min2
    <3> QED BY <1>2, <3>1, <3>2, Consts
  <2>6. /\ fw.since \in Nat /\ fw.at \in Nat /\ chunk.start \in Nat /\ chunk.pause \in Nat
        /\ nextPause \in Nat
    BY Plain, Consts DEF FirmwareTypes
  <2>7. HeldInv'
    <3> SUFFICES ASSUME fw.on, fw.at <= fw.last
                 PROVE  /\ chunk.start + Held' <= fw.at
                        /\ mode = "flow" =>
                              /\ Held' <= fw.since /\ fw.since < chunk.pause + PageLen
                              /\ nextPause > 0 =>
                                    /\ toCollect' <= nextPause + chunk.pause
                                    /\ Held' + nextPause + chunk.pause <= fw.since + toCollect'
      BY <1>1, <1>2 DEF HeldInv
    <3>1. /\ chunk.start + Held <= fw.at
          /\ mode = "flow" =>
                /\ Held <= fw.since /\ fw.since < chunk.pause + PageLen
                /\ nextPause > 0 =>
                      /\ toCollect <= nextPause + chunk.pause
                      /\ Held + nextPause + chunk.pause <= fw.since + toCollect
      BY <1>1 DEF RoomInv, HeldInv
    <3>2. chunk.start + Held' <= fw.at
      BY <2>4, <2>6, <3>1, Consts
    <3>3. ASSUME mode = "flow"
          PROVE  /\ Held' <= fw.since /\ fw.since < chunk.pause + PageLen
                 /\ nextPause > 0 =>
                       /\ toCollect' <= nextPause + chunk.pause
                       /\ Held' + nextPause + chunk.pause <= fw.since + toCollect'
      <4>1. /\ Held <= fw.since /\ fw.since < chunk.pause + PageLen
            /\ nextPause > 0 =>
                  /\ toCollect <= nextPause + chunk.pause
                  /\ Held + nextPause + chunk.pause <= fw.since + toCollect
        BY <3>1, <3>3
      <4>2. Held' <= fw.since
        BY <2>4, <2>6, <4>1, Consts
      <4>3. ASSUME nextPause > 0
            PROVE  /\ toCollect' <= nextPause + chunk.pause
                   /\ Held' + nextPause + chunk.pause <= fw.since + toCollect'
        <5>1. /\ toCollect <= nextPause + chunk.pause
              /\ Held + nextPause + chunk.pause <= fw.since + toCollect
          BY <4>1, <4>3
        <5>2. toCollect' <= nextPause + chunk.pause
          BY <2>5, <2>6, <5>1
        <5>3. Held \in Nat /\ PageLen \in Nat
          BY HeldNat, Consts
        <5>4. (Held' + PageLen) + nextPause + chunk.pause <= fw.since + toCollect
          BY <2>4, <5>1
        <5>5. Held' + nextPause + chunk.pause <= fw.since + toCollect'
          BY <2>4, <2>5, <2>6, <5>3, <5>4, OnePageLess
        <5> QED BY <5>2, <5>5
      <4> QED BY <4>1, <4>2, <4>3
    <3> QED BY <3>2, <3>3
  <2> QED BY <1>1, <1>2, <2>1, <2>7 DEF RoomInv, RoomForAll, Reading, Working
<1>3. CASE Abort("error") \/ Abort("overrun")
  BY <1>1, <1>3, RoomReturns DEF Abort
<1>4. ~overflow /\ toCollect' = toCollect - WordsInBuffer
      /\ pc' = (IF filled > 1 THEN "collect" ELSE IF toCollect' = 0 THEN "done" ELSE "loop")
      => pc' \in Reading \ {"low", "high"}
  BY DEF Reading
<1> QED BY <1>2, <1>3, <1>4 DEF Collect

LEMMA ChunkDoneRoom == ASSUME IInv, RoomInv, ChunkDone PROVE RoomInv'
<1>1. UNCHANGED <<mode, asked, numBuff, noRoom>> /\ pc \in Working
  BY DEF ChunkDone, Working, Reading
<1>2. Abort("ok") \/ Abort("error")
  BY DEF ChunkDone
<1> QED BY <1>1, <1>2, RoomReturns DEF Abort

LEMMA PauseHereRoom == ASSUME IInv, RoomInv, PauseHere PROVE RoomInv'
<1>1. UNCHANGED <<pc, mode, numBuff, chunk, toCollect, nextPause, runBit, regs, queue, noRoom>>
  BY DEF PauseHere, host
<1>2. fw'.on = fw.on /\ fw'.at = fw.at /\ fw'.last = fw.last /\ fw'.since = fw.since
  BY Plain DEF PauseHere, FirmwareTypes
<1>3. HeldInv'
  BY <1>1, <1>2 DEF RoomInv, HeldInv, Held
<1>4. ChunkWords(numBuff)' = ChunkWords(numBuff) /\ PauseWords(numBuff)' = PauseWords(numBuff)
  BY <1>1
<1> QED BY <1>1, <1>3, <1>4 DEF RoomInv, RoomForAll

(* The firmware finds a buffer: what is queued is less than the chunk, or    *)
(* less than it may send before a pause.                                     *)
LEMMA NotFull ==
    ASSUME IInv, RoomInv, Sends, pc \in Reading, mode # "whole"
    PROVE  Len(queue) < Min2(numBuff, QueueMax)
<1>1. numBuff \in 3..BuffStart /\ mode \in {"flow", "chunks"} /\ pc \in Working
  BY DEF IInv, Types, TypeOK, Modes, Working
<1>2. /\ fw.on /\ fw.at <= fw.last /\ ~AtPause /\ chunk.start + Held <= fw.at
      /\ Held \in Nat /\ Len(queue) \in Nat /\ Min2(numBuff, QueueMax) \in Nat
      /\ fw.at \in Nat /\ fw.last \in Nat /\ fw.since \in Nat
      /\ chunk.start \in Nat /\ chunk.num \in Nat
  BY <1>1, HeldNat, Plain, Consts DEF Sends, RoomInv, HeldInv, FirmwareTypes, Min2
<1>3. CASE mode = "chunks"
  <2>1. chunk.num <= ChunkWords(numBuff) /\ ChunkWords(numBuff) \in Nat
    BY <1>1, <1>3, ChunkWordsPositive DEF RoomInv
  <2>2. fw.last = End - 1
    BY <1>1, <1>2 DEF IInv, PlaceInv, Place
  <2>3. Held < ChunkWords(numBuff)
    BY <1>2, <2>1, <2>2 DEF End
  <2>4. Len(queue) * PageLen < Min2(numBuff, QueueMax) * PageLen
    BY <2>3 DEF Held, ChunkWords
  <2> QED BY <1>2, <2>4, TimesLess, Consts
<1>4. CASE mode = "flow"
  <2> DEFINE k == IF numBuff > FlowPages THEN FlowPages ELSE numBuff \div 2
  <2>1. k \in Nat /\ k >= 1 /\ k <= Min2(numBuff, QueueMax)
    BY <1>1, Consts DEF Min2
  <2>2. chunk.pause = k * PageLen /\ regs.pause = chunk.pause
    BY <1>1, <1>4 DEF RoomInv, PauseWords
  <2> HIDE DEF k
  <2>3. k * PageLen \in Nat /\ k * PageLen >= 1
    BY <2>1, Positive, Consts
  <2>4. fw.since < k * PageLen /\ Held <= fw.since
    BY <1>2, <1>4, <2>2, <2>3 DEF AtPause, RoomInv, HeldInv
  <2>5. Len(queue) * PageLen < k * PageLen
    BY <1>2, <2>3, <2>4 DEF Held
  <2>6. Len(queue) < k
    BY <1>2, <2>1, <2>5, TimesLess, Consts
  <2> QED BY <1>2, <2>1, <2>6
<1> QED BY <1>1, <1>3, <1>4

LEMMA SendPageRoom == ASSUME IInv, RoomInv, SendPage PROVE RoomInv'
<1> DEFINE n == Min2(PageLen, 1 + fw.last - fw.at)
           page == [from |-> fw.at, len |-> n]
<1>1. UNCHANGED <<pc, mode, numBuff, chunk, toCollect, nextPause, runBit, regs>>
  BY DEF SendPage, host
<1>2. /\ fw \in [on : BOOLEAN, at : Nat, last : Nat, since : Nat, paused : BOOLEAN]
      /\ Sends /\ fw.on /\ fw.at <= fw.last /\ ~AtPause
      /\ fw.at \in Nat /\ fw.last \in Nat /\ fw.since \in Nat /\ regs.pause \in Nat
      /\ queue \in Seq(Pages) /\ Len(queue) \in Nat
      /\ chunk.start \in Nat /\ chunk.pause \in Nat /\ toCollect \in Nat /\ nextPause \in Nat
  BY Plain, Consts DEF SendPage, Sends, FirmwareTypes
<1>3. n \in Nat /\ (fw.at + n <= fw.last => n = PageLen)
  BY <1>2, Consts DEF Min2
<1>4. page \in Pages
  BY <1>2, <1>3 DEF Pages
<1>5. /\ fw'.on = fw.on /\ fw'.last = fw.last /\ fw'.at = fw.at + n /\ fw'.since = fw.since + n
  <2>1. fw' = [fw EXCEPT !.at = @ + n, !.since = @ + n]
    BY DEF SendPage
  <2> HIDE DEF n
  <2> QED BY <1>2, <2>1
<1>6. \/ queue' = Append(queue, page) /\ noRoom' = noRoom
      \/ queue' = queue /\ noRoom' = noRoom
      \/ /\ Len(queue) = Min2(numBuff, QueueMax) /\ queue' = queue
         /\ noRoom' = (noRoom \/ pc \in {"loop", "query", "low", "high", "collect"})
  BY DEF SendPage
<1> HIDE DEF n, page
<1>7. Held \in Nat /\ Held' \in Nat /\ Held' <= Held + PageLen
  <2>1. CASE queue' = Append(queue, page)
    <3>1. Len(queue') = Len(queue) + 1
      BY <1>2, <1>4, <2>1, AppendProperties
    <3> QED BY <1>2, <3>1, TimesNext, Consts DEF Held
  <2>2. CASE queue' = queue
    BY <1>2, <2>2, HeldNat, Consts DEF Held
  <2> QED BY <1>6, <2>1, <2>2
<1>8. RoomForAll'
  <2>1. CASE noRoom' = noRoom
    BY <1>1, <2>1 DEF RoomInv, RoomForAll
  <2>2. CASE /\ Len(queue) = Min2(numBuff, QueueMax)
             /\ noRoom' = (noRoom \/ pc \in {"loop", "query", "low", "high", "collect"})
    <3>1. pc \in {"loop", "query", "low", "high", "collect"} => mode = "whole"
      BY <1>2, <2>2, NotFull DEF Reading
    <3> QED BY <1>1, <2>2, <3>1 DEF RoomInv, RoomForAll
  <2> QED BY <1>6, <2>1, <2>2
<1>9. HeldInv'
  <2> SUFFICES ASSUME pc \in Reading \cup {"arm"}, fw.at + n <= fw.last
               PROVE  /\ chunk.start + Held' <= fw.at + n
                      /\ mode = "flow" =>
                            /\ Held' <= fw.since + n /\ fw.since + n < chunk.pause + PageLen
                            /\ nextPause > 0 =>
                                  /\ toCollect <= nextPause + chunk.pause
                                  /\ Held' + nextPause + chunk.pause <= (fw.since + n) + toCollect
    BY <1>1, <1>5 DEF HeldInv
  <2>1. n = PageLen
    BY <1>3
  <2>2. /\ chunk.start + Held <= fw.at
        /\ mode = "flow" =>
              /\ Held <= fw.since
              /\ nextPause > 0 =>
                    /\ toCollect <= nextPause + chunk.pause
                    /\ Held + nextPause + chunk.pause <= fw.since + toCollect
    BY <1>2 DEF RoomInv, HeldInv
  <2>3. mode = "flow" => fw.since < chunk.pause
    <3> SUFFICES ASSUME mode = "flow" PROVE fw.since < chunk.pause
      OBVIOUS
    <3>1. pc \in Working /\ regs.pause = chunk.pause /\ chunk.pause = PauseWords(numBuff)
      BY DEF RoomInv, Working, Reading
    <3>2. numBuff \in 3..BuffStart
      BY DEF IInv, Types, TypeOK
    <3>3. PauseWords(numBuff) >= 1
      <4> DEFINE k == IF numBuff > FlowPages THEN FlowPages ELSE numBuff \div 2
      <4>1. k \in Nat /\ k >= 1
        BY <3>2, Consts
      <4> HIDE DEF k
      <4>2. k * PageLen >= 1
        BY <4>1, Positive, Consts
      <4> QED BY <4>2 DEF PauseWords, k
    <3> QED BY <1>2, <3>1, <3>3 DEF AtPause
  <2>4. chunk.start + Held' <= fw.at + n
    BY <1>2, <1>7, <2>1, <2>2, Consts
  <2>5. ASSUME mode = "flow"
        PROVE  /\ Held' <= fw.since + n /\ fw.since + n < chunk.pause + PageLen
               /\ nextPause > 0 =>
                     /\ toCollect <= nextPause + chunk.pause
                     /\ Held' + nextPause + chunk.pause <= (fw.since + n) + toCollect
    <3>1. /\ Held <= fw.since /\ fw.since < chunk.pause
          /\ nextPause > 0 =>
                /\ toCollect <= nextPause + chunk.pause
                /\ Held + nextPause + chunk.pause <= fw.since + toCollect
      BY <2>2, <2>3, <2>5
    <3>2. Held' <= fw.since + n /\ fw.since + n < chunk.pause + PageLen
      BY <1>2, <1>7, <2>1, <3>1, Consts
    <3>3. ASSUME nextPause > 0
          PROVE  /\ toCollect <= nextPause + chunk.pause
                 /\ Held' + nextPause + chunk.pause <= (fw.since + n) + toCollect
      <4>1. /\ toCollect <= nextPause + chunk.pause
            /\ Held + nextPause + chunk.pause <= fw.since + toCollect
        BY <3>1, <3>3
      <4> QED BY <1>2, <1>7, <2>1, <4>1, OnePageMore, Consts
    <3> QED BY <3>2, <3>3
  <2> QED BY <2>4, <2>5
<1>10. ChunkWords(numBuff)' = ChunkWords(numBuff) /\ PauseWords(numBuff)' = PauseWords(numBuff)
  BY <1>1
<1> QED BY <1>1, <1>8, <1>9, <1>10 DEF RoomInv

LEMMA RoomStep == IInv /\ RoomInv /\ [Next]_vars => RoomInv'
<1> SUFFICES ASSUME IInv, RoomInv, [Next]_vars PROVE RoomInv'
  OBVIOUS
<1>1. CASE Call
  BY <1>1, CallRoom
<1>2. CASE HostStep
  BY <1>2, StopAndCheckRoom, AllocateRoom, SetupRoom, StartStreamRoom, ArmRoom, LoopRoom,
     ContinueLowRoom, ContinueHighRoom, QueryRoom, CollectRoom, ChunkDoneRoom DEF HostStep
<1>3. CASE DeviceStep
  BY <1>3, SendPageRoom, PauseHereRoom DEF DeviceStep
<1>4. CASE UNCHANGED vars
  <2>1. UNCHANGED <<pc, mode, numBuff, chunk, toCollect, nextPause, runBit, regs, fw, queue, noRoom>>
    BY <1>4 DEF vars, host, device
  <2>2. ChunkWords(numBuff)' = ChunkWords(numBuff) /\ PauseWords(numBuff)' = PauseWords(numBuff)
    BY <2>1
  <2>3. HeldInv'
    BY <2>1 DEF RoomInv, HeldInv, Held
  <2> QED BY <2>1, <2>2, <2>3 DEF RoomInv, RoomForAll
<1> QED BY <1>1, <1>2, <1>3, <1>4 DEF Next

(* With pauses or in chunks no page is lost for want of a buffer, for every  *)
(* number and size of the buffers, of the pages between two pauses and of    *)
(* the tries, and however late the host collects.                            *)
THEOREM RoomForAllAlways == Spec => []RoomForAll
<1>1. Init => RoomInv
  BY DEF Init, RoomInv, HeldInv, RoomForAll, Working, Reading
<1>2. RoomInv => RoomForAll
  BY DEF RoomInv
<1> QED BY <1>1, <1>2, RoomStep, ReadInvariant, PTL DEF Spec
=============================================================================
