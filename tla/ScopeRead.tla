----------------------------- MODULE ScopeRead -----------------------------
(***************************************************************************)
(* The read-out of the scope memory of an ADQ14 card: ngpd_dma_read_scope   *)
(* and ngpd_dma_read_scope_chunk in lib/ngpd_adq14_dma.c.  The host sets a   *)
(* region in the registers, starts the streaming of the digitiser, raises    *)
(* the run bit and collects pages until it has counted all of the region.    *)
(* The firmware that reads the memory and the vendor's streaming library     *)
(* (the ADQ calls) are external.  Addresses count 512-bit words.            *)
(***************************************************************************)
EXTENDS Naturals, Sequences, FiniteSets

CONSTANTS
    First, Last, \* scope_first_addr, scope_last_addr of the path
    PageLen,     \* words in a transfer buffer: NGPD_MAX_BUFFER/64
    BuffStart,   \* transfer buffers asked for first: 64
    QueueMax,    \* transfers the library can have queued: 32
    FlowPages,   \* pages between two pauses if there are enough buffers: 30
    MaxTries,    \* tries of a chunk: 5
    Requests,    \* pairs <<scope_start, scope_num512>> a caller may ask for
    MaxCalls,    \* bound: calls of ngpd_dma_read_scope
    MaxFaults    \* bound: accesses that fail and transfers that stall

ASSUME ReadAssumption ==
    /\ First \in Nat \ {0} /\ Last \in Nat /\ First <= Last
    /\ PageLen \in Nat \ {0} /\ BuffStart \in Nat /\ BuffStart > 2
    /\ QueueMax \in Nat \ {0} /\ FlowPages \in 1..QueueMax
    /\ MaxTries \in Nat \ {0} /\ Requests \subseteq Nat \X Nat
    /\ MaxCalls \in Nat /\ MaxFaults \in Nat

VARIABLES
    pc,        \* where the host is
    mode,      \* options of the call: "flow", "whole" (NO_CHUNK), "chunks"
    asked,     \* first address and number of words of the call
    numBuff,   \* num_buff: transfer buffers allocated
    chunk,     \* the chunk being read: start, num, pause, tries so far
    dst,       \* where the next word goes in the scope module
    toCollect, \* samples_to_collect
    nextPause, \* next_pause
    filled,    \* pages still to be taken of buffers_filled
    runBit,    \* NGPD_DP_RUN_SCOPE_OUTPUT of NGPD_DATA_PATH
    contBit,   \* NGPD_SCOPE_SKIP_CONTINUE of NGPD_SCOPEOUT_SKIP
    regs,      \* SCOPEOUT_FIRST_ADDR, _LAST_ADDR and _PAUSE_WORDS
    fw,        \* the firmware that streams the region out
    streaming, \* the digitiser is streaming
    queue,     \* pages filled and not yet collected
    overflow,  \* ADQ_GetStreamOverflow
    mod,       \* scope module: the address each word was read from, 0 if none
    result,    \* what the last call returned: "none" while it runs
    noRoom,    \* a page was lost because every buffer was full (history)
    noEdge,    \* the run bit was up already when it was raised (history)
    calls, faults

host   == <<mode, asked, numBuff, chunk, dst, toCollect, nextPause, filled>>
device == <<runBit, contBit, regs, fw, streaming, queue, overflow>>
bounds == <<calls, faults>>
vars   == <<pc, host, device, mod, result, noRoom, noEdge, bounds>>

Min2(a, b) == IF a < b THEN a ELSE b
Size       == 1 + Last - First
Top        == 2 * Last + PageLen
Asked      == asked.start .. (asked.start + asked.num - 1)
Idle       == [on |-> FALSE, at |-> 0, last |-> 0, since |-> 0, paused |-> FALSE]
MaxPause   == FlowPages * PageLen
Modes      == {"flow", "whole", "chunks"}

(* num_buff is halved until the allocation succeeds, down to more than 2.   *)
BuffCounts == {n \in 3..BuffStart : \E k \in 0..BuffStart : n = BuffStart \div 2^k}

(* What the buffers of one chunk hold, n of them having been allocated.     *)
ChunkWords(n) == Min2(n, QueueMax) * PageLen

TypeOK ==
    /\ pc \in {"idle", "stop", "alloc", "setup", "stream", "arm", "loop",
               "query", "low", "high", "collect", "done"}
    /\ mode \in Modes /\ asked \in [start : Nat, num : Nat]
    /\ numBuff \in 3..BuffStart
    /\ chunk \in [start : 0..Top, num : 0..Top, pause : 0..MaxPause,
                  tries : 0..MaxTries]
    /\ dst \in 0..Top /\ toCollect \in 0..Top /\ nextPause \in 0..Top
    /\ filled \in 0..QueueMax
    /\ {runBit, contBit, streaming, overflow, noRoom, noEdge} \subseteq BOOLEAN
    /\ Len(queue) <= Min2(numBuff, QueueMax)
    /\ mod \in [First..Top -> 0..Top]
    /\ result \in {"none", "ok", "error", "overrun"}

Init ==
    /\ pc = "idle" /\ mode = "chunks" /\ asked = [start |-> First, num |-> 0]
    /\ numBuff = BuffStart
    /\ chunk = [start |-> First, num |-> 0, pause |-> 0, tries |-> 0]
    /\ dst = First /\ toCollect = 0 /\ nextPause = 0 /\ filled = 0
    /\ runBit = FALSE /\ contBit = FALSE
    /\ regs = [first |-> 0, last |-> 0, pause |-> 0]
    /\ fw = Idle /\ streaming = FALSE /\ queue = <<>> /\ overflow = FALSE
    /\ mod = [a \in First..Top |-> 0] /\ result = "ok"
    /\ noRoom = FALSE /\ noEdge = FALSE
    /\ calls = 0 /\ faults = 0
-----------------------------------------------------------------------------
Fault   == faults < MaxFaults /\ faults' = faults + 1 /\ UNCHANGED calls
NoFault == UNCHANGED bounds

Return(r) == pc' = "idle" /\ result' = r

(* NGPD_DATA_PATH is written.  The firmware starts on the rising edge of the *)
(* run bit, with the region it then finds in its registers.                  *)
WriteRun(on) ==
    /\ runBit' = on
    /\ fw' = CASE on /\ ~runBit -> [on |-> TRUE, at |-> regs.first, last |-> regs.last,
                                    since |-> 0, paused |-> FALSE]
               [] on /\ runBit  -> fw
               [] ~on           -> Idle

(* A write that is reported failed may have been made or not.               *)
WriteRunFails(on) ==
    /\ WriteRun(on) \/ UNCHANGED <<runBit, fw>>
    /\ Fault

(* NGPD_SCOPEOUT_SKIP is written with CONTINUE low or high: the rising edge  *)
(* lets a paused firmware go on.                                             *)
WriteContinue(on) ==
    /\ contBit' = on
    /\ fw' = IF on /\ ~contBit /\ fw.paused THEN [fw EXCEPT !.paused = FALSE, !.since = 0]
             ELSE fw

(* Clearing the run bit at the end of a chunk: the result is not looked at.  *)
ClearRun ==
    \/ WriteRun(FALSE) /\ UNCHANGED bounds
    \/ WriteRunFails(FALSE)

(* So it is at the label error, where it comes on top of another failure.    *)
ClearRunToo == Fault /\ (WriteRun(FALSE) \/ UNCHANGED <<runBit, fw>>)

(* What a chunk that returns rc leads to: in chunks it is tried again, and   *)
(* the next one follows when it is good; otherwise the call returns rc.      *)
ChunkReturns(rc) ==
    LET left == asked.start + asked.num - (chunk.start + chunk.num)
        next == [start |-> chunk.start + chunk.num, pause |-> 0, tries |-> 0,
                 num |-> Min2(left, ChunkWords(numBuff))]
    IN  \/ /\ mode = "chunks" /\ rc # "ok" /\ chunk.tries + 1 < MaxTries
           /\ chunk' = [chunk EXCEPT !.tries = @ + 1]
           /\ pc' = "setup" /\ UNCHANGED result
        \/ /\ mode = "chunks" /\ rc = "ok" /\ left > 0
           /\ chunk' = next
           /\ pc' = "setup" /\ UNCHANGED result
        \/ /\ \/ mode # "chunks"
              \/ rc # "ok" /\ chunk.tries + 1 >= MaxTries
              \/ rc = "ok" /\ left = 0
           /\ Return(rc) /\ UNCHANGED chunk

(* The label error of the chunk, and the overflow exit: the run bit is       *)
(* cleared, whatever comes of it, and the streaming stopped.                 *)
Abort(rc) ==
    /\ streaming' = FALSE
    /\ ChunkReturns(rc)
-----------------------------------------------------------------------------
(* ngpd_dma_read_scope: the run bit is cleared before anything else.  The    *)
(* start and number default to all of the buffer.                            *)
Call ==
    /\ pc = "idle" /\ calls < MaxCalls
    /\ \E q \in Requests, m \in Modes :
        /\ asked' = [start |-> IF q[1] = 0 THEN First ELSE q[1],
                     num   |-> IF q[2] = 0 THEN Size ELSE q[2]]
        /\ mode' = m
    /\ mod' = [a \in First..Top |-> 0]
    /\ noRoom' = FALSE
    /\ calls' = calls + 1
    /\ \/ /\ WriteRun(FALSE)
          /\ pc' = "stop" /\ result' = "none"
          /\ UNCHANGED faults
       \/ /\ faults < MaxFaults /\ faults' = faults + 1
          /\ WriteRun(FALSE) \/ UNCHANGED <<runBit, fw>>
          /\ Return("error")
    /\ UNCHANGED <<numBuff, chunk, dst, toCollect, nextPause, filled, contBit, regs,
                   streaming, queue, overflow, noEdge>>

(* The streaming is stopped and the request is compared with the buffer.  It *)
(* is not checked that the last word asked for lies inside it.               *)
StopAndCheck ==
    /\ pc = "stop"
    /\ \/ Fault /\ Return("error") /\ streaming' \in {streaming, FALSE}
       \/ /\ asked.start \notin First..Last \/ asked.num > Size
          /\ Return("error") /\ streaming' = FALSE /\ NoFault
       \/ /\ asked.start \in First..Last /\ asked.num <= Size
          /\ pc' = "alloc" /\ streaming' = FALSE /\ NoFault /\ UNCHANGED result
    /\ UNCHANGED <<host, runBit, contBit, regs, fw, queue, overflow, mod, noRoom, noEdge>>

(* Mutant of PauseWords: the pause is the same however few buffers there are. *)
PauseWordsFixed(n) == FlowPages * PageLen

(* pause512words                                                             *)
PauseWords(n) == (IF n > FlowPages THEN FlowPages ELSE n \div 2) * PageLen

(* Mutant of FirstChunk: the last chunk is not cut to what is left.          *)
FirstChunkUncut(n) ==
    [start |-> asked.start, tries |-> 0,
     pause |-> IF mode = "flow" THEN PauseWords(n) ELSE 0,
     num   |-> IF mode = "chunks" THEN ChunkWords(n) ELSE asked.num]

(* What the first chunk covers, with n buffers.                              *)
FirstChunk(n) ==
    [start |-> asked.start, tries |-> 0,
     pause |-> IF mode = "flow" THEN PauseWords(n) ELSE 0,
     num   |-> IF mode = "chunks" THEN Min2(asked.num, ChunkWords(n))
               ELSE asked.num]

(* ADQ_SetTransferBuffers, with half as many buffers each time it fails.     *)
Allocate ==
    /\ pc = "alloc"
    /\ \/ Fault /\ Return("error") /\ UNCHANGED <<numBuff, chunk, queue>>
       \/ \E n \in BuffCounts :
            /\ numBuff' = n /\ chunk' = FirstChunk(n) /\ queue' = <<>>
            /\ pc' = "setup" /\ NoFault /\ UNCHANGED result
    /\ UNCHANGED <<mode, asked, dst, toCollect, nextPause, filled, runBit, contBit, regs,
                   fw, streaming, overflow, mod, noRoom, noEdge>>
-----------------------------------------------------------------------------
(* ngpd_dma_read_scope_chunk writes the region, the pause and SKIP, in which *)
(* CONTINUE is low.  The firmware reads them at the next edge of the run     *)
(* bit, before which a later try writes them all again: a write that fails   *)
(* is modelled with none of them made.                                       *)
Setup ==
    /\ pc = "setup"
    /\ \/ /\ regs' = [first |-> chunk.start, last |-> chunk.start + chunk.num - 1,
                      pause |-> chunk.pause]
          /\ WriteContinue(FALSE)
          /\ pc' = "stream" /\ NoFault /\ UNCHANGED <<chunk, result>>
       \/ /\ Fault /\ ChunkReturns("error")
          /\ UNCHANGED <<regs, contBit, fw>>
    /\ UNCHANGED <<mode, asked, numBuff, dst, toCollect, nextPause, filled, runBit,
                   streaming, queue, overflow, mod, noRoom, noEdge>>

(* Stop, then start of the streaming: what was queued is gone.  A failure    *)
(* goes to the label error.                                                  *)
StartStream ==
    /\ pc = "stream"
    /\ \/ /\ streaming' = TRUE /\ queue' = <<>> /\ overflow' = FALSE
          /\ pc' = "arm" /\ NoFault /\ UNCHANGED <<chunk, result, runBit, fw>>
       \/ /\ ClearRunToo /\ Abort("error")
          /\ UNCHANGED <<queue, overflow>>
    /\ UNCHANGED <<mode, asked, numBuff, dst, toCollect, nextPause, filled, contBit,
                   regs, mod, noRoom, noEdge>>

NextPause(left) == IF chunk.pause # 0 /\ chunk.pause < left THEN left - chunk.pause ELSE 0

(* Mutant of Arm: a chunk that is tried again goes on where it stopped.      *)
ArmKeepsPlace ==
    /\ pc = "arm"
    /\ \/ /\ WriteRun(TRUE)
          /\ dst' = (IF chunk.tries = 0 THEN chunk.start ELSE dst) /\ toCollect' = chunk.num
          /\ nextPause' = NextPause(chunk.num)
          /\ noEdge' = runBit
          /\ pc' = "loop" /\ NoFault /\ UNCHANGED <<chunk, result>>
       \/ /\ WriteRunFails(TRUE) /\ ChunkReturns("error")
          /\ UNCHANGED <<dst, toCollect, nextPause, noEdge>>
    /\ UNCHANGED <<mode, asked, numBuff, filled, contBit, regs, streaming, queue, overflow,
                   mod, noRoom>>

(* The run bit is raised.  If that fails the chunk returns at once, with     *)
(* the streaming left on.                                                    *)
Arm ==
    /\ pc = "arm"
    /\ \/ /\ WriteRun(TRUE)
          /\ dst' = chunk.start /\ toCollect' = chunk.num
          /\ nextPause' = NextPause(chunk.num)
          /\ noEdge' = runBit
          /\ pc' = "loop" /\ NoFault /\ UNCHANGED <<chunk, result>>
       \/ /\ WriteRunFails(TRUE) /\ ChunkReturns("error")
          /\ UNCHANGED <<dst, toCollect, nextPause, noEdge>>
    /\ UNCHANGED <<mode, asked, numBuff, filled, contBit, regs, streaming, queue, overflow,
                   mod, noRoom>>

(* Mutant of Loop: the status is read on every turn.                         *)
LoopEager ==
    /\ pc = "loop" /\ toCollect > 0
    /\ \/ pc' = (IF fw.paused THEN "low" ELSE "query") /\ NoFault /\ UNCHANGED <<chunk, result>>
       \/ toCollect <= nextPause /\ Fault /\ ChunkReturns("error")
    /\ UNCHANGED <<mode, asked, numBuff, dst, toCollect, nextPause, filled, device, mod,
                   noRoom, noEdge>>

(* Once what precedes the next pause is collected, the status is read; a     *)
(* failure returns without stopping anything.                                *)
Loop ==
    /\ pc = "loop" /\ toCollect > 0
    /\ \/ toCollect > nextPause /\ pc' = "query" /\ NoFault /\ UNCHANGED <<chunk, result>>
       \/ /\ toCollect <= nextPause
          /\ pc' = (IF fw.paused THEN "low" ELSE "query") /\ NoFault /\ UNCHANGED <<chunk, result>>
       \/ toCollect <= nextPause /\ Fault /\ ChunkReturns("error")
    /\ UNCHANGED <<mode, asked, numBuff, dst, toCollect, nextPause, filled, device, mod,
                   noRoom, noEdge>>

(* Mutant of ContinueLow: CONTINUE is not taken low first.                   *)
ContinueLowSkipped ==
    /\ pc = "low"
    /\ pc' = "high"
    /\ UNCHANGED <<host, device, mod, result, noRoom, noEdge, bounds>>

(* CONTINUE is taken low and then high; a failure of either returns as above. *)
ContinueLow ==
    /\ pc = "low"
    /\ \/ WriteContinue(FALSE) /\ pc' = "high" /\ NoFault /\ UNCHANGED <<chunk, result>>
       \/ Fault /\ ChunkReturns("error") /\ UNCHANGED <<contBit, fw>>
    /\ UNCHANGED <<mode, asked, numBuff, dst, toCollect, nextPause, filled, runBit, regs,
                   streaming, queue, overflow, mod, noRoom, noEdge>>

ContinueHigh ==
    /\ pc = "high"
    /\ \/ /\ WriteContinue(TRUE) /\ nextPause' = NextPause(toCollect)
          /\ pc' = "query" /\ NoFault /\ UNCHANGED <<chunk, result>>
       \/ /\ Fault /\ ChunkReturns("error") /\ UNCHANGED nextPause
          /\ WriteContinue(TRUE) \/ UNCHANGED <<contBit, fw>>
    /\ UNCHANGED <<mode, asked, numBuff, dst, toCollect, filled, runBit, regs, streaming,
                   queue, overflow, mod, noRoom, noEdge>>

(* ADQ_GetTransferBufferStatus counts the pages that are ready.              *)
Query ==
    /\ pc = "query"
    /\ \/ /\ filled' = Len(queue)
          /\ pc' = (IF queue = <<>> THEN "loop" ELSE "collect")
          /\ NoFault /\ UNCHANGED <<chunk, result, runBit, fw, streaming>>
       \/ ClearRunToo /\ Abort("error") /\ UNCHANGED filled
    /\ UNCHANGED <<mode, asked, numBuff, dst, toCollect, nextPause, contBit, regs, queue,
                   overflow, mod, noRoom, noEdge>>

(* Mutant of WordsInBuffer: every page is taken to be full.                  *)
WordsInBufferFull == PageLen

(* samples_in_buffer                                                         *)
WordsInBuffer == Min2(PageLen, toCollect)

Word(page, i) == IF i < page.len THEN page.from + i ELSE 0

(* One page is taken off the queue.  The overflow flag is looked at first,   *)
(* then whether the page was collected; then at most what is left of the     *)
(* region is copied.                                                         *)
Collect ==
    /\ pc = "collect"
    /\ queue' = Tail(queue)
    /\ \/ /\ ~overflow
          /\ LET n == WordsInBuffer
             IN  /\ mod' = [a \in DOMAIN mod |-> IF a \in dst..(dst + n - 1)
                                                 THEN Word(Head(queue), a - dst) ELSE mod[a]]
                 /\ dst' = dst + n /\ toCollect' = toCollect - n
          /\ filled' = filled - 1
          /\ pc' = (IF filled > 1 THEN "collect" ELSE IF toCollect' = 0 THEN "done" ELSE "loop")
          /\ NoFault /\ UNCHANGED <<chunk, result, runBit, fw, streaming>>
       \/ /\ overflow /\ ClearRun /\ Abort("overrun")
          /\ filled' = 0 /\ UNCHANGED <<mod, dst, toCollect>>
       \/ /\ ~overflow /\ ClearRunToo /\ Abort("error")
          /\ filled' = 0 /\ UNCHANGED <<mod, dst, toCollect>>
    /\ UNCHANGED <<mode, asked, numBuff, nextPause, contBit, regs, overflow, noRoom, noEdge>>

(* All of the chunk is there: the run bit is cleared and the streaming       *)
(* stopped, which may fail.                                                  *)
ChunkDone ==
    /\ pc = "done"
    /\ \/ ClearRun /\ Abort("ok")
       \/ ClearRunToo /\ Abort("error")
    /\ UNCHANGED <<mode, asked, numBuff, dst, toCollect, nextPause, filled, contBit, regs,
                   queue, overflow, mod, noRoom, noEdge>>

HostStep ==
    \/ StopAndCheck \/ Allocate \/ Setup \/ StartStream \/ Arm \/ Loop \/ ContinueLow
    \/ ContinueHigh \/ Query \/ Collect \/ ChunkDone
-----------------------------------------------------------------------------
(* External.  The firmware reads the region page by page; the last page may  *)
(* be short.  A page that finds no buffer is lost and the overflow flag set; *)
(* so is one that a busy bus holds up for too long.                          *)
AtPause == fw.on /\ regs.pause # 0 /\ fw.since >= regs.pause
Sends   == fw.on /\ fw.at <= fw.last /\ ~AtPause

SendPage ==
    /\ Sends
    /\ LET n    == Min2(PageLen, 1 + fw.last - fw.at)
           full == Len(queue) = Min2(numBuff, QueueMax)
       IN  /\ fw' = [fw EXCEPT !.at = @ + n, !.since = @ + n]
           /\ \/ /\ streaming /\ ~full
                 /\ queue' = Append(queue, [from |-> fw.at, len |-> n])
                 /\ UNCHANGED <<overflow, noRoom, bounds>>
              \/ /\ streaming /\ full
                 /\ overflow' = TRUE
                 /\ noRoom' = (noRoom \/ pc \in {"loop", "query", "low", "high", "collect"})
                 /\ UNCHANGED <<queue, bounds>>
              \/ streaming /\ ~full /\ Fault /\ overflow' = TRUE /\ UNCHANGED <<queue, noRoom>>
              \/ ~streaming /\ UNCHANGED <<queue, overflow, noRoom, bounds>>
    /\ UNCHANGED <<pc, host, runBit, contBit, regs, streaming, mod, result, noEdge>>

PauseHere ==
    /\ AtPause /\ ~fw.paused /\ fw.at <= fw.last
    /\ fw' = [fw EXCEPT !.paused = TRUE]
    /\ UNCHANGED <<pc, host, runBit, contBit, regs, streaming, queue, overflow, mod, result,
                   noRoom, noEdge, bounds>>

DeviceStep == SendPage \/ PauseHere

Next == Call \/ HostStep \/ DeviceStep

Spec == Init /\ [][Next]_vars

(* The host does not stop in a call, nor the firmware in a region; nobody    *)
(* has to call.                                                              *)
FairSpec == Spec /\ WF_vars(HostStep) /\ WF_vars(DeviceStep)
-----------------------------------------------------------------------------
(* A call that returns 0 has put every word of the region it was asked for,  *)
(* and of this read-out, in its own place of the scope module: across the    *)
(* chunks, their retries after an overflow or an error, and the pauses.      *)
Delivered == result = "ok" /\ calls > 0 => \A a \in Asked : mod[a] = a

(* Nothing outside the region asked for is written.                          *)
InRegion == \A a \in DOMAIN mod : mod[a] # 0 => a \in Asked

(* With pauses or in chunks no page is ever lost for want of a buffer,       *)
(* however late the host collects: what the firmware may send before the     *)
(* host has to act fits in the buffers there are.                            *)
RoomForAll == noRoom => mode = "whole"

(* A call returns, whatever fails, but for two cases the loop, which has no  *)
(* timeout, has no way out of.  The run bit was up when it was raised, for   *)
(* clearing it had failed unseen, so that the firmware did not start.  Or    *)
(* all that was left before a pause or the end was lost in an overflow: its  *)
(* flag is only looked at with another page in hand.                         *)
LostUnseen == overflow /\ queue = <<>> /\ ~Sends
Returns == (pc # "idle") ~> (pc = "idle" \/ noEdge \/ LostUnseen)
=============================================================================
