# A formal model of NGPD: command protocol, command server, driver, DMA, scope read-out

NGPD reads out germanium detectors. This directory holds TLA+ modules for the parts of
it in which several actors meet, TLC configurations that check them on small instances, and
proofs, checked by TLAPS, of properties of the command protocol, of the command server, of
the driver's descriptors, use count and locks, of both scope read-outs and of the scope module
for all instances.
Paths below are relative to `src/`.

    tlc -workers 2 -config CmdLink_safe.cfg MCCmdLink     # one of the runs of PROJECT.json
    tlapm ScopeRead_proofs.tla                            # one of the eight modules of proofs

## 1. The system

    detector control (Python adapter, control/src/ngpd)      da_server commands
                         \                                       /
                     host library  (ngpd_lib/lib, ngzmp_* and ngpd_*)
                         |                                      \
         libzynqmp (zynqmp_api.c)                               vendor library -> ADQ14 digitiser
                         |  TCP: command protocol
         command server on the Zynq board (zynqmp/server/commandProcessor.c)
                         |  /dev/ngpd
         card library (zynqmp/lib/ngzmp_lib.c) and programs on the card
                         |  ioctl, mmap
         kernel driver (zynqmp/driver5.4) -> AXI DMA engines, registers, firmware

### Components

**Command protocol, client library** (`ngpd_lib/libzynqmp/zynqmp_api.c`).
*State*: a handle with a mutex, the socket and a transaction buffer; per call the number of
operations still to send and still to acknowledge, the unsent part of the current request,
`final_rc`. *Operations*: write, read, interleaved read, read-modify-write, clearing memory,
personality (device specific) read and write, reading a region of rows. Each cuts its access into chunks and posts
them: it sends request after request and reads answers only when everything is sent or a
non-blocking send would block. *Hard*: two bounded byte streams with both ends sending;
messages split anywhere; failures in the middle of what was posted; answers matched to
requests by counting only. *Correct when* no call can wait for ever on a live server, an
answer is always compared with its own request, a call leaves nothing behind in the streams,
and what it returns is what happened.

**Command server** (`zynqmp/server/commandProcessor.c`).
*State*: the select sets, the number of clients, and `state[]`, an entry per connection
(how far its packet is read, header, payload buffer and the size it is believed to have),
indexed by descriptor less one. *Operations*: accept or refuse, read a part of a header or
payload, validate, execute, answer, disconnect. *Interactions*: TCP with the clients, the
driver and personality module below. *Hard*: packets of several clients arriving in pieces
at the same time, disconnects at any point, descriptors used again, buffers that grow and
shrink, one thread for everybody. *Correct when* no connection ever sees bytes or answers
of another, the tables agree with each other, and all clients are served.

**DMA driver** (`zynqmp/driver5.4/dma_control.c`, set up by `ngpd_dma.c`).
*State*: for each stream a ring of descriptors, how many are defined, the message they were
built for, flags; the engine's registers. *Operations*: reset, build, start, stop, check,
status, serialised by a semaphore. *Hard*: the engines run by themselves, between and
beside the commands; a build does not look at the engine; an equal build message only clears
the statuses. *Correct when* rings are not rewritten under a running engine and the
descriptors cover what was asked for.

**Run control and scope wait** (`ngpd_lib/lib/ngzmp_dma.c`, called in order by `start_scope`
of `control/src/ngpd/ngpd.py`). *State*: `DATA_PATH`, `SCOPE_CONT`, the place in the start
sequence; below it the driver. *Hard*: any of a dozen remote commands can fail and leaves
the hardware as it is; the next start works from there. *Correct when* a run is only let
loose with every stream armed for it, and what is reported complete is that run's data.

**Histogram read by DMA** (`zynqmp/lib/ngzmp_lib.c`), a program on the card that uses one
stream by itself, while the host may reset all of them. *Correct when* a block that is
reported read is the one asked for, whole.

**Driver open, close, ioctl** (`zynqmp/driver5.4/open_close.c`, `ioctl.c`, `ngpd_dma.c`).
*State*: a use count, the semaphore every ioctl takes, a second one for the DMA commands, the
DMA buffers. *Operations*: the first open initialises semaphore, DMA state and memory; each
command takes the semaphore, interruptibly, and gives it back. *Hard*: the use count is
tested and changed without a lock, and the initialisation it decides on rewrites locks that
others may hold. *Correct when* one initialisation precedes all use and commands exclude
each other.

**ADQ14 scope read-out** (`ngpd_lib/lib/ngpd_adq14_dma.c`). *State*: the region and the part
of it in hand, the buffers that could be had, the sample counters; the run and continue bits of
the card; the vendor library's queue and overflow flag. *Operations*: a call reads a region as
one stream, as a stream the firmware pauses, or in chunks that are tried up to five times.
*Hard*: the firmware sends by itself; a handshake of pause and continue beside the transfer of
pages; overflows; error paths that leave the bit, the streaming or both as they are. *Correct
when* what a successful call leaves is the region, complete and in place.

**Scope module** (`ngpd_lib/lib/ngpd_scope_mode.c`): a copy of the card's scope memory, shared
by processes, with a valid bit per chunk, fetched group by group and marked invalid by a
start. *Hard*: nothing is locked; the layout, the valid bits, the recording and the fetches of
two processes change under each other. *Correct when* a chunk marked valid is what the card
holds, and a run that was waited for is what the module shows.

**Control adapter** (`ngpd_adapter.py`): requests from the web, of which `start_scope` is run
in an executor.

The rest - register and ADC access through the vendor library, clocks, I2C, SPI, monitors,
calibration, the data acquisition commands, conversions of playback, filter and histogram
data, start-up and configuration - is straight sequences of device accesses, arithmetic on
data, or parsing. PROJECT.json lists every part with the reason it is left out.

## 2. The modules

| module | models | source |
|---|---|---|
| `DeviceAccess` | what a connection promises: accesses one at a time, executed front to back inside their call, truthful results | abstract |
| `CmdLink` | one connection, both ends and the two streams | `zynqmp_api.c`, `commandProcessor.c` |
| `CmdLink_proofs` | for all functions of `CmdLink` type correctness, and both ends in step, at rest between calls and never blocked on each other while nothing was refused; for those that drain always | |
| `CmdLinkAccess_proofs` | that `CmdLink` implements `DeviceAccess`, and tells the truth | |
| `CmdServer` | the server with all its connections | `commandProcessor.c` |
| `CmdServer_proofs` | types, tables and buffers of `CmdServer`; its streams and what is answered | |
| `ZynqDma` | the driver's commands and the AXI DMA engines (no behaviour of its own: `ScopeRun` extends it) | `dma_control.c` |
| `ScopeRun` | the host's scope run and the card's histogram reader on top of `ZynqDma` | `ngzmp_dma.c`, `ngzmp_lib.c` |
| `DmaBuild` | how a build divides a region into descriptors | `zynqmp_dma_build_desc` |
| `ScopeRead` | the scope read-out of an ADQ14 card, with its firmware and library | `ngpd_adq14_dma.c` |
| `ScopeModule` | the scope module between the control process, a viewer and the card | `ngpd_scope_mode.c`, `ngzmp_dma.c`, `ngpd.py` |
| `CardDevice` | open, close and the locks around the driver's commands | `open_close.c`, `ioctl.c`, `ngpd_dma.c` |
| `CardDevice_proofs`, `DmaBuild_proofs`, `ScopeModule_proofs`, `ScopeRead_proofs`, `ScopeRun_proofs` | the theorems about these modules | |
| `MC...` | instances for TLC | |

Names are the code's where possible; operators marked "mutant" in a comment are wrong
versions of the definition below them, used to show that the properties are sensitive to it.

### CmdLink

`reqs` and `resps` are logs of all messages with the stream position of their first unit;
`upHead..upTail` and `dnHead..dnTail` are in flight. A header is `HdrLen` units and each
operation of a payload one; units are what can be split, so a header of two units stands for
any header. A client call is `Begin`, then `Encode` / `Transmit` / `WouldBlock` (the send
half of the code's loop), `RecvHeader` / `RecvPayload` (the receive half, ending in
`Advance`: where the code's loops go next), and `Return`. `Blocking` is the choice of
MSG_DONTWAIT. The access functions differ in how they treat an answer (`WriteAck`,
`ReadAck`, `MemzeroAck`, `SingleAck`), which is where their loops differ. The server is
`ReadRequestHeader`, `ReadRequestPayload`, `Execute`, `SendResponse`. `Close` lets the server
go away, in an orderly way ("eof") or not ("reset").

Abstracted: data, addresses and widths; the sequence number (written, never compared);
`commandHandler` is one step that accepts or fails. A request whose header is rejected is
dropped, and the server looks for the next header behind it, as the code does. After a
failed socket call the handle is "dead": the code returns errors from then on. Where a
header would be taken from the middle of a message, the model gives what the magic number
check gives: an error on the client's side, a dropped header on the server's.
`zynqmp_access_read_roi` reads rows with a loop of its own that differs from the one of `zynqmp_access_read`
in counting rows: `AccessReadRoi` is a read whose requests carry a row each (`op.most`). For rows longer
than a request the code calls `zynqmp_access_read` for each, as `AccessRead`. Connecting is not modelled.

### CmdServer

A unit carries its connection, request and place, so that a byte that ends up in the wrong
packet shows. One action is one turn of the body of the scan: `Accept`, `ReadHeader` (with
`Fresh`, the reset of the entry, and `AfterHeader`, validation and the buffer), `ReadPayload`,
`Answer`; `Select` chooses the ready set, `Disconnect` is part of the reads. The clients
connect, post without waiting, read or leave, with a FIN or a RST. Not modelled: an error of
`select`, a failing `malloc`, the timeout (disabled in the code), the direct bus.
An index beyond `state[]` is undefined behaviour of the code and is not followed: the model
gives every descriptor an entry, and `SlotInRange` asks whether the code has it.

### ZynqDma, ScopeRun, DmaBuild

A driver command is one step, since the driver holds `dma_sem` over it; the engine steps
(`Receive`, `Send`, `Halt`) are between them and follow the AXI DMA's documented behaviour as
the driver relies on it. A build message is the number of descriptors it asks for. `run` is a
history variable: which run's data a descriptor holds. The host is a program counter over
`ngzmp_system_start` (`StopSource` ... `SetRun`) and `ngzmp_dma_wait_scope` (`WaitScope`,
`PollDone`, `PollTimeout`); `HostError` is any command that fails. The reader is
`HistStopRequest` ... `HistDone`. One host caller with scope mode on is assumed, and that
the firmware feeds a stream exactly while its run or request bit is set.

What the code does not notice, the model does not either. A register write goes through
`zynqmp_access_write`, which returns 0 for a write the device refused (section 3): the checks behind the writes of
`DATA_PATH` (line 600) and `SCOPE_CONT` (724) never fire then, so `StopSource` may leave `dataPath` set and go on, and
`ScopeCont` may leave the card (`hwscope`) with another number of streams than is built (`nscope`). `DP_RUN` itself is
set by a read-modify-write (966), whose refusal is reported: that is `HostError`. The wait overwrites the result of
its read of `SCOPE_CONT` (1258, 1261), so `WaitScope` may cover any number of streams (`nwait`). `Unseen` is such a
failure, `unstopped` and `missed` remember it. Left out: a number read by the wait beyond the scope streams (another
stream is then polled as well), and refused writes of the registers of which nothing is modelled but that they are
written (frame times 635, playback 677, channel selection 732, numbers of words 783), which change what the firmware
sends and not the course of the start.

`DmaBuild` takes one turn of the build loop as a step: the segment of the buffer the offset
lies in, the block size and the frame rule bound a descriptor. It leaves out 10G_TO_DRAM,
which `config_memory` gives no buffer, and the lists that a build also prepares for readout.

### ScopeRead

The host is a program counter over `ngpd_dma_read_scope` (`Call`, `StopAndCheck`, `Allocate`)
and `ngpd_dma_read_scope_chunk` (`Setup` ... `ChunkDone`); `ChunkReturns` is what the caller
does with a chunk's result: try again, go on, or return. `mode` is the option of the call. The
firmware (`SendPage`, `PauseHere`) starts at the rising edge of the run bit with the region
in its registers, sends pages, and waits at a pause for a rising edge of CONTINUE. Both are
external: they are modelled from what the host writes and waits for. The library's queue takes as
many pages as there are buffers, at most `QueueMax`. `mod` holds, for each place of the scope module,
the address its word came from, so that a word in the wrong place, twice or missing shows. `Fault`
stands for an access that fails: a read, or a write that was made or not made all the same. Where the code
ignores a result so does the model: at the end of a chunk (`ClearRun`) and behind the label `error` (`ClearRunToo`).
Not modelled: the delay and print counters, the conversion of samples, the optional raw file.

### ScopeModule

Card memory and module are functions from half chunks to the run that wrote them. The control
process goes through `start_scope`: `StartScope`, `ScopeCont`, `SetStreams`, `ArmScope`, `MarkAll`,
`SetRun`, `WaitScope`, `WaitDone`, and then its own fetch. A fetch, of either process, is `Scan` over the valid
bits and `ReadStream` for each DMA stream of a group, since each is a separate remote access. `Record`
is the DMA. `ngpd_set_scope_options`, from elsewhere, writes the number of streams to the card (`SetOptions`) and
then its layout to the module, under the valid bits (`OptionsToModule`); an access of it may fail (`OptionsError`).
Register accesses fail unseen as in `ScopeRun` (`Unseen`). A layout with fewer streams,
set under a fetch, makes the code use a null pointer: `ReadLost` ends that process. Two history
variables say what a property leaves out: `disturbed` (somebody fetched between `mark_all` and the
end of the recording, or set options; the source could not be stopped; `SCOPE_CONT` was written or read wrongly
unseen) and `raced` (chunks marked valid by a fetch while they were recorded, or marked already when the layout of the
module changed). One card; transfers and memory accesses of one stream of one group are one step, and so is the
read and write back of `SCOPE_CONT` by `ngpd_set_scope_options`.

### CardDevice

A task is in one open, close or command at a time. The use count is loaded and stored in
two steps, and the initialisation between test and count is three (`SemaInit`, `DmaInit`,
`ConfigMemory`). The semaphore has a count and a first come, first served list, as the kernel's has; a signal
takes a sleeper out (`Interrupt`). Commands are those that return through `up` (`Register`), the one that
returns without it (`EmptyRow`), and the DMA commands, which take a second lock (`DmaDown`, `DmaUp`). What
commands do otherwise is in `ZynqDma`. `overlapped` and `leaked` are history variables: an open or
close has met another since the device was last closed by all; a command has kept the semaphore.

## 3. What the runs show

`CHECK_DEADLOCK FALSE` is in every configuration because calls, requests, connections, runs
or build steps are bounded, so that all behaviours end; where being stuck is a question it
is asked as a property (`NoDeadlock`, `CallReturns`, `AllAnswered`).

| run | shows |
|---|---|
| `CmdLink_safe` | `NoDeadlock`: client and server never block on each other. `CleanReturn`: a call leaves both streams empty and the server between requests, also after refused chunks. `InStepProp`: each answer taken is that of the oldest open request of this call, with the size it is compared with. `ResultTrue`: reads and single accesses return success exactly when everything was executed. `ImplementsAccess`: refinement of `DeviceAccess`. `CallReturns`: under fairness every call returns, unless the server closed in good order. `LinkInv`: the inductive invariant of the proofs. |
| `CmdLink_all` | with all eight functions and rejected headers: `CleanUnlessRefused`, a connection gets out of step only after something was dropped or refused; `FlowsUnlessRefused`, the two ends wait for each other only after that |
| `CmdLink_write` | violated: `zynqmp_access_write` returns 0 for a write that failed |
| `CmdLink_intl` | violated: the drain of `zynqmp_access_read_intl` leaves units in the stream |
| `CmdServer` | `OwnUnits`, `AnsweredInOrder`: connections get none of each other's bytes or answers; `TablesAgree`; `BufferHolds`: the remembered size of a payload buffer is its size |
| `CmdServer_live` | acceptable requests are answered whatever the others do |
| `CmdServer_slots` | violated: the second client's entry is beyond `state[]` |
| `ScopeRun` | `RunArmed`: data flows only into rings built and started for this run, except during a start that could not stop the last one and has not noticed; `FreshScope`: the streams a successful wait covered are complete, all of the run's unless `SCOPE_CONT` was written or read wrongly unseen; `FreshHist`: so is a histogram block reported read; `RingStableProp`, `InRing`: no ring is rewritten under its engine, whatever failed seen or unseen |
| `DmaBuild` | `ExactCover`, `FramesMarked`, `Refused`: descriptors cover the region once and in order, frames are marked at their ends, and a build fails only for lack of descriptors or buffer |
| `ScopeRead` | `Delivered`: a call that returns 0 has put every word of the region in its place, across chunks, retries and pauses; `InRegion`: nothing else is written; `RoomForAll`: with pauses or chunks no page is lost for want of a buffer, however slow the host; `Returns`: calls end, but for two cases the property names |
| `ScopeModule` | `ReadScopeFresh`: a start that waited and fetched, undisturbed, shows its own run; `MirrorUnlessRaced`: a chunk marked valid is what the card holds, whatever failed and whoever fetched, but for chunks that were fetched while being recorded, or that were marked when the layout changed |
| `CardDevice` | `UseCounted`, `SemaphoreKept`, `Configured`: as long as opens and closes do not meet, the count is right, commands exclude each other and find the memory set up; `DmaAlone`: DMA commands exclude each other in any case; `CommandsEnd`: a command gets its turn unless the semaphore was lost |

### Bounds

*CmdLink*: a header of 2 units splits once; chunks of 2 operations of which 1 can be embedded
give requests with and without payload, full and short; calls of up to 5 operations are up to
three chunks, or up to three rows, so that requests are outstanding in front of and behind one that fails; socket
buffers of 3 units hold less than two messages, so both directions fill up; 2 calls let the
second one meet what the first left. `CmdLink_all` has calls of two chunks, or of four
rows (enough requests and answers to fill both sockets), and no `Close`, to keep eight functions in reach. *CmdServer*: three connections for two places meet refusal and
reuse; payloads of none, 2 (the buffer grows) and 3 (too long); 2 requests in all, since two
packets, from one connection or two, are what can be mixed up; the symmetry of the connections is used only
in the safety run. *CmdServer_slots* has the code's own constants: `NET_MAX_CLIENTS` 8,
`state[]` of 11, and the listener at 10, as `/dev/ngpd` and the six I2C buses are open before it.
*ScopeRun*: rings of 2, two scope streams that take turns in sharing the buffer, playback that
fits or does not, two runs (the one that left something behind and the one that must not see
it) of the scope streams and of the histogram reader, whose blocks fill its ring; one unseen failure, which meets every
place of either run (two of them, and shorter blocks, are left to the proofs). *DmaBuild*: buffers of one, two and
four segments, also of one byte; all sizes to 8, block sizes to 5, rings of 2, 4 and 9.
*ScopeRead*: six pages, the last one short; requests for all of it, to the end, past the end and outside; buffer
counts of 8 and 4, so that the region takes one, two or three pauses or chunks; two tries; two calls, the second
meeting what the first left; two faults, since one that strikes and one in the recovery from it is what
the code could get wrong. *ScopeModule*: five half chunks hold three chunks of one stream, the last of them short, or one chunk of two
or three streams, so that a scan passes several chunks and a group read several streams (both together are left to the
proofs); two runs (the second one meets what the first left), a fetch of the viewer, a change of options, a fault, seen
or unseen. *CardDevice*:
three tasks (one inside, one that waits, one that opens or closes) and four opens.

### Fairness

`CallReturns` assumes weak fairness of both ends' steps: they are threads with nothing to
wait for but the streams. `Close` is not fair. The property excepts a server that closed in good order: `recv`
then returns 0, and the client's receive loops ask again for ever. `CmdServer_live` assumes weak fairness of the
server's thread, of delivery, and that clients go on reading answers; without the last one a
client that stops reading blocks the one server thread in `send`, and everybody with it.
`ScopeRead` assumes it of the host inside a call and of the firmware inside a region, `CardDevice`
of each task that is in a call and does not sleep: signals, opens and new commands are not fair.

### Where the code disagrees with what it says

1. `zynqmp_api.c:1361`: `zynqmp_access_write` ends in `return 0` whatever `final_rc` holds; the
   comment above it promises an error code (`CmdLink_write`). What follows from it for a scope run, whose
   register writes all go this way, is part of `ScopeRun` and `ScopeModule`.
2. `zynqmp_api.c:2339`: after an error the interleaved read consumes only the headers of
   further error answers, but the server sends their payload too, since `commandHandler`
   clears the payload size for READ only. The next call starts inside that payload
   (`CmdLink_intl`).
3. `commandProcessor.c:48`: `state[NET_MAX_CLIENTS+3]` is said to allow for stdin, stdout and
   stderr, but the index is the descriptor less one and seven more descriptors are open
   (`CmdServer_slots`).

## 4. What is proved

All theorems are about `Spec`, for every value of the constants that their assumptions allow.
None of the properties is inductive; each module states an inductive invariant, has a lemma per
action (and, where an action disturbs several parts, per part), and ends in the theorems.

### CmdLink

For every header length, chunk size, socket capacity, call length and number of calls:

* `TypeCorrect` - `TypeOK`: no counter of either end goes below zero;
* `LinkUnlessUpset` - `Smooth => LinkInv`; `CleanUnlessRefusedAlways` - `CleanUnlessRefused`;
  `FlowsUnlessRefusedAlways` - `FlowsUnlessRefused`;
* `LinkInvariant` - `LinkInv`; `InStepAlways` - `InStepProp`; `CleanReturnAlways` - `CleanReturn`;
  `NoDeadlockAlways` - `NoDeadlock` (`CmdLink_proofs`).

The first four need only the assumptions declared with the constants: they hold for all eight
functions, with rejected headers and connections that end. `TypeCorrect` holds also on connections that are
out of step. Its invariant `TInv`
adds to the types how far each end is in the message it has in hand: neither reads ahead of the
stream, the request being sent is no larger than what is left of the call, no more of a header or
payload is read than there is.

The last four also assume `Draining`: `Kinds` are functions that consume an answer for each request
they posted (write, read, reading rows, read-modify-write, personality write) and no header is rejected.
Without it they are false: `CmdLink_intl` is a counterexample for one of the other functions,
and a dropped request has no answer to wait for.

Why an answer fits the chunk it is compared with depends on everything sent since the streams
were last empty. `LinkInv` says it in four parts:

* `ReqsInv`, `RespsInv`: messages lie end to end in each stream, and answer *j* is to request *j*;
* `ServerInv`: the server has read exactly the answered requests and `rxd` units of the next;
* `StreamInv`: the client has read exactly the acknowledged answers and `got` units of the next;
* `CallInv`: the client's two counters are determined by the requests not yet acknowledged.

The overlap-free layout gives that the message found at a position is the one expected there;
with `CallInv` the chunk computed from `toRecv` is that request's. `CleanReturn` follows from
`toRecv = toSend` at the end of a drain leaving nothing unacknowledged; `NoDeadlock` from the
fact that a blocked client with an idle or blocked server would have to be both without
outstanding requests and short of room.

`LinkInv` is not invariant for all functions, and what one refused request leads to is a long way from it. `Smooth`
tells when it is: all headers were acceptable, and each answer is to a request of a draining function or accepts
all of it. `Smooth` is a condition on the two logs, and these only grow (`LogsKept`): a step that ends smoothly began smoothly
(`SmoothBefore`; this needs `Answers`, that each answer has a request), so that
`TInv /\ Answers /\ (Smooth => LinkInv)` is inductive. Nothing refused (`AllAccepted`) is smooth; with `Draining`
everything is (`DrainsAlways`), which gives `LinkInvariant` without an induction of its own.

`CmdLinkAccess_proofs` goes on from there: `ResultTrueAlways` - `ResultTrue`; `ImplementsAccessAlways` -
`ImplementsAccess`. `LinkInv` says where both ends are, not what the answers said. `AnswerInvariant` adds
`AnswerInv`: requests belong to calls that have begun; `final_rc` is "err" only if a request of this call failed
and "ok" only if none of the answers acknowledged did; after the return the result says the same of all of them.
With the streams at rest between calls (`AtRest`) the answers acknowledged are then all the answers there are. Each action
maps to a step of `DeviceAccess` or to a stutter; the one that does something is `Execute`, whose chunk is
the next part of the access because the requests not yet executed follow each other (`CallInv`). These two
also assume `Bounded`, a call bound above 0: a read-modify-write asks for one operation whatever the bound is.

### CmdServer

For any number of connections, places, units of a header, payload sizes and requests, from
`ServerAssumption` alone (`CmdServer_proofs`). First `TypeCorrect`, `TablesAgreeAlways`,
`BufferHoldsAlways`. The invariant `TInv` adds to these

* `Turn`: a descriptor still to be served in this turn is open, and the one in hand is not served again;
  this is why the scan never uses an entry it has just disconnected;
* `Waiting`: a connection waits to be accepted or is open, never both, so a descriptor given out by `Accept`
  is for a new connection;
* `Buffers`: between two packets a buffer is either enlarged (and given back by `Fresh`) or of normal size.

That a free descriptor exists when `numClients` is below its limit is a count (`OwnedCount`, `FreeFdTypes`).

Then `OwnUnitsAlways`, `AnsweredInOrderAlways`. Here the difficulty is that the server
falls out of step: after a header it rejects it takes payload for the next header, so its place in the
stream says nothing about where requests begin. What stays true is `SInv`: for every connection, what its
entry of `state[]` holds, followed by its socket buffer and by what is on the way, is one piece of the stream
its client sent (`Stream`), up to its end as long as the client is there (`Ends`), and
begins after everything that was answered (`Later`). A packet that passes `Validated` does begin where a request
does; lemma `WholeRequest` then says that the unit after its last belongs to a later request, which is what
keeps the answers in order. Most steps only move units within that piece (`Taken`, `QuietStep`), drop its front
(`Back`), or its end (`Front`).

### CardDevice

For any number of tasks and opens, from `DeviceAssumption` alone: `TypeCorrect`, `DmaAloneAlways`,
`UseCountedAlways`, `SemaphoreKeptAlways`, `ConfiguredAlways` (`CardDevice_proofs`). The invariant:

* whatever opens and closes do to each other, `Listed` (the wait list names each sleeper once) and
  `LockHeld` (the task inside a DMA command is the owner of `dma_sem`); the semaphore may have been
  initialised anew under its users, but that one is initialised only when the module is loaded;
* as long as none has met another, `OneChanges` (the use count is the number of files, and what
  a task has loaded of it is still true), `Prepared` and `SemaPrepared` (a device that is open,
  or far enough in its first open, has its memory, and its semaphore is free or had by one).

* also when they have, `UseBounded` (an update of the use count that is lost leaves it between the opens
  that were stored and the closes that may have been) and `SemBounded` (a semaphore that is initialised under its
  users never counts more than the tasks that are not inside a command). `TypeOK` is these bounds.

The counting step, that a command inside leaves the cardinality of the rest, is lemma `CountKept`.

### ScopeRead

For every region, size of page, number of buffers, length of the library's queue, number of tries,
calls and failures, from `ReadAssumption` alone: `TypeCorrect`, `InRegionAlways`,
`DeliveredAlways`, `RoomForAllAlways` (`ScopeRead_proofs`). What makes `Delivered` hard is a run bit that could not be cleared:
clearing it at the end of a chunk may fail unseen, so the next try may "start" a firmware that is still at work in the
middle of the same chunk. The invariant says why this does no harm:

* `PlaceInv`: a firmware that still has something to send is at the start of the chunk or at
  least a page behind it, since it moves by whole pages;
* `QueueInv`: so is each page queued, and as long as nothing was lost they follow each other up to
  the firmware;
* `MatchInv`: therefore the next page is either the one that belongs at `dst` (`Aligned`), or the host waits
  for at least a page more than will come (`Short`). `Short` is kept by every page collected and excludes the end
  of the chunk, so that a chunk that does end was aligned all along;
* `GoodInv`: the chunks before this one are in place, and nothing was written elsewhere.

`RoomForAll` needs `RoomInv` beside this. In chunks, what is queued lies behind the firmware in a chunk that was cut to
the buffers there are. With pauses, the firmware may be a page past the pause before it stops: what is queued is part of
`fw.since`, what it sent since it last went on, less what the host has collected of that (`HeldInv`), and it only goes on
when the host has counted the words before the pause down, so that nothing of them is left in the queue.

### ScopeRun

For any number of scope streams, size of ring, need of descriptors, runs and unseen failures, from
`StreamsAssumption` and `ScopeAssumption`: `TypeCorrect`, `InRingAlways`, `RunArmedAlways`,
`FreshScopeAlways`, `FreshHistAlways`, `RingStableAlways` (`ScopeRun_proofs`). First each command and each
engine step gets a lemma (`BuildEffect` ... `HaltEffect`) that says what it does to its streams and that it
leaves the others the `Same`; then the host and the reader get one each per action. The invariant:

* `Linked`, `InRing`: a ring that is built is a circle, and an engine that moves is in it;
* `Walk(s)`: an engine started on a clean ring has completed what is behind it, all of it with data of this
  run, and finds only clear descriptors in front of it. This is why a receiving engine never halts in error
  on a descriptor of an earlier run, and why an idle one is complete;
* `Stopped`, `ScopeReady`, `Counted`, `Plays`: what the host has made of its streams at each place of the
  start and the wait, and afterwards while the run bit is up (`Live`). A source that could not be stopped does no harm
  to the rings, as engines are halted from the reset on until they are started (`Stopped`). That what was
  counted stays counted holds because an engine of a run writes only clear
  descriptors, so a stream that is all good has no step left;
* `Agreed`: as long as nothing was `missed`, host, card and wait have the same number of streams, from which
  `FreshScope` has all of them;
* `HistReady`: the same for the reader. The host's reset of all streams may halt its engine, which `Walk` allows:
  the read then never becomes idle, and is not reported.

That `CheckRxDesc`, a `CHOOSE`, has a value needs the least element of a set of indices (`Least`, from the
well-foundedness of `<`).

### DmaBuild

For every list of segments, region, block size and ring, from `InputAssumption` alone: `TypeCorrect`,
`CoverCorrect` - `ExactCover`, `FramesCorrect` - `FramesMarked`, `RefusedCorrect` - `Refused` (`DmaBuild_proofs`).
The places of segments and descriptors are sums over sequences, recursive functions whose value needs
induction. The library's induction theorems cannot be used here; instead the least number for which a statement fails is
refuted (`Least`, from the well-foundedness of `<`), which gives that the sums exist (`SumsExist`), agree (`SumsAgree`), are
monotone and are not changed by an append. The invariant:

* `Progress`: what is described is the region from its start to `offset`, which is inside the buffer;
* `Covered`: so far `ExactCover`; the bytes of a new descriptor are together in its segment, in which alone they lie;
* `Framed`: `frameLeft`, `inFrame` and `frames` are quotient and remainder of what is done by the block. This is where a
  frame that goes on across segments could go wrong; `FramesMarked` follows;
* `Counted`, `AtStart`: there is a descriptor for each byte where one must start, and the loop stands at the next such
  byte; so `Len(descs)` is `Needed` at the end, and a full ring with something left is too small for the region.

### ScopeModule

For any size of memory, number of runs, fetches, changes of options and failures, from `ModuleAssumption`
alone: `TypeCorrect`, `MirrorAlways` - `MirrorUnlessRaced`, `ReadScopeFreshAlways` - `ReadScopeFresh` (`ScopeModule_proofs`).
The invariant:

* `Within` (in `Types`): a fetch stays inside the module although it loads chunk, size and layout at different times;
* `Copied`: what a group read that nothing has interfered with has copied, stream by stream, still is what
  the card holds; with it the mark at the end of the group makes no chunk valid that is not (`MirrorUnlessRaced`);
* `Layouted`, `Recorded`: which layouts the card, the recording and the module have at each place of an undisturbed
  `start_scope` (a disturbed one may have any), and that what the DMA has passed is this run's;
* `Quiet`: in an undisturbed run nothing is valid or being fetched while it records, and what is fetched later
  is with its layout; `Complete`: the host's scan has left nothing behind it that is not valid.

`ReadScopeFresh` is then `Complete` with `MirrorUnlessRaced` and `Recorded`: all chunks are valid, none is raced, valid is
what the card holds, and that is this run.

### Only model-checked

Every invariant and every safety property of the runs has its theorem. Beyond this prover is liveness under fairness
(`CallReturns`, `AllAnswered`, `Returns`, `CommandsEnd`).

## 5. Hazards without a property

PROJECT.json lists what is hard to test in this code and which property answers for it. Those
that have none, and why:

* `commandProcessor.c:48`, the size of `state[]`: the violation run `CmdServer_slots` is about it;
* `commandProcessor.c:138`, a packet that is never completed: the timeout is switched off and nothing
  is promised;
* `commandProcessor.c:123`, a failing `select`: nothing in the repository provokes it;
* `ngzmp_lib.c:642`, data of a histogram read that was given up: the next block begins by stopping the read, and whether
  the firmware then still has data on the way is not to be found in the repository; the model's has none;
* `ngzmp_lib.c:645`, a histogram region of several blocks: the driver refuses the first block, so there is
  no second one to be wrong;
* `ngpd_scope_mode.c:1494`, a stream without a place: the model has it as a step that ends the process;
* `zynqmp_lib_i2c.c:704`, an error path that keeps the mutex of a bus: the I2C library is not modelled (section 6);
* the run flags in `ngpd_adapter.py:283` and `ngpd.py:257`: what they should be after two requests is said nowhere.

Some properties leave out, by a history variable, what follows a step after which the code promises
nothing; what those steps are is worth a reader's attention:

* `leaked` (`ioctl.c:368`): READ_ROW with a length or stride of 0 keeps the semaphore;
* `overlapped` (`open_close.c:44`): an open that meets a first open or a last close;
* `raced`, `disturbed` (`ngzmp_dma.c:825`, `:1256`, `ngpd_adq14_scope_regs.c:171`): a viewer that fetches while a
  run records, or a change of the number of streams, makes the module show old or other data as valid or ends the
  wait early;
* `unstopped` (`ngzmp_dma.c:600`): a refused write of `DATA_PATH` passes for a stop, and the start resets and
  rebuilds the streams under a source that goes on sending;
* `missed` (`ngzmp_dma.c:724`, `:1258`): a refused write of `SCOPE_CONT`, or a failed read of it in the wait, passes
  for a good one, and the wait may report a run complete of which it has not looked at every stream;
* `LostUnseen`, `noEdge` (`ngpd_adq14_dma.c:905`): the read-out loop, without a timeout, waits for ever after a
  loss of the last page before a pause or the end, or if the run bit was up when it was raised;
* an end of file at `zynqmp_api.c:1400`: the receive loop asks again for ever;
* `ngpd_adq14_dma.c:738`: the check of a request lets a region pass that begins inside the buffer and ends
  behind it.

## 6. Plan

Done, in this order: `CmdLink` with `DeviceAccess` and its proofs; `CmdServer`; `ZynqDma` with
`ScopeRun`; `DmaBuild`; `ScopeRead` and its proofs; `ScopeModule`; `CardDevice` and its proofs; the
proofs of `ScopeRun` and of `CmdServer`; `AccessReadRoi`; the proof that `CmdLink` implements `DeviceAccess`; the
proofs of `DmaBuild` and of `ScopeModule`, of `RoomForAll` and of the types of `CardDevice`; the proofs about all
functions of `CmdLink`.

Worth doing next:

1. `ngpd_system_start` of the ADQ14 cards (`ngpd_adq14_dma.c`), the counterpart of what `ScopeRun` models.

Not modelled, and not planned:

* reading histograms in several blocks (`ngzmp_hist_read_dma`): see the hazard above;
* the run flags of the control adapter: a save, set and restore without a stated purpose to check against;
* register, ADC, clock, I2C, SPI and monitor access: fixed sequences of device accesses, each right or wrong by
  the device's data sheet. The exception is the mutex of each bus in `zynqmp_lib_i2c.c`: a paged read that fails
  returns with it locked (line 704; lines 783 and 791 for a supply voltage), and `ngzmp_i2c_read_ucd90160_vout` takes
  it once (line 758) and gives it back for every rail (line 793). Both can be read off the code without a model;
* calibration, unpacking of samples, histogram and playback formats: arithmetic on data;
* start-up, configuration and path handling: parsing, and one call per command;
* the driver's legacy files, which are not built, and vendored headers and libraries (HDF5, xlsxwriter, the vendor's ADQ
  headers, xspress3): not this program.
