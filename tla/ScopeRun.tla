------------------------------ MODULE ScopeRun ------------------------------
(***************************************************************************)
(* A scope run of the ZynqMP system: the host starts the system and waits  *)
(* for the data (ngzmp_system_start and ngzmp_dma_wait_scope in            *)
(* lib/ngzmp_dma.c, called in that order by start_scope in ngpd.py), while *)
(* a program on the card reads the histogram memory by DMA                 *)
(* (ngzmp_hist_read_dma in zynqmp/lib/ngzmp_lib.c).  Every step of either  *)
(* is one driver command or register access; any of them can fail.  A      *)
(* failure the caller sees makes it return at once and leaves the hardware *)
(* as it is.  Two failures the host does not see: zynqmp_access_write      *)
(* returns 0 for a write the device refused, so that a refused register    *)
(* write passes for one that was done; and ngzmp_dma_wait_scope does not   *)
(* look at the result of its read of SCOPE_CONT.  (Of the registers only   *)
(* DATA_PATH and NUM_STREAMS of SCOPE_CONT are modelled, not the times,    *)
(* channels and word counts the firmware uses.)                            *)
(***************************************************************************)
EXTENDS ZynqDma

CONSTANTS
    Scope,     \* NGZMP_DMA_STREAM_BNUM_SCOPE0.., in order
    Playback,  \* {NGZMP_DMA_STREAM_BNUM_PLAYBACK0}, or {} without that flag
    HistRead,  \* NGZMP_DMA_STREAM_BNUM_HIST_READ
    Need,      \* Need[k][s]: descriptors of scope stream s when k streams run
    PlayNeeds, \* descriptor counts of the playback data that may be loaded
    HistNeeds, \* descriptor counts of the blocks the histogram reader asks for
    MaxUnseen  \* bound: failures of the host's accesses that it does not see

(* config_memory gives the scope and histogram rings descriptors for all of *)
(* their buffers; the playback data may be larger than the playback buffer. *)
ASSUME ScopeAssumption ==
    /\ Streams = Scope \cup Playback \cup {HistRead} /\ Tx = Playback
    /\ HistRead \notin Scope \cup Playback /\ Playback \cap Scope = {}
    /\ IsFiniteSet(Scope) /\ Scope # {} /\ Scope = 1..Cardinality(Scope)
    /\ Need \in [Scope -> [Scope -> 1..RingSize]]
    /\ PlayNeeds \subseteq Nat \ {0} /\ HistNeeds \subseteq 1..RingSize
    /\ MaxUnseen \in Nat

VARIABLES
    pc,        \* where the host is
    nscope,    \* scope streams of the run, by the host's copy of SCOPE_CONT
    hwscope,   \* scope streams of the firmware, NUM_STREAMS of SCOPE_CONT plus one
    nwait,     \* scope streams the wait covers (num_scope_dma)
    stream,    \* the scope stream being built or waited for
    dataPath,  \* NGPD_DP_RUN of NGZMP_DATA_PATH
    unstopped, \* the last start did not clear it and has not noticed (history)
    missed,    \* SCOPE_CONT is not what the host takes it to be (history)
    playing,   \* the run flags of this run include playback
    want,      \* defined_desc of the status block the wait read
    waited,    \* the last wait returned NGPD_OK (history)
    unseen,    \* failures nobody noticed, up to MaxUnseen
    hpc,       \* where the histogram reader is
    block,     \* descriptors of the block it asks for
    reading,   \* its read request is in AXI_HIST_READ_CONT
    readOk     \* its last block was reported complete (history)

scopeCont == <<nscope, hwscope, nwait, missed>>
source == <<dataPath, unstopped>>
host == <<pc, scopeCont, stream, source, playing, want, waited, unseen>>
hist == <<hpc, block, reading, readOk>>
vars == <<run, driver, host, hist>>

Active == 1..nscope
HostPC == {"idle", "reset", "pb_build", "pb_start", "cont", "build", "start",
           "run", "ready", "poll"}
HistPC == {"idle", "stop", "build", "start", "request", "wait"}

TypeOK ==
    /\ DriverTypeOK
    /\ pc \in HostPC /\ hpc \in HistPC
    /\ {nscope, hwscope, nwait, stream} \subseteq Scope
    /\ {dataPath, unstopped, missed, playing, waited} \subseteq BOOLEAN
    /\ want \in [Scope -> 0..RingSize] /\ unseen \in 0..MaxUnseen
    /\ block \in HistNeeds /\ reading \in BOOLEAN /\ readOk \in BOOLEAN

NoWant == [s \in Scope |-> 0]

Init ==
    /\ DriverInit
    /\ pc = "idle" /\ hpc = "idle"
    /\ nscope = 1 /\ hwscope = 1 /\ nwait = 1 /\ missed = FALSE /\ stream = 1
    /\ dataPath = FALSE /\ unstopped = FALSE /\ playing = FALSE /\ waited = FALSE
    /\ unseen = 0
    /\ want = NoWant
    /\ block \in HistNeeds /\ reading = FALSE /\ readOk = FALSE
-----------------------------------------------------------------------------
(* An access goes as the host takes it to go, or fails unseen.               *)
Unseen(failed) ==
    /\ failed => unseen < MaxUnseen
    /\ unseen' = IF failed THEN unseen + 1 ELSE unseen

(* ngzmp_system_start: DATA_PATH is written to 0, which ends the run that   *)
(* may be going on; a refused write leaves it going on, and the start goes  *)
(* on too.  Allowed whenever no call is in progress.                        *)
StopSource ==
    /\ pc \in {"idle", "ready"} /\ \A s \in Scope : run[s] < MaxRuns
    /\ dataPath' \in {FALSE, dataPath} /\ unstopped' = dataPath' /\ Unseen(dataPath')
    /\ run' = IF dataPath' THEN run
              ELSE [s \in Streams |-> IF s \in Scope THEN run[s] + 1 ELSE run[s]]
    /\ playing' \in {FALSE, Playback # {}}
    /\ waited' = FALSE /\ missed' = FALSE /\ nwait' = 1
    /\ pc' = "reset"
    /\ UNCHANGED <<driver, nscope, hwscope, stream, want, hist>>

ResetAll ==
    /\ pc = "reset"
    /\ Reset(Streams)
    /\ pc' = IF playing THEN "pb_build" ELSE "cont"
    /\ UNCHANGED <<scopeCont, stream, source, playing, want, waited, unseen, hist>>

BuildPlayback ==
    /\ pc = "pb_build"
    /\ \E s \in Playback, n \in PlayNeeds :
        \/ Build(s, n) /\ pc' = "pb_start"
        \/ BuildFails(s, n) /\ pc' = "idle"
    /\ UNCHANGED <<scopeCont, stream, source, playing, want, waited, unseen, hist>>

StartPlayback ==
    /\ pc = "pb_start"
    /\ Start(Playback, TRUE)
    /\ pc' = "cont"
    /\ UNCHANGED <<scopeCont, stream, source, playing, want, waited, unseen, hist>>

(* SCOPE_CONT is read, and kept or set from the scope module (MOD_TO_REGS); *)
(* a write that is refused leaves the firmware with the old number.         *)
ScopeCont ==
    /\ pc = "cont"
    /\ \/ nscope' = hwscope /\ UNCHANGED hwscope
       \/ nscope' \in Scope /\ hwscope' \in {nscope', hwscope}
    /\ missed' = (hwscope' # nscope') /\ Unseen(missed')
    /\ stream' = 1
    /\ pc' = "build"
    /\ UNCHANGED <<run, driver, nwait, source, playing, want, waited, hist>>

BuildScope ==
    /\ pc = "build"
    /\ Build(stream, Need[nscope][stream])
    /\ IF stream < nscope THEN stream' = stream + 1 /\ UNCHANGED pc
       ELSE pc' = "start" /\ stream' = 1
    /\ UNCHANGED <<scopeCont, source, playing, want, waited, unseen, hist>>

StartScope ==
    /\ pc = "start"
    /\ Start(Active, FALSE)
    /\ pc' = "run"
    /\ UNCHANGED <<scopeCont, stream, source, playing, want, waited, unseen, hist>>

(* NGPD_DP_RUN is set last, by a read-modify-write, whose refusal is seen.  *)
SetRun ==
    /\ pc = "run"
    /\ dataPath' = TRUE
    /\ pc' = "ready"
    /\ UNCHANGED <<run, driver, scopeCont, stream, unstopped, playing, want, waited, unseen,
                   hist>>

(* ngzmp_dma_wait_scope: SCOPE_CONT and the status block are read once.     *)
(* After a failed read of SCOPE_CONT the wait goes on with whatever is in   *)
(* the variable.  (A number beyond the scope streams is left out: it has    *)
(* the wait poll another stream as well.)                                   *)
WaitScope ==
    /\ pc = "ready" /\ ~waited
    /\ nwait' \in Scope
    /\ missed' = (missed \/ nwait' # hwscope) /\ Unseen(nwait' # hwscope)
    /\ want' = [s \in Scope |-> defined[s]]
    /\ stream' = 1
    /\ pc' = "poll"
    /\ UNCHANGED <<run, driver, nscope, hwscope, source, playing, waited, hist>>

(* Mutant of PollDone: the descriptors are counted whatever their status.   *)
PollDoneCompleted ==
    /\ pc = "poll" /\ built[stream]
    /\ \A i \in 0..(want[stream] - 1) : desc[stream][i].status # "clear"
    /\ IF stream < nwait THEN stream' = stream + 1 /\ UNCHANGED <<pc, waited>>
       ELSE pc' = "ready" /\ waited' = TRUE /\ stream' = 1
    /\ want' = IF stream < nwait THEN want ELSE NoWant
    /\ UNCHANGED <<run, driver, scopeCont, source, playing, unseen, hist>>

(* The streams are polled one after the other until all is good; one that   *)
(* has no descriptors is refused.                                           *)
PollDone ==
    /\ pc = "poll" /\ built[stream] /\ CheckRxDesc(stream) = want[stream]
    /\ IF stream < nwait THEN stream' = stream + 1 /\ UNCHANGED <<pc, waited>>
       ELSE pc' = "ready" /\ waited' = TRUE /\ stream' = 1
    /\ want' = IF stream < nwait THEN want ELSE NoWant
    /\ UNCHANGED <<run, driver, scopeCont, source, playing, unseen, hist>>

(* The call returns an error: its variables are gone, the hardware is left. *)
GiveUp ==
    /\ pc' = "idle" /\ stream' = 1 /\ want' = NoWant /\ nwait' = 1 /\ missed' = FALSE
    /\ UNCHANGED <<run, driver, nscope, hwscope, source, playing, waited, unseen, hist>>

PollTimeout ==
    /\ pc = "poll" /\ CheckRxDesc(stream) # want[stream]
    /\ GiveUp

(* A register access or a command that does not get through.                *)
HostError ==
    /\ pc \notin {"idle", "ready"}
    /\ GiveUp

HostStep ==
    \/ StopSource \/ ResetAll \/ BuildPlayback \/ StartPlayback \/ ScopeCont
    \/ BuildScope \/ StartScope \/ SetRun \/ WaitScope \/ PollDone \/ PollTimeout
    \/ HostError
-----------------------------------------------------------------------------
(* ngzmp_hist_read_dma, one block: the previous read is stopped, the DMA    *)
(* stopped, rebuilt and started, the read requested, and the end awaited.   *)
HistStopRequest ==
    /\ hpc = "idle" /\ run[HistRead] < MaxRuns
    /\ run' = [run EXCEPT ![HistRead] = @ + 1]
    /\ block' \in HistNeeds
    /\ reading' = FALSE /\ readOk' = FALSE
    /\ hpc' = "stop"
    /\ UNCHANGED <<driver, host>>

(* Mutant of HistStop: the mask of halted engines is not looked at.         *)
HistStopBlind ==
    /\ hpc = "stop"
    /\ \E halted \in SUBSET {HistRead} : Stop({HistRead}, halted)
    /\ hpc' = "build"
    /\ UNCHANGED <<host, block, reading, readOk>>

HistStop ==
    /\ hpc = "stop"
    /\ \E halted \in SUBSET {HistRead} :
        /\ Stop({HistRead}, halted)
        /\ hpc' = IF halted = {HistRead} THEN "build" ELSE "idle"
    /\ UNCHANGED <<host, block, reading, readOk>>

HistBuild ==
    /\ hpc = "build"
    /\ Build(HistRead, block)
    /\ hpc' = "start"
    /\ UNCHANGED <<host, block, reading, readOk>>

HistStart ==
    /\ hpc = "start"
    /\ Start({HistRead}, FALSE)
    /\ hpc' = "request"
    /\ UNCHANGED <<host, block, reading, readOk>>

HistRequest ==
    /\ hpc = "request"
    /\ reading' = TRUE
    /\ hpc' = "wait"
    /\ UNCHANGED <<run, driver, host, block, readOk>>

HistDone ==
    /\ hpc = "wait" /\ StatusIdle(HistRead)
    /\ readOk' = TRUE /\ hpc' = "idle"
    /\ UNCHANGED <<run, driver, host, block, reading>>

HistError ==
    /\ hpc # "idle"
    /\ hpc' = "idle"
    /\ UNCHANGED <<run, driver, host, block, reading, readOk>>

HistStep ==
    \/ HistStopRequest \/ HistStop \/ HistBuild \/ HistStart \/ HistRequest
    \/ HistDone \/ HistError
-----------------------------------------------------------------------------
(* The firmware feeds its scope streams while DP_RUN is set and the         *)
(* histogram stream while a read is requested.                              *)
ScopeData == \E s \in 1..hwscope : dataPath /\ Receive(s) /\ UNCHANGED <<host, hist>>
HistData  == reading /\ Receive(HistRead) /\ UNCHANGED <<host, hist>>
PlayData  == \E s \in Playback : Send(s) /\ UNCHANGED <<host, hist>>
Halting   == \E s \in Streams : Halt(s) /\ UNCHANGED <<host, hist>>

EngineStep == ScopeData \/ HistData \/ PlayData \/ Halting

Next == HostStep \/ HistStep \/ EngineStep

Spec == Init /\ [][Next]_vars
-----------------------------------------------------------------------------
(* Whenever DP_RUN is set every stream of the run has been armed for it:    *)
(* its ring is built for this run, holds nothing of an earlier one and its  *)
(* engine has been started.  The firmware has no buffer for data without a  *)
(* descriptor.  Left out is a start that could not clear DP_RUN and has not *)
(* noticed, as long as it is under way or when it has given up.             *)
Armed(s) ==
    /\ built[s] /\ eng[s].mode # "stopping"
    /\ \A i \in 0..(defined[s] - 1) : desc[s][i].status # "clear" => desc[s][i].run = run[s]
    /\ eng[s].mode = "halted" => \A i \in 0..(defined[s] - 1) : desc[s][i].status # "clear"

RunArmed ==
    dataPath /\ (unstopped => pc \in {"ready", "poll"}) =>
        /\ \A s \in Active : Armed(s) /\ defined[s] = Need[nscope][s]
        /\ playing => \A s \in Playback : eng[s].mode = "running"

(* When the wait has returned NGPD_OK the buffers of the streams it covered *)
(* hold good data of the run that goes on (the one started last, unless the *)
(* run before it could not be stopped), and of no earlier run; and it       *)
(* covers all the streams that were built unless SCOPE_CONT was read or     *)
(* written wrongly and nobody noticed.                                      *)
FreshScope ==
    waited => \A s \in Active : s <= nwait \/ ~missed =>
                 \A i \in 0..(Need[nscope][s] - 1) :
                    desc[s][i].status = "good" /\ desc[s][i].run = run[s]

(* A histogram block that is reported read is the block of this request,    *)
(* whatever the host reset in between.                                      *)
FreshHist ==
    readOk => \A i \in 0..(block - 1) :
                 desc[HistRead][i].status # "clear" /\ desc[HistRead][i].run = run[HistRead]

(* No command rewrites the ring of an engine that is walking it: the driver *)
(* does not check, it relies on its callers to stop the engine first.       *)
RingStable ==
    \A s \in Streams :
        Busy(s) /\ desc[s]' # desc[s] => \E c \in Index :
            /\ c = eng[s].cur
            /\ \A i \in Index \ {c} : desc[s][i]' = desc[s][i]
            /\ desc[s][c].next' = desc[s][c].next /\ desc[s][c].status' # "clear"
RingStableProp == [][RingStable]_vars

(* An engine that walks a ring is inside the descriptors built for it.      *)
InRing == \A s \in Streams : Busy(s) => built[s] /\ eng[s].cur < defined[s]
=============================================================================
