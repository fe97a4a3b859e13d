------------------------------ MODULE ZynqDma ------------------------------
(***************************************************************************)
(* The DMA part of the kernel driver (driver5.4/dma_control.c) and the     *)
(* AXI DMA engines it programs.  Every stream has a ring of descriptors in *)
(* memory and an engine that walks it by itself once it is started.  The   *)
(* driver serialises its commands with dma_sem, so a command is one step;  *)
(* the engines run between and beside them.                                *)
(*                                                                         *)
(* A build message is abstracted to the number of descriptors it asks for: *)
(* equal messages ask for equal numbers.  DmaBuild.tla has how the         *)
(* descriptors divide the buffer.                                          *)
(***************************************************************************)
EXTENDS Integers, FiniteSets

CONSTANTS
    Streams,   \* the streams with base_addr # 0 and a DMA core of their own
    Tx,        \* those that send (is_tx)
    RingSize,  \* num_desc, the descriptors memory is set aside for
    MaxRuns    \* bound on the numbering of runs

ASSUME StreamsAssumption ==
    /\ Streams \subseteq Nat /\ Tx \subseteq Streams
    /\ RingSize \in Nat \ {0} /\ MaxRuns \in Nat

VARIABLES
    run,      \* [stream -> number of the run its data belongs to] (history)
    built,    \* [stream -> ZYNQMP_DMA_STATE_DESC_BUILT]
    defined,  \* [stream -> defined_desc], and the message of that build
    desc,     \* [stream -> [index -> descriptor]]
    eng       \* [stream -> engine registers]

driver == <<built, defined, desc, eng>>

Index == 0..(RingSize - 1)

(* status: the Complete and error bits; run: whose data completed it.       *)
Descriptor == [next : 0..RingSize, status : {"clear", "good", "bad"}, run : 0..MaxRuns]

(* "stopping" is RS = 0 with HALTED still clear, "idle" RS = 1 with the     *)
(* tail descriptor done; tail = RingSize or more is never reached.          *)
Engine == [mode : {"halted", "running", "idle", "stopping"},
           cur : 0..RingSize, tail : 0..RingSize]

DriverTypeOK ==
    /\ run \in [Streams -> 0..MaxRuns]
    /\ built \in [Streams -> BOOLEAN]
    /\ defined \in [Streams -> 0..RingSize]
    /\ desc \in [Streams -> [Index -> Descriptor]]
    /\ eng \in [Streams -> Engine]

Blank == [next |-> 0, status |-> "clear", run |-> 0]
Halted == [mode |-> "halted", cur |-> 0, tail |-> 0]

(* config_memory has just run: no stream has descriptors.                   *)
DriverInit ==
    /\ run = [s \in Streams |-> 0]
    /\ built = [s \in Streams |-> FALSE]
    /\ defined = [s \in Streams |-> 0]
    /\ desc = [s \in Streams |-> [i \in Index |-> Blank]]
    /\ eng = [s \in Streams |-> Halted]

Busy(s) == eng[s].mode \in {"running", "stopping"}
-----------------------------------------------------------------------------
(* Mutant of Reset: only streams found idle are reset.                      *)
ResetIdle(mask) ==
    /\ eng' = [s \in Streams |-> IF s \in mask /\ ~Busy(s) THEN Halted ELSE eng[s]]
    /\ UNCHANGED <<run, built, defined, desc>>

(* CMD_RESET: polls until every core is reset; descriptors and DESC_BUILT   *)
(* stay as they are.                                                        *)
Reset(mask) ==
    /\ eng' = [s \in Streams |-> IF s \in mask THEN Halted ELSE eng[s]]
    /\ UNCHANGED <<run, built, defined, desc>>

(* CMD_BUILD_DESC for a message of n descriptors.  The same message again   *)
(* only clears the statuses ("clean and resend"); a message that overruns   *)
(* the ring has rewritten the whole ring and dropped DESC_BUILT before it   *)
(* fails.  The engine is not looked at.                                     *)
CleanBuild(s, n) ==
    /\ built[s] /\ defined[s] = n
    /\ desc' = [desc EXCEPT ![s] =
                    [i \in Index |-> IF i < n THEN [desc[s][i] EXCEPT !.status = "clear"]
                                     ELSE desc[s][i]]]
    /\ UNCHANGED <<run, built, defined, eng>>

NewBuild(s, n) ==
    /\ ~(built[s] /\ defined[s] = n)
    /\ n <= RingSize
    /\ desc' = [desc EXCEPT ![s] =
                    [i \in Index |-> IF i < n THEN [Blank EXCEPT !.next = (i + 1) % n]
                                     ELSE desc[s][i]]]
    /\ built' = [built EXCEPT ![s] = TRUE]
    /\ defined' = [defined EXCEPT ![s] = n]
    /\ UNCHANGED <<run, eng>>

(* Mutant of Build: the resend path leaves the statuses.                    *)
BuildUncleaned(s, n) ==
    \/ NewBuild(s, n)
    \/ built[s] /\ defined[s] = n /\ UNCHANGED <<run, driver>>

Build(s, n) == CleanBuild(s, n) \/ NewBuild(s, n)

BuildFails(s, n) ==
    /\ n > RingSize
    /\ desc' = [desc EXCEPT ![s] = [i \in Index |-> [Blank EXCEPT !.next = i + 1]]]
    /\ built' = [built EXCEPT ![s] = FALSE]
    /\ UNCHANGED <<run, defined, eng>>

(* Mutant of Started: the tail of a circular ring one further on.           *)
StartedBeyond(s, circular, stuck) ==
    [mode |-> "running", cur |-> 0,
     tail |-> IF circular THEN defined[s] + 1 ELSE defined[s] - 1]

(* CMD_START: RS = 0, HALTED polled up to 100 times, then current           *)
(* descriptor, RS = 1 and tail whatever the poll said.  An engine that has  *)
(* not halted ignores the new current descriptor.                           *)
Started(s, circular, stuck) ==
    [mode |-> "running",
     cur  |-> IF stuck THEN eng[s].cur ELSE 0,
     tail |-> IF circular THEN defined[s] ELSE defined[s] - 1]

StartEngines(mask, circular) ==
    \E stuck \in SUBSET {s \in mask : Busy(s)} :
        eng' = [s \in Streams |-> IF s \in mask THEN Started(s, circular, s \in stuck)
                                  ELSE eng[s]]

(* Every caller has had NGPD_OK from the builds of all the streams it       *)
(* starts, so the refusal of a stream without descriptors is not modelled.  *)
Start(mask, circular) ==
    /\ \A s \in mask : built[s]
    /\ StartEngines(mask, circular)
    /\ UNCHANGED <<run, built, defined, desc>>

(* CMD_STOP: RS = 0, then up to a second for HALTED; the mask of the        *)
(* engines that did halt is the answer.                                     *)
Stop(mask, halted) ==
    /\ halted \subseteq mask
    /\ \A s \in mask \ halted : Busy(s)
    /\ eng' = [s \in Streams |->
                 IF s \in halted THEN [eng[s] EXCEPT !.mode = "halted"]
                 ELSE IF s \in mask THEN [eng[s] EXCEPT !.mode = "stopping"]
                 ELSE eng[s]]
    /\ UNCHANGED <<run, built, defined, desc>>

(* CMD_CHECK_RX_DESC: the completed descriptors before the first that is    *)
(* not complete or in error.                                                *)
CheckRxDesc(s) ==
    CHOOSE n \in 0..defined[s] :
        /\ \A i \in 0..(n - 1) : desc[s][i].status = "good"
        /\ n < defined[s] => desc[s][n].status # "good"

(* CMD_READ_STATUS: the idle bit of the status register.                    *)
StatusIdle(s) == eng[s].mode = "idle"
-----------------------------------------------------------------------------
(* The engine, as the driver relies on it.  It moves one descriptor's data, *)
(* writes its status and goes on to phys_next; past the tail it is idle.  A *)
(* receiving engine that fetches a completed descriptor halts in error.     *)
Fetchable(s) == Busy(s) /\ eng[s].cur \in Index

Complete(s, status) ==
    LET c == eng[s].cur
    IN /\ desc' = [desc EXCEPT ![s][c].status = status, ![s][c].run = run[s]]
       /\ eng' = [eng EXCEPT ![s] =
                    CASE eng[s].mode = "stopping" -> [@ EXCEPT !.mode = "halted"]
                      [] eng[s].mode = "running" /\ c = eng[s].tail -> [@ EXCEPT !.mode = "idle"]
                      [] OTHER -> [@ EXCEPT !.cur = desc[s][c].next]]

Receive(s) ==
    /\ s \notin Tx /\ Fetchable(s)
    /\ \/ /\ desc[s][eng[s].cur].status = "clear"
          /\ \E status \in {"good", "bad"} : Complete(s, status)
       \/ /\ desc[s][eng[s].cur].status # "clear"
          /\ eng' = [eng EXCEPT ![s].mode = "halted"]
          /\ UNCHANGED desc
    /\ UNCHANGED <<run, built, defined>>

Send(s) ==
    /\ s \in Tx /\ Fetchable(s)
    /\ Complete(s, "good")
    /\ UNCHANGED <<run, built, defined>>

(* A stopping engine halts, with or without finishing its descriptor.       *)
Halt(s) ==
    /\ eng[s].mode = "stopping"
    /\ eng' = [eng EXCEPT ![s].mode = "halted"]
    /\ UNCHANGED <<run, built, defined, desc>>
=============================================================================
