----------------------------- MODULE CardDevice -----------------------------
(***************************************************************************)
(* Who may use the card's driver, and when: zynqmp_open and zynqmp_close     *)
(* (driver5.4/open_close.c), and the locks around the commands of            *)
(* zynqmp_ioctl (ioctl.c) and zynqmp_dma_ioctl (dma_control.c).  The first    *)
(* open prepares the semaphore and the DMA state; the use count that tells    *)
(* which open is the first is not protected.  What the DMA commands do is     *)
(* in ZynqDma.  A task is a process on the card: the server, a test program.  *)
(***************************************************************************)
EXTENDS Integers, Sequences, FiniteSets

CONSTANTS
    Tasks,
    None,
    MaxOpens   \* bound: calls of open

ASSUME DeviceAssumption == None \notin Tasks /\ IsFiniteSet(Tasks) /\ MaxOpens \in Nat

VARIABLES
    usecount,   \* dev_stat->usecount
    sem,        \* dev_stat->sem: its count
    sleepers,   \* and its wait list, first come first served
    dmaSem,     \* the task that has dev_stat->dma_sem for writing, or None
    memory,     \* the DMA buffers: "none", "cleared" by init, "ready" by config
    pc,         \* where each task is
    seen,       \* the use count a task has loaded to add to or take from
    cmd,        \* the command it has in hand
    files,      \* tasks that have the device open
    overlapped, \* an open or close met another since all was closed (history)
    leaked,     \* a command returned with the semaphore (history)
    opens

locks == <<sem, sleepers, dmaSem>>
vars  == <<usecount, locks, memory, pc, seen, cmd, files, overlapped, leaked, opens>>

(* "reg": registers, buffers, status, and all that is refused in the common  *)
(* way; "dma": ZYNQMP_DMA_V7; "row0": READ_ROW with a length or stride of 0.  *)
Cmds     == {"reg", "dma", "row0"}
Opening  == {"sema", "init", "config", "count", "counted"}
Closing  == {"uncount", "uncounted"}
Commands == {"wait", "command", "dma"}
Inside   == {t \in Tasks : pc[t] \in {"command", "dma"}}
Changing == {t \in Tasks : pc[t] \in Opening \cup Closing}
Go(t, l) == pc' = [pc EXCEPT ![t] = l]

TypeOK ==
    /\ usecount \in (-MaxOpens)..MaxOpens /\ sem \in 0..MaxOpens + Cardinality(Tasks)
    /\ dmaSem \in Tasks \cup {None} /\ memory \in {"none", "cleared", "ready"}
    /\ pc \in [Tasks -> {"idle"} \cup Opening \cup Closing \cup Commands]
    /\ seen \in [Tasks -> (-MaxOpens)..MaxOpens] /\ cmd \in [Tasks -> Cmds]
    /\ files \subseteq Tasks /\ {overlapped, leaked} \subseteq BOOLEAN
    /\ \A i, j \in DOMAIN sleepers : pc[sleepers[i]] = "wait" /\ (sleepers[i] = sleepers[j] => i = j)
    /\ sem > 0 => sleepers = <<>>

Init ==
    /\ usecount = 0 /\ memory = "none"
    /\ sem = 0 /\ sleepers = <<>> /\ dmaSem = None
    /\ pc = [t \in Tasks |-> "idle"] /\ seen = [t \in Tasks |-> 0]
    /\ cmd = [t \in Tasks |-> "reg"] /\ files = {}
    /\ overlapped = FALSE /\ leaked = FALSE /\ opens = 0
-----------------------------------------------------------------------------
(* Mutant of Open: the first open is told by the last task having closed it, *)
(* an open too late.                                                         *)
OpenAfterOne(t) ==
    /\ pc[t] = "idle" /\ t \notin files /\ opens < MaxOpens
    /\ Go(t, IF usecount <= 1 THEN "sema" ELSE "count")
    /\ overlapped' = (overlapped \/ Changing # {})
    /\ opens' = opens + 1
    /\ UNCHANGED <<usecount, locks, memory, seen, cmd, files, leaked>>

(* zynqmp_open tests the use count: nothing else guards what follows.        *)
Open(t) ==
    /\ pc[t] = "idle" /\ t \notin files /\ opens < MaxOpens
    /\ Go(t, IF usecount = 0 THEN "sema" ELSE "count")
    /\ overlapped' = (overlapped \/ Changing # {})
    /\ opens' = opens + 1
    /\ UNCHANGED <<usecount, locks, memory, seen, cmd, files, leaked>>

(* Mutant of SemaInit: only the count is set.                                *)
SemaInitCount(t) ==
    /\ pc[t] = "sema"
    /\ sem' = 1 /\ leaked' = FALSE
    /\ Go(t, "init")
    /\ UNCHANGED <<usecount, sleepers, dmaSem, memory, seen, cmd, files, overlapped, opens>>

(* sema_init: whoever sleeps on the semaphore is on no list any more.        *)
SemaInit(t) ==
    /\ pc[t] = "sema"
    /\ sem' = 1 /\ sleepers' = <<>> /\ leaked' = FALSE
    /\ Go(t, "init")
    /\ UNCHANGED <<usecount, dmaSem, memory, seen, cmd, files, overlapped, opens>>

(* zynqmp_dma_init clears the status block and the rings, and               *)
(* zynqmp_dma_config_memory finds the buffers and divides them.              *)
DmaInit(t) ==
    /\ pc[t] = "init"
    /\ memory' = "cleared"
    /\ Go(t, "config")
    /\ UNCHANGED <<usecount, locks, seen, cmd, files, overlapped, leaked, opens>>

ConfigMemory(t) ==
    /\ pc[t] = "config"
    /\ memory' = "ready"
    /\ Go(t, "count")
    /\ UNCHANGED <<usecount, locks, seen, cmd, files, overlapped, leaked, opens>>

(* usecount++ and usecount--: a load and a store.                            *)
Load(t) ==
    /\ pc[t] \in {"count", "uncount"}
    /\ seen' = [seen EXCEPT ![t] = usecount]
    /\ Go(t, IF pc[t] = "count" THEN "counted" ELSE "uncounted")
    /\ UNCHANGED <<usecount, locks, memory, cmd, files, overlapped, leaked, opens>>

StoreOpen(t) ==
    /\ pc[t] = "counted"
    /\ usecount' = seen[t] + 1
    /\ files' = files \cup {t}
    /\ Go(t, "idle")
    /\ seen' = [seen EXCEPT ![t] = 0]
    /\ UNCHANGED <<locks, memory, cmd, overlapped, leaked, opens>>

(* zynqmp_close; the last one does nothing more.                             *)
Close(t) ==
    /\ pc[t] = "idle" /\ t \in files
    /\ Go(t, "uncount")
    /\ overlapped' = (overlapped \/ Changing # {})
    /\ UNCHANGED <<usecount, locks, memory, seen, cmd, files, leaked, opens>>

(* Mutant of StoreClose: the last close leaves its own use counted.          *)
StoreCloseKeepsOne(t) ==
    /\ pc[t] = "uncounted"
    /\ usecount' = (IF seen[t] > 1 THEN seen[t] - 1 ELSE seen[t])
    /\ files' = files \ {t}
    /\ Go(t, "idle")
    /\ seen' = [seen EXCEPT ![t] = 0]
    /\ overlapped' = (overlapped /\ ~(files' = {} /\ usecount' = 0 /\ Changing = {t}))
    /\ UNCHANGED <<locks, memory, cmd, leaked, opens>>

StoreClose(t) ==
    /\ pc[t] = "uncounted"
    /\ usecount' = seen[t] - 1
    /\ files' = files \ {t}
    /\ Go(t, "idle")
    /\ seen' = [seen EXCEPT ![t] = 0]
    /\ overlapped' = (overlapped /\ ~(files' = {} /\ usecount' = 0 /\ Changing = {t}))
    /\ UNCHANGED <<locks, memory, cmd, leaked, opens>>
-----------------------------------------------------------------------------
(* zynqmp_ioctl: down_interruptible, the command, up.                        *)
Down(t) ==
    /\ pc[t] = "idle" /\ t \in files
    /\ \E c \in Cmds : cmd' = [cmd EXCEPT ![t] = c]
    /\ IF sem > 0 THEN Go(t, "command") /\ sem' = sem - 1 /\ UNCHANGED sleepers
       ELSE Go(t, "wait") /\ sleepers' = Append(sleepers, t) /\ UNCHANGED sem
    /\ UNCHANGED <<usecount, dmaSem, memory, seen, files, overlapped, leaked, opens>>

(* A task off the wait list; after sema_init it may not be on it any more.   *)
Without(list, t) ==
    IF \A i \in DOMAIN list : list[i] # t THEN list
    ELSE LET at == CHOOSE i \in DOMAIN list : list[i] = t
         IN  [j \in 1..(Len(list) - 1) |-> list[IF j < at THEN j ELSE j + 1]]

(* A signal gets a sleeper out, with -ERESTARTSYS.                           *)
Interrupt(t) ==
    /\ pc[t] = "wait"
    /\ sleepers' = Without(sleepers, t)
    /\ cmd' = [cmd EXCEPT ![t] = "reg"]
    /\ Go(t, "idle")
    /\ UNCHANGED <<usecount, sem, dmaSem, memory, seen, files, overlapped, leaked, opens>>

(* up() gives the semaphore to the first sleeper, or counts it.  An ioctl    *)
(* ends with it.                                                             *)
Up(t) ==
    /\ IF sleepers = <<>>
       THEN sem' = sem + 1 /\ pc' = [pc EXCEPT ![t] = "idle"] /\ UNCHANGED sleepers
       ELSE /\ sleepers' = Tail(sleepers) /\ UNCHANGED sem
            /\ pc' = [pc EXCEPT ![t] = "idle", ![Head(sleepers)] = "command"]
    /\ cmd' = [cmd EXCEPT ![t] = "reg"]

(* Mutant of Register: a command that is refused returns as READ_ROW does.   *)
RegisterReturns(t) ==
    /\ pc[t] = "command" /\ cmd[t] = "reg"
    /\ Up(t) \/ (Go(t, "idle") /\ UNCHANGED <<sem, sleepers, cmd>>)
    /\ UNCHANGED <<usecount, dmaSem, memory, seen, files, overlapped, leaked, opens>>

Register(t) ==
    /\ pc[t] = "command" /\ cmd[t] = "reg"
    /\ Up(t)
    /\ UNCHANGED <<usecount, dmaSem, memory, seen, files, overlapped, leaked, opens>>

(* READ_ROW with nothing to read returns from the middle of the switch.      *)
EmptyRow(t) ==
    /\ pc[t] = "command" /\ cmd[t] = "row0"
    /\ Go(t, "idle") /\ cmd' = [cmd EXCEPT ![t] = "reg"]
    /\ leaked' = TRUE
    /\ UNCHANGED <<usecount, locks, memory, seen, files, overlapped, opens>>

(* Mutant of DmaDown: the semaphore of the ioctl is thought to be enough.    *)
DmaDownFree(t) ==
    /\ pc[t] = "command" /\ cmd[t] = "dma"
    /\ dmaSem' = t
    /\ Go(t, "dma")
    /\ UNCHANGED <<usecount, sem, sleepers, memory, seen, cmd, files, overlapped, leaked, opens>>

(* zynqmp_dma_ioctl: down_write, the command, up_write.                      *)
DmaDown(t) ==
    /\ pc[t] = "command" /\ cmd[t] = "dma" /\ dmaSem = None
    /\ dmaSem' = t
    /\ Go(t, "dma")
    /\ UNCHANGED <<usecount, sem, sleepers, memory, seen, cmd, files, overlapped, leaked, opens>>

DmaUp(t) ==
    /\ pc[t] = "dma"
    /\ dmaSem' = None
    /\ Up(t)
    /\ UNCHANGED <<usecount, memory, seen, files, overlapped, leaked, opens>>

Step(t) ==
    \/ SemaInit(t) \/ DmaInit(t) \/ ConfigMemory(t) \/ Load(t) \/ StoreOpen(t)
    \/ StoreClose(t) \/ Register(t) \/ EmptyRow(t) \/ DmaDown(t) \/ DmaUp(t)

Next == \E t \in Tasks : Open(t) \/ Close(t) \/ Down(t) \/ Interrupt(t) \/ Step(t)

Spec == Init /\ [][Next]_vars

(* A task that is in a call and does not sleep goes on; no task has to make  *)
(* a call, or to be sent a signal.                                           *)
FairSpec == Spec /\ \A t \in Tasks : WF_vars(Step(t))
-----------------------------------------------------------------------------
(* The use count is the number of files open, unless opens or closes have    *)
(* met since the device was last closed by all.                              *)
UseCounted == ~overlapped /\ Changing = {} => usecount = Cardinality(files)

(* While the device is open, the semaphore is free or one command has it:    *)
(* two are never in the driver, and it is never free for ever; unless an     *)
(* empty READ_ROW has returned with it, or opens or closes have met.         *)
SemaphoreKept ==
    files # {} /\ ~overlapped /\ ~leaked => sem + Cardinality(Inside) = 1

(* DMA commands are one at a time even when the semaphore of the ioctl was   *)
(* initialised under a command: they have a lock of their own.               *)
DmaAlone == \A t, u \in Tasks : pc[t] = "dma" /\ pc[u] = "dma" => t = u

(* Every command finds the DMA buffers configured, unless opens or closes    *)
(* have met: no initialisation is under way or follows while a file is open. *)
Configured == ~overlapped /\ files # {} => memory = "ready"

(* A command that waits gets its turn, unless the semaphore leaked or was    *)
(* initialised under those that waited.                                      *)
CommandsEnd ==
    \A t \in Tasks : (pc[t] \in Commands) ~> (pc[t] \notin Commands \/ leaked \/ overlapped)
=============================================================================
