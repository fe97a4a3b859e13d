---------------------------- MODULE ScopeModule ----------------------------
(***************************************************************************)
(* The scope module of a ZynqMP system: a copy, in memory shared by several *)
(* processes, of the scope data of the card, with a valid bit per chunk of   *)
(* time points.  The control process starts a run, waits for it and fetches  *)
(* the data (start_scope in ngpd.py, over ngzmp_system_start,                *)
(* ngzmp_dma_wait_scope and ngpd_dma_read_scope); a viewer, the data server  *)
(* of another process, fetches what it shows (ngpd_scope_update_mod).        *)
(* Addresses and times count half chunks of a data stream of four scope      *)
(* streams.  DMA and rings are modelled in ScopeRun; here a stream is the    *)
(* region of card memory it fills.  As there, a register write that the      *)
(* device refuses passes for one that was done, and the wait does not look   *)
(* at the result of its read of SCOPE_CONT.                                  *)
(***************************************************************************)
EXTENDS Naturals, FiniteSets

CONSTANTS
    Layouts,    \* NGZMP_SCOPE_LAYOUT_*, by their DMA streams: 1 (4 scope
                \* streams), 2 (8), 3 (10, the third with half the width)
    Size,       \* memory of a card, in units
    Host, Viewer,
    MaxRuns,    \* bound: runs started
    MaxViews,   \* bound: fetches of the viewer
    MaxOptions, \* bound: calls of ngpd_set_scope_options
    MaxFaults   \* bound: accesses that fail, seen or unseen

ASSUME ModuleAssumption ==
    /\ Layouts \subseteq 1..3 /\ Layouts # {} /\ Size \in Nat /\ Size >= 5
    /\ Host # Viewer
    /\ {MaxRuns, MaxViews, MaxOptions, MaxFaults} \subseteq Nat

VARIABLES
    mem,       \* memory of the card: the start whose DMA wrote each unit
    mod,       \* the module's copy of it
    valid,     \* valid bits of the chunks
    modLayout, \* head.layout of the module
    hwLayout,  \* NUM_STREAMS of SCOPE_CONT
    recLayout, \* layout the DMA was built for
    left,      \* chunks each DMA stream has still to write
    runBit,    \* NGPD_DP_RUN
    pc,        \* where start_scope is
    dir,       \* "mod": SCOPE_MOD_TO_REGS, "regs": SCOPE_REGS_TO_MOD
    cont,      \* layout in the scope_cont of the call (1 outside its use)
    opt,       \* layout ngpd_set_scope_options has still to write to the module
    result,    \* what start_scope returned: "ok" after a wait and a fetch
    upd,       \* the fetch of each process
    disturbed, \* somebody interfered with this run, or it failed unseen (history)
    raced,     \* chunks whose valid bit nothing vouches for (history)
    runs, views, options, faults

module == <<mod, valid, modLayout>>
card   == <<mem, hwLayout, recLayout, left, runBit>>
host   == <<pc, dir, cont, result>>
bounds == <<runs, views, options, faults>>
vars   == <<module, card, host, opt, upd, disturbed, raced, bounds>>

Procs == {Host, Viewer}
Min2(a, b) == IF a < b THEN a ELSE b

(* num_scope_words and num_t of a layout: 16, 32 or 40 bytes hold two points *)
(* of all its streams.                                                       *)
NumT(l)     == CASE l = 1 -> Size [] l = 2 -> Size \div 2 [] l = 3 -> 2 * (Size \div 5)

(* The chunks that cover all of it; the last may be short.                   *)
Chunks(l) == (NumT(l) + 1) \div 2

MaxChunks   == (Size + 1) \div 2
Base(l, d)  == (d - 1) * NumT(l)
Scaled(d,t) == IF d = 3 THEN (t + 1) \div 2 ELSE t

(* The units of stream d that hold the points t .. t+dt-1.                   *)
Units(l, d, t, dt) ==
    {Base(l, d) + i : i \in Scaled(d, t)..(Scaled(d, t + dt) - 1)} \cap 0..(Size - 1)

(* The units of chunk c, over all the streams.                               *)
ChunkUnits(l, c) ==
    UNION {Units(l, d, 2 * c, Min2(2, NumT(l) - 2 * c)) : d \in 1..l}

NoUpd == [pc |-> "idle", chunk |-> 0, last |-> 0, numT |-> 0, from |-> 0, group |-> FALSE,
          stop |-> 0, lay |-> 1, dma |-> 1, dirty |-> FALSE]

TypeOK ==
    /\ mem \in [0..(Size - 1) -> 0..MaxRuns] /\ mod \in [0..(Size - 1) -> 0..MaxRuns]
    /\ valid \subseteq 0..(MaxChunks - 1) /\ raced \subseteq valid
    /\ {modLayout, hwLayout, recLayout} \subseteq Layouts /\ opt \in Layouts \cup {0}
    /\ cont \in 1..3 /\ (pc \in {"layout", "arm", "mark"} => cont \in Layouts)
    /\ left \in [1..3 -> 0..MaxChunks]
    /\ {runBit, disturbed} \subseteq BOOLEAN
    /\ pc \in {"idle", "cont", "layout", "arm", "mark", "run", "started", "wait", "fetch"}
    /\ dir \in {"mod", "regs"} /\ result \in {"none", "ok", "error"}
    /\ \A p \in Procs :
        /\ upd[p].pc \in {"idle", "scan", "read", "dead"}
        /\ upd[p].pc = "read" => upd[p].stop < MaxChunks /\ upd[p].from <= upd[p].stop

Init ==
    /\ mem = [u \in 0..(Size - 1) |-> 0] /\ mod = mem
    /\ valid = {} /\ raced = {}
    /\ modLayout \in Layouts /\ hwLayout = modLayout /\ recLayout = modLayout
    /\ left = [d \in 1..3 |-> 0] /\ runBit = FALSE
    /\ pc = "idle" /\ dir = "mod" /\ cont = 1 /\ result = "none"
    /\ upd = [p \in Procs |-> NoUpd] /\ disturbed = FALSE /\ opt = 0
    /\ runs = 0 /\ views = 0 /\ options = 0 /\ faults = 0
-----------------------------------------------------------------------------
(* The group reads under way now overlap with a change of what they read.    *)
Overlap == [p \in Procs |-> [upd[p] EXCEPT !.dirty = @ \/ upd[p].pc = "read"]]

(* A register access goes as the caller takes it to go, or fails unseen.      *)
Unseen(failed) ==
    /\ failed => faults < MaxFaults
    /\ faults' = IF failed THEN faults + 1 ELSE faults

(* start_scope sets one of the two directions; ngzmp_system_start writes     *)
(* DATA_PATH to 0 and resets the DMA, whether or not the write was refused.  *)
StartScope ==
    /\ pc = "idle" /\ runs < MaxRuns
    /\ dir' \in {"mod", "regs"} /\ runs' = runs + 1
    /\ runBit' \in {FALSE, runBit} /\ disturbed' = runBit' /\ Unseen(runBit')
    /\ left' = [d \in 1..3 |-> 0]
    /\ pc' = "cont" /\ result' = "none"
    /\ UNCHANGED <<module, mem, hwLayout, recLayout, cont, opt, upd, raced, views, options>>

(* SCOPE_CONT is read and, from the module, written.                         *)
ScopeCont ==
    /\ pc = "cont"
    /\ cont' = IF dir = "mod" THEN modLayout ELSE hwLayout
    /\ hwLayout' \in {cont', hwLayout}
    /\ disturbed' = (disturbed \/ hwLayout' # cont') /\ Unseen(hwLayout' # cont')
    /\ pc' = "layout"
    /\ UNCHANGED <<module, mem, recLayout, left, runBit, dir, result, opt, upd, raced,
                   runs, views, options>>

(* ngpd_scope_set_streams gives the module the layout of the card.  The      *)
(* valid bits stay as they are, but stand for other data from here on.       *)
SetStreams ==
    /\ pc = "layout"
    /\ IF dir = "regs" THEN modLayout' = cont ELSE UNCHANGED modLayout
    /\ IF modLayout' = modLayout THEN UNCHANGED <<raced, upd>>
       ELSE raced' = valid /\ upd' = Overlap
    /\ pc' = "arm"
    /\ UNCHANGED <<mod, valid, card, dir, cont, result, opt, disturbed, bounds>>

(* The descriptors are built and the DMA started (ScopeRun has the steps).   *)
ArmScope ==
    /\ pc = "arm"
    /\ recLayout' = cont
    /\ left' = [d \in 1..3 |-> IF d <= cont THEN Chunks(cont) ELSE 0]
    /\ pc' = "mark"
    /\ UNCHANGED <<module, mem, hwLayout, runBit, dir, cont, result, opt, upd, disturbed, raced, bounds>>

(* Mutant of MarkAll: only done when the module sets the registers.          *)
MarkAllFromModule ==
    /\ pc = "mark"
    /\ valid' = IF dir = "mod" THEN {} ELSE valid
    /\ raced' = {}
    /\ upd' = Overlap
    /\ disturbed' = (disturbed \/ upd[Viewer].pc # "idle")
    /\ pc' = "run"
    /\ UNCHANGED <<mod, modLayout, card, dir, cont, result, opt, bounds>>

(* ngpd_scope_mark_all clears the valid bits.  A fetch that is under way     *)
(* sets them afterwards.                                                     *)
MarkAll ==
    /\ pc = "mark"
    /\ valid' = {}
    /\ raced' = {}
    /\ upd' = Overlap
    /\ disturbed' = (disturbed \/ upd[Viewer].pc # "idle")
    /\ pc' = "run"
    /\ UNCHANGED <<mod, modLayout, card, dir, cont, result, opt, bounds>>

(* NGPD_DP_RUN is set by a read-modify-write, whose refusal is seen, and the *)
(* call returns; start_scope goes on to wait, or leaves the run to itself.   *)
SetRun ==
    /\ pc = "run"
    /\ runBit' = TRUE
    /\ pc' \in {"started", "idle"} /\ dir' = "mod" /\ cont' = 1
    /\ UNCHANGED <<module, mem, hwLayout, recLayout, left, result, opt, upd,
                   disturbed, raced, bounds>>

(* ngzmp_dma_wait_scope reads the number of streams once; if that fails it   *)
(* goes on with whatever is in the variable.                                 *)
WaitScope ==
    /\ pc = "started"
    /\ cont' \in 1..3
    /\ disturbed' = (disturbed \/ cont' # hwLayout) /\ Unseen(cont' # hwLayout)
    /\ pc' = "wait"
    /\ UNCHANGED <<module, card, dir, result, opt, upd, raced, runs, views, options>>

(* It ends when these streams have all they were built for, and all of the   *)
(* module is fetched (ngpd_scope_update_mod with dt < 0).                    *)
BeginUpdate(p, first, last) ==
    upd' = [upd EXCEPT ![p] = [NoUpd EXCEPT !.pc = "scan", !.chunk = first, !.last = last,
                                            !.numT = NumT(modLayout)]]

(* Mutant of WaitDone: only the first stream is waited for.                  *)
WaitDoneFirst ==
    /\ pc = "wait" /\ left[1] = 0
    /\ BeginUpdate(Host, 0, Chunks(modLayout) - 1)
    /\ pc' = "fetch" /\ cont' = 1
    /\ UNCHANGED <<module, card, dir, result, opt, disturbed, raced, bounds>>

WaitDone ==
    /\ pc = "wait" /\ \A d \in 1..cont : left[d] = 0
    /\ BeginUpdate(Host, 0, Chunks(modLayout) - 1)
    /\ pc' = "fetch" /\ cont' = 1
    /\ UNCHANGED <<module, card, dir, result, opt, disturbed, raced, bounds>>

(* An access fails, or the wait times out: an exception leaves start_scope.  *)
HostError ==
    /\ pc \notin {"idle", "fetch"} /\ faults < MaxFaults
    /\ pc' = "idle" /\ result' = "error" /\ dir' = "mod" /\ cont' = 1
    /\ faults' = faults + 1
    /\ UNCHANGED <<module, card, opt, upd, disturbed, raced, runs, views, options>>
-----------------------------------------------------------------------------
(* ngpd_scope_update_mod_one_card: the valid bits are looked at one by one.  *)
(* A group of invalid chunks is read at a valid one, or at the end, up to    *)
(* the num_t found when the fetch began.                                     *)
EndUpdate(p, r) ==
    /\ upd' = [upd EXCEPT ![p] = NoUpd]
    /\ IF p = Host THEN pc' = "idle" /\ result' = r ELSE UNCHANGED <<pc, result>>

Scan(p) ==
    LET u == upd[p]
    IN  /\ u.pc = "scan"
        /\ \/ /\ u.chunk <= u.last /\ u.chunk \notin valid
              /\ upd' = [upd EXCEPT ![p].chunk = @ + 1, ![p].group = TRUE,
                                    ![p].from = IF u.group THEN @ ELSE u.chunk]
              /\ UNCHANGED <<pc, result>>
           \/ /\ u.chunk <= u.last /\ u.chunk \in valid /\ ~u.group
              /\ upd' = [upd EXCEPT ![p].chunk = @ + 1]
              /\ UNCHANGED <<pc, result>>
           \/ /\ u.chunk > u.last \/ u.chunk \in valid
              /\ u.group
              /\ upd' = [upd EXCEPT ![p].pc = "read", ![p].stop = u.chunk - 1, ![p].dma = 1,
                                    ![p].lay = modLayout, ![p].dirty = FALSE]
              /\ UNCHANGED <<pc, result>>
           \/ u.chunk > u.last /\ ~u.group /\ EndUpdate(p, "ok")
        /\ UNCHANGED <<module, card, dir, cont, opt, disturbed, raced, bounds>>

(* Mutant of Marked: one chunk too many.                                     *)
MarkedOneMore(u) == u.from..(u.stop + 1)

(* The chunks a group read marks.                                            *)
Marked(u) == u.from..u.stop

(* ngzmp_scope_read reads the group stream by stream; the place in the       *)
(* module is looked up for each, and a stream the layout has no more has     *)
(* none: the process faults.  After the last the group is marked valid.      *)
ReadStream(p) ==
    LET u   == upd[p]
        t   == 2 * u.from
        dt  == Min2(2 * (u.stop + 1), u.numT) - t
        src == Units(u.lay, u.dma, t, dt)
        to  == [a \in src |-> Base(modLayout, u.dma) + (a - Base(u.lay, u.dma))]
    IN  /\ u.pc = "read" /\ u.dma <= modLayout
        /\ mod' = [a \in DOMAIN mod |->
                     IF \E s \in src : to[s] = a THEN mem[CHOOSE s \in src : to[s] = a] ELSE mod[a]]
        /\ valid' = IF u.dma < u.lay THEN valid ELSE valid \cup Marked(u)
        /\ raced' = IF u.lay # modLayout THEN valid'
                    ELSE IF u.dma < u.lay THEN raced
                    ELSE IF u.dirty \/ u.numT # NumT(u.lay) THEN raced \cup Marked(u)
                    ELSE raced \ (u.from..u.stop)
        /\ upd' = [IF u.lay # modLayout THEN Overlap ELSE upd EXCEPT ![p] =
                     IF u.dma < u.lay THEN [u EXCEPT !.dma = @ + 1]
                     ELSE [NoUpd EXCEPT !.pc = "scan", !.chunk = u.chunk + 1, !.last = u.last,
                                         !.numT = u.numT]]
        /\ UNCHANGED <<modLayout, card, host, opt, disturbed, bounds>>

ReadLost(p) ==
    /\ upd[p].pc = "read" /\ upd[p].dma > modLayout
    /\ upd' = [upd EXCEPT ![p] = [NoUpd EXCEPT !.pc = "dead"]]
    /\ UNCHANGED <<module, card, host, opt, disturbed, raced, bounds>>

(* A read that fails ends the fetch; nothing of the group is marked.         *)
ReadFails(p) ==
    /\ upd[p].pc = "read" /\ faults < MaxFaults
    /\ faults' = faults + 1
    /\ EndUpdate(p, "error")
    /\ UNCHANGED <<module, card, dir, cont, opt, disturbed, raced, runs, views, options>>

(* The viewer fetches the chunks it shows, whenever it likes.                *)
View ==
    /\ upd[Viewer].pc = "idle" /\ views < MaxViews
    /\ \E last \in 0..(Chunks(modLayout) - 1) : \E first \in 0..last :
           BeginUpdate(Viewer, first, last)
    /\ views' = views + 1
    /\ disturbed' = (disturbed \/ pc = "run" \/ \E d \in 1..3 : left[d] > 0)
    /\ UNCHANGED <<module, card, host, opt, raced, runs, options, faults>>
-----------------------------------------------------------------------------
(* ngpd_set_scope_options, from another call, writes the number of streams   *)
(* to the card, or, if it is given none, what is there again; its layout is  *)
(* then the one the module had.  The write of the card is one step.          *)
SetOptions ==
    /\ opt = 0 /\ options < MaxOptions
    /\ \/ opt' \in Layouts /\ hwLayout' \in {opt', hwLayout} /\ Unseen(hwLayout' # opt')
       \/ opt' = modLayout /\ UNCHANGED <<hwLayout, faults>>
    /\ options' = options + 1
    /\ disturbed' = TRUE
    /\ UNCHANGED <<module, mem, recLayout, left, runBit, host, upd, raced, runs, views>>

(* The layout goes into the module after it, whatever the card made of the   *)
(* write.  The valid bits stay, as in SetStreams.                            *)
OptionsToModule ==
    /\ opt # 0
    /\ modLayout' = opt /\ opt' = 0
    /\ IF modLayout' = modLayout THEN UNCHANGED <<raced, upd>>
       ELSE raced' = valid /\ upd' = Overlap
    /\ disturbed' = TRUE
    /\ UNCHANGED <<mod, valid, card, host, bounds>>

(* An access to the card fails: the module is left as it is.                 *)
OptionsError ==
    /\ opt # 0 /\ faults < MaxFaults
    /\ opt' = 0 /\ faults' = faults + 1
    /\ UNCHANGED <<module, card, host, upd, disturbed, raced, runs, views, options>>

(* External: the DMA writes the next chunk of a stream it was built for.     *)
Record(d) ==
    /\ runBit /\ left[d] > 0
    /\ LET c == Chunks(recLayout) - left[d]
           w == Units(recLayout, d, 2 * c, Min2(2, NumT(recLayout) - 2 * c))
       IN  /\ mem' = [u \in DOMAIN mem |-> IF u \in w THEN runs ELSE mem[u]]
           /\ raced' = raced \cup {k \in valid : ChunkUnits(modLayout, k) \cap w # {}}
    /\ left' = [left EXCEPT ![d] = @ - 1]
    /\ upd' = Overlap
    /\ UNCHANGED <<module, hwLayout, recLayout, runBit, host, opt, disturbed, bounds>>

Next ==
    \/ StartScope \/ ScopeCont \/ SetStreams \/ ArmScope \/ MarkAll \/ SetRun \/ WaitScope
    \/ WaitDone \/ HostError \/ View \/ SetOptions \/ OptionsToModule \/ OptionsError
    \/ \E p \in Procs : Scan(p) \/ ReadStream(p) \/ ReadLost(p) \/ ReadFails(p)
    \/ \E d \in 1..3 : Record(d)

Spec == Init /\ [][Next]_vars
-----------------------------------------------------------------------------
(* A start_scope that waited and fetched, and reported no error, leaves in   *)
(* the module all the data of this run, in the layout it was recorded in,    *)
(* unless somebody fetched between the clearing of the valid bits and the    *)
(* end of the recording or changed the number of streams meanwhile, the      *)
(* source could not be stopped, or an access to SCOPE_CONT failed unseen.    *)
ReadScopeFresh ==
    result = "ok" /\ ~disturbed =>
        /\ modLayout = recLayout
        /\ \A c \in 0..(Chunks(recLayout) - 1) : \A u \in ChunkUnits(recLayout, c) : mod[u] = runs

(* A chunk that is marked valid is what the card holds, whoever fetched it   *)
(* and with what else going on, fetches that failed half-way included, but   *)
(* for the chunks read while they were recorded or marked before they were,  *)
(* and those still marked when the layout changed under them.                *)
MirrorUnlessRaced ==
    \A c \in valid \ raced :
        c < Chunks(modLayout) => \A u \in ChunkUnits(modLayout, c) : mod[u] = mem[u]
=============================================================================
