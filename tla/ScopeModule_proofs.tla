-------------------------- MODULE ScopeModule_proofs --------------------------
(***************************************************************************)
(* The properties of ScopeModule for every size of memory, and any number   *)
(* of runs, fetches, changes of options and failing accesses.               *)
(***************************************************************************)
EXTENDS ScopeModule, FiniteSetTheorems, TLAPS

Update == [pc : {"idle", "scan", "read", "dead"}, chunk : Nat, last : Nat, numT : Nat,
           from : Nat, group : BOOLEAN, stop : Nat, lay : 1..3, dma : Nat, dirty : BOOLEAN]

(* A fetch that has its group and scans on behind it.                        *)
NextGroup(u) == [NoUpd EXCEPT !.pc = "scan", !.chunk = u.chunk + 1, !.last = u.last,
                              !.numT = u.numT]

(* A fetch and the group of chunks it has in hand stay within its chunks.    *)
Within(u) ==
    /\ u.pc \in {"scan", "read"} => u.last < MaxChunks
    /\ u.pc = "scan" /\ u.group => u.from < u.chunk /\ u.chunk <= u.last + 1
    /\ u.pc = "read" => /\ u.from <= u.stop /\ u.chunk = u.stop + 1 /\ u.stop <= u.last
                        /\ u.dma \in 1..u.lay

Flat ==
    /\ mem \in [0..(Size - 1) -> 0..MaxRuns] /\ mod \in [0..(Size - 1) -> 0..MaxRuns]
    /\ valid \subseteq 0..(MaxChunks - 1) /\ raced \subseteq valid
    /\ modLayout \in Layouts /\ hwLayout \in Layouts /\ recLayout \in Layouts
    /\ opt \in Layouts \cup {0}
    /\ cont \in 1..3 /\ (pc \in {"layout", "arm", "mark"} => cont \in Layouts)
    /\ left \in [1..3 -> 0..MaxChunks]
    /\ runBit \in BOOLEAN /\ disturbed \in BOOLEAN
    /\ pc \in {"idle", "cont", "layout", "arm", "mark", "run", "started", "wait", "fetch"}
    /\ dir \in {"mod", "regs"} /\ result \in {"none", "ok", "error"}
    /\ runs \in 0..MaxRuns
Fetches == upd \in [Procs -> Update] /\ \A p \in Procs : Within(upd[p])
Types == Flat /\ Fetches

(* The units of stream d that a group read fetches.                         *)
GroupUnits(u, d) == Units(u.lay, d, 2 * u.from, Min2(2 * (u.stop + 1), u.numT) - 2 * u.from)

(* What an undisturbed group read has copied so far is still what the card   *)
(* holds.                                                                   *)
Copied(u) ==
    u.pc = "read" /\ ~u.dirty =>
        /\ u.lay = modLayout
        /\ \A d \in 1..(u.dma - 1) : \A a \in GroupUnits(u, d) : mod[a] = mem[a]

(* The layouts of the card, the recording and the module, by the place of    *)
(* start_scope; what a run has recorded.                                    *)
Under == pc \in {"mark", "run", "started", "wait", "fetch"} \/ result = "ok"
Layouted ==
    ~disturbed =>
        /\ pc = "layout" /\ dir = "mod" => cont = modLayout
        /\ pc = "arm" => cont = modLayout
        /\ Under => modLayout = recLayout
        /\ pc \in {"layout", "arm"} => hwLayout = cont
        /\ pc \in {"mark", "run", "started"} => hwLayout = recLayout
        /\ pc = "wait" => cont = recLayout

Recorded ==
    Under => \A d \in 1..3 :
        /\ left[d] <= IF d <= recLayout THEN Chunks(recLayout) ELSE 0
        /\ d <= recLayout =>
              \A c \in 0..(Chunks(recLayout) - left[d] - 1) :
                 \A u \in Units(recLayout, d, 2 * c, Min2(2, NumT(recLayout) - 2 * c)) :
                    mem[u] = runs

(* The host fetches only where start_scope does, and returns where it ends.  *)
HostPlace ==
    /\ upd[Host].pc = "idle" <=> pc # "fetch"
    /\ result = "ok" => pc = "idle"

(* An undisturbed run: nothing is fetched before all is recorded, and        *)
(* nothing that is fetched afterwards is in doubt.                          *)
Recording == pc = "run" \/ \E d \in 1..3 : left[d] > 0
Quiet ==
    Under /\ pc # "mark" /\ ~disturbed =>
        /\ raced = {}
        /\ Recording => valid = {} /\ upd[Viewer].pc = "idle"
        /\ pc = "fetch" \/ result = "ok" => ~Recording
        /\ \A p \in Procs :
              /\ upd[p].pc \in {"scan", "read"} => upd[p].numT = NumT(modLayout)
              /\ upd[p].pc = "read" => ~upd[p].dirty

(* The host leaves no chunk out.                                            *)
Fetched(u) ==
    IF u.pc = "scan" THEN IF u.group THEN 0..(u.from - 1) ELSE 0..(u.chunk - 1)
    ELSE IF u.pc = "read" THEN 0..(u.from - 1) \cup ({u.chunk} \cap 0..u.last)
    ELSE {}
Complete ==
    ~disturbed =>
        /\ pc = "fetch" => /\ upd[Host].pc # "dead" => upd[Host].last = Chunks(modLayout) - 1
                           /\ Fetched(upd[Host]) \cap 0..upd[Host].last \subseteq valid
        /\ result = "ok" => 0..(Chunks(modLayout) - 1) \subseteq valid

IInv ==
    /\ Types /\ (\A p \in Procs : Copied(upd[p])) /\ MirrorUnlessRaced
    /\ Layouted /\ Recorded /\ HostPlace /\ Quiet /\ Complete
-----------------------------------------------------------------------------
(* Chunks and units                                                         *)

LEMMA LayoutFacts ==
    ASSUME NEW l \in Layouts
    PROVE  /\ l \in 1..3 /\ NumT(l) \in Nat /\ NumT(l) >= 2 /\ NumT(l) <= Size
           /\ Chunks(l) \in 1..MaxChunks /\ MaxChunks \in Nat /\ Size \in Nat
           /\ \A c \in Nat : c < Chunks(l) => 2 * c < NumT(l)
<1>1. l \in 1..3 /\ Size \in Nat /\ Size >= 5
  BY ModuleAssumption
<1> DEFINE n == NumT(l)
<1>2. n \in Nat /\ n >= 2 /\ n <= Size
  <2>1. CASE l = 1
    BY <1>1, <2>1 DEF NumT
  <2>2. CASE l = 2
    BY <1>1, <2>2 DEF NumT
  <2>3. CASE l = 3
    BY <1>1, <2>3 DEF NumT
  <2> QED BY <1>1, <2>1, <2>2, <2>3
<1>3. Chunks(l) = (n + 1) \div 2 /\ MaxChunks = (Size + 1) \div 2
  BY DEF Chunks, MaxChunks
<1> HIDE DEF n
<1>4. (n + 1) \div 2 \in 1..((Size + 1) \div 2) /\ (Size + 1) \div 2 \in Nat
      /\ \A c \in Nat : c < (n + 1) \div 2 => 2 * c < n
  BY <1>1, <1>2
<1> QED BY <1>1, <1>2, <1>3, <1>4 DEF n

LEMMA ScaledFacts ==
    ASSUME NEW d \in 1..3, NEW t \in Nat, NEW s \in Nat, t <= s
    PROVE  Scaled(d, t) \in Nat /\ Scaled(d, s) \in Nat /\ Scaled(d, t) <= Scaled(d, s)
BY DEF Scaled

LEMMA UnitsInside ==
    ASSUME NEW l, NEW d, NEW t, NEW dt
    PROVE  Units(l, d, t, dt) \subseteq 0..(Size - 1)
BY DEF Units

(* The units of one of the chunks of a group are among those of the group.   *)
LEMMA UnitsWithin ==
    ASSUME NEW l \in Layouts, NEW d \in 1..l, NEW from \in Nat, NEW stop \in Nat,
           NEW c \in from..stop, c < Chunks(l)
    PROVE  Units(l, d, 2 * c, Min2(2, NumT(l) - 2 * c))
             \subseteq Units(l, d, 2 * from, Min2(2 * (stop + 1), NumT(l)) - 2 * from)
<1> DEFINE n == NumT(l)
           t == 2 * c
           e == t + Min2(2, n - t)
           tt == 2 * from
           ee == tt + (Min2(2 * (stop + 1), n) - tt)
<1>1. n \in Nat /\ c \in Nat /\ t < n /\ d \in 1..3
  BY LayoutFacts
<1>2. t \in Nat /\ e \in Nat /\ tt \in Nat /\ ee \in Nat /\ tt <= t /\ e <= ee
  <2> HIDE DEF n
  <2> QED BY <1>1 DEF Min2
<1> HIDE DEF t, e, tt, ee
<1>3. /\ Scaled(d, tt) <= Scaled(d, t) /\ Scaled(d, e) <= Scaled(d, ee)
      /\ Scaled(d, t) \in Nat /\ Scaled(d, e) \in Nat /\ Scaled(d, tt) \in Nat
      /\ Scaled(d, ee) \in Nat
  BY <1>1, <1>2, ScaledFacts
<1>4. Scaled(d, t)..(Scaled(d, e) - 1) \subseteq Scaled(d, tt)..(Scaled(d, ee) - 1)
  BY <1>3
<1>5. /\ Units(l, d, 2 * c, Min2(2, n - 2 * c))
           = {Base(l, d) + i : i \in Scaled(d, t)..(Scaled(d, e) - 1)} \cap 0..(Size - 1)
      /\ Units(l, d, 2 * from, Min2(2 * (stop + 1), n) - 2 * from)
           = {Base(l, d) + i : i \in Scaled(d, tt)..(Scaled(d, ee) - 1)} \cap 0..(Size - 1)
  BY DEF Units, t, e, tt, ee
<1> QED BY <1>4, <1>5, Zenon

LEMMA ChunkOfUnits ==
    ASSUME NEW l \in Layouts, NEW c, NEW a
    PROVE  a \in ChunkUnits(l, c) <=>
             \E d \in 1..l : a \in Units(l, d, 2 * c, Min2(2, NumT(l) - 2 * c))
BY DEF ChunkUnits

LEMMA BaseType ==
    ASSUME NEW l \in Layouts, NEW d \in 1..3
    PROVE  Base(l, d) \in Nat
<1>1. NumT(l) \in Nat
  BY LayoutFacts
<1>2. d = 1 \/ d = 2 \/ d = 3
  OBVIOUS
<1>3. Base(l, d) = (d - 1) * NumT(l)
  BY DEF Base
<1> DEFINE n == NumT(l)
<1> HIDE DEF n
<1>4. (1 - 1) * n \in Nat /\ (2 - 1) * n \in Nat /\ (3 - 1) * n \in Nat
  BY <1>1 DEF n
<1> QED BY <1>2, <1>3, <1>4 DEF n
-----------------------------------------------------------------------------
(* What the steps of a fetch do                                             *)

LEMMA ProcsDistinct == Host \in Procs /\ Viewer \in Procs /\ Host # Viewer
BY ModuleAssumption DEF Procs

LEMMA ScanEffect ==
    ASSUME Types, NEW p \in Procs, Scan(p)
    PROVE  LET u == upd[p]
               v == upd'[p]
           IN  /\ UNCHANGED <<module, card, dir, cont, opt, disturbed, raced, bounds>>
               /\ u.pc = "scan" /\ u \in Update /\ DOMAIN upd' = Procs
               /\ upd' = [upd EXCEPT ![p] = v]
               /\ \A q \in Procs : q # p => upd'[q] = upd[q]
               /\ \/ /\ u.chunk <= u.last /\ u.chunk \notin valid
                     /\ v = [u EXCEPT !.chunk = u.chunk + 1, !.group = TRUE,
                                      !.from = IF u.group THEN u.from ELSE u.chunk]
                     /\ UNCHANGED <<pc, result>>
                  \/ /\ u.chunk <= u.last /\ u.chunk \in valid /\ ~u.group
                     /\ v = [u EXCEPT !.chunk = u.chunk + 1]
                     /\ UNCHANGED <<pc, result>>
                  \/ /\ u.chunk > u.last \/ u.chunk \in valid
                     /\ u.group
                     /\ v = [u EXCEPT !.pc = "read", !.stop = u.chunk - 1, !.dma = 1,
                                      !.lay = modLayout, !.dirty = FALSE]
                     /\ UNCHANGED <<pc, result>>
                  \/ /\ u.chunk > u.last /\ ~u.group
                     /\ v = NoUpd
                     /\ IF p = Host THEN pc' = "idle" /\ result' = "ok"
                        ELSE UNCHANGED <<pc, result>>
<1> DEFINE u == upd[p]
<1>1. upd \in [Procs -> Update] /\ u \in Update
  BY DEF Types, Fetches
<1>2. /\ UNCHANGED <<module, card, dir, cont, opt, disturbed, raced, bounds>> /\ u.pc = "scan"
  BY DEF Scan
<1>3. CASE /\ u.chunk <= u.last /\ u.chunk \notin valid
           /\ upd' = [upd EXCEPT ![p].chunk = @ + 1, ![p].group = TRUE,
                                 ![p].from = IF u.group THEN @ ELSE u.chunk]
           /\ UNCHANGED <<pc, result>>
  <2>1. upd' = [upd EXCEPT ![p] = [u EXCEPT !.chunk = u.chunk + 1, !.group = TRUE,
                                            !.from = IF u.group THEN u.from ELSE u.chunk]]
    BY <1>1, <1>3 DEF Update
  <2> QED BY <1>1, <1>2, <1>3, <2>1
<1>4. CASE /\ u.chunk <= u.last /\ u.chunk \in valid /\ ~u.group
           /\ upd' = [upd EXCEPT ![p].chunk = @ + 1]
           /\ UNCHANGED <<pc, result>>
  <2>1. upd' = [upd EXCEPT ![p] = [u EXCEPT !.chunk = u.chunk + 1]]
    BY <1>1, <1>4 DEF Update
  <2> QED BY <1>1, <1>2, <1>4, <2>1
<1>5. CASE /\ u.chunk > u.last \/ u.chunk \in valid
           /\ u.group
           /\ upd' = [upd EXCEPT ![p].pc = "read", ![p].stop = u.chunk - 1, ![p].dma = 1,
                                 ![p].lay = modLayout, ![p].dirty = FALSE]
           /\ UNCHANGED <<pc, result>>
  <2>1. upd' = [upd EXCEPT ![p] = [u EXCEPT !.pc = "read", !.stop = u.chunk - 1, !.dma = 1,
                                            !.lay = modLayout, !.dirty = FALSE]]
    BY <1>1, <1>5 DEF Update
  <2> QED BY <1>1, <1>2, <1>5, <2>1
<1>6. CASE u.chunk > u.last /\ ~u.group /\ EndUpdate(p, "ok")
  <2>1. /\ upd' = [upd EXCEPT ![p] = NoUpd]
        /\ IF p = Host THEN pc' = "idle" /\ result' = "ok" ELSE UNCHANGED <<pc, result>>
    BY <1>6 DEF EndUpdate
  <2> QED BY <1>1, <1>2, <1>6, <2>1
<1> QED BY <1>3, <1>4, <1>5, <1>6 DEF Scan

(* A group read whose layout is still that of the module copies the units of *)
(* a stream to where they were.                                             *)
LEMMA CopyEffect ==
    ASSUME Types, NEW p \in Procs, ReadStream(p), upd[p].lay = modLayout
    PROVE  mod' = [a \in DOMAIN mod |-> IF a \in GroupUnits(upd[p], upd[p].dma)
                                        THEN mem[a] ELSE mod[a]]
<1> DEFINE u == upd[p]
           t == 2 * u.from
           dt == Min2(2 * (u.stop + 1), u.numT) - t
           src == Units(u.lay, u.dma, t, dt)
           to == [a \in src |-> Base(modLayout, u.dma) + (a - Base(u.lay, u.dma))]
<1>1. u \in Update /\ modLayout \in Layouts /\ u.pc = "read" /\ u.dma <= modLayout
      /\ u.dma \in 1..u.lay
  BY DEF Types, Flat, Fetches, ReadStream, Within
<1>2. Base(modLayout, u.dma) \in Nat
  <2>1. u.dma \in 1..3
    BY <1>1, LayoutFacts
  <2> QED BY <1>1, <2>1, BaseType
<1>3. \A a \in src : to[a] = a
  <2>1. \A a \in src : a \in Nat
    BY UnitsInside
  <2> DEFINE b == Base(modLayout, u.dma)
  <2>2. \A a \in src : to[a] = b + (a - b)
    OBVIOUS
  <2> HIDE DEF b, src, to
  <2> QED BY <1>2, <2>1, <2>2 DEF b
<1>4. mod' = [a \in DOMAIN mod |->
                IF \E s \in src : to[s] = a THEN mem[CHOOSE s \in src : to[s] = a] ELSE mod[a]]
  BY Zenon DEF ReadStream
<1>5. src = GroupUnits(u, u.dma)
  BY DEF GroupUnits
<1> HIDE DEF src, to, u
<1>6. \A a : /\ (\E s \in src : to[s] = a) <=> a \in src
             /\ a \in src => (CHOOSE s \in src : to[s] = a) = a
  BY <1>3
<1>7. mod' = [a \in DOMAIN mod |-> IF a \in src THEN mem[a] ELSE mod[a]]
  BY <1>4, <1>6
<1> QED BY <1>5, <1>7 DEF u

LEMMA OverlapFacts ==
    ASSUME upd \in [Procs -> Update]
    PROVE  /\ Overlap \in [Procs -> Update]
           /\ \A q \in Procs : \E b \in BOOLEAN :
                 /\ Overlap[q] = [upd[q] EXCEPT !.dirty = b]
                 /\ upd[q].pc = "read" => b = TRUE
                 /\ upd[q].pc # "read" => Overlap[q] = upd[q]
BY DEF Overlap, Update

LEMMA NextGroupFacts ==
    ASSUME NEW u \in Update
    PROVE  LET w == NextGroup(u)
           IN  /\ w \in Update /\ w.pc = "scan" /\ w.group = FALSE /\ w.dirty = FALSE
               /\ w.chunk = u.chunk + 1 /\ w.last = u.last /\ w.numT = u.numT
<1>1. u.chunk + 1 \in Nat /\ u.last \in Nat /\ u.numT \in Nat
  BY DEF Update
<1> DEFINE c == u.chunk + 1
           l == u.last
           n == u.numT
<1>2. NextGroup(u) = [NoUpd EXCEPT !.pc = "scan", !.chunk = c, !.last = l, !.numT = n]
  BY DEF NextGroup
<1>3. c \in Nat /\ l \in Nat /\ n \in Nat
  BY <1>1
<1> HIDE DEF c, l, n
<1>5. NoUpd \in Update /\ NoUpd.group = FALSE /\ NoUpd.dirty = FALSE
  BY DEF NoUpd, Update
<1>4. /\ NextGroup(u) \in Update /\ NextGroup(u).pc = "scan" /\ NextGroup(u).group = FALSE
      /\ NextGroup(u).dirty = FALSE /\ NextGroup(u).chunk = c /\ NextGroup(u).last = l
      /\ NextGroup(u).numT = n
  BY <1>2, <1>3, <1>5 DEF Update
<1> QED BY <1>4 DEF c, l, n

LEMMA ReadEffect ==
    ASSUME Types, NEW p \in Procs, ReadStream(p)
    PROVE  LET u == upd[p]
               v == IF u.dma < u.lay THEN [u EXCEPT !.dma = u.dma + 1]
                    ELSE NextGroup(u)
           IN  /\ u.pc = "read" /\ u \in Update /\ u.dma <= modLayout
               /\ UNCHANGED <<modLayout, card, host, opt, disturbed, bounds>>
               /\ valid' = IF u.dma < u.lay THEN valid ELSE valid \cup (u.from..u.stop)
               /\ raced' = IF u.lay # modLayout THEN valid'
                           ELSE IF u.dma < u.lay THEN raced
                           ELSE IF u.dirty \/ u.numT # NumT(u.lay)
                           THEN raced \cup (u.from..u.stop) ELSE raced \ (u.from..u.stop)
               /\ mod' \in [0..(Size - 1) -> 0..MaxRuns]
               /\ upd' \in [Procs -> Update] /\ upd'[p] = v /\ v \in Update
               /\ \A q \in Procs \ {p} :
                     upd'[q] = IF u.lay # modLayout THEN Overlap[q] ELSE upd[q]
<1> DEFINE u == upd[p]
           v == IF u.dma < u.lay THEN [u EXCEPT !.dma = u.dma + 1]
                ELSE NextGroup(u)
<1>1. upd \in [Procs -> Update] /\ u \in Update /\ Overlap \in [Procs -> Update]
  BY OverlapFacts DEF Types, Fetches
<1>2. /\ u.pc = "read" /\ u.dma <= modLayout
      /\ UNCHANGED <<modLayout, card, host, opt, disturbed, bounds>>
      /\ valid' = IF u.dma < u.lay THEN valid ELSE valid \cup (u.from..u.stop)
      /\ raced' = IF u.lay # modLayout THEN valid'
                  ELSE IF u.dma < u.lay THEN raced
                  ELSE IF u.dirty \/ u.numT # NumT(u.lay)
                  THEN raced \cup (u.from..u.stop) ELSE raced \ (u.from..u.stop)
  BY Zenon DEF ReadStream, Marked
<1>3. v \in Update
  <2>1. u.dma + 1 \in Nat /\ u.chunk + 1 \in Nat
    BY <1>1 DEF Update
  <2>2. [u EXCEPT !.dma = u.dma + 1] \in Update
    BY <1>1, <2>1 DEF Update
  <2>3. NextGroup(u) \in Update
    BY <1>1, NextGroupFacts
  <2> QED BY <2>2, <2>3
<1>4. upd' = [IF u.lay # modLayout THEN Overlap ELSE upd EXCEPT ![p] = v]
  BY Zenon DEF ReadStream, NextGroup
<1> HIDE DEF u, v
<1>5. /\ upd' \in [Procs -> Update] /\ upd'[p] = v
      /\ \A q \in Procs \ {p} : upd'[q] = IF u.lay # modLayout THEN Overlap[q] ELSE upd[q]
  BY <1>1, <1>3, <1>4
<1>6. mod' \in [0..(Size - 1) -> 0..MaxRuns]
  <2> DEFINE src == Units(u.lay, u.dma, 2 * u.from, Min2(2 * (u.stop + 1), u.numT) - 2 * u.from)
             to == [a \in src |-> Base(modLayout, u.dma) + (a - Base(u.lay, u.dma))]
             at(a) == CHOOSE s \in src : to[s] = a
  <2>1. mod' = [a \in DOMAIN mod |->
                  IF \E s \in src : to[s] = a THEN mem[at(a)] ELSE mod[a]]
    BY Zenon DEF ReadStream, u
  <2>2. src \subseteq 0..(Size - 1)
    BY UnitsInside
  <2> HIDE DEF src, to
  <2>3. \A a : (\E s \in src : to[s] = a) => at(a) \in src
    OBVIOUS
  <2> HIDE DEF at
  <2>4. mem \in [0..(Size - 1) -> 0..MaxRuns] /\ mod \in [0..(Size - 1) -> 0..MaxRuns]
    BY DEF Types, Flat, Fetches
  <2> QED BY <2>1, <2>2, <2>3, <2>4
<1> QED BY <1>1, <1>2, <1>3, <1>5, <1>6 DEF u, v

LEMMA BeginEffect ==
    ASSUME Types, NEW p \in Procs, NEW last \in 0..(Chunks(modLayout) - 1), NEW first \in 0..last,
           BeginUpdate(p, first, last)
    PROVE  LET b == [NoUpd EXCEPT !.pc = "scan", !.chunk = first, !.last = last,
                                  !.numT = NumT(modLayout)]
           IN  /\ b \in Update /\ Within(b)
               /\ upd' = [upd EXCEPT ![p] = b] /\ upd' \in [Procs -> Update]
               /\ upd'[p] = b /\ \A q \in Procs \ {p} : upd'[q] = upd[q]
<1> DEFINE b == [NoUpd EXCEPT !.pc = "scan", !.chunk = first, !.last = last,
                              !.numT = NumT(modLayout)]
<1>1. modLayout \in Layouts /\ upd \in [Procs -> Update]
  BY DEF Types, Flat, Fetches
<1>2. NumT(modLayout) \in Nat /\ Chunks(modLayout) \in 1..MaxChunks /\ MaxChunks \in Nat
  BY <1>1, LayoutFacts
<1>3. b \in Update /\ Within(b)
  <2>1. first \in Nat /\ last \in Nat /\ last < MaxChunks
    BY <1>2
  <2>2. NoUpd \in Update /\ NoUpd.group = FALSE
    BY DEF Update, NoUpd
  <2>3. b \in Update /\ b.pc = "scan" /\ b.last = last /\ b.group = FALSE
    BY <1>2, <2>1, <2>2 DEF Update
  <2> HIDE DEF b
  <2>4. Within(b)
    BY <2>1, <2>3 DEF Within
  <2> QED BY <2>3, <2>4
<1>4. upd' = [upd EXCEPT ![p] = b]
  BY Zenon DEF BeginUpdate
<1> HIDE DEF b
<1>5. upd' \in [Procs -> Update] /\ upd'[p] = b /\ \A q \in Procs \ {p} : upd'[q] = upd[q]
  BY <1>1, <1>3, <1>4
<1> QED BY <1>3, <1>4, <1>5 DEF b

(* Where a turn of the scan leaves the fetch.                               *)
LEMMA ScanPlace ==
    ASSUME Types, NEW p \in Procs, Scan(p)
    PROVE  LET u == upd[p]
               v == upd'[p]
           IN  /\ v.pc = "read" => v.lay = modLayout /\ v.dma = 1 /\ ~v.dirty
               /\ v.pc \in {"scan", "read"} => v.numT = u.numT /\ UNCHANGED <<pc, result>>
               /\ v.pc \in {"idle", "scan", "read"}
               /\ v.pc = "idle" => IF p = Host THEN pc' = "idle" /\ result' = "ok"
                                   ELSE UNCHANGED <<pc, result>>
<1> DEFINE u == upd[p]
           v == upd'[p]
<1>1. /\ u \in Update /\ u.pc = "scan"
      /\ \/ /\ v = [u EXCEPT !.chunk = u.chunk + 1, !.group = TRUE,
                             !.from = IF u.group THEN u.from ELSE u.chunk]
            /\ UNCHANGED <<pc, result>>
         \/ v = [u EXCEPT !.chunk = u.chunk + 1] /\ UNCHANGED <<pc, result>>
         \/ /\ v = [u EXCEPT !.pc = "read", !.stop = u.chunk - 1, !.dma = 1,
                             !.lay = modLayout, !.dirty = FALSE]
            /\ UNCHANGED <<pc, result>>
         \/ /\ v = NoUpd
            /\ IF p = Host THEN pc' = "idle" /\ result' = "ok" ELSE UNCHANGED <<pc, result>>
  BY ScanEffect
<1> HIDE DEF u, v
<1>2. CASE /\ v = [u EXCEPT !.chunk = u.chunk + 1, !.group = TRUE,
                            !.from = IF u.group THEN u.from ELSE u.chunk]
           /\ UNCHANGED <<pc, result>>
  <2>1. v.pc = "scan" /\ v.numT = u.numT
    BY <1>1, <1>2 DEF Update
  <2> QED BY <1>2, <2>1 DEF u, v
<1>3. CASE v = [u EXCEPT !.chunk = u.chunk + 1] /\ UNCHANGED <<pc, result>>
  <2>1. v.pc = "scan" /\ v.numT = u.numT
    BY <1>1, <1>3 DEF Update
  <2> QED BY <1>3, <2>1 DEF u, v
<1>4. CASE /\ v = [u EXCEPT !.pc = "read", !.stop = u.chunk - 1, !.dma = 1,
                            !.lay = modLayout, !.dirty = FALSE]
           /\ UNCHANGED <<pc, result>>
  <2>1. /\ v.pc = "read" /\ v.numT = u.numT /\ v.lay = modLayout /\ v.dma = 1
        /\ v.dirty = FALSE
    BY <1>1, <1>4 DEF Update
  <2> QED BY <1>4, <2>1 DEF u, v
<1>5. CASE /\ v = NoUpd
           /\ IF p = Host THEN pc' = "idle" /\ result' = "ok" ELSE UNCHANGED <<pc, result>>
  <2>1. v.pc = "idle"
    BY <1>5 DEF NoUpd
  <2> QED BY <1>5, <2>1 DEF u, v
<1> QED BY <1>1, <1>2, <1>3, <1>4, <1>5
-----------------------------------------------------------------------------
(* Types                                                                    *)

LEMMA TypesImply == Types => TypeOK
<1> SUFFICES ASSUME Types PROVE TypeOK
  OBVIOUS
<1>1. Flat /\ upd \in [Procs -> Update] /\ \A p \in Procs : Within(upd[p])
  BY DEF Types, Fetches
<1>2. MaxChunks \in Nat
  BY <1>1, LayoutFacts DEF Flat
<1>3. ASSUME NEW p \in Procs
      PROVE  /\ upd[p].pc \in {"idle", "scan", "read", "dead"}
             /\ upd[p].pc = "read" => upd[p].stop < MaxChunks /\ upd[p].from <= upd[p].stop
  <2>1. upd[p] \in Update /\ Within(upd[p])
    BY <1>1
  <2> DEFINE u == upd[p]
  <2> HIDE DEF u
  <2>2. u \in Update /\ Within(u)
    BY <2>1 DEF u
  <2>3. /\ u.pc \in {"idle", "scan", "read", "dead"}
        /\ u.pc = "read" => u.stop < MaxChunks /\ u.from <= u.stop
    BY <1>2, <2>2 DEF Update, Within
  <2> QED BY <2>3 DEF u
<1> QED BY <1>1, <1>3 DEF Flat, TypeOK

(* Overlapping a fetch changes nothing that has a type of its own.           *)
LEMMA OverlapTypes ==
    ASSUME Fetches
    PROVE  Overlap \in [Procs -> Update] /\ \A p \in Procs : Within(Overlap[p])
<1>1. Overlap \in [Procs -> Update]
  BY OverlapFacts DEF Fetches
<1>2. ASSUME NEW p \in Procs PROVE Within(Overlap[p])
  <2>1. PICK b \in BOOLEAN : Overlap[p] = [upd[p] EXCEPT !.dirty = b]
    BY OverlapFacts DEF Fetches
  <2>2. upd[p] \in Update /\ Within(upd[p])
    BY DEF Fetches
  <2> QED BY <2>1, <2>2 DEF Within, Update
<1> QED BY <1>1, <1>2

LEMMA ScanTypes ==
    ASSUME Types, NEW p \in Procs, Scan(p)
    PROVE  Fetches'
<1> DEFINE u == upd[p]
           v == upd'[p]
<1>1. /\ u.pc = "scan" /\ u \in Update /\ Within(u) /\ upd' = [upd EXCEPT ![p] = v]
      /\ upd \in [Procs -> Update] /\ modLayout \in Layouts
      /\ \A q \in Procs : q # p => upd'[q] = upd[q]
  BY ScanEffect DEF Types, Flat, Fetches
<1>2. \/ /\ u.chunk <= u.last
         /\ v = [u EXCEPT !.chunk = u.chunk + 1, !.group = TRUE,
                          !.from = IF u.group THEN u.from ELSE u.chunk]
      \/ /\ u.chunk <= u.last /\ ~u.group
         /\ v = [u EXCEPT !.chunk = u.chunk + 1]
      \/ /\ u.group
         /\ v = [u EXCEPT !.pc = "read", !.stop = u.chunk - 1, !.dma = 1,
                          !.lay = modLayout, !.dirty = FALSE]
      \/ v = NoUpd
  BY ScanEffect
<1>3. modLayout \in 1..3
  BY <1>1, LayoutFacts
<1> HIDE DEF u, v
<1>4. v \in Update /\ Within(v)
  <2>1. CASE /\ u.chunk <= u.last
             /\ v = [u EXCEPT !.chunk = u.chunk + 1, !.group = TRUE,
                              !.from = IF u.group THEN u.from ELSE u.chunk]
    <3> DEFINE f == IF u.group THEN u.from ELSE u.chunk
    <3>1. f \in Nat /\ f < u.chunk + 1 /\ u.chunk + 1 \in Nat /\ u.chunk + 1 <= u.last + 1
          /\ u.last < MaxChunks
      BY <1>1, <2>1 DEF Update, Within
    <3>2. v = [u EXCEPT !.chunk = u.chunk + 1, !.group = TRUE, !.from = f]
      BY <2>1
    <3> HIDE DEF f
    <3>3. v \in Update /\ v.pc = "scan" /\ v.chunk = u.chunk + 1 /\ v.from = f /\ v.last = u.last
      BY <1>1, <3>1, <3>2 DEF Update
    <3> QED BY <3>1, <3>3 DEF Within
  <2>2. CASE /\ u.chunk <= u.last /\ ~u.group
             /\ v = [u EXCEPT !.chunk = u.chunk + 1]
    BY <1>1, <2>2 DEF Update, Within
  <2>3. CASE /\ u.group
             /\ v = [u EXCEPT !.pc = "read", !.stop = u.chunk - 1, !.dma = 1,
                              !.lay = modLayout, !.dirty = FALSE]
    <3>1. /\ u.chunk - 1 \in Nat /\ u.from <= u.chunk - 1 /\ u.chunk = (u.chunk - 1) + 1
          /\ u.chunk - 1 <= u.last /\ u.last < MaxChunks /\ 1 \in 1..modLayout
      BY <1>1, <1>3, <2>3 DEF Update, Within
    <3>2. /\ v \in Update /\ v.pc = "read" /\ v.chunk = u.chunk /\ v.from = u.from
          /\ v.last = u.last /\ v.stop = u.chunk - 1 /\ v.dma = 1 /\ v.lay = modLayout
      BY <1>1, <1>3, <2>3, <3>1 DEF Update
    <3> QED BY <3>1, <3>2 DEF Within
  <2>4. CASE v = NoUpd
    BY <2>4 DEF NoUpd, Update, Within
  <2> QED BY <1>2, <2>1, <2>2, <2>3, <2>4
<1>5. ASSUME NEW q \in Procs PROVE Within(upd'[q])
  <2>1. CASE q = p
    BY <1>4, <2>1 DEF v
  <2>2. CASE q # p
    BY <1>1, <2>2 DEF Types, Fetches
  <2> QED BY <2>1, <2>2
<1>6. upd' \in [Procs -> Update]
  BY <1>1, <1>4
<1>7. \A q \in Procs : Within(upd[q])' <=> Within(upd'[q])
  BY DEF Within
<1> QED BY <1>5, <1>6, <1>7 DEF Fetches

LEMMA ReadTypes ==
    ASSUME Types, NEW p \in Procs, ReadStream(p)
    PROVE  Fetches'
<1> DEFINE u == upd[p]
           v == upd'[p]
<1>1. /\ u.pc = "read" /\ u \in Update /\ Within(u) /\ v \in Update /\ upd' \in [Procs -> Update]
      /\ v = IF u.dma < u.lay THEN [u EXCEPT !.dma = u.dma + 1]
             ELSE NextGroup(u)
      /\ \A q \in Procs \ {p} : upd'[q] = IF u.lay # modLayout THEN Overlap[q] ELSE upd[q]
  BY ReadEffect DEF Types, Flat, Fetches
<1> HIDE DEF u, v
<1>2. Within(v)
  <2>1. CASE u.dma < u.lay /\ v = [u EXCEPT !.dma = u.dma + 1]
    BY <1>1, <2>1 DEF Update, Within
  <2>2. CASE v = NextGroup(u)
    BY <1>1, <2>2 DEF Update, Within, NextGroup, NoUpd
  <2> QED BY <1>1, <2>1, <2>2
<1>3. ASSUME NEW q \in Procs PROVE Within(upd'[q])
  <2>1. CASE q = p
    BY <1>2, <2>1 DEF v
  <2>2. CASE q # p
    BY <1>1, <2>2, OverlapTypes DEF Types, Fetches
  <2> QED BY <2>1, <2>2
<1>4. \A q \in Procs : Within(upd[q])' <=> Within(upd'[q])
  BY DEF Within
<1> QED BY <1>1, <1>3, <1>4 DEF Fetches

(* The fetches keep their types where none takes a step.                    *)
LEMMA SameFetches ==
    ASSUME Types, upd' = upd \/ upd' = Overlap
    PROVE  Fetches'
<1>1. \A q \in Procs : Within(upd[q])' <=> Within(upd'[q])
  BY DEF Within
<1>2. CASE upd' = upd
  BY <1>1, <1>2 DEF Types, Fetches
<1>3. CASE upd' = Overlap
  BY <1>1, <1>3, OverlapTypes DEF Types, Fetches
<1> QED BY <1>2, <1>3

LEMMA BeginTypes ==
    ASSUME Types, NEW p \in Procs, NEW last \in 0..(Chunks(modLayout) - 1), NEW first \in 0..last,
           BeginUpdate(p, first, last)
    PROVE  Fetches'
<1>1. \A q \in Procs : Within(upd[q])' <=> Within(upd'[q])
  BY DEF Within
<1>2. upd' \in [Procs -> Update] /\ \A q \in Procs : Within(upd'[q])
  BY BeginEffect DEF Types, Fetches
<1> QED BY <1>1, <1>2 DEF Fetches

LEMMA IdleTypes ==
    ASSUME Types, NEW p \in Procs, NEW x \in {"idle", "dead"},
           upd' = [upd EXCEPT ![p] = NoUpd] \/ upd' = [upd EXCEPT ![p] = [NoUpd EXCEPT !.pc = x]]
    PROVE  Fetches'
<1>1. \A q \in Procs : Within(upd[q])' <=> Within(upd'[q])
  BY DEF Within
<1>2. NoUpd \in Update /\ Within(NoUpd)
  BY DEF NoUpd, Update, Within
<1>3. [NoUpd EXCEPT !.pc = x] \in Update /\ Within([NoUpd EXCEPT !.pc = x])
  <2> DEFINE v == [NoUpd EXCEPT !.pc = x]
  <2>1. v \in Update /\ v.pc = x
    BY <1>2 DEF Update
  <2> HIDE DEF v
  <2>2. Within(v)
    BY <2>1 DEF Within
  <2> QED BY <2>1, <2>2 DEF v
<1>4. upd' \in [Procs -> Update] /\ \A q \in Procs : Within(upd'[q])
  BY <1>2, <1>3 DEF Types, Fetches
<1> QED BY <1>1, <1>4 DEF Fetches

LEMMA TypesStep ==
    ASSUME Types, [Next]_vars
    PROVE  Types'
<1>0. /\ Flat /\ upd \in [Procs -> Update] /\ MaxRuns \in Nat /\ MaxChunks \in Nat
      /\ 0 \in 0..MaxChunks
      /\ \A l \in Layouts : l \in 1..3 /\ Chunks(l) \in 1..MaxChunks
  <2>1. Flat /\ upd \in [Procs -> Update] /\ MaxRuns \in Nat
    BY ModuleAssumption DEF Types, Fetches
  <2>2. modLayout \in Layouts
    BY <2>1 DEF Flat
  <2> QED BY <2>1, <2>2, LayoutFacts
<1> USE DEF module, card, host, bounds
<1>1. CASE StartScope
  <2>1. left' \in [1..3 -> 0..MaxChunks]
    BY <1>0, <1>1 DEF StartScope
  <2>2. runs' \in 0..MaxRuns
    BY <1>0, <1>1 DEF StartScope, Flat
  <2> QED BY <1>0, <1>1, <2>1, <2>2, SameFetches DEF StartScope, Types, Flat
<1>2. CASE ScopeCont
  BY <1>0, <1>2, SameFetches DEF ScopeCont, Types, Flat
<1>3. CASE SetStreams
  BY <1>0, <1>3, SameFetches DEF SetStreams, Types, Flat
<1>4. CASE ArmScope
  <2>1. left' \in [1..3 -> 0..MaxChunks]
    BY <1>0, <1>4 DEF ArmScope, Flat
  <2> QED BY <1>0, <1>4, <2>1, SameFetches DEF ArmScope, Types, Flat
<1>5. CASE MarkAll
  <2>1. disturbed' \in BOOLEAN
    BY <1>0, <1>5 DEF MarkAll, Flat
  <2> QED BY <1>0, <1>5, <2>1, SameFetches DEF MarkAll, Types, Flat
<1>6. CASE SetRun
  <2>1. /\ runBit' = TRUE /\ pc' \in {"started", "idle"} /\ dir' = "mod" /\ cont' = 1
        /\ UNCHANGED <<module, mem, hwLayout, recLayout, left, result, opt, upd, disturbed,
                       raced, runs>>
    BY <1>6 DEF SetRun
  <2>2. Fetches'
    BY <2>1, SameFetches
  <2>3. Flat'
    <3>1. cont' \in 1..3 /\ pc' \notin {"layout", "arm", "mark"}
      BY <2>1
    <3> QED BY <1>0, <2>1, <3>1 DEF Flat
  <2> QED BY <2>2, <2>3 DEF Types
<1>7. CASE WaitScope
  <2>1. Fetches'
    BY <1>7, SameFetches DEF WaitScope
  <2>2. Flat'
    BY <1>0, <1>7 DEF WaitScope, Flat
  <2> QED BY <2>1, <2>2 DEF Types
<1>8. CASE WaitDone
  <2>1. Fetches'
    <3>1. Chunks(modLayout) \in Nat /\ Chunks(modLayout) - 1 \in 0..(Chunks(modLayout) - 1)
          /\ 0 \in 0..(Chunks(modLayout) - 1)
      BY <1>0 DEF Flat
    <3>2. BeginUpdate(Host, 0, Chunks(modLayout) - 1)
      BY <1>8 DEF WaitDone
    <3> QED BY <3>1, <3>2, ProcsDistinct, BeginTypes
  <2> QED BY <1>0, <1>8, <2>1 DEF WaitDone, Types, Flat
<1>9. CASE HostError
  <2>1. Fetches'
    BY <1>9, SameFetches DEF HostError
  <2>2. Flat'
    BY <1>0, <1>9 DEF HostError, Flat
  <2> QED BY <2>1, <2>2 DEF Types
<1>10. CASE View
  <2>1. Fetches'
    <3>1. PICK last \in 0..(Chunks(modLayout) - 1) : \E first \in 0..last :
             BeginUpdate(Viewer, first, last)
      BY <1>10 DEF View
    <3>2. PICK first \in 0..last : BeginUpdate(Viewer, first, last)
      BY <3>1
    <3> QED BY <3>2, ProcsDistinct, BeginTypes
  <2>2. disturbed' \in BOOLEAN
    BY <1>0, <1>10 DEF View, Flat
  <2> QED BY <1>0, <1>10, <2>1, <2>2 DEF View, Types, Flat
<1>11. CASE SetOptions \/ OptionsToModule \/ OptionsError
  <2>1. Fetches'
    BY <1>11, SameFetches DEF SetOptions, OptionsToModule, OptionsError
  <2>2. CASE SetOptions
    BY <1>0, <2>1, <2>2 DEF SetOptions, Types, Flat
  <2>3. CASE OptionsToModule
    BY <1>0, <2>1, <2>3 DEF OptionsToModule, Types, Flat
  <2>4. CASE OptionsError
    BY <1>0, <2>1, <2>4 DEF OptionsError, Types, Flat
  <2> QED BY <1>11, <2>2, <2>3, <2>4
<1>12. ASSUME NEW p \in Procs, Scan(p) PROVE Types'
  <2>1. Fetches'
    BY <1>12, ScanTypes
  <2>2. /\ UNCHANGED <<module, card, dir, cont, opt, disturbed, raced, bounds>>
        /\ (pc' = "idle" /\ result' = "ok") \/ UNCHANGED <<pc, result>>
    BY <1>12, ScanEffect
  <2> QED BY <1>0, <2>1, <2>2 DEF Types, Flat
<1>13. ASSUME NEW p \in Procs, ReadStream(p) PROVE Types'
  <2>1. Fetches'
    BY <1>13, ReadTypes
  <2>2. /\ UNCHANGED <<modLayout, card, host, opt, disturbed, bounds>>
        /\ valid' = IF upd[p].dma < upd[p].lay THEN valid
                    ELSE valid \cup (upd[p].from..upd[p].stop)
        /\ raced' = IF upd[p].lay # modLayout THEN valid'
                    ELSE IF upd[p].dma < upd[p].lay THEN raced
                    ELSE IF upd[p].dirty \/ upd[p].numT # NumT(upd[p].lay)
                    THEN raced \cup (upd[p].from..upd[p].stop)
                    ELSE raced \ (upd[p].from..upd[p].stop)
        /\ mod' \in [0..(Size - 1) -> 0..MaxRuns] /\ upd[p].pc = "read"
    BY <1>13, ReadEffect
  <2>3. upd[p].from..upd[p].stop \subseteq 0..(MaxChunks - 1)
    <3>1. upd[p] \in Update /\ Within(upd[p])
      BY DEF Types, Fetches
    <3> QED BY <1>0, <2>2, <3>1 DEF Update, Within
  <2>4. valid' \subseteq 0..(MaxChunks - 1) /\ raced' \subseteq valid'
    BY <1>0, <2>2, <2>3 DEF Flat
  <2> QED BY <1>0, <2>1, <2>2, <2>4 DEF Types, Flat
<1>14. ASSUME NEW p \in Procs, ReadLost(p) PROVE Types'
  <2>1. Fetches'
    BY <1>14, IdleTypes DEF ReadLost
  <2>2. Flat'
    BY <1>0, <1>14 DEF ReadLost, Flat
  <2> QED BY <2>1, <2>2 DEF Types
<1>15. ASSUME NEW p \in Procs, ReadFails(p) PROVE Types'
  <2>1. Fetches'
    BY <1>15, IdleTypes DEF ReadFails, EndUpdate
  <2>2. Flat'
    BY <1>0, <1>15 DEF ReadFails, EndUpdate, Flat
  <2> QED BY <2>1, <2>2 DEF Types
<1>16. ASSUME NEW d \in 1..3, Record(d) PROVE Types'
  <2>1. left' = [left EXCEPT ![d] = @ - 1] /\ left[d] > 0 /\ upd' = Overlap
        /\ UNCHANGED <<module, hwLayout, recLayout, runBit, host, opt, disturbed, bounds>>
    BY <1>16 DEF Record
  <2>2. left' \in [1..3 -> 0..MaxChunks]
    <3>1. left \in [1..3 -> 0..MaxChunks]
      BY <1>0 DEF Flat
    <3>2. left[d] - 1 \in 0..MaxChunks
      BY <1>0, <2>1, <3>1
    <3> QED BY <2>1, <3>1, <3>2
  <2>3. mem' \in [0..(Size - 1) -> 0..MaxRuns]
    <3>1. PICK w : mem' = [u \in DOMAIN mem |-> IF u \in w THEN runs ELSE mem[u]]
      BY <1>16 DEF Record
    <3> QED BY <1>0, <3>1 DEF Flat
  <2>4. raced' \subseteq valid
    <3>1. PICK w : raced' = raced \cup {k \in valid : ChunkUnits(modLayout, k) \cap w # {}}
      BY <1>16 DEF Record
    <3> QED BY <1>0, <3>1 DEF Flat
  <2>5. Fetches'
    BY <2>1, SameFetches
  <2>6. Flat'
    BY <1>0, <2>1, <2>2, <2>3, <2>4 DEF Flat
  <2> QED BY <2>5, <2>6 DEF Types
<1>17. CASE UNCHANGED vars
  <2>1. Fetches'
    BY <1>17, SameFetches DEF vars
  <2>2. Flat'
    BY <1>0, <1>17 DEF vars, Flat
  <2> QED BY <2>1, <2>2 DEF Types
<1> QED BY <1>1, <1>2, <1>3, <1>4, <1>5, <1>6, <1>7, <1>8, <1>9, <1>10, <1>11, <1>12, <1>13,
           <1>14, <1>15, <1>16, <1>17 DEF Next
-----------------------------------------------------------------------------
(* A valid chunk is what the card holds                                     *)

LEMMA GroupInside ==
    ASSUME NEW u, NEW d
    PROVE  GroupUnits(u, d) \subseteq 0..(Size - 1)
BY UnitsInside DEF GroupUnits

LEMMA ChunkInside ==
    ASSUME NEW l, NEW c
    PROVE  ChunkUnits(l, c) \subseteq 0..(Size - 1)
<1>1. \A d : Units(l, d, 2 * c, Min2(2, NumT(l) - 2 * c)) \subseteq 0..(Size - 1)
  BY UnitsInside
<1> QED BY <1>1 DEF ChunkUnits

LEMMA MirrorByUpd ==
    ASSUME UNCHANGED <<mem, mod, modLayout, valid, raced>>,
           \A p \in Procs : Copied(upd[p]), MirrorUnlessRaced,
           \A q \in Procs : \/ upd'[q] = upd[q]
                            \/ upd'[q].pc # "read"
                            \/ upd'[q].lay = modLayout /\ upd'[q].dma = 1
    PROVE  (\A p \in Procs : Copied(upd[p]))' /\ MirrorUnlessRaced'
<1>1. ASSUME NEW q \in Procs PROVE Copied(upd[q])'
  <2>1. CASE upd'[q] = upd[q]
    BY <2>1 DEF Copied
  <2>2. CASE upd'[q].pc # "read"
    BY <2>2 DEF Copied
  <2>3. CASE upd'[q].lay = modLayout /\ upd'[q].dma = 1
    <3>1. \A d : d \notin 1..(1 - 1)
      OBVIOUS
    <3> QED BY <2>3, <3>1 DEF Copied
  <2> QED BY <2>1, <2>2, <2>3
<1>2. MirrorUnlessRaced'
  BY DEF MirrorUnlessRaced
<1> QED BY <1>1, <1>2

LEMMA DirtyCopied ==
    ASSUME Types, upd' = Overlap
    PROVE  (\A p \in Procs : Copied(upd[p]))'
<1>1. ASSUME NEW q \in Procs PROVE Copied(upd[q])'
  <2>1. PICK b \in BOOLEAN : /\ Overlap[q] = [upd[q] EXCEPT !.dirty = b]
                             /\ upd[q].pc = "read" => b = TRUE
    BY OverlapFacts DEF Types, Fetches
  <2>2. upd[q] \in Update
    BY DEF Types, Fetches
  <2>3. upd'[q].pc = "read" => upd'[q].dirty
    BY <2>1, <2>2 DEF Update
  <2> QED BY <2>3 DEF Copied
<1> QED BY <1>1

LEMMA RecordMirror ==
    ASSUME Types, MirrorUnlessRaced, NEW d \in 1..3, Record(d)
    PROVE  MirrorUnlessRaced'
<1> DEFINE c0 == Chunks(recLayout) - left[d]
           w == Units(recLayout, d, 2 * c0, Min2(2, NumT(recLayout) - 2 * c0))
<1>1. /\ mem' = [u \in DOMAIN mem |-> IF u \in w THEN runs ELSE mem[u]]
      /\ raced' = raced \cup {k \in valid : ChunkUnits(modLayout, k) \cap w # {}}
      /\ UNCHANGED <<mod, valid, modLayout>>
  BY Zenon DEF Record, module
<1>2. DOMAIN mem = 0..(Size - 1)
  BY DEF Types, Flat
<1> HIDE DEF w
<1>3. ASSUME NEW c \in valid' \ raced', c < Chunks(modLayout), NEW a \in ChunkUnits(modLayout, c)
      PROVE  mod[a] = mem'[a]
  <2>1. c \in valid \ raced /\ ChunkUnits(modLayout, c) \cap w = {}
    BY <1>1, <1>3
  <2>2. a \notin w /\ a \in DOMAIN mem
    BY <1>2, <1>3, <2>1, ChunkInside
  <2>3. mem'[a] = mem[a]
    BY <1>1, <2>2
  <2>4. mod[a] = mem[a]
    BY <1>3, <2>1 DEF MirrorUnlessRaced
  <2> QED BY <2>3, <2>4
<1> QED BY <1>1, <1>3, Zenon DEF MirrorUnlessRaced

LEMMA ReadMirror ==
    ASSUME Types, \A q \in Procs : Copied(upd[q]), MirrorUnlessRaced,
           NEW p \in Procs, ReadStream(p)
    PROVE  (\A q \in Procs : Copied(upd[q]))' /\ MirrorUnlessRaced'
<1> DEFINE u == upd[p]
           v == upd'[p]
           M == u.from..u.stop
<1>1. /\ u.pc = "read" /\ u \in Update /\ Within(u) /\ v \in Update /\ upd \in [Procs -> Update]
      /\ modLayout' = modLayout /\ mem' = mem /\ modLayout \in Layouts
      /\ valid' = IF u.dma < u.lay THEN valid ELSE valid \cup M
      /\ raced' = IF u.lay # modLayout THEN valid'
                  ELSE IF u.dma < u.lay THEN raced
                  ELSE IF u.dirty \/ u.numT # NumT(u.lay) THEN raced \cup M ELSE raced \ M
      /\ v = IF u.dma < u.lay THEN [u EXCEPT !.dma = u.dma + 1]
             ELSE NextGroup(u)
      /\ \A q \in Procs \ {p} : upd'[q] = IF u.lay # modLayout THEN Overlap[q] ELSE upd[q]
      /\ DOMAIN mod = 0..(Size - 1) /\ valid \subseteq 0..(MaxChunks - 1)
  BY ReadEffect DEF Types, Flat, Fetches, card
<1>2. Copied(u)
  OBVIOUS
<1>3. u.dma \in 1..u.lay /\ u.lay \in 1..3 /\ u.from \in Nat /\ u.stop \in Nat
  BY <1>1 DEF Within, Update
<1> HIDE DEF u, v
<1>4. v.pc = "read" =>
        /\ u.dma < u.lay /\ v.dma = u.dma + 1 /\ v.lay = u.lay /\ v.dirty = u.dirty
        /\ \A d : GroupUnits(v, d) = GroupUnits(u, d)
  <2>1. CASE u.dma < u.lay
    <3>1. v = [u EXCEPT !.dma = u.dma + 1]
      BY <1>1, <2>1
    <3>2. /\ v.dma = u.dma + 1 /\ v.lay = u.lay /\ v.dirty = u.dirty
          /\ v.from = u.from /\ v.stop = u.stop /\ v.numT = u.numT
      BY <1>1, <3>1 DEF Update
    <3> QED BY <2>1, <3>2 DEF GroupUnits
  <2>2. CASE ~(u.dma < u.lay)
    BY <1>1, <2>2, NextGroupFacts
  <2> QED BY <2>1, <2>2
<1>5. CASE u.lay # modLayout
  <2>1. u.dirty
    BY <1>1, <1>2, <1>5 DEF Copied
  <2>2. ASSUME NEW q \in Procs PROVE Copied(upd[q])'
    <3>1. CASE q = p
      BY <1>4, <2>1, <3>1 DEF Copied, v
    <3>2. CASE q # p
      <4>1. PICK b \in BOOLEAN : /\ Overlap[q] = [upd[q] EXCEPT !.dirty = b]
                                 /\ upd[q].pc = "read" => b = TRUE
        BY <1>1, OverlapFacts
      <4>2. upd'[q] = Overlap[q] /\ upd[q] \in Update
        BY <1>1, <1>5, <3>2
      <4>3. upd'[q].pc = "read" => upd'[q].dirty
        BY <4>1, <4>2 DEF Update
      <4> QED BY <4>3 DEF Copied
    <3> QED BY <3>1, <3>2
  <2>3. MirrorUnlessRaced'
    <3>1. valid' \ raced' = {}
      BY <1>1, <1>5
    <3> QED BY <3>1 DEF MirrorUnlessRaced
  <2> QED BY <2>2, <2>3
<1>6. CASE u.lay = modLayout
  <2> DEFINE G == GroupUnits(u, u.dma)
  <2>1. mod' = [a \in DOMAIN mod |-> IF a \in G THEN mem[a] ELSE mod[a]]
    BY <1>6, CopyEffect DEF u
  <2>2. /\ \A a \in 0..(Size - 1) : mod[a] = mem[a] => mod'[a] = mem[a]
        /\ \A a \in G : mod'[a] = mem[a]
    <3>1. G \subseteq 0..(Size - 1)
      BY GroupInside
    <3> HIDE DEF G
    <3> QED BY <1>1, <2>1, <3>1
  <2>3. ASSUME ~u.dirty, NEW d \in 1..u.dma, NEW a \in GroupUnits(u, d) PROVE mod'[a] = mem[a]
    <3>1. CASE d = u.dma
      BY <2>2, <2>3, <3>1
    <3>2. CASE d # u.dma
      <4>1. d \in 1..(u.dma - 1)
        BY <1>3, <3>2
      <4>2. mod[a] = mem[a]
        BY <1>1, <1>2, <2>3, <4>1 DEF Copied
      <4> QED BY <2>2, <2>3, <4>2, GroupInside
    <3> QED BY <3>1, <3>2
  <2>4. ASSUME NEW q \in Procs PROVE Copied(upd[q])'
    <3>1. CASE q = p
      <4> SUFFICES ASSUME v.pc = "read", ~v.dirty
                   PROVE  /\ v.lay = modLayout
                          /\ \A d \in 1..(v.dma - 1) : \A a \in GroupUnits(v, d) : mod'[a] = mem[a]
        BY <1>1, <3>1 DEF Copied, v
      <4>1. ASSUME NEW d \in 1..(v.dma - 1), NEW a \in GroupUnits(v, d) PROVE mod'[a] = mem[a]
        <5>1. d \in 1..u.dma /\ a \in GroupUnits(u, d) /\ ~u.dirty
          BY <1>3, <1>4, <4>1
        <5> QED BY <2>3, <5>1
      <4> QED BY <1>4, <1>6, <4>1
    <3>2. CASE q # p
      <4>1. upd'[q] = upd[q] /\ Copied(upd[q])
        BY <1>1, <1>6, <3>2
      <4>2. \A d : \A a \in GroupUnits(upd[q], d) : mod[a] = mem[a] => mod'[a] = mem[a]
        BY <2>2, GroupInside
      <4> QED BY <1>1, <4>1, <4>2 DEF Copied
    <3> QED BY <3>1, <3>2
  <2>5. ASSUME NEW c \in valid' \ raced', c < Chunks(modLayout), NEW a \in ChunkUnits(modLayout, c)
        PROVE  mod'[a] = mem[a]
    <3>1. CASE c \in valid \ raced
      <4>1. mod[a] = mem[a]
        BY <2>5, <3>1 DEF MirrorUnlessRaced
      <4> QED BY <2>2, <2>5, <4>1, ChunkInside
    <3>2. CASE c \notin valid \ raced
      <4>1. ~(u.dma < u.lay) /\ ~u.dirty /\ u.numT = NumT(u.lay) /\ c \in M
        BY <1>1, <1>6, <2>5, <3>2
      <4>2. PICK d \in 1..modLayout :
               a \in Units(modLayout, d, 2 * c, Min2(2, NumT(modLayout) - 2 * c))
        BY <1>1, <2>5, ChunkOfUnits
      <4>3. a \in Units(modLayout, d, 2 * u.from,
                        Min2(2 * (u.stop + 1), NumT(modLayout)) - 2 * u.from)
        BY <1>1, <1>3, <2>5, <4>1, <4>2, UnitsWithin
      <4>4. a \in GroupUnits(u, d)
        BY <1>6, <4>1, <4>3 DEF GroupUnits
      <4>5. d \in 1..u.dma
        BY <1>3, <1>6, <4>1, <4>2
      <4> QED BY <2>3, <4>1, <4>4, <4>5
    <3> QED BY <3>1, <3>2
  <2>6. MirrorUnlessRaced'
    BY <1>1, <2>5, Zenon DEF MirrorUnlessRaced
  <2> QED BY <2>4, <2>6
<1> QED BY <1>5, <1>6

LEMMA MirrorStep ==
    ASSUME Types, \A p \in Procs : Copied(upd[p]), MirrorUnlessRaced, [Next]_vars
    PROVE  (\A p \in Procs : Copied(upd[p]))' /\ MirrorUnlessRaced'
<1> DEFINE Same == UNCHANGED <<mem, mod, modLayout, valid, raced>>
<1>0. upd \in [Procs -> Update]
  BY DEF Types, Fetches
<1>1. CASE \/ StartScope \/ ScopeCont \/ ArmScope \/ SetRun \/ WaitScope \/ HostError
           \/ SetOptions \/ OptionsError \/ UNCHANGED vars
  <2>1. Same /\ upd' = upd
    BY <1>1 DEF StartScope, ScopeCont, ArmScope, SetRun, WaitScope, HostError, SetOptions,
                OptionsError, vars, module, card
  <2> QED BY <2>1, MirrorByUpd
<1>2. CASE SetStreams \/ OptionsToModule
  <2>1. UNCHANGED <<mem, mod, valid>> /\ IF modLayout' = modLayout THEN UNCHANGED <<raced, upd>>
                                          ELSE raced' = valid /\ upd' = Overlap
    BY <1>2 DEF SetStreams, OptionsToModule, card
  <2>2. CASE modLayout' = modLayout
    BY <2>1, <2>2, MirrorByUpd
  <2>3. CASE modLayout' # modLayout
    <3>1. valid' \ raced' = {}
      BY <2>1, <2>3
    <3>2. MirrorUnlessRaced'
      BY <3>1 DEF MirrorUnlessRaced
    <3> QED BY <2>1, <2>3, <3>2, DirtyCopied
  <2> QED BY <2>2, <2>3
<1>3. CASE MarkAll
  <2>1. valid' = {} /\ upd' = Overlap
    BY <1>3 DEF MarkAll
  <2>2. MirrorUnlessRaced'
    BY <2>1 DEF MirrorUnlessRaced
  <2> QED BY <2>1, <2>2, DirtyCopied
<1>4. CASE WaitDone \/ View
  <2>1. Same
    BY <1>4 DEF WaitDone, View, module, card
  <2>2. PICK p \in Procs : \E last, first : BeginUpdate(p, first, last)
    BY <1>4, ProcsDistinct DEF WaitDone, View
  <2>3. PICK last, first : BeginUpdate(p, first, last)
    BY <2>2
  <2>4. upd' = [upd EXCEPT ![p] = [NoUpd EXCEPT !.pc = "scan", !.chunk = first, !.last = last,
                                                !.numT = NumT(modLayout)]]
    BY <2>3 DEF BeginUpdate
  <2>5. ASSUME NEW q \in Procs PROVE upd'[q] = upd[q] \/ upd'[q].pc # "read"
    BY <1>0, <2>4 DEF NoUpd
  <2> QED BY <2>1, <2>5, MirrorByUpd
<1>5. ASSUME NEW p \in Procs, Scan(p)
      PROVE  (\A q \in Procs : Copied(upd[q]))' /\ MirrorUnlessRaced'
  <2>1. Same /\ upd[p] \in Update /\ upd[p].pc = "scan" /\ \A q \in Procs : q # p => upd'[q] = upd[q]
    BY <1>5, ScanEffect DEF module, card
  <2>2. upd'[p].pc = "read" => upd'[p].lay = modLayout /\ upd'[p].dma = 1
    BY <1>5, ScanPlace
  <2> QED BY <2>1, <2>2, MirrorByUpd
<1>6. ASSUME NEW p \in Procs, ReadLost(p) \/ ReadFails(p)
      PROVE  (\A q \in Procs : Copied(upd[q]))' /\ MirrorUnlessRaced'
  <2>1. Same /\ \/ upd' = [upd EXCEPT ![p] = [NoUpd EXCEPT !.pc = "dead"]]
                \/ upd' = [upd EXCEPT ![p] = NoUpd]
    BY <1>6 DEF ReadLost, ReadFails, EndUpdate, module, card
  <2>2. ASSUME NEW q \in Procs PROVE upd'[q] = upd[q] \/ upd'[q].pc # "read"
    BY <1>0, <2>1 DEF NoUpd, Update
  <2> QED BY <2>1, <2>2, MirrorByUpd
<1>7. ASSUME NEW p \in Procs, ReadStream(p)
      PROVE  (\A q \in Procs : Copied(upd[q]))' /\ MirrorUnlessRaced'
  BY <1>7, ReadMirror
<1>8. ASSUME NEW d \in 1..3, Record(d)
      PROVE  (\A q \in Procs : Copied(upd[q]))' /\ MirrorUnlessRaced'
  <2>1. upd' = Overlap
    BY <1>8 DEF Record
  <2> QED BY <1>8, <2>1, RecordMirror, DirtyCopied
<1> QED BY <1>1, <1>2, <1>3, <1>4, <1>5, <1>6, <1>7, <1>8 DEF Next
-----------------------------------------------------------------------------
(* The layouts, what is recorded, and where the host is                     *)

LEMMA LayoutedStep ==
    ASSUME Types, Layouted, HostPlace, [Next]_vars
    PROVE  Layouted'
<1> USE DEF module, card, host, bounds, Under
<1>0. /\ pc \in {"idle", "cont", "layout", "arm", "mark", "run", "started", "wait", "fetch"}
      /\ upd \in [Procs -> Update] /\ disturbed \in BOOLEAN /\ dir \in {"mod", "regs"}
  BY DEF Types, Flat, Fetches
<1>1. CASE StartScope
  <2>1. pc' = "cont" /\ result' = "none"
    BY <1>1 DEF StartScope
  <2> QED BY <2>1 DEF Layouted
<1>9. CASE ScopeCont
  <2>1. /\ pc = "cont" /\ pc' = "layout" /\ result' = result /\ UNCHANGED <<modLayout, dir>>
        /\ cont' = IF dir = "mod" THEN modLayout ELSE hwLayout
        /\ ~disturbed' => hwLayout' = cont'
    BY <1>9 DEF ScopeCont
  <2> QED BY <2>1 DEF Layouted, HostPlace
<1>10. CASE SetStreams
  <2>1. /\ pc = "layout" /\ pc' = "arm" /\ UNCHANGED <<cont, hwLayout, result, disturbed>>
        /\ modLayout' = IF dir = "regs" THEN cont ELSE modLayout
    BY <1>10 DEF SetStreams
  <2> QED BY <1>0, <2>1 DEF Layouted, HostPlace
<1>2. CASE ArmScope \/ MarkAll \/ SetRun
  BY <1>0, <1>2 DEF ArmScope, MarkAll, SetRun, Layouted, HostPlace
<1>3. CASE WaitScope \/ WaitDone \/ HostError
  BY <1>0, <1>3 DEF WaitScope, WaitDone, HostError, Layouted, HostPlace
<1>4. CASE View \/ SetOptions \/ OptionsToModule \/ OptionsError \/ UNCHANGED vars
  BY <1>0, <1>4 DEF View, SetOptions, OptionsToModule, OptionsError, vars, Layouted
<1>5. ASSUME NEW p \in Procs, Scan(p) PROVE Layouted'
  <2>1. /\ UNCHANGED <<module, card, dir, cont, opt, disturbed, raced, bounds>> /\ upd[p].pc = "scan"
        /\ (p = Host /\ pc' = "idle" /\ result' = "ok") \/ UNCHANGED <<pc, result>>
    BY <1>5, ScanEffect
  <2>2. p = Host => pc = "fetch"
    BY <2>1 DEF HostPlace
  <2> QED BY <1>0, <2>1, <2>2 DEF Layouted
<1>6. ASSUME NEW p \in Procs, ReadStream(p) PROVE Layouted'
  <2>1. UNCHANGED <<modLayout, card, host, opt, disturbed, bounds>>
    BY <1>6, ReadEffect
  <2> QED BY <2>1 DEF Layouted
<1>7. ASSUME NEW p \in Procs, ReadLost(p) \/ ReadFails(p) PROVE Layouted'
  <2>1. /\ UNCHANGED <<module, card, dir, cont, disturbed, raced>> /\ upd[p].pc = "read"
        /\ (p = Host /\ pc' = "idle" /\ result' = "error") \/ UNCHANGED <<pc, result>>
    BY <1>7 DEF ReadLost, ReadFails, EndUpdate
  <2> QED BY <1>0, <2>1 DEF Layouted
<1>8. ASSUME NEW d \in 1..3, Record(d) PROVE Layouted'
  BY <1>8 DEF Record, Layouted
<1> QED BY <1>1, <1>2, <1>3, <1>4, <1>5, <1>6, <1>7, <1>8, <1>9, <1>10 DEF Next

LEMMA HostPlaceStep ==
    ASSUME Types, HostPlace, [Next]_vars
    PROVE  HostPlace'
<1> USE DEF module, card, host, bounds
<1>0. /\ upd \in [Procs -> Update] /\ Host \in Procs /\ Viewer \in Procs /\ Host # Viewer
  BY ProcsDistinct DEF Types, Flat, Fetches
<1>1. Overlap[Host].pc = upd[Host].pc
  <2>1. PICK b \in BOOLEAN : Overlap[Host] = [upd[Host] EXCEPT !.dirty = b]
    BY <1>0, OverlapFacts
  <2> QED BY <1>0, <2>1 DEF Update
<1>2. CASE StartScope \/ ScopeCont \/ SetStreams
  BY <1>0, <1>1, <1>2 DEF StartScope, ScopeCont, SetStreams, HostPlace
<1>3. CASE ArmScope \/ MarkAll \/ SetRun
  BY <1>0, <1>1, <1>3 DEF ArmScope, MarkAll, SetRun, HostPlace
<1>4. CASE WaitScope \/ HostError
  BY <1>0, <1>4 DEF WaitScope, HostError, HostPlace
<1>5. CASE WaitDone
  <2>1. upd'[Host].pc = "scan" /\ pc' = "fetch" /\ result' = result /\ pc = "wait"
    BY <1>0, <1>5 DEF WaitDone, BeginUpdate, NoUpd
  <2> QED BY <2>1 DEF HostPlace
<1>6. CASE View
  <2>1. upd'[Host] = upd[Host] /\ UNCHANGED host
    BY <1>0, <1>6 DEF View, BeginUpdate
  <2> QED BY <2>1 DEF HostPlace
<1>7. CASE SetOptions \/ OptionsToModule \/ OptionsError \/ UNCHANGED vars
  BY <1>1, <1>7 DEF SetOptions, OptionsToModule, OptionsError, vars, HostPlace
<1>8. ASSUME NEW p \in Procs, Scan(p) PROVE HostPlace'
  <2> DEFINE u == upd[p]
             v == upd'[p]
  <2>1. u.pc = "scan" /\ \A q \in Procs : q # p => upd'[q] = upd[q]
    BY <1>8, ScanEffect
  <2>2. \/ v.pc # "idle" /\ UNCHANGED <<pc, result>>
        \/ /\ v.pc = "idle"
           /\ IF p = Host THEN pc' = "idle" /\ result' = "ok" ELSE UNCHANGED <<pc, result>>
    BY <1>8, ScanPlace
  <2> HIDE DEF u, v
  <2>3. CASE p = Host
    BY <2>1, <2>2, <2>3 DEF HostPlace, u, v
  <2>4. CASE p # Host
    BY <1>0, <2>1, <2>2, <2>4 DEF HostPlace
  <2> QED BY <2>3, <2>4
<1>9. ASSUME NEW p \in Procs, ReadStream(p) PROVE HostPlace'
  <2> DEFINE u == upd[p]
             v == upd'[p]
  <2>1. /\ u.pc = "read" /\ u \in Update /\ UNCHANGED host
        /\ v = IF u.dma < u.lay THEN [u EXCEPT !.dma = u.dma + 1]
               ELSE NextGroup(u)
        /\ \A q \in Procs \ {p} : upd'[q] = IF u.lay # modLayout THEN Overlap[q] ELSE upd[q]
    BY <1>9, ReadEffect
  <2> HIDE DEF u, v
  <2>2. v.pc # "idle"
    BY <2>1 DEF Update, NextGroup, NoUpd
  <2>3. CASE p = Host
    BY <2>1, <2>2, <2>3 DEF HostPlace, u, v
  <2>4. CASE p # Host
    BY <1>0, <1>1, <2>1, <2>4 DEF HostPlace
  <2> QED BY <2>3, <2>4
<1>10. ASSUME NEW p \in Procs, ReadLost(p) PROVE HostPlace'
  BY <1>0, <1>10 DEF ReadLost, HostPlace, Update
<1>11. ASSUME NEW p \in Procs, ReadFails(p) PROVE HostPlace'
  BY <1>0, <1>11 DEF ReadFails, EndUpdate, NoUpd, HostPlace
<1>12. ASSUME NEW d \in 1..3, Record(d) PROVE HostPlace'
  BY <1>1, <1>12 DEF Record, HostPlace
<1> QED BY <1>2, <1>3, <1>4, <1>5, <1>6, <1>7, <1>8, <1>9, <1>10, <1>11, <1>12 DEF Next

LEMMA RecordedSame ==
    ASSUME UNCHANGED <<mem, left, recLayout, runs>>, Recorded, Under' => Under
    PROVE  Recorded'
BY DEF Recorded

LEMMA RecordRecorded ==
    ASSUME Types, Recorded, NEW d \in 1..3, Record(d)
    PROVE  Recorded'
<1> DEFINE l == recLayout
           n == Chunks(l)
           W(e, c) == Units(l, e, 2 * c, Min2(2, NumT(l) - 2 * c))
           w == W(d, n - left[d])
<1>1. /\ left[d] > 0 /\ left' = [left EXCEPT ![d] = @ - 1]
      /\ mem' = [u \in DOMAIN mem |-> IF u \in w THEN runs ELSE mem[u]]
      /\ UNCHANGED <<recLayout, runs, pc, result>>
  BY Zenon DEF Record, host, bounds
<1>2. /\ DOMAIN mem = 0..(Size - 1) /\ left \in [1..3 -> 0..MaxChunks] /\ l \in 1..3
      /\ n \in Nat /\ MaxChunks \in Nat /\ l \in Layouts
  BY LayoutFacts DEF Types, Flat
<1>3. SUFFICES ASSUME Under PROVE Recorded'
  BY <1>1 DEF Recorded, Under
<1>4. \A e \in 1..3 :
        /\ left[e] <= IF e <= l THEN n ELSE 0
        /\ e <= l => \A c \in 0..(n - left[e] - 1) : \A u \in W(e, c) : mem[u] = runs
  BY <1>3 DEF Recorded
<1>5. \A e, c : W(e, c) \subseteq 0..(Size - 1)
  BY UnitsInside
<1> HIDE DEF W, n, l
<1>6. ASSUME NEW e \in 1..3
      PROVE  /\ left'[e] <= IF e <= l THEN n ELSE 0
             /\ e <= l => \A c \in 0..(n - left'[e] - 1) : \A u \in W(e, c) : mem'[u] = runs
  <2>1. left'[e] = IF e = d THEN left[e] - 1 ELSE left[e]
    BY <1>1, <1>2
  <2>2. left[e] \in Nat /\ left[e] <= IF e <= l THEN n ELSE 0
    BY <1>2, <1>4
  <2>3. left'[e] <= IF e <= l THEN n ELSE 0
    BY <1>2, <2>1, <2>2
  <2>4. ASSUME e <= l, NEW c \in 0..(n - left'[e] - 1), NEW u \in W(e, c) PROVE mem'[u] = runs
    <3>1. u \in DOMAIN mem
      BY <1>2, <1>5, <2>4
    <3>2. CASE e = d /\ c = n - left[d]
      BY <1>1, <2>4, <3>1, <3>2
    <3>3. CASE ~(e = d /\ c = n - left[d])
      <4>1. c \in 0..(n - left[e] - 1)
        BY <1>2, <2>1, <2>2, <2>4, <3>3
      <4>2. mem[u] = runs
        BY <1>4, <2>4, <4>1
      <4> QED BY <1>1, <3>1, <4>2
    <3> QED BY <3>2, <3>3
  <2> QED BY <2>3, <2>4
<1> QED BY <1>1, <1>6 DEF Recorded, W, n, l

LEMMA RecordedStep ==
    ASSUME Types, Layouted, HostPlace, Recorded, [Next]_vars
    PROVE  Recorded'
<1> USE DEF module, card, host, bounds, Under
<1>1. CASE StartScope \/ ScopeCont \/ SetStreams \/ HostError
  <2>1. ~Under'
    BY <1>1 DEF StartScope, ScopeCont, SetStreams, HostError, HostPlace
  <2> QED BY <2>1 DEF Recorded
<1>2. CASE ArmScope
  <2>1. /\ recLayout' = cont /\ cont \in Layouts
        /\ left' = [d \in 1..3 |-> IF d <= cont THEN Chunks(cont) ELSE 0]
    BY <1>2 DEF ArmScope, Types, Flat
  <2>2. Chunks(cont) \in Nat
    BY <2>1, LayoutFacts
  <2>3. ASSUME NEW d \in 1..3
        PROVE  /\ left'[d] <= IF d <= recLayout' THEN Chunks(recLayout') ELSE 0
               /\ d <= recLayout' => \A c : c \notin 0..(Chunks(recLayout') - left'[d] - 1)
    BY <2>1, <2>2
  <2> QED BY <2>3 DEF Recorded
<1>3. CASE MarkAll \/ SetRun \/ WaitScope \/ WaitDone
  <2>1. UNCHANGED <<mem, left, recLayout, runs>> /\ Under
    BY <1>3 DEF MarkAll, SetRun, WaitScope, WaitDone
  <2> QED BY <2>1, RecordedSame
<1>4. CASE View \/ SetOptions \/ OptionsToModule \/ OptionsError \/ UNCHANGED vars
  <2>1. UNCHANGED <<mem, left, recLayout, runs, pc, result>>
    BY <1>4 DEF View, SetOptions, OptionsToModule, OptionsError, vars
  <2> QED BY <2>1, RecordedSame
<1>5. ASSUME NEW p \in Procs, Scan(p) PROVE Recorded'
  <2>1. /\ UNCHANGED <<mem, left, recLayout, runs>> /\ upd[p].pc = "scan"
        /\ (p = Host /\ pc' = "idle" /\ result' = "ok") \/ UNCHANGED <<pc, result>>
    BY <1>5, ScanEffect
  <2>2. p = Host => Under
    BY <2>1 DEF HostPlace
  <2> QED BY <2>1, <2>2, RecordedSame
<1>6. ASSUME NEW p \in Procs, ReadStream(p) PROVE Recorded'
  <2>1. UNCHANGED <<mem, left, recLayout, runs, pc, result>>
    BY <1>6, ReadEffect
  <2> QED BY <2>1, RecordedSame
<1>7. ASSUME NEW p \in Procs, ReadLost(p) \/ ReadFails(p) PROVE Recorded'
  <2>1. /\ UNCHANGED <<mem, left, recLayout, runs>>
        /\ (pc' = "idle" /\ result' = "error") \/ UNCHANGED <<pc, result>>
    BY <1>7 DEF ReadLost, ReadFails, EndUpdate
  <2> QED BY <2>1, RecordedSame
<1>8. ASSUME NEW d \in 1..3, Record(d) PROVE Recorded'
  BY <1>8, RecordRecorded
<1> QED BY <1>1, <1>2, <1>3, <1>4, <1>5, <1>6, <1>7, <1>8 DEF Next
-----------------------------------------------------------------------------
(* An undisturbed run                                                       *)

(* While data is recorded nobody fetches.                                   *)
LEMMA NoFetchRecording ==
    ASSUME Types, HostPlace, Quiet, Under, pc # "mark", ~disturbed, Recording, NEW p \in Procs
    PROVE  upd[p].pc = "idle"
<1>1. upd[Viewer].pc = "idle" /\ pc # "fetch"
  BY DEF Quiet
<1>2. upd[Host].pc = "idle"
  BY <1>1 DEF HostPlace
<1> QED BY <1>1, <1>2 DEF Procs

LEMMA QuietScan ==
    ASSUME Types, HostPlace, Quiet, NEW p \in Procs, Scan(p)
    PROVE  Quiet'
<1>1. /\ UNCHANGED <<module, card, dir, cont, opt, disturbed, raced, bounds>> /\ upd[p].pc = "scan"
      /\ \A q \in Procs : q # p => upd'[q] = upd[q]
      /\ (p = Host /\ pc' = "idle" /\ result' = "ok") \/ UNCHANGED <<pc, result>>
  BY ScanEffect
<1>2. /\ upd'[p].pc = "read" => ~upd'[p].dirty
      /\ upd'[p].pc \in {"scan", "read"} => upd'[p].numT = upd[p].numT
  BY <1>1, ScanPlace
<1>3. SUFFICES ASSUME Under', pc' # "mark", ~disturbed' PROVE Quiet'
  BY DEF Quiet
<1>4. Under /\ pc # "mark" /\ ~disturbed /\ (p = Host => pc = "fetch")
  BY <1>1, <1>3 DEF HostPlace, Under
<1>5. ~Recording
  BY <1>1, <1>4, NoFetchRecording
<1>6. ~Recording'
  BY <1>1, <1>5 DEF Recording, card
<1>7. raced' = {}
  BY <1>1, <1>4 DEF Quiet
<1>8. ASSUME NEW q \in Procs
      PROVE  /\ upd'[q].pc \in {"scan", "read"} => upd'[q].numT = NumT(modLayout)
             /\ upd'[q].pc = "read" => ~upd'[q].dirty
  BY <1>1, <1>2, <1>4 DEF Quiet
<1>9. modLayout' = modLayout
  BY <1>1 DEF module
<1> QED BY <1>6, <1>7, <1>8, <1>9 DEF Quiet

LEMMA QuietRead ==
    ASSUME Types, HostPlace, Quiet, NEW p \in Procs, Copied(upd[p]), ReadStream(p)
    PROVE  Quiet'
<1> DEFINE u == upd[p]
           v == upd'[p]
<1>1. /\ u.pc = "read" /\ u \in Update /\ UNCHANGED <<modLayout, card, host, opt, disturbed, bounds>>
      /\ raced' = IF u.lay # modLayout THEN valid'
                  ELSE IF u.dma < u.lay THEN raced
                  ELSE IF u.dirty \/ u.numT # NumT(u.lay)
                  THEN raced \cup (u.from..u.stop) ELSE raced \ (u.from..u.stop)
      /\ v = IF u.dma < u.lay THEN [u EXCEPT !.dma = u.dma + 1]
             ELSE NextGroup(u)
      /\ \A q \in Procs \ {p} : upd'[q] = IF u.lay # modLayout THEN Overlap[q] ELSE upd[q]
  BY ReadEffect
<1>2. SUFFICES ASSUME Under', pc' # "mark", ~disturbed' PROVE Quiet'
  BY DEF Quiet
<1>3. Under /\ pc # "mark" /\ ~disturbed
  BY <1>1, <1>2 DEF Under, host
<1>4. ~Recording
  BY <1>1, <1>3, NoFetchRecording
<1>5. ~Recording'
  BY <1>1, <1>4 DEF Recording, card, host
<1>6. raced = {} /\ ~u.dirty /\ u.numT = NumT(modLayout)
  BY <1>1, <1>3 DEF Quiet
<1>7. u.lay = modLayout
  BY <1>1, <1>6 DEF Copied
<1>8. raced' = {}
  BY <1>1, <1>6, <1>7
<1> HIDE DEF u, v
<1>9. v.numT = u.numT /\ ~v.dirty
  <2>1. CASE v = [u EXCEPT !.dma = u.dma + 1]
    BY <1>1, <1>6, <2>1 DEF Update, u
  <2>2. CASE v = NextGroup(u)
    BY <2>2 DEF NextGroup, NoUpd
  <2> QED BY <1>1, <2>1, <2>2
<1>10. ASSUME NEW q \in Procs
       PROVE  /\ upd'[q].pc \in {"scan", "read"} => upd'[q].numT = NumT(modLayout)
              /\ upd'[q].pc = "read" => ~upd'[q].dirty
  <2>1. CASE q = p
    BY <1>6, <1>9, <2>1 DEF v
  <2>2. CASE q # p
    BY <1>1, <1>3, <1>7, <2>2 DEF Quiet
  <2> QED BY <2>1, <2>2
<1> QED BY <1>1, <1>5, <1>8, <1>10 DEF Quiet

LEMMA QuietStep ==
    ASSUME Types, \A p \in Procs : Copied(upd[p]), Layouted, Recorded, HostPlace, Quiet,
           [Next]_vars
    PROVE  Quiet'
<1> USE DEF module, card, host, bounds
<1>0. /\ upd \in [Procs -> Update] /\ Host \in Procs /\ Viewer \in Procs /\ Host # Viewer
      /\ \A p \in Procs : p = Host \/ p = Viewer
      /\ disturbed \in BOOLEAN /\ left \in [1..3 -> 0..MaxChunks] /\ MaxChunks \in Nat
      /\ modLayout \in Layouts
  BY ProcsDistinct, LayoutFacts DEF Types, Flat, Fetches, Procs
<1>1. CASE StartScope \/ ScopeCont \/ SetStreams \/ HostError \/ ArmScope
  <2>1. ~Under' \/ pc' = "mark"
    BY <1>1 DEF StartScope, ScopeCont, SetStreams, HostError, ArmScope, HostPlace, Under
  <2> QED BY <2>1 DEF Quiet
<1>2. CASE MarkAll
  <2>1. /\ pc' = "run" /\ raced' = {} /\ valid' = {} /\ upd' = Overlap /\ result' = result
        /\ pc = "mark" /\ disturbed' = (disturbed \/ upd[Viewer].pc # "idle")
    BY <1>2 DEF MarkAll
  <2>2. SUFFICES ASSUME ~disturbed' PROVE Quiet'
    BY DEF Quiet
  <2>3. ASSUME NEW p \in Procs PROVE upd'[p].pc = "idle"
    <3>1. upd[p].pc = "idle"
      BY <1>0, <2>1, <2>2 DEF HostPlace
    <3> QED BY <1>0, <2>1, <3>1, OverlapFacts
  <2>4. pc' # "fetch" /\ result' # "ok"
    BY <2>1 DEF HostPlace
  <2> QED BY <1>0, <2>1, <2>3, <2>4 DEF Quiet
<1>3. CASE SetRun \/ WaitScope
  <2>1. /\ pc \in {"run", "started"} /\ pc' \in {"started", "wait", "idle"}
        /\ UNCHANGED <<module, raced, upd, left, result>> /\ (~disturbed' => ~disturbed)
    BY <1>0, <1>3 DEF SetRun, WaitScope
  <2>2. Recording' => Recording
    BY <2>1 DEF Recording
  <2>3. result # "ok" /\ pc' # "fetch" /\ pc # "fetch" /\ Under /\ pc # "mark"
    BY <2>1 DEF HostPlace, Under
  <2> QED BY <2>1, <2>2, <2>3 DEF Quiet
<1>4. CASE WaitDone
  <2>1. /\ pc = "wait" /\ pc' = "fetch" /\ BeginUpdate(Host, 0, Chunks(modLayout) - 1)
        /\ UNCHANGED <<module, raced, left, result, disturbed>>
        /\ \A d \in 1..cont : left[d] = 0
    BY <1>4 DEF WaitDone
  <2>2. SUFFICES ASSUME ~disturbed PROVE Quiet'
    BY <2>1 DEF Quiet
  <2>3. ~Recording'
    <3>1. cont = recLayout /\ Under
      BY <2>1, <2>2 DEF Layouted, Under
    <3>2. cont \in 1..3
      BY DEF Types, Flat
    <3>3. ASSUME NEW d \in 1..3 PROVE left[d] = 0
      <4>1. CASE d <= cont
        BY <2>1, <3>2, <4>1
      <4>2. CASE ~(d <= cont)
        <5>1. left[d] <= 0 /\ left[d] \in Nat
          BY <1>0, <3>1, <4>2 DEF Recorded
        <5> QED BY <5>1
      <4> QED BY <4>1, <4>2
    <3> QED BY <2>1, <3>3 DEF Recording
  <2>4. upd'[Host] = [NoUpd EXCEPT !.pc = "scan", !.chunk = 0, !.last = Chunks(modLayout) - 1,
                                   !.numT = NumT(modLayout)]
        /\ upd'[Viewer] = upd[Viewer]
    BY <1>0, <2>1 DEF BeginUpdate
  <2>5. upd'[Host].pc = "scan" /\ upd'[Host].numT = NumT(modLayout)
    BY <2>4 DEF NoUpd
  <2>6. Under /\ pc # "mark"
    BY <2>1 DEF Under
  <2> QED BY <1>0, <2>1, <2>2, <2>3, <2>4, <2>5, <2>6 DEF Quiet
<1>5. CASE View
  <2>1. /\ \E last, first : BeginUpdate(Viewer, first, last)
        /\ UNCHANGED <<module, raced, left, result, pc>>
        /\ disturbed' = (disturbed \/ pc = "run" \/ \E d \in 1..3 : left[d] > 0)
    BY <1>5 DEF View
  <2>2. SUFFICES ASSUME ~disturbed', Under, pc # "mark" PROVE Quiet'
    BY <2>1 DEF Quiet, Under
  <2>3. ~disturbed /\ ~Recording /\ ~Recording'
    BY <2>1, <2>2 DEF Recording
  <2>4. PICK last, first : BeginUpdate(Viewer, first, last)
    BY <2>1
  <2>5. upd'[Viewer] = [NoUpd EXCEPT !.pc = "scan", !.chunk = first, !.last = last,
                                     !.numT = NumT(modLayout)]
        /\ upd'[Host] = upd[Host]
    BY <1>0, <2>4 DEF BeginUpdate
  <2>6. upd'[Viewer].pc = "scan" /\ upd'[Viewer].numT = NumT(modLayout)
    BY <2>5 DEF NoUpd
  <2> QED BY <1>0, <2>1, <2>2, <2>3, <2>5, <2>6 DEF Quiet
<1>6. CASE SetOptions \/ OptionsToModule
  BY <1>6 DEF SetOptions, OptionsToModule, Quiet
<1>7. CASE OptionsError \/ UNCHANGED vars
  BY <1>7 DEF OptionsError, vars, Quiet, Under, Recording
<1>8. ASSUME NEW p \in Procs, Scan(p) PROVE Quiet'
  BY <1>8, QuietScan
<1>9. ASSUME NEW p \in Procs, ReadStream(p) PROVE Quiet'
  BY <1>9, QuietRead
<1>10. ASSUME NEW p \in Procs, ReadLost(p) \/ ReadFails(p) PROVE Quiet'
  <2>1. /\ UNCHANGED <<module, card, raced, disturbed>> /\ upd[p].pc = "read"
        /\ upd' = [upd EXCEPT ![p] = [NoUpd EXCEPT !.pc = "dead"]] \/ upd' = [upd EXCEPT ![p] = NoUpd]
        /\ (pc' = "idle" /\ result' = "error") \/ UNCHANGED <<pc, result>>
    BY <1>10 DEF ReadLost, ReadFails, EndUpdate
  <2>2. SUFFICES ASSUME Under', pc' # "mark", ~disturbed' PROVE Quiet'
    BY DEF Quiet
  <2>3. UNCHANGED <<pc, result>> /\ Under /\ ~disturbed
    BY <2>1, <2>2 DEF Under
  <2>4. ~Recording /\ ~Recording'
    <3>1. ~Recording
      BY <2>1, <2>2, <2>3, NoFetchRecording
    <3> QED BY <2>1, <2>3, <3>1 DEF Recording
  <2>5. ASSUME NEW q \in Procs PROVE upd'[q] = upd[q] \/ upd'[q].pc \in {"idle", "dead"}
    BY <1>0, <2>1 DEF NoUpd, Update
  <2> QED BY <2>1, <2>2, <2>3, <2>4, <2>5 DEF Quiet
<1>11. ASSUME NEW d \in 1..3, Record(d) PROVE Quiet'
  <2>1. /\ left[d] > 0 /\ upd' = Overlap
        /\ UNCHANGED <<valid, modLayout, pc, result, disturbed>>
        /\ \E w : raced' = raced \cup {k \in valid : ChunkUnits(modLayout, k) \cap w # {}}
    BY <1>11 DEF Record
  <2>2. SUFFICES ASSUME Under, pc # "mark", ~disturbed PROVE Quiet'
    BY <2>1 DEF Quiet, Under
  <2>3. Recording
    BY <2>1 DEF Recording
  <2>4. raced = {} /\ valid = {} /\ ~(pc = "fetch" \/ result = "ok")
    BY <2>2, <2>3 DEF Quiet
  <2>5. ASSUME NEW p \in Procs PROVE upd'[p].pc = "idle"
    <3>1. upd[p].pc = "idle"
      BY <2>2, <2>3, NoFetchRecording
    <3> QED BY <1>0, <2>1, <3>1, OverlapFacts
  <2>6. raced' = {}
    BY <2>1, <2>4
  <2> QED BY <1>0, <2>1, <2>4, <2>5, <2>6 DEF Quiet
<1> QED BY <1>1, <1>2, <1>3, <1>4, <1>5, <1>6, <1>7, <1>8, <1>9, <1>10, <1>11 DEF Next
-----------------------------------------------------------------------------
(* The host leaves no chunk out                                             *)

LEMMA CompleteSame ==
    ASSUME Complete, UNCHANGED modLayout, valid \subseteq valid',
           ~disturbed' => ~disturbed, pc' = "fetch" => pc = "fetch", result' = "ok" => result = "ok",
           upd'[Host].pc = upd[Host].pc, upd'[Host].last = upd[Host].last,
           Fetched(upd'[Host]) = Fetched(upd[Host])
    PROVE  Complete'
<1>1. Fetched(upd[Host])' = Fetched(upd'[Host])
  BY DEF Fetched
<1> QED BY <1>1 DEF Complete

LEMMA CompleteOverlap ==
    ASSUME Types, Complete, UNCHANGED modLayout, valid \subseteq valid',
           ~disturbed' => ~disturbed, pc' = "fetch" => pc = "fetch", result' = "ok" => result = "ok",
           upd'[Host] = Overlap[Host]
    PROVE  Complete'
<1>1. PICK b \in BOOLEAN : Overlap[Host] = [upd[Host] EXCEPT !.dirty = b]
  BY OverlapFacts, ProcsDistinct DEF Types, Fetches
<1> DEFINE u == upd[Host]
           v == upd'[Host]
<1>2. u \in Update
  BY ProcsDistinct DEF Types, Fetches
<1>3. /\ v.pc = u.pc /\ v.last = u.last /\ v.group = u.group /\ v.from = u.from
      /\ v.chunk = u.chunk
  BY <1>1, <1>2 DEF Update
<1> HIDE DEF u, v
<1>4. Fetched(v) = Fetched(u)
  BY <1>3 DEF Fetched
<1> QED BY <1>3, <1>4, CompleteSame DEF u, v

LEMMA CompleteScan ==
    ASSUME Types, HostPlace, Complete, Scan(Host)
    PROVE  Complete'
<1> DEFINE u == upd[Host]
           v == upd'[Host]
           Fresh(w) == /\ w.last = Chunks(modLayout) - 1
                       /\ Fetched(w) \cap 0..w.last \subseteq valid
<1>1. /\ UNCHANGED <<valid, modLayout, disturbed>> /\ u.pc = "scan" /\ u \in Update
      /\ \/ /\ u.chunk <= u.last /\ u.chunk \notin valid
            /\ v = [u EXCEPT !.chunk = u.chunk + 1, !.group = TRUE,
                             !.from = IF u.group THEN u.from ELSE u.chunk]
            /\ UNCHANGED <<pc, result>>
         \/ /\ u.chunk <= u.last /\ u.chunk \in valid /\ ~u.group
            /\ v = [u EXCEPT !.chunk = u.chunk + 1]
            /\ UNCHANGED <<pc, result>>
         \/ /\ u.chunk > u.last \/ u.chunk \in valid
            /\ u.group
            /\ v = [u EXCEPT !.pc = "read", !.stop = u.chunk - 1, !.dma = 1,
                             !.lay = modLayout, !.dirty = FALSE]
            /\ UNCHANGED <<pc, result>>
         \/ /\ u.chunk > u.last /\ ~u.group
            /\ v = NoUpd /\ pc' = "idle" /\ result' = "ok"
  BY ProcsDistinct, ScanEffect DEF module
<1>2. pc = "fetch" /\ result # "ok"
  BY <1>1 DEF HostPlace
<1>3. SUFFICES ASSUME ~disturbed PROVE Complete'
  BY <1>1 DEF Complete
<1>4. Fresh(u) /\ u.last \in Nat /\ u.chunk \in Nat /\ u.from \in Nat /\ u.group \in BOOLEAN
      /\ (u.group => Fetched(u) = 0..(u.from - 1)) /\ (~u.group => Fetched(u) = 0..(u.chunk - 1))
  BY <1>1, <1>2, <1>3 DEF Complete, Fetched, Update
<1> HIDE DEF u, v
<1>5. ASSUME UNCHANGED <<pc, result>>, v.last = u.last, Fetched(v) \cap 0..u.last \subseteq valid
      PROVE  Complete'
  <2>1. Fetched(upd[Host])' = Fetched(v)
    BY DEF Fetched, v
  <2> QED BY <1>1, <1>2, <1>4, <1>5, <2>1 DEF Complete, v
<1>6. CASE /\ u.chunk <= u.last /\ u.chunk \notin valid
           /\ v = [u EXCEPT !.chunk = u.chunk + 1, !.group = TRUE,
                            !.from = IF u.group THEN u.from ELSE u.chunk]
           /\ UNCHANGED <<pc, result>>
  <2> DEFINE f == IF u.group THEN u.from ELSE u.chunk
  <2>1. v = [u EXCEPT !.chunk = u.chunk + 1, !.group = TRUE, !.from = f]
    BY <1>6
  <2>2. Fetched(u) = 0..(f - 1)
    BY <1>4
  <2> HIDE DEF f
  <2>3. v.pc = "scan" /\ v.group = TRUE /\ v.from = f /\ v.last = u.last
    BY <1>1, <2>1 DEF Update
  <2>4. Fetched(v) = Fetched(u)
    BY <2>2, <2>3 DEF Fetched
  <2> QED BY <1>4, <1>5, <1>6, <2>3, <2>4
<1>7. CASE /\ u.chunk <= u.last /\ u.chunk \in valid /\ ~u.group
           /\ v = [u EXCEPT !.chunk = u.chunk + 1]
           /\ UNCHANGED <<pc, result>>
  <2>1. v.pc = "scan" /\ v.group = u.group /\ v.chunk = u.chunk + 1 /\ v.last = u.last
    BY <1>1, <1>7 DEF Update
  <2>2. Fetched(v) = 0..((u.chunk + 1) - 1)
    BY <1>7, <2>1 DEF Fetched
  <2>3. 0..((u.chunk + 1) - 1) = 0..(u.chunk - 1) \cup {u.chunk}
    BY <1>4
  <2> QED BY <1>4, <1>5, <1>7, <2>1, <2>2, <2>3
<1>8. CASE /\ u.chunk > u.last \/ u.chunk \in valid
           /\ u.group
           /\ v = [u EXCEPT !.pc = "read", !.stop = u.chunk - 1, !.dma = 1,
                            !.lay = modLayout, !.dirty = FALSE]
           /\ UNCHANGED <<pc, result>>
  <2>1. v.pc = "read" /\ v.from = u.from /\ v.chunk = u.chunk /\ v.last = u.last
    BY <1>1, <1>8 DEF Update
  <2>2. Fetched(v) = 0..(u.from - 1) \cup ({u.chunk} \cap 0..u.last)
    BY <2>1 DEF Fetched
  <2>3. {u.chunk} \cap 0..u.last \subseteq valid
    BY <1>4, <1>8
  <2> QED BY <1>4, <1>5, <1>8, <2>1, <2>2, <2>3
<1>9. CASE /\ u.chunk > u.last /\ ~u.group
           /\ v = NoUpd /\ pc' = "idle" /\ result' = "ok"
  <2>1. 0..u.last \subseteq 0..(u.chunk - 1)
    BY <1>4, <1>9
  <2>2. 0..(Chunks(modLayout) - 1) \subseteq valid
    BY <1>4, <1>9, <2>1
  <2> QED BY <1>1, <1>9, <2>2 DEF Complete
<1> QED BY <1>1, <1>6, <1>7, <1>8, <1>9

LEMMA CompleteRead ==
    ASSUME Types, HostPlace, Complete, ReadStream(Host)
    PROVE  Complete'
<1> DEFINE u == upd[Host]
           v == upd'[Host]
<1>1. /\ u.pc = "read" /\ u \in Update /\ Within(u)
      /\ UNCHANGED <<modLayout, host, disturbed>>
      /\ valid' = IF u.dma < u.lay THEN valid ELSE valid \cup (u.from..u.stop)
      /\ v = IF u.dma < u.lay THEN [u EXCEPT !.dma = u.dma + 1]
             ELSE NextGroup(u)
  BY ProcsDistinct, ReadEffect DEF Types, Fetches
<1>2. pc = "fetch" /\ result # "ok"
  BY <1>1 DEF HostPlace
<1>3. SUFFICES ASSUME ~disturbed PROVE Complete'
  BY <1>1 DEF Complete
<1>4. /\ u.last = Chunks(modLayout) - 1
      /\ (0..(u.from - 1) \cup ({u.chunk} \cap 0..u.last)) \cap 0..u.last \subseteq valid
  BY <1>1, <1>2, <1>3 DEF Complete, Fetched
<1> HIDE DEF u, v
<1>5. v.last = u.last /\ Fetched(v) \cap 0..u.last \subseteq valid'
  <2>1. CASE u.dma < u.lay /\ v = [u EXCEPT !.dma = u.dma + 1]
    <3>1. v.pc = "read" /\ v.from = u.from /\ v.chunk = u.chunk /\ v.last = u.last
      BY <1>1, <2>1 DEF Update
    <3> QED BY <1>1, <1>4, <2>1, <3>1 DEF Fetched
  <2>2. CASE /\ ~(u.dma < u.lay)
             /\ v = NextGroup(u)
    <3>1. v.pc = "scan" /\ v.group = FALSE /\ v.chunk = u.chunk + 1 /\ v.last = u.last
      BY <2>2 DEF NextGroup, NoUpd
    <3>2. Fetched(v) = 0..((u.chunk + 1) - 1)
      BY <3>1 DEF Fetched
    <3>3. u.chunk = u.stop + 1 /\ u.chunk \in Nat /\ u.stop \in Nat /\ u.from \in Nat
          /\ u.from <= u.stop
      BY <1>1 DEF Within, Update
    <3>4. 0..((u.chunk + 1) - 1) = 0..(u.from - 1) \cup (u.from..u.stop) \cup {u.chunk}
      BY <3>3
    <3> QED BY <1>1, <1>4, <2>2, <3>1, <3>2, <3>4
  <2> QED BY <1>1, <2>1, <2>2
<1>6. Fetched(upd[Host])' = Fetched(v)
  BY DEF Fetched, v
<1> QED BY <1>1, <1>2, <1>4, <1>5, <1>6 DEF Complete, host, v

LEMMA CompleteStep ==
    ASSUME Types, HostPlace, Complete, [Next]_vars
    PROVE  Complete'
<1> USE DEF module, card, host, bounds
<1>0. /\ upd \in [Procs -> Update] /\ Host \in Procs /\ Viewer \in Procs /\ Host # Viewer
      /\ \A p \in Procs : p = Host \/ p = Viewer
      /\ modLayout \in Layouts /\ Chunks(modLayout) \in Nat
  BY ProcsDistinct, LayoutFacts DEF Types, Flat, Fetches, Procs
<1>1. CASE \/ StartScope \/ ScopeCont \/ SetStreams \/ ArmScope \/ MarkAll \/ SetRun
           \/ WaitScope \/ HostError
  <2>1. pc' # "fetch" /\ result' # "ok"
    BY <1>1 DEF StartScope, ScopeCont, SetStreams, ArmScope, MarkAll, SetRun, WaitScope,
                HostError, HostPlace
  <2> QED BY <2>1 DEF Complete
<1>2. CASE WaitDone
  <2>1. /\ BeginUpdate(Host, 0, Chunks(modLayout) - 1) /\ UNCHANGED <<module, result>>
        /\ result # "ok"
    BY <1>2 DEF WaitDone, HostPlace
  <2>2. upd'[Host] = [NoUpd EXCEPT !.pc = "scan", !.chunk = 0, !.last = Chunks(modLayout) - 1,
                                   !.numT = NumT(modLayout)]
    BY <1>0, <2>1 DEF BeginUpdate
  <2> DEFINE v == upd'[Host]
  <2>3. v.pc = "scan" /\ v.chunk = 0 /\ v.last = Chunks(modLayout) - 1 /\ v.group = FALSE
    BY <2>2 DEF NoUpd
  <2> HIDE DEF v
  <2>4. Fetched(v) = 0..(0 - 1)
    BY <2>3 DEF Fetched
  <2>5. 0..(0 - 1) = {}
    OBVIOUS
  <2>6. Fetched(upd[Host])' = Fetched(v)
    BY DEF Fetched, v
  <2> QED BY <2>1, <2>3, <2>4, <2>5, <2>6 DEF Complete, v
<1>3. CASE View
  <2>1. /\ upd'[Host] = upd[Host] /\ UNCHANGED <<module, pc, result>>
        /\ ~disturbed' => ~disturbed
    BY <1>0, <1>3 DEF View, BeginUpdate
  <2> QED BY <2>1, CompleteSame
<1>4. CASE SetOptions \/ OptionsToModule
  BY <1>4 DEF SetOptions, OptionsToModule, Complete
<1>5. CASE OptionsError \/ UNCHANGED vars
  <2>1. UNCHANGED <<module, pc, result, disturbed, upd>>
    BY <1>5 DEF OptionsError, vars
  <2> QED BY <2>1, CompleteSame
<1>6. ASSUME NEW p \in Procs, Scan(p) PROVE Complete'
  <2>1. CASE p = Host
    BY <1>6, <2>1, CompleteScan
  <2>2. CASE p # Host
    <3>1. /\ upd'[Host] = upd[Host] /\ UNCHANGED <<module, disturbed, pc, result>>
      BY <1>0, <1>6, <2>2, ScanEffect
    <3> QED BY <3>1, CompleteSame
  <2> QED BY <2>1, <2>2
<1>7. ASSUME NEW p \in Procs, ReadStream(p) PROVE Complete'
  <2>1. CASE p = Host
    BY <1>7, <2>1, CompleteRead
  <2>2. CASE p # Host
    <3>1. /\ upd'[Host] = Overlap[Host] \/ upd'[Host] = upd[Host]
          /\ UNCHANGED <<modLayout, disturbed, pc, result>> /\ valid \subseteq valid'
      BY <1>0, <1>7, <2>2, ReadEffect
    <3>2. CASE upd'[Host] = Overlap[Host]
      BY <3>1, <3>2, CompleteOverlap
    <3>3. CASE upd'[Host] = upd[Host]
      BY <3>1, <3>3, CompleteSame
    <3> QED BY <3>1, <3>2, <3>3
  <2> QED BY <2>1, <2>2
<1>8. ASSUME NEW p \in Procs, ReadLost(p) PROVE Complete'
  <2>1. /\ upd' = [upd EXCEPT ![p] = [NoUpd EXCEPT !.pc = "dead"]]
        /\ UNCHANGED <<module, pc, result, disturbed>>
    BY <1>8 DEF ReadLost
  <2>2. CASE p = Host
    <3>1. upd'[Host].pc = "dead"
      BY <1>0, <2>1, <2>2 DEF NoUpd
    <3>2. Fetched(upd[Host])' = {}
      BY <3>1 DEF Fetched
    <3> QED BY <2>1, <3>1, <3>2 DEF Complete
  <2>3. CASE p # Host
    <3>1. upd'[Host] = upd[Host]
      BY <1>0, <2>1, <2>3
    <3> QED BY <2>1, <3>1, CompleteSame
  <2> QED BY <2>2, <2>3
<1>9. ASSUME NEW p \in Procs, ReadFails(p) PROVE Complete'
  <2>1. /\ upd' = [upd EXCEPT ![p] = NoUpd] /\ UNCHANGED <<module, disturbed>>
        /\ IF p = Host THEN pc' = "idle" /\ result' = "error" ELSE UNCHANGED <<pc, result>>
    BY <1>9 DEF ReadFails, EndUpdate
  <2>2. CASE p = Host
    BY <2>1, <2>2 DEF Complete
  <2>3. CASE p # Host
    <3>1. upd'[Host] = upd[Host]
      BY <1>0, <2>1, <2>3
    <3> QED BY <2>1, <2>3, <3>1, CompleteSame
  <2> QED BY <2>2, <2>3
<1>10. ASSUME NEW d \in 1..3, Record(d) PROVE Complete'
  <2>1. upd' = Overlap /\ UNCHANGED <<module, pc, result, disturbed>>
    BY <1>10 DEF Record
  <2> QED BY <2>1, CompleteOverlap
<1> QED BY <1>1, <1>2, <1>3, <1>4, <1>5, <1>6, <1>7, <1>8, <1>9, <1>10 DEF Next
-----------------------------------------------------------------------------
LEMMA InitInv == Init => IInv
<1> SUFFICES ASSUME Init PROVE IInv
  OBVIOUS
<1>1. /\ mem = [u \in 0..(Size - 1) |-> 0] /\ mod = mem /\ valid = {} /\ raced = {}
      /\ modLayout \in Layouts /\ hwLayout = modLayout /\ recLayout = modLayout
      /\ left = [d \in 1..3 |-> 0] /\ runBit = FALSE
      /\ pc = "idle" /\ dir = "mod" /\ cont = 1 /\ result = "none"
      /\ upd = [p \in Procs |-> NoUpd] /\ disturbed = FALSE /\ opt = 0 /\ runs = 0
  BY DEF Init
<1>2. MaxRuns \in Nat /\ MaxChunks \in Nat
  BY <1>1, ModuleAssumption, LayoutFacts
<1>3. NoUpd \in Update /\ Within(NoUpd) /\ NoUpd.pc = "idle"
  BY DEF NoUpd, Update, Within
<1>4. left \in [1..3 -> 0..MaxChunks]
  BY <1>1, <1>2
<1>5. Types
  <2>1. 0 \in 0..MaxRuns /\ Size \in Nat
    BY <1>2, ModuleAssumption
  <2>2. mem \in [0..(Size - 1) -> 0..MaxRuns] /\ mod \in [0..(Size - 1) -> 0..MaxRuns]
    BY <1>1, <2>1
  <2>3. opt \in Layouts \cup {0} /\ cont \in 1..3 /\ runs \in 0..MaxRuns
        /\ pc \notin {"layout", "arm", "mark"}
    BY <1>1, <2>1
  <2>6. Flat
    BY <1>1, <1>4, <2>2, <2>3 DEF Flat
  <2>4. \A p \in Procs : upd[p] = NoUpd
    BY <1>1
  <2>5. Fetches
    BY <1>1, <1>3, <2>4 DEF Fetches
  <2> QED BY <2>5, <2>6 DEF Types
<1>6. \A p \in Procs : Copied(upd[p])
  BY <1>1, <1>3 DEF Copied
<1>7. MirrorUnlessRaced
  BY <1>1 DEF MirrorUnlessRaced
<1>8. Layouted /\ Recorded /\ Quiet /\ Complete
  BY <1>1 DEF Layouted, Recorded, Quiet, Complete, Under
<1>9. HostPlace
  BY <1>1, <1>3, ProcsDistinct DEF HostPlace
<1> QED BY <1>5, <1>6, <1>7, <1>8, <1>9 DEF IInv

LEMMA StepInv == IInv /\ [Next]_vars => IInv'
BY TypesStep, MirrorStep, LayoutedStep, RecordedStep, HostPlaceStep, QuietStep, CompleteStep
   DEF IInv

(* What a fetch has copied and may mark, which layouts the card, the DMA and *)
(* the module have at each place of start_scope, and what an undisturbed run *)
(* leaves valid.                                                            *)
THEOREM ModuleInvariant == Spec => []IInv
BY InitInv, StepInv, PTL DEF Spec

(* The variables keep their types: a group read stays within the module,     *)
(* although chunk, num_t and layout were loaded at different times.          *)
THEOREM TypeCorrect == Spec => []TypeOK
<1>1. IInv => TypeOK
  BY TypesImply DEF IInv
<1> QED BY <1>1, ModuleInvariant, PTL

(* A valid chunk is what the card holds, but for those nothing vouches for,  *)
(* with any number of fetches, runs, changes and failures.                  *)
THEOREM MirrorAlways == Spec => []MirrorUnlessRaced
<1>1. IInv => MirrorUnlessRaced
  BY DEF IInv
<1> QED BY <1>1, ModuleInvariant, PTL

(* A start_scope that waited, fetched and was not disturbed leaves all the   *)
(* data of its run in the module.                                           *)
THEOREM ReadScopeFreshAlways == Spec => []ReadScopeFresh
<1>1. ASSUME IInv PROVE ReadScopeFresh
  <2>1. Types /\ MirrorUnlessRaced /\ Layouted /\ Recorded /\ HostPlace /\ Quiet /\ Complete
    BY <1>1 DEF IInv
  <2>2. SUFFICES ASSUME result = "ok", ~disturbed
                 PROVE  /\ modLayout = recLayout
                        /\ \A c \in 0..(Chunks(recLayout) - 1) :
                              \A u \in ChunkUnits(recLayout, c) : mod[u] = runs
    BY DEF ReadScopeFresh
  <2>3. Under /\ modLayout = recLayout /\ pc = "idle"
    BY <2>1, <2>2 DEF Under, Layouted, HostPlace
  <2>4. raced = {} /\ ~Recording /\ 0..(Chunks(modLayout) - 1) \subseteq valid
    BY <2>1, <2>2, <2>3 DEF Quiet, Complete
  <2>5. /\ recLayout \in Layouts /\ recLayout \in 1..3 /\ left \in [1..3 -> 0..MaxChunks]
        /\ Chunks(recLayout) \in Nat /\ MaxChunks \in Nat
    BY <2>1, LayoutFacts DEF Types, Flat
  <2>6. ASSUME NEW c \in 0..(Chunks(recLayout) - 1), NEW a \in ChunkUnits(recLayout, c)
        PROVE  mod[a] = runs
    <3>1. mod[a] = mem[a]
      <4>1. c \in valid \ raced /\ c < Chunks(modLayout)
        BY <2>3, <2>4, <2>5
      <4> QED BY <2>1, <2>3, <2>6, <4>1 DEF MirrorUnlessRaced
    <3>2. PICK d \in 1..recLayout :
             a \in Units(recLayout, d, 2 * c, Min2(2, NumT(recLayout) - 2 * c))
      BY <2>5, <2>6, ChunkOfUnits
    <3>3. d \in 1..3 /\ d <= recLayout /\ left[d] = 0
      <4>1. d \in 1..3 /\ d <= recLayout
        BY <2>5
      <4>2. left[d] \in Nat /\ ~(left[d] > 0)
        BY <2>4, <2>5, <4>1 DEF Recording
      <4> QED BY <4>1, <4>2
    <3>4. c \in 0..(Chunks(recLayout) - left[d] - 1)
      BY <2>5, <3>3
    <3>5. mem[a] = runs
      BY <2>1, <2>3, <3>2, <3>3, <3>4 DEF Recorded
    <3> QED BY <3>1, <3>5
  <2> QED BY <2>3, <2>6
<1> QED BY <1>1, ModuleInvariant, PTL
=============================================================================
