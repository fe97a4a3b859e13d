-------------------------- MODULE ScopeRun_proofs --------------------------
(***************************************************************************)
(* Type correctness of ScopeRun and its safety properties, for any number   *)
(* of scope streams, any size of ring and any number of runs.               *)
(***************************************************************************)
EXTENDS ScopeRun, FiniteSetTheorems, WellFoundedInduction, TLAPS

Ring(s) == 0..(defined[s] - 1)

(* A ring that has been built is a circle.                                   *)
Linked ==
    \A s \in Streams : built[s] =>
        /\ defined[s] >= 1
        /\ \A i \in Ring(s) : desc[s][i].next = IF i + 1 < defined[s] THEN i + 1 ELSE 0

Clean(s) == built[s] /\ \A i \in Ring(s) : desc[s][i].status = "clear"

(* An engine that was started on a clean ring for the run that feeds it:     *)
(* complete behind it, clear from where it is on.                            *)
Walk(s) ==
    /\ built[s] /\ eng[s].mode \in {"running", "idle", "halted"}
    /\ \A i \in Ring(s) : desc[s][i].status # "clear" => desc[s][i].run = run[s]
    /\ eng[s].mode = "running" =>
          /\ eng[s].tail = defined[s] - 1
          /\ \A i \in Ring(s) : desc[s][i].status = "clear" <=> i >= eng[s].cur
    /\ eng[s].mode = "idle" => \A i \in Ring(s) : desc[s][i].status # "clear"

Good(s) == \A i \in Ring(s) : desc[s][i].status = "good" /\ desc[s][i].run = run[s]

(* From the start of the scope streams on they are what the run needs: until *)
(* the call gives up, and as long as DP_RUN is set after that, unless the    *)
(* start had failed to clear it.                                             *)
Live == pc \in {"run", "ready", "poll"} \/ (dataPath /\ ~unstopped)

(* Between the reset and the start of a run no engine of it moves, even if   *)
(* the firmware could not be stopped.                                        *)
Stopped ==
    /\ pc \in {"pb_build", "pb_start", "cont", "build", "start"} =>
          \A s \in Scope : eng[s].mode = "halted"
    /\ pc \in {"pb_build", "pb_start"} => \A s \in Playback : eng[s].mode = "halted"
    /\ dataPath /\ ~unstopped => pc \in {"idle", "ready", "poll"}

ScopeReady ==
    /\ pc = "build" => /\ stream <= nscope
                       /\ \A s \in 1..(stream - 1) : Clean(s) /\ defined[s] = Need[nscope][s]
    /\ pc = "start" => \A s \in Active : Clean(s) /\ defined[s] = Need[nscope][s]
    /\ Live => \A s \in Active : /\ Walk(s) /\ eng[s].mode # "halted"
                                 /\ defined[s] = Need[nscope][s]

(* What the wait has counted stays counted: an engine only writes what is    *)
(* clear.                                                                    *)
Counted ==
    /\ pc = "poll" => /\ stream <= nwait
                      /\ \A s \in Scope : want[s] = defined[s]
                      /\ \A s \in Active : s < stream => Good(s)
    /\ waited => pc = "ready" /\ \A s \in Active : s <= nwait => Good(s)

(* While nobody has missed anything, the wait covers what was built.         *)
Agreed ==
    /\ pc \in {"build", "start", "run", "ready", "poll"} /\ ~missed => hwscope = nscope
    /\ (pc = "poll" \/ waited) /\ ~missed => nwait = hwscope

(* The playback ring is walked round and round: its tail is never reached.   *)
Plays ==
    playing /\ (pc \in {"cont", "build", "start"} \/ Live) =>
        \A s \in Playback : built[s] /\ eng[s].mode = "running" /\ eng[s].tail = defined[s]

HistReady ==
    /\ hpc \in {"stop", "build", "start", "request"} => ~reading
    /\ hpc # "idle" => ~readOk
    /\ hpc \in {"build", "start"} => eng[HistRead].mode = "halted"
    /\ hpc = "start" => Clean(HistRead)
    /\ hpc \in {"request", "wait"} => Walk(HistRead)
    /\ hpc \in {"start", "request", "wait"} => defined[HistRead] = block
    /\ readOk => /\ ~Busy(HistRead) /\ defined[HistRead] = block
                 /\ \A i \in Ring(HistRead) : /\ desc[HistRead][i].status # "clear"
                                              /\ desc[HistRead][i].run = run[HistRead]

IInv ==
    /\ TypeOK /\ Linked /\ InRing /\ Stopped /\ ScopeReady /\ Counted /\ Agreed /\ Plays
    /\ HistReady

-----------------------------------------------------------------------------
LEMMA Consts ==
    /\ RingSize \in Nat /\ RingSize >= 1 /\ MaxRuns \in Nat
    /\ Streams = Scope \cup Playback \cup {HistRead} /\ Tx = Playback
    /\ HistRead \notin Scope /\ HistRead \notin Playback /\ Playback \cap Scope = {}
    /\ 1 \in Scope /\ \A k \in Scope : k \in Nat /\ k >= 1 /\ 1..k \subseteq Scope
    /\ \A k, s \in Scope : Need[k][s] \in 1..RingSize
    /\ PlayNeeds \subseteq Nat \ {0} /\ HistNeeds \subseteq 1..RingSize
<1>1. Scope = 1..Cardinality(Scope) /\ Cardinality(Scope) \in Nat /\ Scope # {}
  BY ScopeAssumption, FS_CardinalityType DEF ScopeAssumption
<1>2. 1 \in Scope /\ \A k \in Scope : k \in Nat /\ k >= 1 /\ 1..k \subseteq Scope
  <2> DEFINE m == Cardinality(Scope)
  <2>1. Scope = 1..m /\ m \in Nat
    BY <1>1
  <2>2. m >= 1
    <3> SUFFICES ASSUME m = 0 PROVE FALSE
      BY <2>1
    <3>1. 1..0 = {}
      OBVIOUS
    <3> QED BY <1>1, <3>1
  <2> HIDE DEF m
  <2> QED BY <2>1, <2>2
<1>3. \A k, s \in Scope : Need[k][s] \in 1..RingSize
  BY ScopeAssumption DEF ScopeAssumption
<1> QED BY <1>2, <1>3, StreamsAssumption, ScopeAssumption DEF StreamsAssumption, ScopeAssumption

LEMMA RingTypes ==
    ASSUME DriverTypeOK, NEW s \in Streams
    PROVE  /\ run[s] \in 0..MaxRuns /\ built[s] \in BOOLEAN /\ defined[s] \in 0..RingSize
           /\ desc[s] \in [Index -> Descriptor] /\ Ring(s) \subseteq Index
           /\ eng[s] \in Engine /\ eng[s].cur \in 0..RingSize /\ eng[s].tail \in 0..RingSize
           /\ eng[s].mode \in {"halted", "running", "idle", "stopping"}
<1>1. /\ run[s] \in 0..MaxRuns /\ built[s] \in BOOLEAN /\ defined[s] \in 0..RingSize
      /\ desc[s] \in [Index -> Descriptor] /\ eng[s] \in Engine
  BY DEF DriverTypeOK
<1>2. Ring(s) \subseteq Index
  BY <1>1, Consts DEF Ring, Index
<1> QED BY <1>1, <1>2 DEF Engine

-----------------------------------------------------------------------------
(* A step that leaves a stream alone leaves what is said of it.              *)
Same(s) ==
    /\ built'[s] = built[s] /\ defined'[s] = defined[s] /\ desc'[s] = desc[s]
    /\ eng'[s] = eng[s] /\ run'[s] = run[s]

LEMMA Frame ==
    ASSUME NEW s, Same(s)
    PROVE  /\ Ring(s)' = Ring(s) /\ (Clean(s)' <=> Clean(s)) /\ (Walk(s)' <=> Walk(s))
           /\ (Good(s)' <=> Good(s)) /\ (Busy(s)' <=> Busy(s))
BY DEF Same, Ring, Clean, Walk, Good, Busy

(* The parts of the invariant that are about the driver alone.               *)
DriverInv == DriverTypeOK /\ Linked /\ InRing

LEMMA FrameDriver ==
    ASSUME DriverInv, UNCHANGED <<run, driver>>
    PROVE  DriverInv' /\ \A s \in Streams : Same(s)
BY DEF DriverInv, DriverTypeOK, Linked, InRing, Busy, Ring, Same, driver

-----------------------------------------------------------------------------
(* The driver's commands.                                                    *)
LEMMA ResetEffect ==
    ASSUME DriverInv, Reset(Streams)
    PROVE  /\ DriverInv' /\ UNCHANGED <<run, built, defined, desc>>
           /\ \A s \in Streams : eng'[s] = Halted
<1>1. UNCHANGED <<run, built, defined, desc>> /\ eng' = [s \in Streams |-> Halted]
  BY DEF Reset
<1>2. Halted \in Engine /\ Halted.mode = "halted"
  BY Consts DEF Halted, Engine
<1>3. DriverTypeOK'
  BY <1>1, <1>2 DEF DriverInv, DriverTypeOK
<1>4. Linked' /\ InRing'
  BY <1>1, <1>2 DEF DriverInv, Linked, InRing, Ring, Busy
<1> QED BY <1>1, <1>3, <1>4 DEF DriverInv

LEMMA NextInRing ==
    ASSUME NEW n \in Nat, n >= 1, NEW i \in 0..(n - 1)
    PROVE  (i + 1) % n = IF i + 1 < n THEN i + 1 ELSE 0
<1>1. CASE i + 1 < n
  BY <1>1
<1>2. CASE i + 1 = n
  BY <1>2
<1> QED BY <1>1, <1>2

LEMMA BuildEffect ==
    ASSUME DriverInv, NEW s \in Streams, NEW n \in 1..RingSize, Build(s, n), ~Busy(s)
    PROVE  /\ DriverInv' /\ UNCHANGED <<run, eng>> /\ \A t \in Streams \ {s} : Same(t)
           /\ Clean(s)' /\ defined'[s] = n
<1>0. n \in Nat /\ n >= 1 /\ n <= RingSize /\ RingSize \in Nat
  BY Consts
<1>1. /\ UNCHANGED <<run, eng>> /\ built' \in [Streams -> BOOLEAN]
      /\ defined' \in [Streams -> 0..RingSize]
      /\ desc' \in [Streams -> [Index -> Descriptor]]
      /\ built'[s] /\ defined'[s] = n
      /\ \A t \in Streams \ {s} : built'[t] = built[t] /\ defined'[t] = defined[t]
                                  /\ desc'[t] = desc[t]
      /\ \A i \in 0..(n - 1) : /\ desc'[s][i].status = "clear"
                               /\ desc'[s][i].next = IF i + 1 < n THEN i + 1 ELSE 0
  <2>0. DriverTypeOK /\ Linked /\ desc[s] \in [Index -> Descriptor]
    BY RingTypes DEF DriverInv
  <2>a. \A i \in 0..(n - 1) : i \in Index
    BY <1>0 DEF Index
  <2>1. CASE CleanBuild(s, n)
    <3> DEFINE r == [i \in Index |-> IF i < n THEN [desc[s][i] EXCEPT !.status = "clear"] ELSE desc[s][i]]
    <3>1. desc' = [desc EXCEPT ![s] = r] /\ UNCHANGED <<run, built, defined, eng>> /\ built[s] /\ defined[s] = n
      BY <2>1 DEF CleanBuild
    <3>2. r \in [Index -> Descriptor]
      BY <2>0 DEF Descriptor
    <3>3. \A i \in 0..(n - 1) : r[i].status = "clear" /\ r[i].next = desc[s][i].next
      BY <1>0, <2>0, <2>a DEF Descriptor
    <3>4. \A i \in 0..(n - 1) : desc[s][i].next = IF i + 1 < n THEN i + 1 ELSE 0
      BY <2>0, <3>1 DEF Linked, Ring
    <3> HIDE DEF r
    <3> QED BY <2>0, <3>1, <3>2, <3>3, <3>4 DEF DriverTypeOK
  <2>2. CASE NewBuild(s, n)
    <3> DEFINE r == [i \in Index |-> IF i < n THEN [Blank EXCEPT !.next = (i + 1) % n] ELSE desc[s][i]]
    <3>1. /\ desc' = [desc EXCEPT ![s] = r] /\ built' = [built EXCEPT ![s] = TRUE]
          /\ defined' = [defined EXCEPT ![s] = n] /\ UNCHANGED <<run, eng>>
      BY <2>2 DEF NewBuild
    <3> DEFINE k(i) == IF i + 1 < n THEN i + 1 ELSE 0
    <3>2. \A i \in 0..(n - 1) : (i + 1) % n = k(i) /\ k(i) \in 0..RingSize
      BY <1>0, NextInRing
    <3>3. \A i \in 0..(n - 1) : r[i] = [next |-> k(i), status |-> "clear", run |-> 0]
      <4> SUFFICES ASSUME NEW i \in 0..(n - 1)
                   PROVE  r[i] = [next |-> k(i), status |-> "clear", run |-> 0]
        OBVIOUS
      <4>1. i \in Index /\ i < n /\ (i + 1) % n = k(i)
        BY <1>0, <2>a, <3>2
      <4>2. r[i] = [Blank EXCEPT !.next = (i + 1) % n]
        BY <4>1
      <4> HIDE DEF r, k
      <4> QED BY <4>1, <4>2 DEF Blank
    <3>4. r \in [Index -> Descriptor]
      <4> SUFFICES ASSUME NEW i \in Index PROVE r[i] \in Descriptor
        OBVIOUS
      <4>1. CASE i < n
        <5>1. i \in 0..(n - 1)
          BY <1>0, <4>1 DEF Index
        <5>2. r[i] = [next |-> k(i), status |-> "clear", run |-> 0] /\ k(i) \in 0..RingSize
          BY <3>2, <3>3, <5>1
        <5> HIDE DEF r, k
        <5> QED BY <5>2, Consts DEF Descriptor
      <4>2. CASE ~(i < n)
        BY <2>0, <4>2
      <4> QED BY <4>1, <4>2
    <3> HIDE DEF r
    <3>5. \A i \in 0..(n - 1) : /\ r[i].status = "clear"
                                /\ r[i].next = IF i + 1 < n THEN i + 1 ELSE 0
      <4>1. \A i \in 0..(n - 1) : r[i].status = "clear" /\ r[i].next = k(i)
        <5> TAKE i \in 0..(n - 1)
        <5>1. r[i] = [next |-> k(i), status |-> "clear", run |-> 0]
          BY <3>3
        <5> HIDE DEF k
        <5> QED BY <5>1
      <4> QED BY <4>1
    <3> QED BY <1>0, <2>0, <3>1, <3>4, <3>5 DEF DriverTypeOK
  <2> QED BY <2>1, <2>2 DEF Build
<1>2. DriverTypeOK'
  BY <1>1 DEF DriverInv, DriverTypeOK
<1>3. Linked'
  BY <1>0, <1>1 DEF DriverInv, Linked, Ring
<1>4. InRing'
  BY <1>1 DEF DriverInv, InRing, Busy
<1> QED BY <1>1, <1>2, <1>3, <1>4 DEF DriverInv, Same, Clean, Ring

LEMMA BuildFailsEffect ==
    ASSUME DriverInv, NEW s \in Streams, NEW n \in Nat, BuildFails(s, n), ~Busy(s)
    PROVE  DriverInv' /\ UNCHANGED <<run, eng>> /\ \A t \in Streams \ {s} : Same(t)
<1> DEFINE r == [i \in Index |-> [Blank EXCEPT !.next = i + 1]]
<1>1. /\ desc' = [desc EXCEPT ![s] = r] /\ built' = [built EXCEPT ![s] = FALSE]
      /\ UNCHANGED <<run, defined, eng>>
  BY DEF BuildFails
<1>2. r \in [Index -> Descriptor]
  BY Consts DEF Index, Blank, Descriptor
<1> HIDE DEF r
<1>3. DriverTypeOK /\ Linked /\ InRing
  BY DEF DriverInv
<1>4. DriverTypeOK' /\ built'[s] = FALSE /\ \A t \in Streams \ {s} : Same(t)
  BY <1>1, <1>2, <1>3 DEF DriverTypeOK, Same
<1>5. Linked' /\ InRing'
  BY <1>1, <1>3, <1>4 DEF Linked, InRing, Busy, Ring, Same
<1> QED BY <1>1, <1>3, <1>4, <1>5 DEF DriverInv

LEMMA StartEffect ==
    ASSUME DriverInv, NEW mask \in SUBSET Streams, NEW circular \in BOOLEAN,
           Start(mask, circular), \A s \in mask : ~Busy(s)
    PROVE  /\ DriverInv' /\ UNCHANGED <<run, built, defined, desc>>
           /\ \A s \in Streams \ mask : Same(s)
           /\ \A s \in mask : /\ built[s] /\ eng'[s].mode = "running" /\ eng'[s].cur = 0
                              /\ circular => eng'[s].tail = defined[s]
                              /\ ~circular => eng'[s].tail = defined[s] - 1
<1>1. /\ \A s \in mask : built[s]
      /\ UNCHANGED <<run, built, defined, desc>>
      /\ eng' = [s \in Streams |-> IF s \in mask THEN Started(s, circular, FALSE) ELSE eng[s]]
  <2>1. {s \in mask : Busy(s)} = {}
    OBVIOUS
  <2>2. PICK stuck \in SUBSET {s \in mask : Busy(s)} :
          eng' = [s \in Streams |-> IF s \in mask THEN Started(s, circular, s \in stuck) ELSE eng[s]]
    BY DEF Start, StartEngines
  <2>3. \A s \in Streams : (s \in stuck) = FALSE
    BY <2>1, <2>2
  <2>4. eng' = [s \in Streams |-> IF s \in mask THEN Started(s, circular, FALSE) ELSE eng[s]]
    BY <2>2, <2>3
  <2> QED BY <2>4 DEF Start
<1>2. \A s \in Streams : defined[s] \in 0..RingSize /\ (built[s] => defined[s] >= 1)
  BY RingTypes DEF DriverInv, Linked
<1>3. \A s \in mask : /\ eng'[s] \in Engine /\ eng'[s].mode = "running" /\ eng'[s].cur = 0
                      /\ circular => eng'[s].tail = defined[s]
                      /\ ~circular => eng'[s].tail = defined[s] - 1
  <2> SUFFICES ASSUME NEW s \in mask
               PROVE  /\ eng'[s] \in Engine /\ eng'[s].mode = "running" /\ eng'[s].cur = 0
                      /\ circular => eng'[s].tail = defined[s]
                      /\ ~circular => eng'[s].tail = defined[s] - 1
    OBVIOUS
  <2>1. defined[s] \in 0..RingSize /\ defined[s] - 1 \in 0..RingSize /\ 0 \in 0..RingSize
    BY <1>1, <1>2, Consts
  <2>2. CASE circular
    <3>1. eng'[s] = [mode |-> "running", cur |-> 0, tail |-> defined[s]]
      BY <1>1, <2>2 DEF Started
    <3> QED BY <2>1, <2>2, <3>1 DEF Engine
  <2>3. CASE ~circular
    <3>1. eng'[s] = [mode |-> "running", cur |-> 0, tail |-> defined[s] - 1]
      BY <1>1, <2>3 DEF Started
    <3> QED BY <2>1, <2>3, <3>1 DEF Engine
  <2> QED BY <2>2, <2>3
<1>4. \A s \in Streams \ mask : Same(s)
  BY <1>1 DEF Same
<1>5. eng' \in [Streams -> Engine]
  <2> SUFFICES ASSUME NEW s \in Streams PROVE eng'[s] \in Engine
    BY <1>1
  <2>1. CASE s \in mask
    BY <1>3, <2>1
  <2>2. CASE s \notin mask
    BY <1>1, <2>2, RingTypes DEF DriverInv
  <2> QED BY <2>1, <2>2
<1>6. DriverTypeOK' /\ Linked'
  BY <1>1, <1>5 DEF DriverInv, DriverTypeOK, Linked, Ring
<1>7. InRing'
  <2> SUFFICES ASSUME NEW s \in Streams, Busy(s)' PROVE (built[s] /\ eng[s].cur < defined[s])'
    BY DEF InRing
  <2>1. CASE s \in mask
    <3>1. eng'[s].cur = 0 /\ built[s]
      BY <1>1, <1>3, <2>1
    <3>2. defined[s] >= 1 /\ defined[s] \in Nat
      BY <1>2, <3>1
    <3>3. built' = built /\ defined' = defined
      BY <1>1
    <3> QED BY <3>1, <3>2, <3>3
  <2>2. CASE s \notin mask
    BY <1>1, <1>4, <2>2 DEF DriverInv, InRing, Busy, Same
  <2> QED BY <2>1, <2>2
<1> QED BY <1>1, <1>3, <1>4, <1>6, <1>7 DEF DriverInv

LEMMA StopEffect ==
    ASSUME DriverInv, NEW s \in Streams, NEW halted \in SUBSET {s}, Stop({s}, halted)
    PROVE  /\ DriverInv' /\ UNCHANGED <<run, built, defined, desc>>
           /\ \A t \in Streams \ {s} : Same(t)
           /\ halted = {s} => eng'[s].mode = "halted"
<1>1. /\ UNCHANGED <<run, built, defined, desc>>
      /\ \A t \in Streams \ {s} : eng'[t] = eng[t]
      /\ eng'[s] = IF s \in halted THEN [eng[s] EXCEPT !.mode = "halted"]
                   ELSE [eng[s] EXCEPT !.mode = "stopping"]
      /\ eng' = [t \in Streams |-> eng'[t]]
      /\ s \notin halted => Busy(s)
  BY DEF Stop
<1>2. eng[s] \in Engine /\ DriverTypeOK /\ Linked /\ InRing
  BY RingTypes DEF DriverInv
<1>3. /\ eng'[s] \in Engine /\ eng'[s].cur = eng[s].cur
      /\ eng'[s].mode = IF s \in halted THEN "halted" ELSE "stopping"
  BY <1>1, <1>2 DEF Engine
<1>4. eng' \in [Streams -> Engine]
  <2>1. \A t \in Streams : eng'[t] \in Engine
    BY <1>1, <1>2, <1>3 DEF DriverTypeOK
  <2> QED BY <1>1, <2>1
<1>5. DriverTypeOK' /\ Linked'
  BY <1>1, <1>2, <1>4 DEF DriverTypeOK, Linked, Ring
<1>6. InRing'
  BY <1>1, <1>2, <1>3 DEF InRing, Busy
<1> QED BY <1>1, <1>3, <1>5, <1>6 DEF DriverInv, Same

-----------------------------------------------------------------------------
(* The engines.                                                              *)
LEMMA CompleteEffect ==
    ASSUME DriverInv, NEW s \in Streams, NEW status \in {"good", "bad"}, Fetchable(s),
           Complete(s, status)
    PROVE  /\ \A t \in Streams \ {s} : desc'[t] = desc[t] /\ eng'[t] = eng[t]
           /\ \A i \in Index \ {eng[s].cur} : desc'[s][i] = desc[s][i]
           /\ desc'[s][eng[s].cur] = [next |-> desc[s][eng[s].cur].next, status |-> status, run |-> run[s]]
           /\ eng'[s] = IF eng[s].mode = "stopping" THEN [eng[s] EXCEPT !.mode = "halted"]
                        ELSE IF eng[s].cur = eng[s].tail THEN [eng[s] EXCEPT !.mode = "idle"]
                        ELSE [eng[s] EXCEPT !.cur = desc[s][eng[s].cur].next]
           /\ desc' \in [Streams -> [Index -> Descriptor]] /\ eng' \in [Streams -> Engine]
<1> DEFINE c == eng[s].cur
<1>1. /\ DriverTypeOK /\ desc[s] \in [Index -> Descriptor] /\ eng[s] \in Engine
      /\ run[s] \in 0..MaxRuns /\ c \in Index /\ desc[s][c] \in Descriptor /\ Busy(s)
      /\ desc[s][c].next \in 0..RingSize
  BY RingTypes DEF DriverInv, Fetchable, Descriptor
<1>2. desc' = [desc EXCEPT ![s][c].status = status, ![s][c].run = run[s]]
  BY DEF Complete
<1>3. /\ \A t \in Streams \ {s} : desc'[t] = desc[t]
      /\ \A i \in Index \ {c} : desc'[s][i] = desc[s][i]
      /\ desc'[s][c] = [next |-> desc[s][c].next, status |-> status, run |-> run[s]]
      /\ desc' \in [Streams -> [Index -> Descriptor]]
  BY <1>1, <1>2 DEF DriverTypeOK, Descriptor
<1>4. eng' = [eng EXCEPT ![s] =
                    CASE eng[s].mode = "stopping" -> [@ EXCEPT !.mode = "halted"]
                      [] eng[s].mode = "running" /\ c = eng[s].tail -> [@ EXCEPT !.mode = "idle"]
                      [] OTHER -> [@ EXCEPT !.cur = desc[s][c].next]]
  BY DEF Complete
<1>5. eng[s].mode \in {"running", "stopping"}
  BY <1>1 DEF Busy
<1> HIDE DEF c
<1>6. eng'[s] = IF eng[s].mode = "stopping" THEN [eng[s] EXCEPT !.mode = "halted"]
                ELSE IF c = eng[s].tail THEN [eng[s] EXCEPT !.mode = "idle"]
                ELSE [eng[s] EXCEPT !.cur = desc[s][c].next]
  BY <1>1, <1>4, <1>5 DEF DriverTypeOK
<1>7. eng'[s] \in Engine
  BY <1>1, <1>6 DEF Engine
<1>8. eng' \in [Streams -> Engine] /\ \A t \in Streams \ {s} : eng'[t] = eng[t]
  BY <1>1, <1>4, <1>7 DEF DriverTypeOK
<1> QED BY <1>3, <1>6, <1>8 DEF c

(* What a completion does to the rings, whoever completes.                   *)
LEMMA CompleteDriver ==
    ASSUME DriverInv, NEW s \in Streams, NEW status \in {"good", "bad"}, Fetchable(s),
           Complete(s, status), UNCHANGED <<run, built, defined>>
    PROVE  DriverInv' /\ (\A t \in Streams \ {s} : Same(t)) /\ RingStable
<1> DEFINE c == eng[s].cur
<1>1. /\ \A t \in Streams \ {s} : desc'[t] = desc[t] /\ eng'[t] = eng[t]
      /\ \A i \in Index \ {c} : desc'[s][i] = desc[s][i]
      /\ desc'[s][c] = [next |-> desc[s][c].next, status |-> status, run |-> run[s]]
      /\ eng'[s] = IF eng[s].mode = "stopping" THEN [eng[s] EXCEPT !.mode = "halted"]
                   ELSE IF c = eng[s].tail THEN [eng[s] EXCEPT !.mode = "idle"]
                   ELSE [eng[s] EXCEPT !.cur = desc[s][c].next]
      /\ desc' \in [Streams -> [Index -> Descriptor]] /\ eng' \in [Streams -> Engine]
  BY CompleteEffect
<1>2. /\ DriverTypeOK /\ Linked /\ InRing /\ Busy(s) /\ c \in Index
      /\ desc[s] \in [Index -> Descriptor] /\ eng[s] \in Engine
      /\ built[s] /\ c < defined[s] /\ defined[s] \in Nat /\ c \in Nat
  BY RingTypes, Consts DEF DriverInv, InRing, Fetchable, Index
<1>3. DriverTypeOK'
  BY <1>1, <1>2 DEF DriverTypeOK
<1>4. \A t \in Streams \ {s} : Same(t)
  BY <1>1 DEF Same
<1>5. \A i \in Index : desc'[s][i].next = desc[s][i].next
  BY <1>1
<1>6. Linked'
  <2> SUFFICES ASSUME NEW t \in Streams, built'[t]
               PROVE  /\ defined'[t] >= 1
                      /\ \A i \in Ring(t)' : desc'[t][i].next = IF i + 1 < defined'[t] THEN i + 1 ELSE 0
    BY DEF Linked
  <2>1. Ring(t)' = Ring(t) /\ Ring(t) \subseteq Index /\ built[t] /\ defined'[t] = defined[t]
    BY <1>2, RingTypes DEF Ring
  <2>2. CASE t = s
    BY <1>2, <1>5, <2>1, <2>2 DEF Linked
  <2>3. CASE t # s
    BY <1>1, <1>2, <2>1, <2>3 DEF Linked
  <2> QED BY <2>2, <2>3
<1>7. InRing'
  <2> SUFFICES ASSUME NEW t \in Streams, Busy(t)' PROVE built'[t] /\ eng'[t].cur < defined'[t]
    BY DEF InRing
  <2>1. CASE t = s
    <3>1. c \in Ring(s) /\ desc[s][c].next < defined[s]
      BY <1>2 DEF Linked, Ring
    <3>2. CASE eng'[s] = [eng[s] EXCEPT !.cur = desc[s][c].next]
      BY <1>2, <2>1, <3>1, <3>2 DEF Engine
    <3>3. CASE eng'[s].mode \in {"halted", "idle"}
      BY <2>1, <3>3 DEF Busy
    <3> QED BY <1>1, <1>2, <3>2, <3>3 DEF Engine
  <2>2. CASE t # s
    BY <1>1, <1>2, <2>2 DEF InRing, Busy
  <2> QED BY <2>1, <2>2
<1>8. RingStable
  <2> SUFFICES ASSUME NEW t \in Streams, desc'[t] # desc[t]
               PROVE  \E d \in Index : /\ d = eng[t].cur
                                       /\ \A i \in Index \ {d} : desc'[t][i] = desc[t][i]
                                       /\ desc'[t][d].next = desc[t][d].next /\ desc'[t][d].status # "clear"
    BY DEF RingStable
  <2>1. t = s
    BY <1>1
  <2>2. desc'[s][c].next = desc[s][c].next /\ desc'[s][c].status # "clear"
    BY <1>1
  <2> QED BY <1>1, <1>2, <2>1, <2>2
<1> QED BY <1>3, <1>4, <1>6, <1>7, <1>8 DEF DriverInv

LEMMA ReceiveEffect ==
    ASSUME DriverInv, NEW s \in Streams, Receive(s)
    PROVE  /\ DriverInv' /\ UNCHANGED <<run, built, defined>>
           /\ \A t \in Streams \ {s} : Same(t)
           /\ Walk(s) => Walk(s)' /\ eng'[s].mode # "halted" /\ ~Good(s)
           /\ Busy(s) /\ RingStable
<1> DEFINE c == eng[s].cur
<1>0. /\ UNCHANGED <<run, built, defined>> /\ Fetchable(s) /\ Busy(s)
      /\ DriverTypeOK /\ Linked /\ InRing /\ c \in Index
      /\ built[s] /\ c < defined[s] /\ defined[s] \in Nat /\ c \in Nat /\ c \in Ring(s)
      /\ eng[s] \in Engine
  BY RingTypes, Consts DEF Receive, DriverInv, InRing, Fetchable, Index, Ring
<1>1. CASE desc[s][c].status = "clear" /\ \E status \in {"good", "bad"} : Complete(s, status)
  <2>1. PICK status \in {"good", "bad"} : Complete(s, status)
    BY <1>1
  <2>2. ASSUME Walk(s) PROVE Walk(s)' /\ eng'[s].mode # "halted"
    <3>1. /\ eng[s].mode = "running" /\ eng[s].tail = defined[s] - 1
          /\ \A i \in Ring(s) : desc[s][i].status = "clear" <=> i >= c
          /\ \A i \in Ring(s) : desc[s][i].status # "clear" => desc[s][i].run = run[s]
      BY <1>0, <2>2 DEF Walk, Busy
    <3>2. /\ \A i \in Index \ {c} : desc'[s][i] = desc[s][i]
          /\ desc'[s][c].status = status /\ desc'[s][c].run = run[s]
          /\ eng'[s] = IF c = eng[s].tail THEN [eng[s] EXCEPT !.mode = "idle"]
                       ELSE [eng[s] EXCEPT !.cur = desc[s][c].next]
      <4>1. /\ \A i \in Index \ {c} : desc'[s][i] = desc[s][i]
            /\ desc'[s][c] = [next |-> desc[s][c].next, status |-> status, run |-> run[s]]
            /\ eng'[s] = IF eng[s].mode = "stopping" THEN [eng[s] EXCEPT !.mode = "halted"]
                         ELSE IF c = eng[s].tail THEN [eng[s] EXCEPT !.mode = "idle"]
                         ELSE [eng[s] EXCEPT !.cur = desc[s][c].next]
        BY <1>0, <2>1, CompleteEffect
      <4> HIDE DEF c
      <4> QED BY <3>1, <4>1
    <3>3. Ring(s)' = Ring(s) /\ Ring(s) \subseteq Index
      BY <1>0, RingTypes DEF Ring
    <3>4. \A i \in Ring(s) : desc'[s][i].status # "clear" => desc'[s][i].run = run'[s]
      BY <1>0, <3>1, <3>2, <3>3
    <3>5. CASE c = defined[s] - 1
      <4>1. eng'[s].mode = "idle"
        BY <1>0, <3>1, <3>2, <3>5 DEF Engine
      <4>2. \A i \in Ring(s) : desc'[s][i].status # "clear"
        BY <1>0, <3>1, <3>2, <3>3, <3>5 DEF Ring
      <4> QED BY <1>0, <3>3, <3>4, <4>1, <4>2 DEF Walk
    <3>6. CASE c # defined[s] - 1
      <4>1. desc[s][c].next = c + 1
        BY <1>0, <3>6 DEF Linked
      <4>2. eng'[s].mode = "running" /\ eng'[s].tail = defined[s] - 1 /\ eng'[s].cur = c + 1
        BY <1>0, <3>1, <3>2, <3>6, <4>1 DEF Engine
      <4>3. \A i \in Ring(s) : desc'[s][i].status = "clear" <=> i >= c + 1
        BY <1>0, <3>1, <3>2, <3>3 DEF Ring
      <4> QED BY <1>0, <3>3, <3>4, <4>2, <4>3 DEF Walk
    <3> QED BY <3>5, <3>6
  <2>3. ~Good(s)
    BY <1>0, <1>1 DEF Good
  <2> QED BY <1>0, <2>1, <2>2, <2>3, CompleteDriver
<1>2. CASE /\ desc[s][c].status # "clear" /\ eng' = [eng EXCEPT ![s].mode = "halted"]
           /\ UNCHANGED desc
  <2>1. eng'[s] = [eng[s] EXCEPT !.mode = "halted"] /\ \A t \in Streams \ {s} : eng'[t] = eng[t]
    BY <1>0, <1>2 DEF DriverTypeOK
  <2>2. eng'[s] \in Engine /\ eng'[s].mode = "halted"
    BY <1>0, <2>1 DEF Engine
  <2>3. eng' \in [Streams -> Engine]
    BY <1>0, <1>2, <2>1, <2>2 DEF DriverTypeOK
  <2>4. DriverTypeOK' /\ Linked'
    BY <1>0, <1>2, <2>3 DEF DriverTypeOK, Linked, Ring
  <2>5. InRing'
    BY <1>0, <2>1, <2>2 DEF InRing, Busy
  <2>6. ~Walk(s)
    BY <1>0, <1>2 DEF Walk, Busy
  <2> QED BY <1>0, <1>2, <2>1, <2>4, <2>5, <2>6 DEF DriverInv, Same, RingStable
<1> QED BY <1>1, <1>2 DEF Receive

LEMMA SendEffect ==
    ASSUME DriverInv, NEW s \in Streams, Send(s)
    PROVE  /\ DriverInv' /\ UNCHANGED <<run, built, defined>>
           /\ \A t \in Streams \ {s} : Same(t)
           /\ eng[s].mode = "running" /\ eng[s].tail = defined[s] =>
                 eng'[s].mode = "running" /\ eng'[s].tail = defined[s]
           /\ RingStable
<1> DEFINE c == eng[s].cur
<1>1. /\ UNCHANGED <<run, built, defined>> /\ Fetchable(s) /\ Complete(s, "good")
      /\ c < defined[s] /\ defined[s] \in Nat /\ c \in Nat /\ eng[s] \in Engine
  BY RingTypes, Consts DEF Send, DriverInv, InRing, Fetchable, Index
<1>2. ASSUME eng[s].mode = "running", eng[s].tail = defined[s]
      PROVE  eng'[s].mode = "running" /\ eng'[s].tail = defined[s]
  <2>1. eng'[s] = [eng[s] EXCEPT !.cur = desc[s][c].next]
    <3>1. eng'[s] = IF eng[s].mode = "stopping" THEN [eng[s] EXCEPT !.mode = "halted"]
                    ELSE IF c = eng[s].tail THEN [eng[s] EXCEPT !.mode = "idle"]
                    ELSE [eng[s] EXCEPT !.cur = desc[s][c].next]
      BY <1>1, CompleteEffect
    <3>2. eng[s].mode # "stopping" /\ c # eng[s].tail
      BY <1>1, <1>2
    <3> HIDE DEF c
    <3> QED BY <3>1, <3>2
  <2> QED BY <1>1, <1>2, <2>1 DEF Engine
<1> QED BY <1>1, <1>2, CompleteDriver

LEMMA HaltEffect ==
    ASSUME DriverInv, NEW s \in Streams, Halt(s)
    PROVE  /\ DriverInv' /\ UNCHANGED <<run, built, defined, desc>>
           /\ \A t \in Streams \ {s} : Same(t)
           /\ eng[s].mode = "stopping" /\ eng'[s].mode = "halted"
<1>1. /\ UNCHANGED <<run, built, defined, desc>> /\ eng[s].mode = "stopping"
      /\ eng' = [eng EXCEPT ![s].mode = "halted"]
      /\ DriverTypeOK /\ Linked /\ InRing /\ eng[s] \in Engine
  BY RingTypes DEF Halt, DriverInv
<1>2. eng'[s] = [eng[s] EXCEPT !.mode = "halted"] /\ \A t \in Streams \ {s} : eng'[t] = eng[t]
  BY <1>1 DEF DriverTypeOK
<1>3. eng'[s] \in Engine /\ eng'[s].mode = "halted"
  BY <1>1, <1>2 DEF Engine
<1>4. eng' \in [Streams -> Engine]
  BY <1>1, <1>2, <1>3 DEF DriverTypeOK
<1>5. DriverTypeOK' /\ Linked'
  BY <1>1, <1>4 DEF DriverTypeOK, Linked, Ring
<1>6. InRing'
  BY <1>1, <1>2, <1>3 DEF InRing, Busy
<1> QED BY <1>1, <1>2, <1>3, <1>5, <1>6 DEF DriverInv, Same

-----------------------------------------------------------------------------
HostTypes ==
    /\ pc \in HostPC /\ {nscope, hwscope, nwait, stream} \subseteq Scope
    /\ {dataPath, unstopped, missed, playing, waited} \subseteq BOOLEAN
    /\ want \in [Scope -> 0..RingSize] /\ unseen \in 0..MaxUnseen

HistTypes ==
    hpc \in HistPC /\ block \in HistNeeds /\ reading \in BOOLEAN /\ readOk \in BOOLEAN

HostInv == HostTypes /\ Stopped /\ ScopeReady /\ Counted /\ Agreed /\ Plays
HistInv == HistTypes /\ HistReady

LEMMA Parts == IInv <=> DriverInv /\ HostInv /\ HistInv
BY DEF IInv, TypeOK, DriverInv, HostInv, HistInv, HostTypes, HistTypes

LEMMA ActiveScope ==
    ASSUME HostTypes
    PROVE  /\ Active \subseteq Scope /\ 1..hwscope \subseteq Scope
           /\ nscope \in Nat /\ nscope >= 1 /\ stream \in Nat /\ stream >= 1
           /\ hwscope \in Nat /\ nwait \in Nat /\ nwait >= 1
           /\ \A s \in 1..(stream - 1) : s \in Scope
BY Consts DEF HostTypes, Active

LEMMA PartsNext == DriverInv' /\ HostInv' /\ HistInv' => IInv'
BY DEF IInv, TypeOK, DriverInv, HostInv, HistInv, HostTypes, HistTypes

(* What the host relies on does not change with the histogram stream, and    *)
(* the reverse.                                                              *)
LEMMA HostFrame ==
    ASSUME HostInv, UNCHANGED host, \A s \in Scope \cup Playback : Same(s)
    PROVE  HostInv'
<1>1. /\ \A s \in Scope \cup Playback :
            /\ Ring(s)' = Ring(s) /\ (Clean(s)' <=> Clean(s)) /\ (Walk(s)' <=> Walk(s))
            /\ (Good(s)' <=> Good(s)) /\ defined'[s] = defined[s] /\ eng'[s] = eng[s]
            /\ built'[s] = built[s]
  BY Frame DEF Same
<1>2. HostTypes /\ Stopped /\ ScopeReady /\ Counted /\ Agreed /\ Plays
  BY DEF HostInv
<1>3. /\ UNCHANGED <<pc, nscope, hwscope, nwait, missed, stream, dataPath, unstopped, playing,
                     want, waited, unseen>>
      /\ Active' = Active /\ (Live' <=> Live)
  BY DEF host, scopeCont, source, Active, Live
<1>4. HostTypes' /\ Stopped' /\ Agreed'
  BY <1>1, <1>2, <1>3 DEF HostTypes, Stopped, Agreed
<1>5. ScopeReady'
  BY <1>1, <1>2, <1>3, ActiveScope DEF ScopeReady
<1>6. Counted'
  BY <1>1, <1>2, <1>3, ActiveScope DEF Counted
<1>7. Plays'
  BY <1>1, <1>2, <1>3 DEF Plays
<1> QED BY <1>4, <1>5, <1>6, <1>7 DEF HostInv

LEMMA HistFrame ==
    ASSUME HistInv, UNCHANGED hist, Same(HistRead)
    PROVE  HistInv'
<1>1. /\ Ring(HistRead)' = Ring(HistRead) /\ (Clean(HistRead)' <=> Clean(HistRead))
      /\ (Walk(HistRead)' <=> Walk(HistRead)) /\ (Busy(HistRead)' <=> Busy(HistRead))
      /\ defined'[HistRead] = defined[HistRead] /\ eng'[HistRead] = eng[HistRead]
      /\ desc'[HistRead] = desc[HistRead] /\ run'[HistRead] = run[HistRead]
  BY Frame DEF Same
<1>2. UNCHANGED <<hpc, block, reading, readOk>>
  BY DEF hist
<1> QED BY <1>1, <1>2 DEF HistInv, HistTypes, HistReady

(* Steps of the host that send no command to the driver.                     *)
LEMMA HostOnly ==
    ASSUME IInv, UNCHANGED <<run, driver, hist>>
    PROVE  /\ DriverInv' /\ HistInv' /\ RingStable
           /\ \A s \in Streams : Same(s)
<1>1. DriverInv' /\ \A s \in Streams : Same(s)
  BY Parts, FrameDriver
<1>2. HistInv'
  BY <1>1, Parts, HistFrame, Consts
<1> QED BY <1>1, <1>2 DEF RingStable, driver

LEMMA InitInv == Init => IInv
<1> SUFFICES ASSUME Init PROVE IInv
  OBVIOUS
<1>1. DriverInit
  BY DEF Init
<1>2. Blank \in Descriptor /\ Halted \in Engine /\ Halted.mode = "halted"
  BY Consts DEF Blank, Descriptor, Halted, Engine
<1>3. DriverTypeOK
  BY <1>1, <1>2, Consts DEF DriverInit, DriverTypeOK
<1>4. Linked /\ InRing
  BY <1>1, <1>2 DEF DriverInit, Linked, InRing, Busy
<1>5. HostTypes /\ HistTypes
  <2>1. want \in [Scope -> 0..RingSize]
    BY Consts DEF Init, NoWant
  <2>2. {nscope, hwscope, nwait, stream} \subseteq Scope /\ unseen \in 0..MaxUnseen
    BY Consts, ScopeAssumption DEF Init, ScopeAssumption
  <2>3. pc \in HostPC /\ hpc \in HistPC
    BY DEF Init, HostPC, HistPC
  <2> QED BY <2>1, <2>2, <2>3 DEF Init, HostTypes, HistTypes
<1>6. Stopped /\ ScopeReady /\ Counted /\ Agreed /\ Plays /\ HistReady
  BY DEF Init, Stopped, ScopeReady, Counted, Agreed, Plays, HistReady, Live
<1> QED BY <1>3, <1>4, <1>5, <1>6, Parts DEF DriverInv, HostInv, HistInv

-----------------------------------------------------------------------------
(* The steps of the host.                                                    *)
LEMMA UnseenType ==
    ASSUME HostTypes, NEW failed \in BOOLEAN, Unseen(failed)
    PROVE  unseen' \in 0..MaxUnseen
BY ScopeAssumption DEF HostTypes, Unseen, ScopeAssumption

LEMMA StopSourceStep == ASSUME IInv, StopSource PROVE IInv' /\ RingStable
<1>1. /\ UNCHANGED <<built, defined, desc, eng, nscope, hwscope, stream, want, hist>>
      /\ run' \in {run, [s \in Streams |-> IF s \in Scope THEN run[s] + 1 ELSE run[s]]}
      /\ \A s \in Scope : run[s] < MaxRuns
      /\ playing' \in BOOLEAN /\ pc' = "reset" /\ unstopped' = dataPath'
      /\ waited' = FALSE /\ missed' = FALSE /\ nwait' = 1
      /\ dataPath' \in {FALSE, dataPath} /\ Unseen(dataPath')
  BY DEF StopSource, driver
<1>2. DriverInv /\ HostInv /\ HistInv
  BY Parts
<1>3. run' \in [Streams -> 0..MaxRuns] /\ run'[HistRead] = run[HistRead]
  BY <1>1, <1>2, Consts DEF DriverInv, DriverTypeOK
<1>4. DriverInv'
  BY <1>1, <1>2, <1>3 DEF DriverInv, DriverTypeOK, Linked, InRing, Busy, Ring
<1>5. HostTypes'
  <2>1. HostTypes /\ dataPath' \in BOOLEAN
    BY <1>1, <1>2 DEF HostInv, HostTypes
  <2>2. unseen' \in 0..MaxUnseen
    BY <1>1, <2>1, UnseenType
  <2>3. /\ {nscope', hwscope', nwait', stream'} \subseteq Scope
        /\ {dataPath', unstopped', missed', playing', waited'} \subseteq BOOLEAN
    <3>1. {nscope', hwscope', nwait', stream'} \subseteq Scope
      BY <1>1, <2>1, Consts DEF HostTypes
    <3>2. unstopped' \in BOOLEAN /\ missed' \in BOOLEAN /\ waited' \in BOOLEAN
      BY <1>1, <2>1, Zenon
    <3> QED BY <1>1, <2>1, <3>1, <3>2
  <2>4. pc' \in HostPC /\ want' \in [Scope -> 0..RingSize]
    BY <1>1, <2>1 DEF HostTypes, HostPC
  <2> QED BY <2>2, <2>3, <2>4 DEF HostTypes
<1>6. Stopped' /\ ScopeReady' /\ Counted' /\ Agreed' /\ Plays'
  BY <1>1 DEF Live, Stopped, ScopeReady, Counted, Agreed, Plays
<1>7. Same(HistRead)
  BY <1>1, <1>3 DEF Same
<1>8. HistInv'
  BY <1>1, <1>2, <1>7, HistFrame
<1>9. RingStable
  BY <1>1 DEF RingStable
<1> QED BY <1>4, <1>5, <1>6, <1>8, <1>9, PartsNext DEF HostInv

(* While a start is under way DP_RUN is clear, or was not seen to stay set.  *)
Rest == <<nscope, hwscope, nwait, missed, dataPath, unstopped, playing, waited, unseen>>

LEMMA Starting ==
    ASSUME IInv, pc \notin {"idle", "ready", "poll"}
    PROVE  /\ ~(dataPath /\ ~unstopped) /\ ~waited
           /\ HostTypes /\ Stopped /\ ScopeReady /\ Counted /\ Agreed /\ Plays
BY DEF IInv, TypeOK, HostTypes, Stopped, Counted

LEMMA ResetAllStep == ASSUME IInv, ResetAll PROVE IInv' /\ RingStable
<1>1. /\ UNCHANGED <<run, built, defined, desc, Rest, stream, want, hist>>
      /\ \A s \in Streams : eng'[s] = Halted
      /\ pc = "reset" /\ pc' = IF playing THEN "pb_build" ELSE "cont"
      /\ DriverInv'
  BY Parts, ResetEffect DEF ResetAll, Rest, scopeCont, source
<1>2. DriverInv /\ HostInv /\ HistInv
  BY Parts
<1>3. \A s \in Streams : eng'[s].mode = "halted" /\ ~Busy(s)'
  BY <1>1 DEF Halted, Busy
<1>4. /\ ~(dataPath /\ ~unstopped) /\ ~waited
      /\ HostTypes /\ Stopped /\ ScopeReady /\ Counted /\ Agreed /\ Plays
  BY <1>1, Starting
<1>5. HostInv'
  BY <1>1, <1>3, <1>4, Consts
     DEF HostInv, HostTypes, HostPC, Stopped, ScopeReady, Counted, Agreed, Plays, Live, Rest
<1>6. HistInv'
  <2>1. UNCHANGED <<hpc, block, reading, readOk>> /\ HistRead \in Streams
    BY <1>1, Consts DEF hist
  <2>2. (Clean(HistRead)' <=> Clean(HistRead)) /\ (Walk(HistRead) => Walk(HistRead)')
        /\ Ring(HistRead)' = Ring(HistRead)
    BY <1>1, <1>3, <2>1 DEF Clean, Walk, Ring
  <2> QED BY <1>1, <1>2, <1>3, <2>1, <2>2 DEF HistInv, HistTypes, HistReady
<1>7. RingStable
  BY <1>1 DEF RingStable
<1> QED BY <1>1, <1>5, <1>6, <1>7, PartsNext

LEMMA BuildPlaybackStep == ASSUME IInv, BuildPlayback PROVE IInv' /\ RingStable
<1>1. PICK s \in Playback, n \in PlayNeeds : \/ Build(s, n) /\ pc' = "pb_start"
                                             \/ BuildFails(s, n) /\ pc' = "idle"
  BY DEF BuildPlayback
<1>2. /\ s \in Streams /\ n \in Nat /\ n >= 1 /\ DriverInv /\ HostInv /\ HistInv
      /\ pc = "pb_build" /\ ~Busy(s) /\ s \notin Scope /\ s # HistRead
      /\ UNCHANGED <<Rest, stream, want, hist>>
  BY Parts, Consts DEF BuildPlayback, HostInv, Stopped, Busy, Rest, scopeCont, source
<1>3. DriverInv' /\ UNCHANGED <<run, eng>> /\ \A t \in Streams \ {s} : Same(t)
  <2>1. CASE Build(s, n)
    <3>1. n \in 1..RingSize
      BY <1>2, <2>1, RingTypes, Consts DEF Build, CleanBuild, NewBuild, DriverInv
    <3> QED BY <1>2, <2>1, <3>1, BuildEffect
  <2>2. CASE BuildFails(s, n)
    BY <1>2, <2>2, BuildFailsEffect
  <2> QED BY <1>1, <2>1, <2>2
<1>4. /\ ~(dataPath /\ ~unstopped) /\ ~waited
      /\ HostTypes /\ Stopped /\ ScopeReady /\ Counted /\ Agreed /\ Plays
  BY <1>2, Starting
<1>5. HostInv'
  BY <1>1, <1>2, <1>3, <1>4
     DEF HostInv, HostTypes, HostPC, Stopped, ScopeReady, Counted, Agreed, Plays, Live, Rest
<1>6. HistInv'
  BY <1>2, <1>3, HistFrame, Consts
<1>7. RingStable
  BY <1>2, <1>3 DEF RingStable, Same
<1> QED BY <1>3, <1>5, <1>6, <1>7, PartsNext

LEMMA StartPlaybackStep == ASSUME IInv, StartPlayback PROVE IInv' /\ RingStable
<1>1. /\ DriverInv /\ HostInv /\ HistInv /\ pc = "pb_start" /\ pc' = "cont"
      /\ UNCHANGED <<Rest, stream, want, hist>>
      /\ Start(Playback, TRUE) /\ Playback \in SUBSET Streams
  BY Parts, Consts DEF StartPlayback, Rest, scopeCont, source
<1>2. \A s \in Playback : ~Busy(s)
  BY <1>1 DEF HostInv, Stopped, Busy
<1>3. /\ DriverInv' /\ UNCHANGED <<run, built, defined, desc>>
      /\ \A s \in Streams \ Playback : Same(s)
      /\ \A s \in Playback : built[s] /\ eng'[s].mode = "running" /\ eng'[s].tail = defined[s]
  BY <1>1, <1>2, StartEffect
<1>4. /\ ~(dataPath /\ ~unstopped) /\ ~waited
      /\ HostTypes /\ Stopped /\ ScopeReady /\ Counted /\ Agreed /\ Plays
  BY <1>1, Starting
<1>5. Stopped' /\ Plays'
  BY <1>1, <1>3, <1>4, Consts DEF Stopped, Plays, Same, Live, Rest
<1>6. HostInv'
  BY <1>1, <1>4, <1>5 DEF HostInv, HostTypes, HostPC, ScopeReady, Counted, Agreed, Live, Rest
<1>7. HistInv'
  BY <1>1, <1>3, HistFrame, Consts
<1>8. RingStable
  BY <1>3 DEF RingStable
<1> QED BY <1>3, <1>6, <1>7, <1>8, PartsNext

LEMMA ScopeContStep == ASSUME IInv, ScopeCont PROVE IInv' /\ RingStable
<1>1. /\ DriverInv /\ HostInv /\ HistInv /\ pc = "cont" /\ pc' = "build" /\ stream' = 1
      /\ nscope' \in {hwscope} \cup Scope /\ hwscope' \in {nscope', hwscope}
      /\ missed' = (hwscope' # nscope') /\ Unseen(missed')
      /\ UNCHANGED <<run, driver, nwait, dataPath, unstopped, playing, want, waited, hist>>
  BY Parts DEF ScopeCont, source
<1>2. DriverInv' /\ HistInv' /\ RingStable /\ \A s \in Streams : Same(s)
  BY <1>1, HostOnly
<1>3. /\ ~(dataPath /\ ~unstopped) /\ ~waited
      /\ HostTypes /\ Stopped /\ ScopeReady /\ Counted /\ Agreed /\ Plays
  BY <1>1, Starting
<1>4. 1 \in Scope /\ 1 <= nscope' /\ 1..0 = {} /\ nscope' \in Scope /\ hwscope' \in Scope
  BY <1>1, <1>3, Consts DEF HostTypes
<1>5. HostTypes' /\ Stopped'
  <2>1. unseen' \in 0..MaxUnseen /\ missed' \in BOOLEAN
    BY <1>1, <1>3, UnseenType
  <2> QED BY <1>1, <1>3, <1>4, <2>1 DEF HostTypes, HostPC, Stopped, driver
<1>6. ScopeReady' /\ Counted' /\ Agreed'
  <2>1. stream' <= nscope' /\ 1..(stream' - 1) = {}
    BY <1>1, <1>4
  <2>2. ~Live'
    BY <1>1, <1>3 DEF Live
  <2> QED BY <1>1, <1>3, <2>1, <2>2 DEF ScopeReady, Counted, Agreed
<1>7. Plays'
  BY <1>1, <1>3 DEF Plays, Live, driver
<1> QED BY <1>2, <1>5, <1>6, <1>7, PartsNext DEF HostInv

LEMMA BuildScopeStep == ASSUME IInv, BuildScope PROVE IInv' /\ RingStable
<1>1. /\ DriverInv /\ HostInv /\ HistInv /\ pc = "build"
      /\ Build(stream, Need[nscope][stream])
      /\ IF stream < nscope THEN stream' = stream + 1 /\ UNCHANGED pc
         ELSE pc' = "start" /\ stream' = 1
      /\ UNCHANGED <<Rest, want, hist>> /\ nscope' = nscope
  BY Parts DEF BuildScope, Rest, scopeCont, source
<1>2. /\ HostTypes /\ stream \in Scope /\ nscope \in Scope /\ stream \in Streams
      /\ Need[nscope][stream] \in 1..RingSize /\ stream # HistRead /\ stream \notin Playback
  BY <1>1, Consts DEF HostInv, HostTypes
<1>3. /\ ~Busy(stream) /\ ~(dataPath /\ ~unstopped) /\ ~waited /\ stream <= nscope
      /\ Stopped /\ ScopeReady /\ Agreed /\ Plays
  BY <1>1, <1>2, Starting DEF Stopped, ScopeReady, Busy
<1>4. /\ DriverInv' /\ UNCHANGED <<run, eng>> /\ \A t \in Streams \ {stream} : Same(t)
      /\ built'[stream] /\ defined'[stream] = Need[nscope][stream]
      /\ \A i \in 0..(defined'[stream] - 1) : desc'[stream][i].status = "clear"
  BY <1>1, <1>2, <1>3, BuildEffect DEF Clean, Ring
<1>5. /\ nscope \in Nat /\ stream \in Nat /\ stream >= 1 /\ 1..nscope \subseteq Scope
  BY <1>2, Consts
<1>6. HostTypes' /\ Stopped' /\ Plays'
  <2>1. stream' \in Scope
    BY <1>1, <1>2, <1>5, Consts
  <2>2. \A s \in Playback : Same(s)
    BY <1>2, <1>4, Consts
  <2> QED BY <1>1, <1>2, <1>3, <1>4, <2>1, <2>2
           DEF HostTypes, HostPC, Stopped, Plays, Same, Live, Rest
<1>7. \A s \in 1..stream : built'[s] /\ defined'[s] = Need[nscope][s]
                           /\ \A i \in 0..(defined'[s] - 1) : desc'[s][i].status = "clear"
  <2> SUFFICES ASSUME NEW s \in 1..stream, s # stream
               PROVE  built'[s] /\ defined'[s] = Need[nscope][s]
                           /\ \A i \in 0..(defined'[s] - 1) : desc'[s][i].status = "clear"
    BY <1>4
  <2>1. s \in 1..(stream - 1) /\ s \in Streams \ {stream}
    BY <1>3, <1>5, Consts
  <2>2. built[s] /\ defined[s] = Need[nscope][s]
        /\ \A i \in 0..(defined[s] - 1) : desc[s][i].status = "clear"
    BY <1>1, <2>1 DEF HostInv, ScopeReady, Clean, Ring
  <2> QED BY <1>4, <2>1, <2>2 DEF Same
<1>8. ScopeReady'
  <2>1. CASE stream < nscope
    <3>1. stream' - 1 = stream /\ stream' <= nscope
      BY <1>1, <1>5, <2>1
    <3> QED BY <1>1, <1>3, <1>7, <2>1, <3>1 DEF ScopeReady, Clean, Ring, Live, Rest
  <2>2. CASE ~(stream < nscope)
    <3>1. stream = nscope
      BY <1>3, <1>5, <2>2
    <3> QED BY <1>1, <1>3, <1>7, <2>2, <3>1 DEF ScopeReady, Clean, Ring, Active, Live, Rest
  <2> QED BY <2>1, <2>2
<1>9. Counted' /\ Agreed'
  BY <1>1, <1>3 DEF Counted, Agreed, Rest
<1>10. HistInv'
  BY <1>1, <1>2, <1>4, HistFrame, Consts
<1>11. RingStable
  BY <1>3, <1>4 DEF RingStable, Same
<1> QED BY <1>4, <1>6, <1>8, <1>9, <1>10, <1>11, PartsNext DEF HostInv

LEMMA CleanWalk ==
    ASSUME DriverInv, NEW s \in Streams, Clean(s), UNCHANGED <<run, built, defined, desc>>,
           eng'[s].mode = "running", eng'[s].cur = 0, eng'[s].tail = defined[s] - 1
    PROVE  Walk(s)'
<1>1. defined[s] \in Nat
  BY RingTypes, Consts DEF DriverInv
<1>2. \A i \in Ring(s) : i \in Nat /\ i >= 0
  BY <1>1 DEF Ring
<1>3. Ring(s)' = Ring(s)
  BY DEF Ring
<1> QED BY <1>2, <1>3 DEF Clean, Walk

LEMMA StartScopeStep == ASSUME IInv, StartScope PROVE IInv' /\ RingStable
<1>1. /\ DriverInv /\ HostInv /\ HistInv /\ pc = "start" /\ pc' = "run" /\ Start(Active, FALSE)
      /\ UNCHANGED <<Rest, stream, want, hist>> /\ nscope' = nscope
  BY Parts DEF StartScope, Rest, scopeCont, source
<1>2. /\ HostTypes /\ Active \subseteq Scope /\ Active \in SUBSET Streams
      /\ \A s \in Active : ~Busy(s) /\ s # HistRead /\ s \notin Playback
      /\ Active' = Active
  BY <1>1, ActiveScope, Consts DEF HostInv, Stopped, Busy, Active
<1>3. /\ DriverInv' /\ UNCHANGED <<run, built, defined, desc>>
      /\ \A s \in Streams \ Active : Same(s)
      /\ \A s \in Active : /\ eng'[s].mode = "running" /\ eng'[s].cur = 0
                            /\ eng'[s].tail = defined[s] - 1
  BY <1>1, <1>2, StartEffect
<1>4. ~waited /\ Stopped /\ ScopeReady /\ Agreed /\ Plays /\ ~(dataPath /\ ~unstopped)
  BY <1>1, Starting
<1>5. \A s \in Active : Walk(s)' /\ eng'[s].mode # "halted" /\ defined'[s] = Need[nscope][s]
  BY <1>1, <1>2, <1>3, <1>4, CleanWalk DEF ScopeReady
<1>6. HostTypes' /\ Stopped' /\ Counted' /\ Agreed'
  BY <1>1, <1>2, <1>4 DEF HostTypes, HostPC, Stopped, Counted, Agreed, Rest
<1>7. ScopeReady'
  BY <1>1, <1>2, <1>4, <1>5 DEF ScopeReady
<1>8. Plays'
  <2>1. \A s \in Playback : Same(s)
    BY <1>2, <1>3, Consts
  <2> QED BY <1>1, <1>4, <2>1 DEF Plays, Same, Rest
<1>9. HistInv'
  BY <1>1, <1>2, <1>3, HistFrame, Consts
<1>10. RingStable
  BY <1>3 DEF RingStable
<1> QED BY <1>3, <1>6, <1>7, <1>8, <1>9, <1>10, PartsNext DEF HostInv

(* What the steps that send no command keep of the scope streams.            *)
LEMMA ScopeFrame ==
    ASSUME HostTypes, \A s \in Streams : Same(s), UNCHANGED nscope
    PROVE  /\ Active' = Active /\ Active \subseteq Streams
           /\ \A s \in Streams : /\ (Walk(s)' <=> Walk(s)) /\ (Good(s)' <=> Good(s))
                                 /\ (Clean(s)' <=> Clean(s))
                                 /\ defined'[s] = defined[s] /\ eng'[s] = eng[s]
                                 /\ built'[s] = built[s]
<1>1. Active' = Active /\ Active \subseteq Streams
  BY ActiveScope, Consts DEF Active
<1> QED BY <1>1, Frame DEF Same

LEMMA SetRunStep == ASSUME IInv, SetRun PROVE IInv' /\ RingStable
<1>1. /\ DriverInv /\ HostInv /\ HistInv /\ pc = "run" /\ pc' = "ready"
      /\ dataPath' = TRUE
      /\ UNCHANGED <<run, driver, nscope, hwscope, nwait, missed, stream, unstopped, playing, want,
                     waited, unseen, hist>>
  BY Parts DEF SetRun, scopeCont
<1>2. DriverInv' /\ HistInv' /\ RingStable /\ \A s \in Streams : Same(s)
  BY <1>1, HostOnly
<1>3. /\ HostTypes /\ Stopped /\ ScopeReady /\ Counted /\ Agreed /\ Plays /\ ~waited
  BY <1>1, Starting
<1>4. /\ Active' = Active /\ Active \subseteq Streams
      /\ \A s \in Streams : /\ (Walk(s)' <=> Walk(s))
                            /\ defined'[s] = defined[s] /\ eng'[s] = eng[s] /\ built'[s] = built[s]
  BY <1>1, <1>2, <1>3, ScopeFrame
<1>5. HostTypes' /\ Stopped' /\ Counted' /\ Agreed'
  BY <1>1, <1>3 DEF HostTypes, HostPC, Stopped, Counted, Agreed
<1>6. ScopeReady'
  BY <1>1, <1>3, <1>4 DEF ScopeReady, Live
<1>7. Plays'
  BY <1>1, <1>3, <1>4, Consts DEF Plays, Live
<1> QED BY <1>2, <1>5, <1>6, <1>7, PartsNext DEF HostInv

LEMMA WaitScopeStep == ASSUME IInv, WaitScope PROVE IInv' /\ RingStable
<1>1. /\ DriverInv /\ HostInv /\ HistInv /\ pc = "ready" /\ ~waited /\ pc' = "poll" /\ stream' = 1
      /\ want' = [s \in Scope |-> defined[s]] /\ nwait' \in Scope
      /\ missed' = (missed \/ nwait' # hwscope) /\ Unseen(nwait' # hwscope)
      /\ UNCHANGED <<run, driver, nscope, hwscope, dataPath, unstopped, playing, waited, hist>>
  BY Parts DEF WaitScope, source
<1>2. DriverInv' /\ HistInv' /\ RingStable /\ \A s \in Streams : Same(s)
  BY <1>1, HostOnly
<1>3. /\ HostTypes /\ Stopped /\ ScopeReady /\ Agreed /\ Plays
  BY <1>1 DEF HostInv
<1>4. /\ Active' = Active /\ Active \subseteq Streams
      /\ \A s \in Streams : /\ (Walk(s)' <=> Walk(s))
                            /\ defined'[s] = defined[s] /\ eng'[s] = eng[s] /\ built'[s] = built[s]
  BY <1>1, <1>2, <1>3, ScopeFrame
<1>5. HostTypes' /\ Stopped' /\ Agreed'
  <2>1. want' \in [Scope -> 0..RingSize]
    BY <1>1, RingTypes, Consts DEF DriverInv
  <2>2. unseen' \in 0..MaxUnseen /\ missed' \in BOOLEAN
    BY <1>1, <1>3, UnseenType DEF HostTypes
  <2> QED BY <1>1, <1>3, <2>1, <2>2, Consts DEF HostTypes, HostPC, Stopped, Agreed
<1>6. ScopeReady'
  BY <1>1, <1>3, <1>4 DEF ScopeReady, Live
<1>7. Counted'
  <2>1. 1 <= nwait' /\ stream' = 1 /\ \A s \in Active : s >= 1
    BY <1>1, <1>3, ActiveScope, Consts
  <2>2. \A s \in Scope : want'[s] = defined'[s]
    BY <1>1, <1>4, Consts
  <2>3. \A s \in Active' : ~(s < stream')
    BY <1>3, <1>4, <2>1, ActiveScope, Consts
  <2> QED BY <1>1, <2>1, <2>2, <2>3 DEF Counted
<1>8. Plays'
  BY <1>1, <1>3, <1>4, Consts DEF Plays, Live
<1> QED BY <1>2, <1>5, <1>6, <1>7, <1>8, PartsNext DEF HostInv

LEMMA Least ==
    ASSUME NEW T \in SUBSET Nat, T # {}
    PROVE  \E m \in T : \A k \in T : m <= k
<1> DEFINE less == OpToRel(<, Nat)
<1>1. IsWellFoundedOn(less, Nat)
  BY NatLessThanWellFounded
<1>2. \A x, y \in Nat : x < y => <<x, y>> \in less
  BY DEF OpToRel
<1> HIDE DEF less
<1>3. PICK m \in T : \A k \in T : ~(<<k, m>> \in less)
  BY <1>1, WFMin
<1>4. \A k \in T : m \in Nat /\ k \in Nat /\ ~(k < m)
  BY <1>2, <1>3
<1> QED BY <1>4

(* A stream all of whose descriptors are counted is good to the last one.    *)
LEMMA AllCounted ==
    ASSUME DriverInv, NEW s \in Streams, CheckRxDesc(s) = defined[s]
    PROVE  \A i \in Ring(s) : desc[s][i].status = "good"
<1> DEFINE Stops(n) == n < defined[s] => desc[s][n].status # "good"
           GoodBefore(n) == \A i \in 0..(n - 1) : desc[s][i].status = "good"
           T == {n \in 0..defined[s] : Stops(n)}
<1>1. defined[s] \in Nat
  BY RingTypes, Consts DEF DriverInv
<1>2. T \in SUBSET Nat /\ defined[s] \in T
  BY <1>1
<1>3. PICK m \in T : \A k \in T : m <= k
  BY <1>2, Least
<1>4. GoodBefore(m)
  <2> SUFFICES ASSUME NEW i \in 0..(m - 1), ~(desc[s][i].status = "good") PROVE FALSE
    OBVIOUS
  <2>1. m \in Nat /\ i \in Nat /\ i < m /\ m <= defined[s]
    BY <1>1, <1>2
  <2>2. i \in T
    BY <1>1, <2>1
  <2> HIDE DEF T
  <2> QED BY <1>3, <2>1, <2>2
<1>5. \E n \in 0..defined[s] : GoodBefore(n) /\ Stops(n)
  BY <1>4
<1>6. CheckRxDesc(s) = CHOOSE n \in 0..defined[s] : GoodBefore(n) /\ Stops(n)
  BY DEF CheckRxDesc
<1> HIDE DEF GoodBefore, Stops, T
<1>7. GoodBefore(CheckRxDesc(s))
  BY <1>5, <1>6
<1> QED BY <1>7 DEF GoodBefore, Ring

(* A stream of the run whose descriptors are all good holds data of the run. *)
LEMMA WalkGood ==
    ASSUME NEW s, Walk(s), \A i \in Ring(s) : desc[s][i].status = "good"
    PROVE  Good(s)
BY DEF Walk, Good

LEMMA PollDoneStep == ASSUME IInv, PollDone PROVE IInv' /\ RingStable
<1>1. /\ DriverInv /\ HostInv /\ HistInv /\ pc = "poll" /\ CheckRxDesc(stream) = want[stream]
      /\ IF stream < nwait THEN stream' = stream + 1 /\ UNCHANGED <<pc, waited>>
         ELSE pc' = "ready" /\ waited' = TRUE /\ stream' = 1
      /\ want' = IF stream < nwait THEN want ELSE NoWant
      /\ UNCHANGED <<run, driver, nscope, hwscope, nwait, missed, dataPath, unstopped, playing,
                     unseen, hist>>
  BY Parts DEF PollDone, scopeCont, source
<1>2. DriverInv' /\ HistInv' /\ RingStable /\ \A s \in Streams : Same(s)
  BY <1>1, HostOnly
<1>3. /\ HostTypes /\ Stopped /\ ScopeReady /\ Counted /\ Agreed /\ Plays
      /\ stream <= nwait /\ ~waited
  BY <1>1 DEF HostInv, Counted
<1>4. /\ Active' = Active /\ Active \subseteq Streams
      /\ \A s \in Streams : /\ (Walk(s)' <=> Walk(s)) /\ (Good(s)' <=> Good(s))
                            /\ defined'[s] = defined[s] /\ eng'[s] = eng[s] /\ built'[s] = built[s]
  BY <1>1, <1>2, <1>3, ScopeFrame
<1>5. /\ nwait \in Scope /\ nwait \in Nat /\ 1..nwait \subseteq Scope /\ 1 \in Scope
      /\ stream \in Nat /\ stream >= 1 /\ stream \in Scope /\ stream \in Streams
      /\ Active \subseteq Nat
  BY <1>3, ActiveScope, Consts DEF HostTypes, Active
<1>6. \A s \in Active : s <= stream => Good(s)
  <2>1. ASSUME stream \in Active PROVE Good(stream)
    <3>1. want[stream] = defined[stream] /\ Walk(stream)
      BY <1>1, <1>3, <1>5, <2>1 DEF Counted, ScopeReady, Live
    <3> QED BY <1>1, <1>5, <3>1, AllCounted, WalkGood
  <2>2. ASSUME NEW s \in Active, s <= stream, s # stream PROVE Good(s)
    <3>1. s < stream
      BY <1>5, <2>2
    <3> QED BY <1>1, <1>3, <3>1 DEF Counted
  <2> QED BY <2>1, <2>2
<1>7. HostTypes' /\ Stopped' /\ pc' \in {"poll", "ready"}
  <2>1. CASE stream < nwait
    <3>1. stream + 1 \in 1..nwait
      BY <1>5, <2>1
    <3>2. stream' \in Scope /\ UNCHANGED <<pc, waited, want>>
      BY <1>1, <1>5, <2>1, <3>1
    <3> QED BY <1>1, <1>3, <3>2 DEF HostTypes, HostPC, Stopped
  <2>2. CASE ~(stream < nwait)
    <3>1. NoWant \in [Scope -> 0..RingSize]
      BY Consts DEF NoWant
    <3>2. stream' \in Scope /\ waited' \in BOOLEAN /\ pc' = "ready" /\ want' \in [Scope -> 0..RingSize]
      BY <1>1, <1>5, <2>2, <3>1
    <3> QED BY <1>1, <1>3, <3>2 DEF HostTypes, HostPC, Stopped
  <2> QED BY <2>1, <2>2
<1>8. ScopeReady' /\ Agreed'
  BY <1>1, <1>3, <1>4, <1>7 DEF ScopeReady, Agreed, Live
<1>9. Counted'
  <2>1. \A s \in Active' : s <= stream => Good(s)'
    BY <1>4, <1>6
  <2>2. CASE stream < nwait
    <3>1. \A s \in Scope : want'[s] = defined'[s]
      BY <1>1, <1>3, <1>4, <2>2, Consts DEF Counted
    <3>2. stream' <= nwait' /\ ~waited' /\ \A s \in Active' : s < stream' => s <= stream
      BY <1>1, <1>3, <1>4, <1>5, <2>2
    <3> QED BY <2>1, <3>1, <3>2 DEF Counted
  <2>3. CASE ~(stream < nwait)
    <3>1. stream = nwait /\ nwait' = nwait
      BY <1>1, <1>3, <1>5, <2>3
    <3> QED BY <1>1, <2>1, <2>3, <3>1 DEF Counted
  <2> QED BY <2>2, <2>3
<1>10. Plays'
  BY <1>1, <1>3, <1>4, <1>7, Consts DEF Plays, Live
<1> QED BY <1>2, <1>7, <1>8, <1>9, <1>10, PartsNext DEF HostInv

(* The host gives up: what was started goes on.                              *)
LEMMA GiveUpStep == ASSUME IInv, GiveUp, pc \notin {"idle", "ready"} PROVE IInv' /\ RingStable
<1>0. /\ pc' = "idle" /\ stream' = 1 /\ want' = NoWant /\ nwait' = 1 /\ missed' = FALSE
      /\ UNCHANGED <<run, driver, nscope, hwscope, dataPath, unstopped, playing, waited, unseen, hist>>
  BY DEF GiveUp, source
<1>1. DriverInv' /\ HistInv' /\ RingStable /\ \A s \in Streams : Same(s)
  BY <1>0, HostOnly
<1>2. HostTypes /\ Stopped /\ ScopeReady /\ Counted /\ Plays /\ ~waited
  BY Parts DEF HostInv, Counted
<1>3. /\ Active' = Active /\ Active \subseteq Streams
      /\ \A s \in Streams : /\ (Walk(s)' <=> Walk(s))
                            /\ defined'[s] = defined[s] /\ eng'[s] = eng[s] /\ built'[s] = built[s]
  BY <1>0, <1>1, <1>2, ScopeFrame
<1>4. HostTypes' /\ Stopped' /\ Counted' /\ Agreed' /\ (Live' => Live)
  <2>1. NoWant \in [Scope -> 0..RingSize]
    BY Consts DEF NoWant
  <2>2. HostTypes'
    BY <1>0, <1>2, <2>1, Consts DEF HostTypes, HostPC
  <2>3. Live' => Live
    BY <1>0 DEF Live
  <2> QED BY <1>0, <1>2, <2>2, <2>3 DEF Stopped, Counted, Agreed
<1>5. ScopeReady'
  BY <1>0, <1>2, <1>3, <1>4 DEF ScopeReady
<1>6. Plays'
  BY <1>0, <1>2, <1>3, <1>4, Consts DEF Plays
<1> QED BY <1>1, <1>4, <1>5, <1>6, PartsNext DEF HostInv

LEMMA HostSteps == ASSUME IInv, HostStep PROVE IInv' /\ RingStable
<1>1. CASE PollTimeout
  BY <1>1, GiveUpStep DEF PollTimeout
<1>2. CASE HostError
  BY <1>2, GiveUpStep DEF HostError
<1> QED BY <1>1, <1>2, StopSourceStep, ResetAllStep, BuildPlaybackStep, StartPlaybackStep,
           ScopeContStep, BuildScopeStep, StartScopeStep, SetRunStep, WaitScopeStep, PollDoneStep
        DEF HostStep

-----------------------------------------------------------------------------
(* The steps of the histogram reader: the host's streams are left alone.     *)
LEMMA HistKeepsHost ==
    ASSUME IInv, UNCHANGED host, DriverInv', \A s \in Streams \ {HistRead} : Same(s)
    PROVE  HostInv'
BY Parts, HostFrame, Consts

LEMMA HistStopRequestStep == ASSUME IInv, HistStopRequest PROVE IInv' /\ RingStable
<1>1. /\ DriverInv /\ HistInv /\ hpc = "idle" /\ hpc' = "stop" /\ run[HistRead] < MaxRuns
      /\ run' = [run EXCEPT ![HistRead] = @ + 1] /\ block' \in HistNeeds
      /\ reading' = FALSE /\ readOk' = FALSE
      /\ UNCHANGED <<built, defined, desc, eng, host>>
  BY Parts DEF HistStopRequest, driver
<1>2. run' \in [Streams -> 0..MaxRuns] /\ \A s \in Streams \ {HistRead} : run'[s] = run[s]
  BY <1>1, Consts DEF DriverInv, DriverTypeOK
<1>3. DriverInv'
  BY <1>1, <1>2 DEF DriverInv, DriverTypeOK, Linked, InRing, Busy, Ring
<1>4. \A s \in Streams \ {HistRead} : Same(s)
  BY <1>1, <1>2 DEF Same
<1>5. HistInv'
  BY <1>1 DEF HistInv, HistTypes, HistPC, HistReady
<1>6. RingStable
  BY <1>1 DEF RingStable
<1> QED BY <1>1, <1>3, <1>4, <1>5, <1>6, HistKeepsHost, PartsNext

LEMMA HistStopStep == ASSUME IInv, HistStop PROVE IInv' /\ RingStable
<1>1. PICK halted \in SUBSET {HistRead} :
        /\ Stop({HistRead}, halted)
        /\ hpc' = IF halted = {HistRead} THEN "build" ELSE "idle"
  BY DEF HistStop
<1>2. /\ DriverInv /\ HistInv /\ hpc = "stop" /\ HistRead \in Streams
      /\ UNCHANGED <<host, block, reading, readOk>>
  BY Parts, Consts DEF HistStop
<1>3. /\ DriverInv' /\ UNCHANGED <<run, built, defined, desc>>
      /\ \A t \in Streams \ {HistRead} : Same(t)
      /\ halted = {HistRead} => eng'[HistRead].mode = "halted"
  BY <1>1, <1>2, StopEffect
<1>4. HistInv'
  BY <1>1, <1>2, <1>3 DEF HistInv, HistTypes, HistPC, HistReady
<1>5. RingStable
  BY <1>3 DEF RingStable
<1> QED BY <1>2, <1>3, <1>4, <1>5, HistKeepsHost, PartsNext

LEMMA HistBuildStep == ASSUME IInv, HistBuild PROVE IInv' /\ RingStable
<1>1. /\ DriverInv /\ HistInv /\ hpc = "build" /\ hpc' = "start" /\ HistRead \in Streams
      /\ Build(HistRead, block) /\ UNCHANGED <<host, block, reading, readOk>>
      /\ block \in 1..RingSize
  BY Parts, Consts DEF HistBuild, HistInv, HistTypes
<1>2. ~Busy(HistRead) /\ eng[HistRead].mode = "halted"
  BY <1>1 DEF HistInv, HistReady, Busy
<1>3. /\ DriverInv' /\ UNCHANGED <<run, eng>> /\ \A t \in Streams \ {HistRead} : Same(t)
      /\ Clean(HistRead)' /\ defined'[HistRead] = block
  BY <1>1, <1>2, BuildEffect
<1>4. HistInv'
  BY <1>1, <1>2, <1>3 DEF HistInv, HistTypes, HistPC, HistReady
<1>5. RingStable
  BY <1>2, <1>3 DEF RingStable, Same
<1> QED BY <1>1, <1>3, <1>4, <1>5, HistKeepsHost, PartsNext

LEMMA HistStartStep == ASSUME IInv, HistStart PROVE IInv' /\ RingStable
<1>1. /\ DriverInv /\ HistInv /\ hpc = "start" /\ hpc' = "request" /\ {HistRead} \in SUBSET Streams
      /\ Start({HistRead}, FALSE) /\ UNCHANGED <<host, block, reading, readOk>>
  BY Parts, Consts DEF HistStart
<1>2. /\ \A s \in {HistRead} : ~Busy(s)
      /\ Clean(HistRead) /\ defined[HistRead] = block /\ ~reading /\ ~readOk
  BY <1>1 DEF HistInv, HistReady, Busy
<1>3. /\ DriverInv' /\ UNCHANGED <<run, built, defined, desc>>
      /\ \A s \in Streams \ {HistRead} : Same(s)
      /\ eng'[HistRead].mode = "running" /\ eng'[HistRead].cur = 0
      /\ eng'[HistRead].tail = defined[HistRead] - 1
  BY <1>1, <1>2, StartEffect
<1>4. Walk(HistRead)'
  BY <1>1, <1>2, <1>3, CleanWalk
<1>5. HistInv'
  BY <1>1, <1>2, <1>3, <1>4 DEF HistInv, HistTypes, HistPC, HistReady
<1>6. RingStable
  BY <1>3 DEF RingStable
<1> QED BY <1>1, <1>3, <1>5, <1>6, HistKeepsHost, PartsNext

(* Steps of the reader that send no command to the driver.                   *)
LEMMA HistOnly ==
    ASSUME IInv, UNCHANGED <<run, driver, host>>
    PROVE  /\ DriverInv' /\ HostInv' /\ RingStable
           /\ (Walk(HistRead)' <=> Walk(HistRead)) /\ (Busy(HistRead)' <=> Busy(HistRead))
           /\ Ring(HistRead)' = Ring(HistRead) /\ UNCHANGED <<run, built, defined, desc, eng>>
<1>1. DriverInv' /\ \A s \in Streams : Same(s)
  BY Parts, FrameDriver
<1> QED BY <1>1, HistKeepsHost, Frame, Consts DEF RingStable, driver

LEMMA HistRequestStep == ASSUME IInv, HistRequest PROVE IInv' /\ RingStable
<1>1. /\ HistInv /\ hpc = "request" /\ hpc' = "wait" /\ reading' = TRUE
      /\ UNCHANGED <<run, driver, host, block, readOk>>
  BY Parts DEF HistRequest
<1> QED BY <1>1, HistOnly, PartsNext DEF HistInv, HistTypes, HistPC, HistReady

LEMMA HistDoneStep == ASSUME IInv, HistDone PROVE IInv' /\ RingStable
<1>1. /\ HistInv /\ hpc = "wait" /\ hpc' = "idle" /\ StatusIdle(HistRead) /\ readOk' = TRUE
      /\ UNCHANGED <<run, driver, host, block, reading>>
  BY Parts DEF HistDone
<1>2. /\ Walk(HistRead) /\ eng[HistRead].mode = "idle" /\ ~Busy(HistRead)
      /\ defined[HistRead] = block
  BY <1>1 DEF HistInv, HistReady, StatusIdle, Busy
<1>3. \A i \in Ring(HistRead) : /\ desc[HistRead][i].status # "clear"
                                /\ desc[HistRead][i].run = run[HistRead]
  BY <1>2 DEF Walk
<1> QED BY <1>1, <1>2, <1>3, HistOnly, PartsNext DEF HistInv, HistTypes, HistPC, HistReady

LEMMA HistErrorStep == ASSUME IInv, HistError PROVE IInv' /\ RingStable
<1>1. /\ HistInv /\ hpc # "idle" /\ hpc' = "idle"
      /\ UNCHANGED <<run, driver, host, block, reading, readOk>>
  BY Parts DEF HistError
<1> QED BY <1>1, HistOnly, PartsNext DEF HistInv, HistTypes, HistPC, HistReady

LEMMA HistSteps == ASSUME IInv, HistStep PROVE IInv' /\ RingStable
BY HistStopRequestStep, HistStopStep, HistBuildStep, HistStartStep, HistRequestStep,
   HistDoneStep, HistErrorStep DEF HistStep

-----------------------------------------------------------------------------
(* The steps of the engines.  An engine step of one scope stream keeps what  *)
(* the host knows of that stream, and the step of the histogram stream what  *)
(* the reader knows.                                                         *)
LEMMA ScopeDataStep == ASSUME IInv, ScopeData PROVE IInv' /\ RingStable
<1>1. PICK s \in 1..hwscope : dataPath /\ Receive(s) /\ UNCHANGED <<host, hist>>
  BY DEF ScopeData
<1>2. DriverInv /\ HostInv /\ HistInv /\ s \in Scope /\ s \in Streams /\ s # HistRead /\ s \notin Playback
  BY <1>1, Parts, ActiveScope, Consts DEF HostInv
<1>3. HostTypes /\ Stopped /\ ScopeReady /\ Counted /\ Agreed /\ Plays
  BY <1>2 DEF HostInv
<1>4. /\ DriverInv' /\ UNCHANGED <<run, built, defined>> /\ RingStable /\ Busy(s)
      /\ \A t \in Streams \ {s} : Same(t)
      /\ Walk(s) => Walk(s)' /\ eng'[s].mode # "halted" /\ ~Good(s)
  BY <1>2, <1>1, ReceiveEffect
<1>5. /\ UNCHANGED <<pc, nscope, hwscope, nwait, missed, stream, dataPath, unstopped, playing,
                     want, waited, unseen>>
      /\ Active' = Active /\ Active \subseteq Streams /\ (Live' <=> Live)
  BY <1>1, <1>3, ActiveScope, Consts DEF host, scopeCont, source, Active, Live
<1>6. pc \notin {"pb_build", "pb_start", "cont", "build", "start"}
  BY <1>2, <1>3, <1>4 DEF Stopped, Busy
<1>7. ASSUME Live, NEW t \in Active
      PROVE  /\ Walk(t)' /\ eng'[t].mode # "halted" /\ defined'[t] = Need[nscope][t]
             /\ Good(t) => Good(t)'
  <2>1. Walk(t) /\ eng[t].mode # "halted" /\ defined[t] = Need[nscope][t]
    BY <1>3, <1>7 DEF ScopeReady
  <2>2. CASE t = s
    BY <1>4, <2>1, <2>2
  <2>3. CASE t # s
    <3>1. Same(t)
      BY <1>4, <1>5, <1>7, <2>3
    <3> QED BY <2>1, <3>1, Frame DEF Same
  <2> QED BY <2>2, <2>3
<1>8. Counted'
  <2>1. \A t \in Scope : defined'[t] = defined[t]
    BY <1>4
  <2>2. pc = "poll" \/ waited => Live
    BY <1>3 DEF Counted, Live
  <2> QED BY <1>3, <1>5, <1>7, <2>1, <2>2 DEF Counted
<1>9. HostTypes' /\ Stopped' /\ ScopeReady' /\ Agreed'
  BY <1>3, <1>5, <1>6, <1>7 DEF HostTypes, Stopped, ScopeReady, Agreed
<1>10. Plays'
  <2>1. \A t \in Playback : Same(t)
    BY <1>2, <1>4, Consts
  <2> QED BY <1>3, <1>5, <2>1 DEF Plays, Same
<1>11. HistInv'
  BY <1>1, <1>2, <1>4, HistFrame, Consts
<1> QED BY <1>4, <1>8, <1>9, <1>10, <1>11, PartsNext DEF HostInv

LEMMA HistDataStep == ASSUME IInv, HistData PROVE IInv' /\ RingStable
<1>1. /\ DriverInv /\ HistInv /\ reading /\ Receive(HistRead) /\ HistRead \in Streams
      /\ UNCHANGED <<host, hist>> /\ UNCHANGED <<hpc, block, reading, readOk>>
  BY Parts, Consts DEF HistData, hist
<1>2. /\ DriverInv' /\ UNCHANGED <<run, built, defined>> /\ RingStable /\ Busy(HistRead)
      /\ \A t \in Streams \ {HistRead} : Same(t)
      /\ Walk(HistRead) => Walk(HistRead)'
  BY <1>1, ReceiveEffect
<1>3. HistInv'
  <2>1. ~readOk /\ hpc \in {"idle", "wait"} /\ (hpc = "wait" => Walk(HistRead) /\ defined[HistRead] = block)
    BY <1>1, <1>2 DEF HistInv, HistReady, HistTypes, HistPC
  <2> QED BY <1>1, <1>2, <2>1 DEF HistInv, HistTypes, HistReady
<1> QED BY <1>1, <1>2, <1>3, HistKeepsHost, PartsNext

(* An engine step of playback, or the halt of a stopping engine of the host, *)
(* leaves the scope streams alone or concerns a stream that is not in a run. *)
LEMMA PlayDataStep == ASSUME IInv, PlayData PROVE IInv' /\ RingStable
<1>1. PICK s \in Playback : Send(s) /\ UNCHANGED <<host, hist>>
  BY DEF PlayData
<1>2. DriverInv /\ HostInv /\ HistInv /\ s \in Streams /\ s # HistRead /\ s \notin Scope
  BY Parts, Consts
<1>3. /\ DriverInv' /\ UNCHANGED <<run, built, defined>> /\ RingStable
      /\ \A t \in Streams \ {s} : Same(t)
      /\ eng[s].mode = "running" /\ eng[s].tail = defined[s] =>
            eng'[s].mode = "running" /\ eng'[s].tail = defined[s]
      /\ Busy(s)
  BY <1>1, <1>2, SendEffect DEF Send, Fetchable
<1>4. /\ HostTypes /\ Stopped /\ ScopeReady /\ Counted /\ Agreed /\ Plays
      /\ UNCHANGED <<pc, nscope, hwscope, nwait, missed, stream, dataPath, unstopped, playing,
                     want, waited, unseen>>
      /\ Active' = Active /\ (Live' <=> Live)
  BY <1>1, <1>2 DEF HostInv, host, scopeCont, source, Active, Live
<1>5. \A t \in Scope : /\ (Clean(t)' <=> Clean(t)) /\ (Walk(t)' <=> Walk(t))
                       /\ (Good(t)' <=> Good(t)) /\ defined'[t] = defined[t] /\ eng'[t] = eng[t]
  BY <1>2, <1>3, Frame, Consts DEF Same
<1>6. HostTypes' /\ ScopeReady' /\ Counted' /\ Agreed'
  BY <1>4, <1>5, ActiveScope DEF HostTypes, ScopeReady, Counted, Agreed
<1>7. Stopped' /\ Plays'
  <2>1. \A t \in Playback \ {s} : eng'[t] = eng[t] /\ built'[t] = built[t] /\ defined'[t] = defined[t]
    BY <1>2, <1>3, Consts DEF Same
  <2>2. pc \notin {"pb_build", "pb_start"}
    BY <1>3, <1>4 DEF Stopped, Busy
  <2>3. Stopped'
    BY <1>4, <1>5, <2>2 DEF Stopped
  <2>4. Plays'
    BY <1>3, <1>4, <2>1 DEF Plays
  <2> QED BY <2>3, <2>4
<1>8. HistInv'
  BY <1>1, <1>2, <1>3, HistFrame, Consts
<1> QED BY <1>3, <1>6, <1>7, <1>8, PartsNext DEF HostInv

LEMMA HaltingStep == ASSUME IInv, Halting PROVE IInv' /\ RingStable
<1>1. PICK s \in Streams : Halt(s) /\ UNCHANGED <<host, hist>>
  BY DEF Halting
<1>2. DriverInv /\ HostInv /\ HistInv
  BY Parts
<1>3. /\ DriverInv' /\ UNCHANGED <<run, built, defined, desc>>
      /\ \A t \in Streams \ {s} : Same(t)
      /\ eng[s].mode = "stopping" /\ eng'[s].mode = "halted" /\ ~Walk(s)
  BY <1>1, <1>2, HaltEffect DEF Walk
<1>4. /\ HostTypes /\ Stopped /\ ScopeReady /\ Counted /\ Agreed /\ Plays
      /\ UNCHANGED <<pc, nscope, hwscope, nwait, missed, stream, dataPath, unstopped, playing,
                     want, waited, unseen>>
      /\ Active' = Active /\ (Live' <=> Live)
      /\ UNCHANGED <<hpc, block, reading, readOk>>
  BY <1>1, <1>2 DEF HostInv, host, scopeCont, source, hist, Active, Live
<1>5. \A t \in Streams : (Clean(t)' <=> Clean(t)) /\ (Good(t)' <=> Good(t)) /\ Ring(t)' = Ring(t)
  BY <1>3 DEF Clean, Good, Ring
<1>6. \A t \in Streams : Walk(t) => Walk(t)' /\ eng'[t] = eng[t]
  BY <1>3, Frame DEF Same
<1>7. \A t \in Streams : eng[t].mode \in {"running", "halted"} => eng'[t].mode = eng[t].mode /\ eng'[t].tail = eng[t].tail
  BY <1>3 DEF Same
<1>8. HostTypes' /\ ScopeReady' /\ Counted' /\ Agreed'
  BY <1>3, <1>4, <1>5, <1>6, ActiveScope, Consts DEF HostTypes, ScopeReady, Counted, Agreed
<1>9. Stopped' /\ Plays'
  BY <1>3, <1>4, <1>7, Consts DEF Stopped, Plays
<1>10. HistInv'
  <2>1. HistRead \in Streams /\ (eng[HistRead].mode = "stopping" => Busy(HistRead))
    BY Consts DEF Busy
  <2>2. ~Busy(HistRead) => ~Busy(HistRead)'
    BY <1>3, <2>1 DEF Busy, Same
  <2> QED BY <1>2, <1>3, <1>4, <1>5, <1>6, <1>7, <2>1, <2>2 DEF HistInv, HistTypes, HistReady
<1>11. RingStable
  BY <1>3 DEF RingStable
<1> QED BY <1>3, <1>8, <1>9, <1>10, <1>11, PartsNext DEF HostInv

LEMMA EngineSteps == ASSUME IInv, EngineStep PROVE IInv' /\ RingStable
BY ScopeDataStep, HistDataStep, PlayDataStep, HaltingStep DEF EngineStep

LEMMA StepInv == ASSUME IInv, [Next]_vars PROVE IInv' /\ (RingStable \/ UNCHANGED vars)
<1>1. CASE Next
  BY <1>1, HostSteps, HistSteps, EngineSteps DEF Next
<1>2. CASE UNCHANGED vars
  <2>1. UNCHANGED <<run, driver, host, hist>>
    BY <1>2 DEF vars
  <2>2. DriverInv' /\ HostInv' /\ HistInv'
    BY <2>1, HistOnly, HostOnly
  <2> QED BY <1>2, <2>2, PartsNext
<1> QED BY <1>1, <1>2

-----------------------------------------------------------------------------
(* The inductive invariant holds of every reachable state.                   *)
THEOREM RunInvariant == Spec => []IInv
<1>1. IInv /\ [Next]_vars => IInv'
  BY StepInv
<1> QED BY <1>1, InitInv, PTL DEF Spec

(* Every variable keeps its type: counts and indices stay inside the ring    *)
(* whatever the host and the reader do to it.                                *)
THEOREM TypeCorrect == Spec => []TypeOK
<1>1. IInv => TypeOK
  BY DEF IInv
<1> QED BY <1>1, RunInvariant, PTL

(* An engine that walks a ring is inside the descriptors built for it        *)
(* (descriptor_build and the start command of dma_control.c).                *)
THEOREM InRingAlways == Spec => []InRing
<1>1. IInv => InRing
  BY DEF IInv
<1> QED BY <1>1, RunInvariant, PTL

(* Whenever the run bit is set every stream of the run is armed for it, but  *)
(* in a start that could not clear the bit and has not got through           *)
(* (ngzmp_system_start).                                                     *)
THEOREM RunArmedAlways == Spec => []RunArmed
<1>1. IInv => RunArmed
  <2> SUFFICES ASSUME IInv, dataPath, unstopped => pc \in {"ready", "poll"} PROVE RunArmed
    BY DEF RunArmed
  <2>0. Live
    BY DEF Live
  <2>1. \A s \in Active : Walk(s) /\ eng[s].mode # "halted" /\ defined[s] = Need[nscope][s]
    BY <2>0 DEF IInv, ScopeReady
  <2>2. \A s \in Active : Armed(s) /\ defined[s] = Need[nscope][s]
    BY <2>1 DEF Walk, Ring, Armed
  <2>3. playing => \A s \in Playback : eng[s].mode = "running"
    BY <2>0 DEF IInv, Plays
  <2> QED BY <2>2, <2>3 DEF RunArmed
<1> QED BY <1>1, RunInvariant, PTL

(* A wait that has returned NGPD_OK means good data of the run that goes on  *)
(* in every buffer of every stream it covered, which are all of the run's    *)
(* unless an access to SCOPE_CONT failed unseen (ngzmp_dma_wait_scope).      *)
THEOREM FreshScopeAlways == Spec => []FreshScope
<1>1. IInv => FreshScope
  <2> SUFFICES ASSUME IInv, waited, NEW s \in Active, s <= nwait \/ ~missed
               PROVE  \A i \in 0..(Need[nscope][s] - 1) :
                         desc[s][i].status = "good" /\ desc[s][i].run = run[s]
    BY DEF FreshScope
  <2>1. pc = "ready" /\ defined[s] = Need[nscope][s]
    BY DEF IInv, Counted, ScopeReady, Live
  <2>2. s <= nwait
    <3>1. ~missed => nwait = nscope
      BY <2>1 DEF IInv, Agreed
    <3> QED BY <3>1 DEF Active
  <2>3. Good(s)
    BY <2>2 DEF IInv, Counted
  <2> QED BY <2>1, <2>3 DEF Good, Ring
<1> QED BY <1>1, RunInvariant, PTL

(* A histogram block that is reported read belongs to this request           *)
(* (ngzmp_hist_read_dma), whatever the host reset in between.                *)
THEOREM FreshHistAlways == Spec => []FreshHist
<1>1. IInv => FreshHist
  BY DEF IInv, HistReady, FreshHist, Ring
<1> QED BY <1>1, RunInvariant, PTL

(* No command rewrites the ring of an engine that is walking it.             *)
THEOREM RingStableAlways == Spec => RingStableProp
<1>1. IInv /\ [Next]_vars => [RingStable]_vars
  BY StepInv
<1> QED BY <1>1, RunInvariant, PTL DEF Spec, RingStableProp
=============================================================================
