-------------------------- MODULE CardDevice_proofs --------------------------
(***************************************************************************)
(* The safety properties of CardDevice for any number of tasks and opens.   *)
(* Some hold whatever opens and closes do (the wait list, the lock of the    *)
(* DMA commands, how far off the use count and the semaphore can be); the    *)
(* others as long as no open or close meets another.                         *)
(***************************************************************************)
EXTENDS CardDevice, FiniteSetTheorems, SequenceTheorems, TLAPS

States == {"idle"} \cup Opening \cup Closing \cup Commands

Types ==
    /\ usecount \in Int /\ sem \in Nat /\ sleepers \in Seq(Tasks)
    /\ pc \in [Tasks -> States] /\ seen \in [Tasks -> Int] /\ cmd \in [Tasks -> Cmds]
    /\ files \subseteq Tasks

(* A task in a command or a close has the device open, one in an open not    *)
(* yet.                                                                      *)
HasFile ==
    \A t \in Tasks : /\ pc[t] \in Closing \cup Commands => t \in files
                     /\ pc[t] \in Opening => t \notin files

(* Those on the wait list sleep, each of them once.                          *)
Listed ==
    /\ \A i \in 1..Len(sleepers) : pc[sleepers[i]] = "wait"
    /\ \A i, j \in 1..Len(sleepers) : sleepers[i] = sleepers[j] => i = j

LockHeld == \A t \in Tasks : pc[t] = "dma" => dmaSem = t

(* Opens that have counted themselves; what the use count may then be when   *)
(* any of the updates can get lost.                                          *)
Opens  == {t \in Tasks : pc[t] \in Opening}
Stored == opens - Cardinality(Opens)
Possible(n) == Cardinality(files) - Stored <= n /\ n <= Stored

UseBounded ==
    /\ opens \in 0..MaxOpens /\ Possible(usecount)
    /\ \A t \in Tasks :
          IF pc[t] \in {"counted", "uncounted"} THEN Possible(seen[t]) ELSE seen[t] = 0

(* A semaphore initialised under a command can be too high, but by no more   *)
(* than there are tasks.                                                     *)
SemBounded ==
    /\ sem + Cardinality(Inside) <= Cardinality(Tasks)
    /\ sem > 0 => sleepers = <<>>

Flags ==
    /\ dmaSem \in Tasks \cup {None} /\ memory \in {"none", "cleared", "ready"}
    /\ overlapped \in BOOLEAN /\ leaked \in BOOLEAN

(* Nobody else changes the use count while a task does, and what that task   *)
(* has loaded is what it is.                                                 *)
OneChanges ==
    /\ \A t, u \in Tasks :
          pc[t] \in Opening \cup Closing /\ pc[u] \in Opening \cup Closing => t = u
    /\ usecount = Cardinality(files)
    /\ \A t \in Tasks : pc[t] \in {"counted", "uncounted"} => seen[t] = usecount
    /\ \A t \in Tasks : pc[t] \in {"sema", "init", "config"} => files = {}

(* The device has been prepared when it is open or about to be.              *)
Prepared ==
    files # {} \/ (\E t \in Tasks : pc[t] \in {"count", "counted"}) => memory = "ready"

SemaPrepared ==
    files # {} \/ (\E t \in Tasks : pc[t] \in {"init", "config", "count", "counted"})
        => leaked \/ sem + Cardinality(Inside) = 1

IInv ==
    /\ Types /\ HasFile /\ Listed /\ LockHeld /\ UseBounded /\ SemBounded /\ Flags
    /\ ~overlapped => OneChanges /\ Prepared /\ SemaPrepared

-----------------------------------------------------------------------------
LEMMA InitInv == Init => IInv
<1> SUFFICES ASSUME Init PROVE IInv
  OBVIOUS
<1>1. Types /\ HasFile /\ Listed /\ LockHeld
  BY DEF Init, Types, States, Cmds, Opening, Closing, Commands, HasFile, Listed, LockHeld
<1>2. OneChanges
  BY FS_EmptySet DEF Init, OneChanges, Changing, Opening, Closing
<1>3. Prepared /\ SemaPrepared
  BY DEF Init, Prepared, SemaPrepared
<1>4. UseBounded
  <2>1. Opens = {} /\ files = {} /\ opens = 0 /\ usecount = 0
    BY DEF Init, Opens, Opening
  <2>2. Cardinality(Opens) = 0 /\ Cardinality(files) = 0
    BY <2>1, FS_EmptySet
  <2> QED BY <2>1, <2>2, DeviceAssumption DEF Init, UseBounded, Possible, Stored
<1>5. SemBounded
  <2>1. Inside = {} /\ sem = 0
    BY DEF Init, Inside
  <2> QED BY <2>1, FS_EmptySet, FS_CardinalityType, DeviceAssumption DEF SemBounded
<1>6. Flags
  BY DEF Init, Flags
<1> QED BY <1>1, <1>2, <1>3, <1>4, <1>5, <1>6 DEF IInv

LEMMA WithoutList ==
    ASSUME NEW list \in Seq(Tasks), NEW t \in Tasks,
           \A i, j \in 1..Len(list) : list[i] = list[j] => i = j
    PROVE  LET w == Without(list, t)
           IN  /\ w \in Seq(Tasks)
               /\ \A i \in 1..Len(w) : w[i] # t /\ \E j \in 1..Len(list) : w[i] = list[j]
               /\ \A i, j \in 1..Len(w) : w[i] = w[j] => i = j
<1>1. /\ Len(list) \in Nat /\ DOMAIN list = 1..Len(list)
      /\ \A i \in 1..Len(list) : list[i] \in Tasks
  BY LenProperties, ElementOfSeq
<1>2. CASE \A i \in DOMAIN list : list[i] # t
  BY <1>1, <1>2 DEF Without
<1>3. CASE \E i \in DOMAIN list : list[i] = t
  <2> DEFINE at == CHOOSE i \in DOMAIN list : list[i] = t
             w  == [j \in 1..(Len(list) - 1) |-> list[IF j < at THEN j ELSE j + 1]]
  <2>1. at \in 1..Len(list) /\ list[at] = t
    BY <1>1, <1>3
  <2>2. Without(list, t) = w
    BY <1>3 DEF Without
  <2> HIDE DEF at
  <2>3. Len(list) - 1 \in Nat
    BY <1>1, <2>1
  <2>4. /\ w \in [1..(Len(list) - 1) -> Tasks]
        /\ \A j \in 1..(Len(list) - 1) : w[j] = list[IF j < at THEN j ELSE j + 1]
    <3>1. \A j \in 1..(Len(list) - 1) : (IF j < at THEN j ELSE j + 1) \in 1..Len(list)
      BY <1>1, <2>1
    <3> QED BY <1>1, <3>1
  <2> HIDE DEF w
  <2>5. w \in Seq(Tasks)
    BY <2>3, <2>4, SeqDef
  <2>6. Len(w) = Len(list) - 1
    BY <2>3, <2>4, <2>5, LenProperties
  <2>7. \A i \in 1..Len(w) : w[i] # t /\ \E j \in 1..Len(list) : w[i] = list[j]
    BY <1>1, <2>1, <2>4, <2>6
  <2>8. \A i, j \in 1..Len(w) : w[i] = w[j] => i = j
    <3> SUFFICES ASSUME NEW i \in 1..Len(w), NEW j \in 1..Len(w), w[i] = w[j] PROVE i = j
      OBVIOUS
    <3>1. (IF i < at THEN i ELSE i + 1) = (IF j < at THEN j ELSE j + 1)
      BY <1>1, <2>1, <2>4, <2>6
    <3> QED BY <1>1, <2>1, <2>6, <3>1
  <2> QED BY <2>2, <2>5, <2>7, <2>8
<1> QED BY <1>2, <1>3

(* What up() does: the semaphore is counted, or the first sleeper has it.    *)
LEMMA UpGives ==
    ASSUME Types, Listed, NEW t \in Tasks, pc[t] \in {"command", "dma"}, Up(t)
    PROVE  /\ sem' \in Nat /\ sleepers' \in Seq(Tasks) /\ cmd' \in [Tasks -> Cmds]
           /\ Listed'
           /\ \/ pc' = [pc EXCEPT ![t] = "idle"] /\ sem' = sem + 1
              \/ \E h \in Tasks : /\ h # t /\ pc[h] = "wait" /\ sem' = sem
                                  /\ pc' = [pc EXCEPT ![t] = "idle", ![h] = "command"]
<1>1. cmd' \in [Tasks -> Cmds]
  BY DEF Up, Types, Cmds
<1>2. /\ Len(sleepers) \in Nat
      /\ \A i \in 1..Len(sleepers) : sleepers[i] \in Tasks /\ sleepers[i] # t
  BY LenProperties, ElementOfSeq DEF Types, Listed
<1>3. CASE sleepers = <<>>
  BY <1>1, <1>2, <1>3 DEF Up, Types, Listed
<1>4. CASE sleepers # <<>>
  <2> DEFINE h == Head(sleepers)
  <2>1. /\ h \in Tasks /\ Tail(sleepers) \in Seq(Tasks)
        /\ Len(Tail(sleepers)) = Len(sleepers) - 1
        /\ \A i \in 1..Len(Tail(sleepers)) : Tail(sleepers)[i] = sleepers[i + 1]
    BY <1>4, HeadTailProperties DEF Types
  <2>2. Len(sleepers) >= 1 /\ h = sleepers[1]
    BY <1>2, <1>4, EmptySeq DEF Types
  <2>3. h # t /\ pc[h] = "wait"
    BY <1>2, <2>2 DEF Listed
  <2>4. /\ pc' = [pc EXCEPT ![t] = "idle", ![h] = "command"] /\ sem' = sem
        /\ sleepers' = Tail(sleepers)
    BY <1>4 DEF Up
  <2> HIDE DEF h
  <2>5. Listed'
    <3>1. \A i \in 1..Len(sleepers') : sleepers'[i] = sleepers[i + 1] /\ i + 1 \in 1..Len(sleepers)
      BY <1>2, <2>1, <2>4
    <3>2. \A i \in 1..Len(sleepers') : sleepers'[i] # h
      BY <1>2, <2>2, <3>1 DEF Listed
    <3>3. \A i \in 1..Len(sleepers') : pc'[sleepers'[i]] = "wait"
      BY <1>2, <2>4, <3>1, <3>2 DEF Listed, Types
    <3>4. \A i, j \in 1..Len(sleepers') : sleepers'[i] = sleepers'[j] => i = j
      <4> SUFFICES ASSUME NEW i \in 1..Len(sleepers'), NEW j \in 1..Len(sleepers'),
                          sleepers'[i] = sleepers'[j]
                   PROVE  i = j
        OBVIOUS
      <4>1. i + 1 = j + 1
        BY <3>1 DEF Listed
      <4> QED BY <4>1
    <3> QED BY <3>3, <3>4 DEF Listed
  <2> QED BY <1>1, <2>1, <2>3, <2>4, <2>5 DEF Types
<1> QED BY <1>3, <1>4

-----------------------------------------------------------------------------
(* One lemma per part of the invariant, one step per action.                    *)
Act(t) ==
    \/ Open(t) \/ SemaInit(t) \/ DmaInit(t) \/ ConfigMemory(t) \/ Load(t) \/ StoreOpen(t)
    \/ Close(t) \/ StoreClose(t) \/ Down(t) \/ Interrupt(t) \/ Register(t) \/ EmptyRow(t)
    \/ DmaDown(t) \/ DmaUp(t)

LEMMA TypesStep ==
    ASSUME Types, Listed, NEW t \in Tasks, Act(t)
    PROVE  Types'
<1>1. CASE Open(t)
  BY <1>1 DEF Open, Types, States, Go, Cmds, locks, Opening, Closing, Commands
<1>2. CASE SemaInit(t)
  <2>1. <<>> \in Seq(Tasks)
    BY EmptySeq
  <2> QED BY <1>2, <2>1 DEF SemaInit, Types, States, Go, Cmds, locks, Opening, Closing, Commands
<1>3. CASE DmaInit(t)
  BY <1>3 DEF DmaInit, Types, States, Go, Cmds, locks, Opening, Closing, Commands
<1>4. CASE ConfigMemory(t)
  BY <1>4 DEF ConfigMemory, Types, States, Go, Cmds, locks, Opening, Closing, Commands
<1>5. CASE Load(t)
  BY <1>5 DEF Load, Types, States, Go, Cmds, locks, Opening, Closing, Commands
<1>6. CASE StoreOpen(t)
  BY <1>6 DEF StoreOpen, Types, States, Go, Cmds, locks, Opening, Closing, Commands
<1>7. CASE Close(t)
  BY <1>7 DEF Close, Types, States, Go, Cmds, locks, Opening, Closing, Commands
<1>8. CASE StoreClose(t)
  BY <1>8 DEF StoreClose, Types, States, Go, Cmds, locks, Opening, Closing, Commands
<1>9. CASE Down(t)
  <2>1. Append(sleepers, t) \in Seq(Tasks)
    BY AppendProperties DEF Types
  <2>2. cmd' \in [Tasks -> Cmds]
    BY <1>9 DEF Down, Types
  <2>3. pc' \in [Tasks -> States]
    BY <1>9 DEF Down, Types, States, Go, Commands
  <2>4. sem' \in Nat /\ sleepers' \in Seq(Tasks)
    <3>1. CASE sem > 0
      BY <1>9, <3>1 DEF Down, Types
    <3>2. CASE ~(sem > 0)
      BY <1>9, <2>1, <3>2 DEF Down, Types
    <3> QED BY <3>1, <3>2
  <2> QED BY <1>9, <2>2, <2>3, <2>4 DEF Down, Types
<1>10. CASE Interrupt(t)
  <2>1. Without(sleepers, t) \in Seq(Tasks)
    BY WithoutList DEF Types, Listed
  <2> QED BY <1>10, <2>1 DEF Interrupt, Types, States, Go, Cmds, locks, Opening, Closing, Commands
<1>11. CASE Register(t)
  <2>1. Up(t) /\ pc[t] \in {"command", "dma"}
    BY <1>11 DEF Register
  <2> QED BY <1>11, <2>1, UpGives DEF Register, Types, States, Go, Cmds, locks, Opening, Closing, Commands
<1>12. CASE EmptyRow(t)
  BY <1>12 DEF EmptyRow, Types, States, Go, Cmds, locks, Opening, Closing, Commands
<1>13. CASE DmaDown(t)
  BY <1>13 DEF DmaDown, Types, States, Go, Cmds, locks, Opening, Closing, Commands
<1>14. CASE DmaUp(t)
  <2>1. Up(t) /\ pc[t] \in {"command", "dma"}
    BY <1>14 DEF DmaUp
  <2> QED BY <1>14, <2>1, UpGives DEF DmaUp, Types, States, Go, Cmds, locks, Opening, Closing, Commands
<1> QED BY <1>1, <1>2, <1>3, <1>4, <1>5, <1>6, <1>7, <1>8, <1>9, <1>10, <1>11, <1>12, <1>13, <1>14 DEF Act

LEMMA HasFileStep ==
    ASSUME Types, Listed, HasFile, NEW t \in Tasks, Act(t)
    PROVE  HasFile'
<1>1. CASE Open(t)
  BY <1>1 DEF Open, HasFile, Types, States, Go, locks, Opening, Closing, Commands
<1>2. CASE SemaInit(t)
  BY <1>2 DEF SemaInit, HasFile, Types, States, Go, locks, Opening, Closing, Commands
<1>3. CASE DmaInit(t)
  BY <1>3 DEF DmaInit, HasFile, Types, States, Go, locks, Opening, Closing, Commands
<1>4. CASE ConfigMemory(t)
  BY <1>4 DEF ConfigMemory, HasFile, Types, States, Go, locks, Opening, Closing, Commands
<1>5. CASE Load(t)
  BY <1>5 DEF Load, HasFile, Types, States, Go, locks, Opening, Closing, Commands
<1>6. CASE StoreOpen(t)
  BY <1>6 DEF StoreOpen, HasFile, Types, States, Go, locks, Opening, Closing, Commands
<1>7. CASE Close(t)
  BY <1>7 DEF Close, HasFile, Types, States, Go, locks, Opening, Closing, Commands
<1>8. CASE StoreClose(t)
  BY <1>8 DEF StoreClose, HasFile, Types, States, Go, locks, Opening, Closing, Commands
<1>9. CASE Down(t)
  BY <1>9 DEF Down, HasFile, Types, States, Go, locks, Opening, Closing, Commands
<1>10. CASE Interrupt(t)
  BY <1>10 DEF Interrupt, HasFile, Types, States, Go, locks, Opening, Closing, Commands
<1>11. CASE Register(t)
  <2>1. Up(t) /\ pc[t] \in {"command", "dma"}
    BY <1>11 DEF Register
  <2> QED BY <1>11, <2>1, UpGives DEF Register, HasFile, Types, States, Go, locks, Opening, Closing, Commands
<1>12. CASE EmptyRow(t)
  BY <1>12 DEF EmptyRow, HasFile, Types, States, Go, locks, Opening, Closing, Commands
<1>13. CASE DmaDown(t)
  BY <1>13 DEF DmaDown, HasFile, Types, States, Go, locks, Opening, Closing, Commands
<1>14. CASE DmaUp(t)
  <2>1. Up(t) /\ pc[t] \in {"command", "dma"}
    BY <1>14 DEF DmaUp
  <2> QED BY <1>14, <2>1, UpGives DEF DmaUp, HasFile, Types, States, Go, locks, Opening, Closing, Commands
<1> QED BY <1>1, <1>2, <1>3, <1>4, <1>5, <1>6, <1>7, <1>8, <1>9, <1>10, <1>11, <1>12, <1>13, <1>14 DEF Act

LEMMA ListedStep ==
    ASSUME Types, Listed, NEW t \in Tasks, Act(t)
    PROVE  Listed'
<1>0. /\ Len(sleepers) \in Nat
      /\ \A i \in 1..Len(sleepers) : sleepers[i] \in Tasks
  BY LenProperties, ElementOfSeq DEF Types
<1>1. CASE Open(t)
  BY <1>1, <1>0 DEF Open, Listed, Types, States, Go, locks, Opening, Closing, Commands
<1>2. CASE SemaInit(t)
  <2>1. Len(sleepers') = 0
    BY <1>2, EmptySeq DEF SemaInit
  <2> QED BY <2>1 DEF Listed
<1>3. CASE DmaInit(t)
  BY <1>3, <1>0 DEF DmaInit, Listed, Types, States, Go, locks, Opening, Closing, Commands
<1>4. CASE ConfigMemory(t)
  BY <1>4, <1>0 DEF ConfigMemory, Listed, Types, States, Go, locks, Opening, Closing, Commands
<1>5. CASE Load(t)
  BY <1>5, <1>0 DEF Load, Listed, Types, States, Go, locks, Opening, Closing, Commands
<1>6. CASE StoreOpen(t)
  BY <1>6, <1>0 DEF StoreOpen, Listed, Types, States, Go, locks, Opening, Closing, Commands
<1>7. CASE Close(t)
  BY <1>7, <1>0 DEF Close, Listed, Types, States, Go, locks, Opening, Closing, Commands
<1>8. CASE StoreClose(t)
  BY <1>8, <1>0 DEF StoreClose, Listed, Types, States, Go, locks, Opening, Closing, Commands
<1>9. CASE Down(t)
  <2>1. CASE sem > 0
    BY <1>9, <1>0, <2>1 DEF Down, Listed, Types, States, Go, locks, Opening, Closing, Commands
  <2>2. CASE ~(sem > 0)
    <3>1. /\ Len(Append(sleepers, t)) = Len(sleepers) + 1
          /\ \A i \in 1..Len(sleepers) : Append(sleepers, t)[i] = sleepers[i]
          /\ Append(sleepers, t)[Len(sleepers) + 1] = t
      BY AppendProperties DEF Types
    <3>2. sleepers' = Append(sleepers, t) /\ pc[t] = "idle" /\ pc' = [pc EXCEPT ![t] = "wait"]
      BY <1>9, <2>2 DEF Down, Go
    <3>3. \A i \in 1..Len(sleepers) : sleepers[i] # t
      BY <1>0, <3>2 DEF Listed
    <3>4. \A i \in 1..Len(sleepers') : pc'[sleepers'[i]] = "wait"
      BY <1>0, <3>1, <3>2, <3>3 DEF Listed, Types
    <3>5. \A i, j \in 1..Len(sleepers') : sleepers'[i] = sleepers'[j] => i = j
      BY <1>0, <3>1, <3>2, <3>3 DEF Listed
    <3> QED BY <3>4, <3>5 DEF Listed
  <2> QED BY <2>1, <2>2
<1>10. CASE Interrupt(t)
  <2> DEFINE w == Without(sleepers, t)
  <2>1. /\ \A i \in 1..Len(w) : w[i] # t /\ \E j \in 1..Len(sleepers) : w[i] = sleepers[j]
        /\ \A i, j \in 1..Len(w) : w[i] = w[j] => i = j
    BY WithoutList DEF Types, Listed
  <2>2. sleepers' = w /\ pc' = [pc EXCEPT ![t] = "idle"]
    BY <1>10 DEF Interrupt, Go
  <2> HIDE DEF w
  <2>3. \A i \in 1..Len(sleepers') : pc'[sleepers'[i]] = "wait"
    <3> SUFFICES ASSUME NEW i \in 1..Len(w) PROVE pc'[w[i]] = "wait"
      BY <2>2
    <3>1. PICK j \in 1..Len(sleepers) : w[i] = sleepers[j]
      BY <2>1
    <3>2. w[i] \in Tasks /\ w[i] # t /\ pc[w[i]] = "wait"
      BY <1>0, <2>1, <3>1 DEF Listed
    <3> QED BY <2>2, <3>2 DEF Types
  <2> QED BY <2>1, <2>2, <2>3 DEF Listed
<1>11. CASE Register(t)
  <2>1. Up(t) /\ pc[t] \in {"command", "dma"}
    BY <1>11 DEF Register
  <2> QED BY <1>11, <2>1, UpGives DEF Register, Listed, Types, States, Go, locks, Opening, Closing, Commands
<1>12. CASE EmptyRow(t)
  BY <1>12, <1>0 DEF EmptyRow, Listed, Types, States, Go, locks, Opening, Closing, Commands
<1>13. CASE DmaDown(t)
  BY <1>13, <1>0 DEF DmaDown, Listed, Types, States, Go, locks, Opening, Closing, Commands
<1>14. CASE DmaUp(t)
  <2>1. Up(t) /\ pc[t] \in {"command", "dma"}
    BY <1>14 DEF DmaUp
  <2> QED BY <1>14, <2>1, UpGives DEF DmaUp, Listed, Types, States, Go, locks, Opening, Closing, Commands
<1> QED BY <1>1, <1>2, <1>3, <1>4, <1>5, <1>6, <1>7, <1>8, <1>9, <1>10, <1>11, <1>12, <1>13, <1>14 DEF Act

LEMMA LockStep ==
    ASSUME Types, Listed, LockHeld, NEW t \in Tasks, Act(t)
    PROVE  LockHeld'
<1>1. CASE Open(t)
  BY <1>1 DEF Open, LockHeld, Types, States, Go, locks, Opening, Closing, Commands
<1>2. CASE SemaInit(t)
  BY <1>2 DEF SemaInit, LockHeld, Types, States, Go, locks, Opening, Closing, Commands
<1>3. CASE DmaInit(t)
  BY <1>3 DEF DmaInit, LockHeld, Types, States, Go, locks, Opening, Closing, Commands
<1>4. CASE ConfigMemory(t)
  BY <1>4 DEF ConfigMemory, LockHeld, Types, States, Go, locks, Opening, Closing, Commands
<1>5. CASE Load(t)
  BY <1>5 DEF Load, LockHeld, Types, States, Go, locks, Opening, Closing, Commands
<1>6. CASE StoreOpen(t)
  BY <1>6 DEF StoreOpen, LockHeld, Types, States, Go, locks, Opening, Closing, Commands
<1>7. CASE Close(t)
  BY <1>7 DEF Close, LockHeld, Types, States, Go, locks, Opening, Closing, Commands
<1>8. CASE StoreClose(t)
  BY <1>8 DEF StoreClose, LockHeld, Types, States, Go, locks, Opening, Closing, Commands
<1>9. CASE Down(t)
  BY <1>9 DEF Down, LockHeld, Types, States, Go, locks, Opening, Closing, Commands
<1>10. CASE Interrupt(t)
  BY <1>10 DEF Interrupt, LockHeld, Types, States, Go, locks, Opening, Closing, Commands
<1>11. CASE Register(t)
  <2>1. Up(t) /\ pc[t] \in {"command", "dma"}
    BY <1>11 DEF Register
  <2> QED BY <1>11, <2>1, UpGives DEF Register, LockHeld, Types, States, Go, locks, Opening, Closing, Commands
<1>12. CASE EmptyRow(t)
  BY <1>12 DEF EmptyRow, LockHeld, Types, States, Go, locks, Opening, Closing, Commands
<1>13. CASE DmaDown(t)
  <2>1. \A u \in Tasks : pc[u] # "dma"
    BY <1>13, DeviceAssumption DEF DmaDown, LockHeld
  <2> QED BY <1>13, <2>1 DEF DmaDown, LockHeld, Types, States, Go, locks, Opening, Closing, Commands
<1>14. CASE DmaUp(t)
  <2>1. Up(t) /\ pc[t] = "dma"
    BY <1>14 DEF DmaUp
  <2>2. \A u \in Tasks : pc[u] = "dma" => u = t
    BY <2>1 DEF LockHeld
  <2>3. \/ pc' = [pc EXCEPT ![t] = "idle"]
        \/ \E h \in Tasks : pc' = [pc EXCEPT ![t] = "idle", ![h] = "command"]
    BY <2>1, UpGives
  <2>4. \A u \in Tasks : pc'[u] # "dma"
    BY <2>2, <2>3 DEF Types
  <2> QED BY <2>4 DEF LockHeld
<1> QED BY <1>1, <1>2, <1>3, <1>4, <1>5, <1>6, <1>7, <1>8, <1>9, <1>10, <1>11, <1>12, <1>13, <1>14 DEF Act

LEMMA FilesFinite ==
    ASSUME Types
    PROVE  /\ IsFiniteSet(files) /\ Cardinality(files) \in Nat
           /\ Cardinality(files) = 0 <=> files = {}
BY DeviceAssumption, FS_Subset, FS_EmptySet, FS_CardinalityType DEF Types

LEMMA OneChangesStep ==
    ASSUME Types, Listed, HasFile, ~overlapped => OneChanges, NEW t \in Tasks, Act(t)
    PROVE  (~overlapped => OneChanges)'
<1> SUFFICES ASSUME (~overlapped)' PROVE OneChanges'
  OBVIOUS
<1>1. CASE Open(t)
  <2>1. ~overlapped /\ \A u \in Tasks : pc[u] \notin Opening \cup Closing
    BY <1>1 DEF Open, Changing
  <2>2. usecount = 0 => files = {}
    BY <2>1, FilesFinite DEF OneChanges
  <2>3. /\ usecount' = usecount /\ files' = files /\ seen' = seen
        /\ pc' = [pc EXCEPT ![t] = IF usecount = 0 THEN "sema" ELSE "count"]
    BY <1>1 DEF Open, Go
  <2>4. \A u \in Tasks : u # t => pc'[u] \notin Opening \cup Closing
    BY <2>1, <2>3 DEF Types
  <2>5. pc'[t] = IF usecount = 0 THEN "sema" ELSE "count"
    BY <2>3 DEF Types
  <2> QED BY <2>1, <2>2, <2>3, <2>4, <2>5 DEF OneChanges, Opening, Closing
<1>2. CASE SemaInit(t)
  BY <1>2 DEF SemaInit, OneChanges, Types, States, Go, locks, Changing, Opening, Closing, Commands
<1>3. CASE DmaInit(t)
  BY <1>3 DEF DmaInit, OneChanges, Types, States, Go, locks, Changing, Opening, Closing, Commands
<1>4. CASE ConfigMemory(t)
  BY <1>4 DEF ConfigMemory, OneChanges, Types, States, Go, locks, Changing, Opening, Closing, Commands
<1>5. CASE Load(t)
  BY <1>5 DEF Load, OneChanges, Types, States, Go, locks, Changing, Opening, Closing, Commands
<1>6. CASE StoreOpen(t)
  <2>1. /\ pc[t] = "counted" /\ pc' = [pc EXCEPT ![t] = "idle"]
        /\ usecount' = seen[t] + 1 /\ files' = files \cup {t}
    BY <1>6 DEF StoreOpen, Go
  <2>2. CASE ~overlapped
    <3>1. \A u \in Tasks : pc'[u] \notin Opening \cup Closing
      BY <2>1, <2>2 DEF OneChanges, Types, Opening, Closing
    <3>2. t \notin files
      BY <2>1 DEF HasFile, Opening, Closing
    <3>3. seen[t] = Cardinality(files)
      BY <2>1, <2>2 DEF OneChanges
    <3>4. IsFiniteSet(files) /\ Cardinality(files) \in Nat
      BY FilesFinite
    <3>5. Cardinality(files') = Cardinality(files) + 1
      BY <2>1, <3>2, <3>4, FS_AddElement
    <3>6. usecount' = Cardinality(files')
      BY <2>1, <3>3, <3>5
    <3> QED BY <3>1, <3>6 DEF OneChanges, Opening, Closing
  <2> QED BY <1>6, <2>2 DEF StoreOpen
<1>7. CASE Close(t)
  <2>1. ~overlapped /\ \A u \in Tasks : pc[u] \notin Opening \cup Closing
    BY <1>7 DEF Close, Changing
  <2>2. /\ usecount' = usecount /\ files' = files /\ seen' = seen
        /\ pc' = [pc EXCEPT ![t] = "uncount"]
    BY <1>7 DEF Close, Go
  <2>3. \A u \in Tasks : u # t => pc'[u] \notin Opening \cup Closing
    BY <2>1, <2>2 DEF Types
  <2>4. pc'[t] = "uncount"
    BY <2>2 DEF Types
  <2> QED BY <2>1, <2>2, <2>3, <2>4 DEF OneChanges, Opening, Closing
<1>8. CASE StoreClose(t)
  <2>1. /\ pc[t] = "uncounted" /\ pc' = [pc EXCEPT ![t] = "idle"]
        /\ usecount' = seen[t] - 1 /\ files' = files \ {t}
    BY <1>8 DEF StoreClose, Go
  <2>2. CASE ~overlapped
    <3>1. \A u \in Tasks : pc'[u] \notin Opening \cup Closing
      BY <2>1, <2>2 DEF OneChanges, Types, Opening, Closing
    <3>2. t \in files
      BY <2>1 DEF HasFile, Opening, Closing
    <3>3. seen[t] = Cardinality(files)
      BY <2>1, <2>2 DEF OneChanges
    <3>4. IsFiniteSet(files) /\ Cardinality(files) \in Nat
      BY FilesFinite
    <3>5. Cardinality(files') = Cardinality(files) - 1
      BY <2>1, <3>2, <3>4, FS_RemoveElement
    <3>6. usecount' = Cardinality(files')
      BY <2>1, <3>3, <3>5
    <3> QED BY <3>1, <3>6 DEF OneChanges, Opening, Closing
  <2>3. CASE overlapped
    <3>1. files' = {} /\ usecount' = 0 /\ Changing = {t}
      BY <1>8, <2>3 DEF StoreClose
    <3>2. \A u \in Tasks : pc'[u] \notin Opening \cup Closing
      BY <2>1, <3>1 DEF Changing, Types, Opening, Closing
    <3>3. usecount' = Cardinality(files')
      BY <3>1, FS_EmptySet
    <3> QED BY <3>2, <3>3 DEF OneChanges, Opening, Closing
  <2> QED BY <2>2, <2>3
<1>9. CASE Down(t)
  <2>1. /\ ~overlapped /\ usecount' = usecount /\ files' = files /\ seen' = seen
    BY <1>9 DEF Down, locks
  <2>2. \A u \in Tasks : \/ pc'[u] = pc[u] 
                         \/ pc[u] \notin Opening \cup Closing /\ pc'[u] \notin Opening \cup Closing
    BY <1>9 DEF Down, Go, Types, States, Opening, Closing, Commands
  <2> QED BY <2>1, <2>2 DEF OneChanges, Opening, Closing
<1>10. CASE Interrupt(t)
  <2>1. /\ ~overlapped /\ usecount' = usecount /\ files' = files /\ seen' = seen
    BY <1>10 DEF Interrupt, locks
  <2>2. \A u \in Tasks : \/ pc'[u] = pc[u] 
                         \/ pc[u] \notin Opening \cup Closing /\ pc'[u] \notin Opening \cup Closing
    BY <1>10 DEF Interrupt, Go, Types, States, Opening, Closing, Commands
  <2> QED BY <2>1, <2>2 DEF OneChanges, Opening, Closing
<1>11. CASE Register(t)
  <2>1. /\ ~overlapped /\ usecount' = usecount /\ files' = files /\ seen' = seen
        /\ Up(t) /\ pc[t] \in {"command", "dma"}
    BY <1>11 DEF Register
  <2>2. \/ pc' = [pc EXCEPT ![t] = "idle"]
        \/ \E h \in Tasks : pc[h] = "wait" /\ pc' = [pc EXCEPT ![t] = "idle", ![h] = "command"]
    BY <2>1, UpGives
  <2>3. \A u \in Tasks : \/ pc'[u] = pc[u] 
                         \/ pc[u] \notin Opening \cup Closing /\ pc'[u] \notin Opening \cup Closing
    BY <2>1, <2>2 DEF Types, Opening, Closing
  <2> QED BY <2>1, <2>3 DEF OneChanges, Opening, Closing
<1>12. CASE EmptyRow(t)
  <2>1. /\ ~overlapped /\ usecount' = usecount /\ files' = files /\ seen' = seen
    BY <1>12 DEF EmptyRow, locks
  <2>2. \A u \in Tasks : \/ pc'[u] = pc[u] 
                         \/ pc[u] \notin Opening \cup Closing /\ pc'[u] \notin Opening \cup Closing
    BY <1>12 DEF EmptyRow, Go, Types, States, Opening, Closing, Commands
  <2> QED BY <2>1, <2>2 DEF OneChanges, Opening, Closing
<1>13. CASE DmaDown(t)
  <2>1. /\ ~overlapped /\ usecount' = usecount /\ files' = files /\ seen' = seen
    BY <1>13 DEF DmaDown, locks
  <2>2. \A u \in Tasks : \/ pc'[u] = pc[u] 
                         \/ pc[u] \notin Opening \cup Closing /\ pc'[u] \notin Opening \cup Closing
    BY <1>13 DEF DmaDown, Go, Types, States, Opening, Closing, Commands
  <2> QED BY <2>1, <2>2 DEF OneChanges, Opening, Closing
<1>14. CASE DmaUp(t)
  <2>1. /\ ~overlapped /\ usecount' = usecount /\ files' = files /\ seen' = seen
        /\ Up(t) /\ pc[t] \in {"command", "dma"}
    BY <1>14 DEF DmaUp
  <2>2. \/ pc' = [pc EXCEPT ![t] = "idle"]
        \/ \E h \in Tasks : pc[h] = "wait" /\ pc' = [pc EXCEPT ![t] = "idle", ![h] = "command"]
    BY <2>1, UpGives
  <2>3. \A u \in Tasks : \/ pc'[u] = pc[u] 
                         \/ pc[u] \notin Opening \cup Closing /\ pc'[u] \notin Opening \cup Closing
    BY <2>1, <2>2 DEF Types, Opening, Closing
  <2> QED BY <2>1, <2>3 DEF OneChanges, Opening, Closing
<1> QED BY <1>1, <1>2, <1>3, <1>4, <1>5, <1>6, <1>7, <1>8, <1>9, <1>10, <1>11, <1>12, <1>13, <1>14 DEF Act

LEMMA PreparedStep ==
    ASSUME Types, Listed, HasFile, ~overlapped => OneChanges /\ Prepared, NEW t \in Tasks, Act(t)
    PROVE  (~overlapped => Prepared)'
<1> SUFFICES ASSUME (~overlapped)' PROVE Prepared'
  OBVIOUS
<1>1. CASE Open(t)
  <2>1. ~overlapped /\ (usecount # 0 => files # {})
    BY <1>1, FilesFinite, FS_EmptySet DEF Open, OneChanges
  <2> QED BY <1>1, <2>1 DEF Open, Go, Types, Prepared, locks
<1>2. CASE SemaInit(t)
  <2>1. \A u \in Tasks : pc[u] \in Opening \cup Closing => u = t
    BY <1>2 DEF SemaInit, locks, OneChanges, Opening, Closing
  <2>2. files = {}
    BY <1>2 DEF SemaInit, locks, OneChanges
  <2> QED BY <1>2, <2>1, <2>2 DEF SemaInit, Go, Types, Prepared, locks, Opening, Closing
<1>3. CASE DmaInit(t)
  <2>1. \A u \in Tasks : pc[u] \in Opening \cup Closing => u = t
    BY <1>3 DEF DmaInit, locks, OneChanges, Opening, Closing
  <2>2. files = {}
    BY <1>3 DEF DmaInit, locks, OneChanges
  <2> QED BY <1>3, <2>1, <2>2 DEF DmaInit, Go, Types, Prepared, locks, Opening, Closing
<1>4. CASE ConfigMemory(t)
  BY <1>4 DEF ConfigMemory, OneChanges, Prepared, Types, States, Go, locks, Changing, Opening, Closing, Commands
<1>5. CASE Load(t)
  BY <1>5 DEF Load, OneChanges, Prepared, Types, States, Go, locks, Changing, Opening, Closing, Commands
<1>6. CASE StoreOpen(t)
  BY <1>6 DEF StoreOpen, OneChanges, Prepared, Types, States, Go, locks, Changing, Opening, Closing, Commands
<1>7. CASE Close(t)
  BY <1>7 DEF Close, OneChanges, Prepared, Types, States, Go, locks, Changing, Opening, Closing, Commands
<1>8. CASE StoreClose(t)
  <2>1. CASE ~overlapped
    BY <1>8, <2>1 DEF StoreClose, Prepared, Types, Go, locks
  <2>2. CASE overlapped
    <3>1. files' = {} /\ Changing = {t} /\ pc' = [pc EXCEPT ![t] = "idle"]
      BY <1>8, <2>2 DEF StoreClose, Go
    <3>2. \A u \in Tasks : pc'[u] \notin {"count", "counted"}
      BY <3>1 DEF Changing, Types, Opening, Closing
    <3> QED BY <3>1, <3>2 DEF Prepared
  <2> QED BY <2>1, <2>2
<1>9. CASE Down(t)
  BY <1>9 DEF Down, OneChanges, Prepared, Types, States, Go, locks, Changing, Opening, Closing, Commands
<1>10. CASE Interrupt(t)
  BY <1>10 DEF Interrupt, OneChanges, Prepared, Types, States, Go, locks, Changing, Opening, Closing, Commands
<1>11. CASE Register(t)
  <2>1. /\ ~overlapped /\ memory' = memory /\ files' = files
        /\ Up(t) /\ pc[t] \in {"command", "dma"}
    BY <1>11 DEF Register
  <2>2. \/ pc' = [pc EXCEPT ![t] = "idle"]
        \/ \E h \in Tasks : pc[h] = "wait" /\ pc' = [pc EXCEPT ![t] = "idle", ![h] = "command"]
    BY <2>1, UpGives
  <2> QED BY <2>1, <2>2 DEF Types, Prepared
<1>12. CASE EmptyRow(t)
  BY <1>12 DEF EmptyRow, OneChanges, Prepared, Types, States, Go, locks, Changing, Opening, Closing, Commands
<1>13. CASE DmaDown(t)
  BY <1>13 DEF DmaDown, OneChanges, Prepared, Types, States, Go, locks, Changing, Opening, Closing, Commands
<1>14. CASE DmaUp(t)
  <2>1. /\ ~overlapped /\ memory' = memory /\ files' = files
        /\ Up(t) /\ pc[t] \in {"command", "dma"}
    BY <1>14 DEF DmaUp
  <2>2. \/ pc' = [pc EXCEPT ![t] = "idle"]
        \/ \E h \in Tasks : pc[h] = "wait" /\ pc' = [pc EXCEPT ![t] = "idle", ![h] = "command"]
    BY <2>1, UpGives
  <2> QED BY <2>1, <2>2 DEF Types, Prepared
<1> QED BY <1>1, <1>2, <1>3, <1>4, <1>5, <1>6, <1>7, <1>8, <1>9, <1>10, <1>11, <1>12, <1>13, <1>14 DEF Act

(* What each step that leaves the semaphore alone owes SemaPrepared.         *)
LEMMA CountKept ==
    ASSUME Inside' = Inside, sem' = sem, leaked' = leaked,
           leaked \/ sem + Cardinality(Inside) = 1
    PROVE  leaked' \/ sem' + Cardinality(Inside') = 1
<1>1. (leaked' <=> leaked) /\ sem' = sem /\ Cardinality(Inside') = Cardinality(Inside)
  OBVIOUS
<1>2. CASE leaked
  BY <1>1, <1>2
<1>3. CASE ~leaked
  <2>1. sem + Cardinality(Inside) = 1
    BY <1>3
  <2> QED BY <1>1, <2>1
<1> QED BY <1>2, <1>3

LEMMA InsideFinite ==
    ASSUME Types
    PROVE  IsFiniteSet(Inside) /\ Cardinality(Inside) \in Nat
<1>1. Inside \subseteq Tasks
  BY DEF Inside
<1> QED BY <1>1, DeviceAssumption, FS_Subset, FS_CardinalityType

LEMMA UpKeepsCount ==
    ASSUME Types, Listed, NEW t \in Tasks, pc[t] \in {"command", "dma"}, Up(t)
    PROVE  sem' + Cardinality(Inside') = sem + Cardinality(Inside)
<1>1. t \in Inside
  BY DEF Inside
<1>2. /\ IsFiniteSet(Inside \ {t})
      /\ Cardinality(Inside \ {t}) = Cardinality(Inside) - 1
  BY <1>1, InsideFinite, FS_RemoveElement
<1>3. CASE pc' = [pc EXCEPT ![t] = "idle"] /\ sem' = sem + 1
  <2>1. Inside' = Inside \ {t}
    BY <1>3 DEF Inside, Types
  <2>2. sem \in Nat /\ Cardinality(Inside) \in Nat
    BY InsideFinite DEF Types
  <2> QED BY <1>2, <1>3, <2>1, <2>2
<1>4. CASE \E h \in Tasks : /\ h # t /\ pc[h] = "wait" /\ sem' = sem
                            /\ pc' = [pc EXCEPT ![t] = "idle", ![h] = "command"]
  <2>1. PICK h \in Tasks : /\ h # t /\ pc[h] = "wait" /\ sem' = sem
                           /\ pc' = [pc EXCEPT ![t] = "idle", ![h] = "command"]
    BY <1>4
  <2>2. Inside' = (Inside \ {t}) \cup {h} /\ h \notin Inside
    BY <2>1 DEF Inside, Types
  <2>3. h \notin Inside \ {t} /\ Cardinality(Inside) \in Nat
    BY <2>2, InsideFinite
  <2>4. Cardinality(Inside') = Cardinality(Inside \ {t}) + 1
    BY <1>2, <2>2, <2>3, FS_AddElement
  <2>5. Cardinality(Inside') = Cardinality(Inside)
    BY <1>2, <2>3, <2>4
  <2> QED BY <2>1, <2>5
<1> QED BY <1>3, <1>4, UpGives

LEMMA SemaPreparedStep ==
    ASSUME Types, Listed, HasFile, ~overlapped => OneChanges /\ SemaPrepared, NEW t \in Tasks, Act(t)
    PROVE  (~overlapped => SemaPrepared)'
<1> SUFFICES ASSUME (~overlapped)' PROVE SemaPrepared'
  OBVIOUS
<1>1. CASE Open(t)
  <2>1. Inside' = Inside /\ sem' = sem /\ leaked' = leaked /\ files' = files /\ ~overlapped
    BY <1>1 DEF Open, Inside, Go, Types, locks
  <2>2. usecount # 0 => files # {}
    BY <2>1, FilesFinite, FS_EmptySet DEF OneChanges
  <2>3. /\ pc' = [pc EXCEPT ![t] = IF usecount = 0 THEN "sema" ELSE "count"]
    BY <1>1 DEF Open, Go
  <2> QED BY <2>1, <2>2, <2>3 DEF SemaPrepared, Types
<1>2. CASE SemaInit(t)
  <2>1. sem' = 1 /\ files = {} /\ pc' = [pc EXCEPT ![t] = "init"] /\ pc[t] = "sema"
    BY <1>2 DEF SemaInit, OneChanges, Go
  <2>2. Inside' = {}
    BY <2>1 DEF Inside, HasFile, Types, Commands
  <2>3. Cardinality(Inside') = 0
    BY <2>2, FS_EmptySet
  <2> QED BY <2>1, <2>3 DEF SemaPrepared
<1>3. CASE DmaInit(t)
  <2>1. Inside' = Inside /\ sem' = sem /\ leaked' = leaked
    BY <1>3 DEF DmaInit, Inside, Go, Types, locks
  <2> QED BY <1>3, <2>1 DEF DmaInit, SemaPrepared, OneChanges, Go, Types, locks, Changing, Opening, Closing
<1>4. CASE ConfigMemory(t)
  <2>1. Inside' = Inside /\ sem' = sem /\ leaked' = leaked
    BY <1>4 DEF ConfigMemory, Inside, Go, Types, locks
  <2> QED BY <1>4, <2>1 DEF ConfigMemory, SemaPrepared, OneChanges, Go, Types, locks, Changing, Opening, Closing
<1>5. CASE Load(t)
  <2>1. Inside' = Inside /\ sem' = sem /\ leaked' = leaked
    BY <1>5 DEF Load, Inside, Go, Types, locks
  <2> QED BY <1>5, <2>1 DEF Load, SemaPrepared, OneChanges, Go, Types, locks, Changing, Opening, Closing
<1>6. CASE StoreOpen(t)
  <2>1. Inside' = Inside /\ sem' = sem /\ leaked' = leaked /\ ~overlapped
    BY <1>6 DEF StoreOpen, Inside, Go, Types, locks
  <2>2. leaked \/ sem + Cardinality(Inside) = 1
    BY <1>6, <2>1 DEF StoreOpen, SemaPrepared
  <2> QED BY <2>1, <2>2, CountKept DEF SemaPrepared
<1>7. CASE Close(t)
  <2>1. Inside' = Inside /\ sem' = sem /\ leaked' = leaked /\ ~overlapped /\ files # {}
    BY <1>7 DEF Close, Inside, Go, Types, locks
  <2>2. leaked \/ sem + Cardinality(Inside) = 1
    BY <2>1 DEF SemaPrepared
  <2> QED BY <2>1, <2>2, CountKept DEF SemaPrepared
<1>8. CASE StoreClose(t)
  <2>1. Inside' = Inside /\ sem' = sem /\ leaked' = leaked /\ pc' = [pc EXCEPT ![t] = "idle"]
    BY <1>8 DEF StoreClose, Inside, Go, Types, locks
  <2>2. CASE ~overlapped
    BY <1>8, <2>1, <2>2 DEF StoreClose, SemaPrepared, Types
  <2>3. CASE overlapped
    <3>1. files' = {} /\ Changing = {t}
      BY <1>8, <2>3 DEF StoreClose
    <3>2. \A u \in Tasks : pc'[u] \notin {"init", "config", "count", "counted"}
      BY <2>1, <3>1 DEF Changing, Types, Opening, Closing
    <3> QED BY <3>1, <3>2 DEF SemaPrepared
  <2> QED BY <2>2, <2>3
<1>9. CASE Down(t)
  <2>1. /\ ~overlapped /\ leaked' = leaked /\ files' = files /\ t \in files /\ pc[t] = "idle"
    BY <1>9 DEF Down
  <2>2. CASE sem > 0
    <3>1. sem' = sem - 1 /\ Inside' = Inside \cup {t} /\ t \notin Inside
      BY <1>9, <2>1, <2>2 DEF Down, Go, Inside, Types
    <3>2. Cardinality(Inside') = Cardinality(Inside) + 1
      BY <3>1, InsideFinite, FS_AddElement
    <3>3. leaked \/ sem + Cardinality(Inside) = 1
      BY <2>1 DEF SemaPrepared
    <3> QED BY <2>1, <3>1, <3>2, <3>3, InsideFinite DEF SemaPrepared, Types
  <2>3. CASE ~(sem > 0)
    <3>1. sem' = sem /\ Inside' = Inside
      BY <1>9, <2>1, <2>3 DEF Down, Go, Inside, Types
    <3> QED BY <2>1, <3>1 DEF SemaPrepared
  <2> QED BY <2>2, <2>3
<1>10. CASE Interrupt(t)
  <2>1. Inside' = Inside /\ sem' = sem /\ leaked' = leaked
    BY <1>10 DEF Interrupt, Inside, Go, Types, locks
  <2> QED BY <1>10, <2>1 DEF Interrupt, SemaPrepared, OneChanges, Go, Types, locks, Changing, Opening, Closing
<1>11. CASE Register(t)
  <2>1. /\ ~overlapped /\ leaked' = leaked /\ files' = files /\ t \in files
        /\ Up(t) /\ pc[t] \in {"command", "dma"}
    BY <1>11 DEF Register, HasFile, Commands
  <2> QED BY <2>1, UpKeepsCount DEF SemaPrepared
<1>12. CASE EmptyRow(t)
  <2>1. leaked'
    BY <1>12 DEF EmptyRow
  <2> QED BY <2>1 DEF SemaPrepared
<1>13. CASE DmaDown(t)
  <2>1. Inside' = Inside /\ sem' = sem /\ leaked' = leaked
    BY <1>13 DEF DmaDown, Inside, Go, Types, locks
  <2> QED BY <1>13, <2>1 DEF DmaDown, SemaPrepared, OneChanges, Go, Types, locks, Changing, Opening, Closing
<1>14. CASE DmaUp(t)
  <2>1. /\ ~overlapped /\ leaked' = leaked /\ files' = files /\ t \in files
        /\ Up(t) /\ pc[t] \in {"command", "dma"}
    BY <1>14 DEF DmaUp, HasFile, Commands
  <2> QED BY <2>1, UpKeepsCount DEF SemaPrepared
<1> QED BY <1>1, <1>2, <1>3, <1>4, <1>5, <1>6, <1>7, <1>8, <1>9, <1>10, <1>11, <1>12, <1>13, <1>14 DEF Act

-----------------------------------------------------------------------------
(* How far off the use count can be.                                         *)
LEMMA OpensFinite ==
    ASSUME Types
    PROVE  IsFiniteSet(Opens) /\ Cardinality(Opens) \in Nat
<1>1. Opens \subseteq Tasks
  BY DEF Opens
<1> QED BY <1>1, DeviceAssumption, FS_Subset, FS_CardinalityType

(* What each step that is no part of an update of the use count owes.        *)
LEMMA UseKept ==
    ASSUME UseBounded, Opens' = Opens, opens' = opens, files' = files,
           usecount' = usecount, seen' = seen,
           \A u \in Tasks : pc'[u] \in {"counted", "uncounted"} <=> pc[u] \in {"counted", "uncounted"}
    PROVE  UseBounded'
<1>1. Stored' = Stored
  BY DEF Stored
<1>2. Cardinality(files') = Cardinality(files)
  OBVIOUS
<1> QED BY <1>1, <1>2 DEF UseBounded, Possible

LEMMA UseBoundedStep ==
    ASSUME Types, Listed, HasFile, UseBounded, NEW t \in Tasks, Act(t)
    PROVE  UseBounded'
<1>0. /\ Cardinality(Opens) \in Nat /\ Cardinality(files) \in Nat /\ opens \in Nat
      /\ usecount \in Int /\ \A u \in Tasks : seen[u] \in Int
  BY OpensFinite, FilesFinite DEF UseBounded, Types
<1>1. CASE Open(t)
  <2>1. Opens' = Opens \cup {t} /\ t \notin Opens
    BY <1>1 DEF Open, Go, Types, Opens, Opening
  <2>2. Cardinality(Opens') = Cardinality(Opens) + 1
    BY <2>1, OpensFinite, FS_AddElement
  <2>3. /\ opens' = opens + 1 /\ opens < MaxOpens /\ files' = files /\ usecount' = usecount
        /\ seen' = seen
    BY <1>1 DEF Open
  <2>4. Stored' = Stored /\ Cardinality(files') = Cardinality(files)
    BY <1>0, <2>2, <2>3 DEF Stored
  <2>5. \A u \in Tasks : pc'[u] \in {"counted", "uncounted"} <=> pc[u] \in {"counted", "uncounted"}
    BY <1>1 DEF Open, Go, Types
  <2>6. opens' \in 0..MaxOpens
    BY <1>0, <2>3, DeviceAssumption
  <2> QED BY <2>3, <2>4, <2>5, <2>6 DEF UseBounded, Possible
<1>2. CASE SemaInit(t)
  BY <1>2, UseKept DEF SemaInit, Go, locks, Types, States, Opens, Opening, Closing, Commands
<1>3. CASE DmaInit(t)
  BY <1>3, UseKept DEF DmaInit, Go, locks, Types, States, Opens, Opening, Closing, Commands
<1>4. CASE ConfigMemory(t)
  BY <1>4, UseKept DEF ConfigMemory, Go, locks, Types, States, Opens, Opening, Closing, Commands
<1>5. CASE Load(t)
  <2>1. /\ Opens' = Opens /\ opens' = opens /\ files' = files /\ usecount' = usecount
        /\ seen' = [seen EXCEPT ![t] = usecount]
    BY <1>5 DEF Load, Go, locks, Types, States, Opens, Opening, Closing, Commands
  <2>2. Stored' = Stored /\ Cardinality(files') = Cardinality(files)
    BY <2>1 DEF Stored
  <2>3. \A u \in Tasks : u # t => pc'[u] = pc[u]
    BY <1>5 DEF Load, Go, Types
  <2>4. pc'[t] \in {"counted", "uncounted"}
    BY <1>5 DEF Load, Go, Types
  <2>5. seen'[t] = usecount /\ \A u \in Tasks : u # t => seen'[u] = seen[u]
    BY <2>1 DEF Types
  <2> QED BY <2>1, <2>2, <2>3, <2>4, <2>5 DEF UseBounded, Possible
<1>6. CASE StoreOpen(t)
  <2>1. /\ opens' = opens /\ usecount' = seen[t] + 1 /\ files' = files \cup {t}
        /\ t \notin files /\ pc[t] = "counted" /\ seen' = [seen EXCEPT ![t] = 0]
        /\ pc' = [pc EXCEPT ![t] = "idle"]
    BY <1>6 DEF StoreOpen, HasFile, Go, Opening
  <2>2. Opens' = Opens \ {t} /\ t \in Opens
    BY <2>1 DEF Types, Opens, Opening
  <2>3. Cardinality(Opens') = Cardinality(Opens) - 1
    BY <2>2, OpensFinite, FS_RemoveElement
  <2>4. Cardinality(files') = Cardinality(files) + 1
    BY <2>1, FilesFinite, FS_AddElement
  <2>5. Stored' = Stored + 1 /\ Stored \in Int
    BY <1>0, <2>1, <2>3 DEF Stored
  <2>6. Possible(seen[t])
    BY <2>1 DEF UseBounded
  <2>7. Possible(usecount)'
    BY <1>0, <2>1, <2>4, <2>5, <2>6 DEF Possible
  <2>8. seen'[t] = 0 /\ pc'[t] = "idle"
        /\ \A u \in Tasks : u # t => seen'[u] = seen[u] /\ pc'[u] = pc[u]
    BY <2>1 DEF Types
  <2>9. \A u \in Tasks : Possible(seen[u]) => Cardinality(files') - Stored' <= seen[u] /\ seen[u] <= Stored'
    BY <1>0, <2>4, <2>5 DEF Possible
  <2> QED BY <2>1, <2>7, <2>8, <2>9 DEF UseBounded, Possible
<1>7. CASE Close(t)
  BY <1>7, UseKept DEF Close, Go, locks, Types, States, Opens, Opening, Closing, Commands
<1>8. CASE StoreClose(t)
  <2>1. /\ opens' = opens /\ usecount' = seen[t] - 1 /\ files' = files \ {t}
        /\ t \in files /\ pc[t] = "uncounted" /\ seen' = [seen EXCEPT ![t] = 0]
        /\ pc' = [pc EXCEPT ![t] = "idle"]
    BY <1>8 DEF StoreClose, HasFile, Go, Closing
  <2>2. Opens' = Opens
    BY <2>1 DEF Types, Opens, Opening
  <2>3. Stored' = Stored /\ Stored \in Int
    BY <1>0, <2>1, <2>2 DEF Stored
  <2>4. Cardinality(files') = Cardinality(files) - 1
    BY <2>1, FilesFinite, FS_RemoveElement
  <2>5. Possible(seen[t])
    BY <2>1 DEF UseBounded
  <2>6. Possible(usecount)'
    BY <1>0, <2>1, <2>3, <2>4, <2>5 DEF Possible
  <2>7. seen'[t] = 0 /\ pc'[t] = "idle"
        /\ \A u \in Tasks : u # t => seen'[u] = seen[u] /\ pc'[u] = pc[u]
    BY <2>1 DEF Types
  <2>8. \A u \in Tasks : Possible(seen[u]) => Cardinality(files') - Stored' <= seen[u] /\ seen[u] <= Stored'
    BY <1>0, <2>3, <2>4 DEF Possible
  <2> QED BY <2>1, <2>6, <2>7, <2>8 DEF UseBounded, Possible
<1>9. CASE Down(t)
  BY <1>9, UseKept DEF Down, Go, locks, Types, States, Opens, Opening, Closing, Commands
<1>10. CASE Interrupt(t)
  BY <1>10, UseKept DEF Interrupt, Go, locks, Types, States, Opens, Opening, Closing, Commands
<1>12. CASE EmptyRow(t)
  BY <1>12, UseKept DEF EmptyRow, Go, locks, Types, States, Opens, Opening, Closing, Commands
<1>13. CASE DmaDown(t)
  BY <1>13, UseKept DEF DmaDown, Go, locks, Types, States, Opens, Opening, Closing, Commands
<1>11. CASE Register(t)
  <2>1. Up(t) /\ pc[t] \in {"command", "dma"}
        /\ opens' = opens /\ files' = files /\ usecount' = usecount /\ seen' = seen
    BY <1>11 DEF Register
  <2>2. \A u \in Tasks : pc'[u] = pc[u]
                         \/ (pc[u] \in Commands /\ pc'[u] \in {"idle", "command"})
    BY <2>1, UpGives DEF Types, Commands
  <2>3. Opens' = Opens
    BY <2>2 DEF Opens, Opening, Commands
  <2>4. \A u \in Tasks : pc'[u] \in {"counted", "uncounted"} <=> pc[u] \in {"counted", "uncounted"}
    BY <2>2 DEF Commands
  <2> QED BY <2>1, <2>3, <2>4, UseKept
<1>14. CASE DmaUp(t)
  <2>1. Up(t) /\ pc[t] \in {"command", "dma"}
        /\ opens' = opens /\ files' = files /\ usecount' = usecount /\ seen' = seen
    BY <1>14 DEF DmaUp
  <2>2. \A u \in Tasks : pc'[u] = pc[u]
                         \/ (pc[u] \in Commands /\ pc'[u] \in {"idle", "command"})
    BY <2>1, UpGives DEF Types, Commands
  <2>3. Opens' = Opens
    BY <2>2 DEF Opens, Opening, Commands
  <2>4. \A u \in Tasks : pc'[u] \in {"counted", "uncounted"} <=> pc[u] \in {"counted", "uncounted"}
    BY <2>2 DEF Commands
  <2> QED BY <2>1, <2>3, <2>4, UseKept
<1> QED BY <1>1, <1>2, <1>3, <1>4, <1>5, <1>6, <1>7, <1>8, <1>9, <1>10, <1>11, <1>12, <1>13, <1>14 DEF Act

LEMMA SemBoundedStep ==
    ASSUME Types, Listed, SemBounded, NEW t \in Tasks, Act(t)
    PROVE  SemBounded'
<1>0. /\ Cardinality(Inside) \in Nat /\ Cardinality(Tasks) \in Nat /\ sem \in Nat
      /\ IsFiniteSet(Tasks)
  BY InsideFinite, FS_CardinalityType, DeviceAssumption DEF Types
<1>1. ASSUME Inside' = Inside, sem' = sem, sleepers' = sleepers PROVE SemBounded'
  BY <1>1 DEF SemBounded
<1>2. CASE SemaInit(t)
  <2>1. /\ sem' = 1 /\ sleepers' = <<>> /\ Inside' = Inside /\ Inside \subseteq Tasks \ {t}
    BY <1>2 DEF SemaInit, Go, Types, Inside
  <2>2. IsFiniteSet(Tasks \ {t}) /\ Cardinality(Tasks \ {t}) = Cardinality(Tasks) - 1
    BY <1>0, FS_RemoveElement
  <2>3. Cardinality(Inside) <= Cardinality(Tasks) - 1
    BY <2>1, <2>2, FS_Subset
  <2>4. Cardinality(Inside') = Cardinality(Inside)
    BY <2>1
  <2> QED BY <1>0, <2>1, <2>3, <2>4 DEF SemBounded
<1>3. CASE Open(t) \/ DmaInit(t) \/ ConfigMemory(t)
  BY <1>1, <1>3 DEF Open, DmaInit, ConfigMemory, Go, locks, Types, Inside
<1>4. CASE Load(t) \/ StoreOpen(t) \/ Close(t) \/ StoreClose(t)
  BY <1>1, <1>4 DEF Load, StoreOpen, Close, StoreClose, Go, locks, Types, Inside
<1>5. CASE DmaDown(t)
  BY <1>1, <1>5 DEF DmaDown, Go, Types, Inside
<1>6. CASE Down(t)
  <2>1. CASE sem > 0
    <3>1. sem' = sem - 1 /\ sleepers' = sleepers /\ Inside' = Inside \cup {t} /\ t \notin Inside
      BY <1>6, <2>1 DEF Down, Go, Inside, Types
    <3>2. Cardinality(Inside') = Cardinality(Inside) + 1
      BY <3>1, InsideFinite, FS_AddElement
    <3> QED BY <1>0, <2>1, <3>1, <3>2 DEF SemBounded
  <2>2. CASE ~(sem > 0)
    <3>1. sem' = sem /\ Inside' = Inside
      BY <1>6, <2>2 DEF Down, Go, Inside, Types
    <3> QED BY <2>2, <3>1 DEF SemBounded
  <2> QED BY <2>1, <2>2
<1>7. CASE Interrupt(t)
  <2>1. Inside' = Inside /\ sem' = sem /\ sleepers' = Without(sleepers, t)
    BY <1>7 DEF Interrupt, Go, Types, Inside
  <2>2. sleepers = <<>> => Without(sleepers, t) = <<>>
    BY DEF Without
  <2> QED BY <2>1, <2>2 DEF SemBounded
<1>8. CASE EmptyRow(t)
  <2>1. Inside' = Inside \ {t} /\ t \in Inside /\ sem' = sem /\ sleepers' = sleepers
    BY <1>8 DEF EmptyRow, Go, locks, Types, Inside
  <2>2. Cardinality(Inside') = Cardinality(Inside) - 1
    BY <2>1, InsideFinite, FS_RemoveElement
  <2> QED BY <1>0, <2>1, <2>2 DEF SemBounded
<1>9. CASE Register(t) \/ DmaUp(t)
  <2>1. Up(t) /\ pc[t] \in {"command", "dma"}
    BY <1>9 DEF Register, DmaUp
  <2>2. sem' + Cardinality(Inside') = sem + Cardinality(Inside)
    BY <2>1, UpKeepsCount
  <2>3. sem' > 0 => sleepers' = <<>>
    <3>1. CASE sleepers = <<>>
      BY <2>1, <3>1 DEF Up
    <3>2. CASE sleepers # <<>>
      BY <2>1, <3>2 DEF Up, SemBounded
    <3> QED BY <3>1, <3>2
  <2> QED BY <2>2, <2>3 DEF SemBounded
<1> QED BY <1>2, <1>3, <1>4, <1>5, <1>6, <1>7, <1>8, <1>9 DEF Act

LEMMA FlagsStep ==
    ASSUME Flags, NEW t \in Tasks, Act(t)
    PROVE  Flags'
<1>1. CASE Open(t) \/ SemaInit(t) \/ DmaInit(t) \/ ConfigMemory(t) \/ Load(t) \/ StoreOpen(t)
  BY <1>1 DEF Open, SemaInit, DmaInit, ConfigMemory, Load, StoreOpen, locks, Flags
<1>2. CASE Close(t) \/ StoreClose(t) \/ Down(t) \/ Interrupt(t) \/ Register(t)
  BY <1>2 DEF Close, StoreClose, Down, Interrupt, Register, locks, Flags
<1>3. CASE EmptyRow(t) \/ DmaDown(t) \/ DmaUp(t)
  BY <1>3 DEF EmptyRow, DmaDown, DmaUp, locks, Flags
<1> QED BY <1>1, <1>2, <1>3 DEF Act

-----------------------------------------------------------------------------
LEMMA StepInv == IInv /\ [Next]_vars => IInv'
<1> SUFFICES ASSUME IInv, [Next]_vars PROVE IInv'
  OBVIOUS
<1>1. CASE UNCHANGED vars
  BY <1>1 DEF vars, locks, IInv, Types, HasFile, Listed, LockHeld, OneChanges, Prepared,
              SemaPrepared, Inside, UseBounded, SemBounded, Flags, Possible, Stored, Opens
<1>2. CASE Next
  <2>1. PICK t \in Tasks : Act(t)
    BY <1>2 DEF Next, Step, Act
  <2>2. Types' /\ HasFile' /\ Listed' /\ LockHeld'
    BY <2>1, TypesStep, HasFileStep, ListedStep, LockStep DEF IInv
  <2>3. (~overlapped => OneChanges)'
    BY <2>1, OneChangesStep DEF IInv
  <2>4. (~overlapped => Prepared)'
    BY <2>1, PreparedStep DEF IInv
  <2>5. (~overlapped => SemaPrepared)'
    BY <2>1, SemaPreparedStep DEF IInv
  <2>6. UseBounded' /\ SemBounded' /\ Flags'
    BY <2>1, UseBoundedStep, SemBoundedStep, FlagsStep DEF IInv
  <2> QED BY <2>2, <2>3, <2>4, <2>5, <2>6 DEF IInv
<1> QED BY <1>1, <1>2

(* The inductive invariant: who is where in an open, a close or a command    *)
(* agrees with the use count, the semaphore, its wait list and the memory,   *)
(* and how far off they can be when opens and closes meet.                   *)
THEOREM DeviceInvariant == Spec => []IInv
BY InitInv, StepInv, PTL DEF Spec

(* The variables keep their types: updates of the use count that get lost    *)
(* leave it no further from zero than there were opens, a semaphore that is  *)
(* initialised under commands ends no higher than there are tasks, and it is *)
(* never free while somebody is on its wait list.                            *)
THEOREM TypeCorrect == Spec => []TypeOK
<1>1. IInv => TypeOK
  <2> SUFFICES ASSUME IInv PROVE TypeOK
    OBVIOUS
  <2>1. /\ Cardinality(Opens) \in Nat /\ Cardinality(files) \in Nat
        /\ Cardinality(Inside) \in Nat /\ Cardinality(Tasks) \in Nat
    BY OpensFinite, FilesFinite, InsideFinite, FS_CardinalityType, DeviceAssumption DEF IInv
  <2>2. opens \in 0..MaxOpens /\ MaxOpens \in Nat
    BY DeviceAssumption DEF IInv, UseBounded
  <2>3. \A n \in Int : Possible(n) => n \in (-MaxOpens)..MaxOpens
    BY <2>1, <2>2 DEF Possible, Stored
  <2>4. usecount \in (-MaxOpens)..MaxOpens
    BY <2>3 DEF IInv, UseBounded, Types
  <2>5. \A t \in Tasks : seen[t] \in (-MaxOpens)..MaxOpens
    BY <2>2, <2>3 DEF IInv, UseBounded, Types
  <2>6. seen \in [Tasks -> (-MaxOpens)..MaxOpens]
    BY <2>5 DEF IInv, Types
  <2>7. sem \in 0..MaxOpens + Cardinality(Tasks)
    BY <2>1, <2>2 DEF IInv, SemBounded, Types
  <2>8. /\ \A i, j \in DOMAIN sleepers : pc[sleepers[i]] = "wait" /\ (sleepers[i] = sleepers[j] => i = j)
        /\ sem > 0 => sleepers = <<>>
    BY LenProperties DEF IInv, Types, Listed, SemBounded
  <2> QED BY <2>4, <2>6, <2>7, <2>8 DEF IInv, Types, Flags, TypeOK, States
<1> QED BY <1>1, DeviceInvariant, PTL

(* DMA commands are one at a time, whatever opens and closes do to the       *)
(* semaphore of the ioctl: by the lock of their own in zynqmp_dma_ioctl.     *)
THEOREM DmaAloneAlways == Spec => []DmaAlone
<1>1. IInv => DmaAlone
  BY DEF IInv, LockHeld, DmaAlone
<1> QED BY <1>1, DeviceInvariant, PTL

(* As long as no open or close has met another, the use count is the number  *)
(* of files open, so that it is the first open that prepares the device.     *)
THEOREM UseCountedAlways == Spec => []UseCounted
<1>1. IInv => UseCounted
  BY DEF IInv, OneChanges, UseCounted
<1> QED BY <1>1, DeviceInvariant, PTL

(* As long as no open or close has met another and no empty READ_ROW was     *)
(* asked for, the semaphore is free or one command has it.                   *)
THEOREM SemaphoreKeptAlways == Spec => []SemaphoreKept
<1>1. IInv => SemaphoreKept
  BY DEF IInv, SemaPrepared, SemaphoreKept
<1> QED BY <1>1, DeviceInvariant, PTL

(* As long as no open or close has met another, a task that has the device   *)
(* open finds the DMA buffers configured.                                    *)
THEOREM ConfiguredAlways == Spec => []Configured
<1>1. IInv => Configured
  BY DEF IInv, Prepared, Configured
<1> QED BY <1>1, DeviceInvariant, PTL
=============================================================================
