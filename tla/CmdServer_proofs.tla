--------------------------- MODULE CmdServer_proofs ---------------------------
(***************************************************************************)
(* Proofs about CmdServer, for any number of connections, places and        *)
(* requests.  First what the server keeps: its types, the agreement of its  *)
(* tables and the sizes of its payload buffers.  Then what it reads and     *)
(* answers: the units of a connection that are on the way, in the socket    *)
(* buffer and in its entry of state[] are, one after the other, a piece of  *)
(* the stream its client sent, and everything in it is later than what has  *)
(* been answered.                                                           *)
(***************************************************************************)
EXTENDS CmdServer, FiniteSetTheorems, SequenceTheorems, WellFoundedInduction, TLAPS

Owned == {fd \in ClientFds : owner[fd] # None}

(* A turn of the scan: what is still to be served is open, and the packet   *)
(* in hand belongs to a descriptor that is not served again in this turn.   *)
Turn ==
    /\ readSet \subseteq masterSet
    /\ Listener \in readSet => backlog # <<>>
    /\ pc = "scan" => readSet # {}
    /\ pc \in {"payload", "send"} => at \in Owned /\ at \notin readSet
    /\ pc = "payload" => slot[at - 1].st = "hdr_valid"
    /\ pc = "send" => slot[at - 1].st = "got_payload"

(* A connection waits to be accepted, is open, is refused, or has not been   *)
(* made: one of these.                                                       *)
Waiting ==
    /\ \A i \in 1..Len(backlog) : /\ phase[backlog[i]] \in {"up", "fin", "rst"}
                                  /\ \A fd \in ClientFds : owner[fd] # backlog[i]
    /\ \A i, j \in 1..Len(backlog) : backlog[i] = backlog[j] => i = j
    /\ \A fd \in Owned : phase[owner[fd]] \in {"up", "fin", "rst"}

(* The buffer between packets: enlarged, or as accept left it.               *)
Buffer(s) ==
    /\ s.st = "complete" => s.bufsz > BufNormal \/ s.alloc = BufNormal
    /\ s.st # "complete" => s.alloc = s.bufsz /\ s.bufsz >= BufNormal
    /\ s.st \in {"hdr_valid", "got_payload"} => s.need <= s.alloc
(* What has been read of the packet, by the state the client is in.          *)
Filled(s) ==
    /\ s.st = "start" => Len(s.hdr) < HdrLen
    /\ s.st \in {"hdr_valid", "got_payload"} => Len(s.hdr) = HdrLen
    /\ s.st = "hdr_valid" => Len(s.pay) < s.need
Buffers == \A fd \in Owned : Buffer(slot[fd - 1]) /\ Filled(slot[fd - 1])

TInv == TypeOK /\ TablesAgree /\ Turn /\ Waiting /\ Buffers
-----------------------------------------------------------------------------
LEMMA Consts ==
    /\ Listener \in Nat /\ MaxClients \in Nat /\ MaxClients >= 1
    /\ HdrLen \in Nat /\ HdrLen >= 1 /\ Payloads \subseteq Nat
    /\ BufNormal \in 0..BufMax /\ BufNormal \in Nat /\ BufMax \in Nat
    /\ None \notin Conns /\ MaxReqs \in Nat
    /\ \A fd \in ClientFds : fd \in Nat /\ fd > Listener /\ fd - 1 \in Index
    /\ Listener \notin ClientFds /\ ClientFds \subseteq Nat
    /\ IsFiniteSet(ClientFds) /\ Cardinality(ClientFds) = MaxClients + 1
<1>1. /\ Listener \in Nat /\ MaxClients \in Nat /\ MaxClients >= 1
      /\ HdrLen \in Nat /\ HdrLen >= 1 /\ Payloads \subseteq Nat
      /\ BufNormal \in 0..BufMax /\ BufNormal \in Nat /\ BufMax \in Nat
      /\ None \notin Conns /\ MaxReqs \in Nat
  BY ServerAssumption DEF ServerAssumption
<1>2. \A fd \in ClientFds : fd \in Nat /\ fd > Listener /\ fd - 1 \in Index
  BY <1>1 DEF ClientFds, Index
<1>3. Listener \notin ClientFds /\ ClientFds \subseteq Nat
  BY <1>1, <1>2
<1>4. IsFiniteSet(ClientFds) /\ Cardinality(ClientFds) = MaxClients + 1
  <2>1. Listener + 1 \in Int /\ Listener + MaxClients + 1 \in Int
    BY <1>1
  <2>2. /\ IsFiniteSet(ClientFds)
        /\ Cardinality(ClientFds) = IF Listener + 1 > Listener + MaxClients + 1 THEN 0
                 ELSE (Listener + MaxClients + 1) - (Listener + 1) + 1
    BY <2>1, FS_Interval DEF ClientFds
  <2> QED BY <1>1, <2>2
<1> QED BY <1>1, <1>2, <1>3, <1>4

LEMMA Least ==
    ASSUME NEW T \in SUBSET Nat, T # {}
    PROVE  \E m \in T : \A k \in T : m <= k
<1> DEFINE less == OpToRel(<, Nat)
<1>1. IsWellFoundedOn(less, Nat)
  BY NatLessThanWellFounded
<1>2. \A x, y \in Nat : x < y => <<x, y>> \in less
  BY DEF OpToRel
<1> HIDE DEF less
<1>3. PICK m \in T : \A k \in T : ~(<<k, m>> \in less)
  BY <1>1, WFMin
<1>4. \A k \in T : m \in Nat /\ k \in Nat /\ ~(k < m)
  BY <1>2, <1>3
<1> QED BY <1>4

LEMMA SlotTypes ==
    ASSUME TypeOK, NEW fd \in ClientFds
    PROVE  /\ slot[fd - 1] \in Slot /\ slot[fd - 1].st \in {"complete", "start", "hdr_valid", "got_payload"}
           /\ slot[fd - 1].hdr \in Seq(Unit) /\ slot[fd - 1].pay \in Seq(Unit)
           /\ slot[fd - 1].need \in 0..BufMax /\ slot[fd - 1].bufsz \in 0..BufMax
           /\ slot[fd - 1].alloc \in 0..BufMax
BY Consts DEF TypeOK, Slot

(* The descriptor the scan is at.                                            *)
LEMMA ScanTypes ==
    ASSUME TypeOK, Turn, TablesAgree, pc = "scan"
    PROVE  /\ Next1 \in readSet /\ Rest \subseteq readSet /\ Next1 \notin Rest
           /\ Next1 # Listener => Next1 \in Owned /\ Next1 \in ClientFds /\ owner[Next1] \in Conns
<1>1. readSet \in SUBSET Nat /\ readSet # {}
  BY Consts DEF TypeOK, Turn
<1>2. \E m \in readSet : \A k \in readSet : m <= k
  BY <1>1, Least
<1>3. Next1 \in readSet
  BY <1>2 DEF Next1
<1>4. Next1 # Listener => Next1 \in Owned
  BY <1>3 DEF Turn, TablesAgree, Owned
<1>5. \A fd \in Owned : fd \in ClientFds /\ owner[fd] \in Conns
  BY DEF Owned, TypeOK
<1> QED BY <1>3, <1>4, <1>5 DEF Rest

(* As long as not every place is taken a descriptor is free.                 *)
LEMMA OwnedCount ==
    ASSUME TypeOK, TablesAgree
    PROVE  /\ IsFiniteSet(Owned) /\ Cardinality(Owned) = numClients
           /\ IsFiniteSet(masterSet) /\ Cardinality(masterSet) = numClients + 1
<1>1. IsFiniteSet(Owned) /\ Owned \subseteq ClientFds /\ Listener \notin Owned
  BY Consts, FS_Subset DEF Owned
<1>2. masterSet = Owned \cup {Listener}
  BY DEF TablesAgree, Owned
<1>3. IsFiniteSet(masterSet) /\ Cardinality(masterSet) = Cardinality(Owned) + 1
  BY <1>1, <1>2, FS_AddElement
<1>4. Cardinality(Owned) \in Nat
  BY <1>1, FS_CardinalityType
<1> QED BY <1>1, <1>3, <1>4 DEF TablesAgree

LEMMA FreeFdTypes ==
    ASSUME TypeOK, TablesAgree, ~Full
    PROVE  FreeFd \in ClientFds /\ owner[FreeFd] = None /\ numClients + 1 \in 0..MaxClients
<1> DEFINE F == {fd \in ClientFds : owner[fd] = None}
<1>1. numClients \in Nat /\ numClients < MaxClients
  BY Consts DEF Full, TypeOK
<1>2. F # {}
  <2> SUFFICES ASSUME F = {} PROVE FALSE
    OBVIOUS
  <2>1. Owned = ClientFds
    BY DEF Owned
  <2> QED BY <1>1, <2>1, OwnedCount, Consts
<1>3. F \in SUBSET Nat
  BY Consts
<1>4. \E m \in F : \A k \in F : m <= k
  BY <1>2, <1>3, Least
<1>5. \E m \in ClientFds : owner[m] = None /\ \A g \in ClientFds : owner[g] = None => m <= g
  BY <1>4
<1>6. FreeFd \in ClientFds /\ owner[FreeFd] = None
  BY <1>5 DEF FreeFd
<1> QED BY <1>1, <1>6, Consts

(* STATE_COMPLETE, and the end of a header.                                  *)
LEMMA FreshEffect ==
    ASSUME NEW s \in Slot, Buffer(s)
    PROVE  /\ Fresh(s) \in Slot /\ Buffer(Fresh(s)) /\ Fresh(s).st # "complete"
           /\ s.st # "complete" => Fresh(s) = s
           /\ s.st = "complete" => Fresh(s).st = "start" /\ Fresh(s).hdr = <<>> /\ Fresh(s).pay = <<>>
<1>1. CASE s.st # "complete"
  BY <1>1 DEF Fresh
<1>2. CASE s.st = "complete"
  <2>1. /\ s.bufsz \in Nat /\ s.alloc \in 0..BufMax /\ <<>> \in Seq(Unit)
        /\ BufNormal \in 0..BufMax /\ BufNormal \in Nat
    BY Consts, EmptySeq DEF Slot
  <2>2. CASE s.bufsz > BufNormal
    <3>1. Fresh(s) = [s EXCEPT !.st = "start", !.bufsz = BufNormal, !.hdr = <<>>, !.pay = <<>>,
                               !.alloc = BufNormal]
      BY <1>2, <2>2 DEF Fresh
    <3>2. /\ Fresh(s).st = "start" /\ Fresh(s).bufsz = BufNormal /\ Fresh(s).alloc = BufNormal
          /\ Fresh(s).hdr = <<>> /\ Fresh(s).pay = <<>> /\ Fresh(s) \in Slot
      BY <2>1, <3>1 DEF Slot
    <3> QED BY <1>2, <2>1, <3>2 DEF Buffer
  <2>3. CASE ~(s.bufsz > BufNormal)
    <3>1. Fresh(s) = [s EXCEPT !.st = "start", !.bufsz = BufNormal, !.hdr = <<>>, !.pay = <<>>]
      BY <1>2, <2>3 DEF Fresh, Slot
    <3>2. s.alloc = BufNormal
      BY <1>2, <2>3 DEF Buffer
    <3>3. /\ Fresh(s).st = "start" /\ Fresh(s).bufsz = BufNormal /\ Fresh(s).alloc = BufNormal
          /\ Fresh(s).hdr = <<>> /\ Fresh(s).pay = <<>> /\ Fresh(s) \in Slot
      BY <2>1, <3>1, <3>2 DEF Slot
    <3> QED BY <1>2, <2>1, <3>3 DEF Buffer
  <2> QED BY <2>2, <2>3
<1> QED BY <1>1, <1>2

LEMMA ValidatedEffect ==
    ASSUME TypeOK, NEW units \in Seq(Unit), Len(units) = HdrLen, Validated(units)
    PROVE  \E c \in Conns, n \in Nat :
              /\ n \in 1..Len(asked[c]) /\ HeaderOf(units, c, n) /\ asked[c][n].ok
              /\ Required(units) = asked[c][n].size /\ Required(units) \in Nat
<1> DEFINE c == units[1].conn
<1>1. units[1] \in Unit /\ c \in Conns /\ 1 \in 1..HdrLen
  <2>1. 1 \in 1..HdrLen
    BY Consts
  <2>2. units[1] \in Unit
    BY <2>1, ElementOfSeq
  <2> QED BY <2>1, <2>2 DEF Unit
<1>2. PICK n \in 1..Len(asked[c]) : HeaderOf(units, c, n) /\ asked[c][n].ok
  BY DEF Validated
<1>3. asked[c] \in Seq([size : Payloads, ok : BOOLEAN])
  BY <1>1 DEF TypeOK
<1>4. n \in Nat /\ asked[c][n].size \in Nat
  <2>1. n \in Nat
    BY <1>2, <1>3, LenProperties
  <2>2. asked[c][n] \in [size : Payloads, ok : BOOLEAN]
    BY <1>2, <1>3, ElementOfSeq
  <2> QED BY <2>1, <2>2, Consts
<1>5. units[1].req = n
  BY <1>1, <1>2 DEF HeaderOf
<1> QED BY <1>1, <1>2, <1>4, <1>5 DEF Required

LEMMA AfterHeaderEffect ==
    ASSUME TypeOK, NEW s \in Slot, Buffer(s), s.st = "start", Len(s.hdr) = HdrLen
    PROVE  /\ AfterHeader(s) \in Slot /\ Buffer(AfterHeader(s)) /\ AfterHeader(s).st # "start"
           /\ AfterHeader(s).hdr = s.hdr /\ AfterHeader(s).pay = <<>>
           /\ AfterHeader(s).st # "complete" =>
                 /\ Validated(s.hdr) /\ AfterHeader(s).need = Required(s.hdr)
                 /\ AfterHeader(s).st = "got_payload" => AfterHeader(s).need = 0
                 /\ AfterHeader(s).st = "hdr_valid" => AfterHeader(s).need > 0
<1>0. s.hdr \in Seq(Unit) /\ <<>> \in Seq(Unit) /\ s.alloc = s.bufsz /\ s.bufsz \in 0..BufMax /\ s.bufsz >= BufNormal
      /\ BufNormal \in Nat /\ BufMax \in Nat
  BY EmptySeq, Consts DEF Slot, Buffer
<1>1. CASE ~Validated(s.hdr) \/ Required(s.hdr) > BufMax
  <2>1. AfterHeader(s) = [s EXCEPT !.st = "complete", !.pay = <<>>]
    BY <1>1 DEF AfterHeader
  <2>2. s.bufsz > BufNormal \/ s.alloc = BufNormal
    BY <1>0
  <2> QED BY <1>0, <2>1, <2>2 DEF Slot, Buffer
<1>2. CASE Validated(s.hdr) /\ ~(Required(s.hdr) > BufMax)
  <2> DEFINE p == Required(s.hdr)
             st == IF p = 0 THEN "got_payload" ELSE "hdr_valid"
             size == IF p > s.bufsz THEN p ELSE s.bufsz
             alloc == IF p > s.bufsz THEN p ELSE s.alloc
  <2>1. p \in 0..BufMax
    BY <1>0, <1>2, ValidatedEffect
  <2>2. AfterHeader(s) = [s EXCEPT !.st = st, !.need = p, !.pay = <<>>, !.bufsz = size, !.alloc = alloc]
    BY <1>2 DEF AfterHeader
  <2>3. /\ st \in {"got_payload", "hdr_valid"} /\ (st = "got_payload" => p = 0)
        /\ (st = "hdr_valid" => p > 0)
        /\ size \in 0..BufMax /\ alloc = size /\ p <= alloc /\ size >= BufNormal
    BY <1>0, <2>1
  <2>4. Validated(s.hdr)
    BY <1>2
  <2> HIDE DEF p, st, size, alloc
  <2>5. /\ AfterHeader(s).st = st /\ AfterHeader(s).need = p /\ AfterHeader(s).pay = <<>>
        /\ AfterHeader(s).bufsz = size /\ AfterHeader(s).alloc = alloc /\ AfterHeader(s).hdr = s.hdr
        /\ AfterHeader(s) \in Slot
    BY <1>0, <2>1, <2>2, <2>3 DEF Slot
  <2>6. Buffer(AfterHeader(s))
    BY <2>3, <2>5 DEF Buffer
  <2> QED BY <2>3, <2>4, <2>5, <2>6 DEF p
<1> QED BY <1>1, <1>2

-----------------------------------------------------------------------------
(* The types in two halves: the connections, and the server.                 *)
NetTypes ==
    /\ phase \in [Conns -> {"new", "up", "fin", "rst", "refused"}]
    /\ asked \in [Conns -> Seq([size : Payloads, ok : BOOLEAN])]
    /\ wire \in [Conns -> Seq(Unit)] /\ inbox \in [Conns -> Seq(Unit)]
    /\ outbox \in [Conns -> Seq(1..MaxReqs)] /\ replies \in [Conns -> Seq(1..MaxReqs)]

ServerTypes ==
    /\ backlog \in Seq(Conns) /\ owner \in [ClientFds -> Conns \cup {None}]
    /\ masterSet \subseteq {Listener} \cup ClientFds /\ readSet \subseteq masterSet \cup {Listener}
    /\ maxFds \in {Listener} \cup ClientFds /\ numClients \in 0..MaxClients
    /\ slot \in [Index -> Slot]
    /\ pc \in {"select", "scan", "payload", "send"} /\ at \in {Listener} \cup ClientFds

LEMMA Halves == TypeOK <=> NetTypes /\ ServerTypes
BY DEF TypeOK, NetTypes, ServerTypes
LEMMA HalvesNext == NetTypes' /\ ServerTypes' => TypeOK'
BY DEF TypeOK, NetTypes, ServerTypes

Lives(c) == phase[c] \in {"up", "fin", "rst"}

(* A step of the clients, or one that only takes what has arrived.           *)
LEMMA NetworkStep ==
    ASSUME TInv, UNCHANGED <<tables, readSet, slot, pc, at>>, NetTypes',
           \A c \in Conns : Lives(c) => Lives(c)'
    PROVE  TInv'
<1>1. UNCHANGED <<backlog, owner, masterSet, maxFds, numClients, readSet, slot, pc, at>> /\ Owned' = Owned
  BY DEF tables, Owned
<1>2. TypeOK /\ TablesAgree /\ Turn /\ Waiting /\ Buffers
  BY DEF TInv
<1>3. TypeOK'
  BY <1>1, <1>2, Halves, HalvesNext DEF ServerTypes
<1>4. TablesAgree' /\ Turn' /\ Buffers'
  BY <1>1, <1>2 DEF TablesAgree, Turn, Buffers, Buffer, Filled
<1>5. Waiting'
  <2>1. \A i \in 1..Len(backlog) : backlog[i] \in Conns
    BY <1>2 DEF TypeOK
  <2>2. \A fd \in Owned : owner[fd] \in Conns
    BY <1>2 DEF TypeOK, Owned
  <2> QED BY <1>1, <1>2, <2>1, <2>2 DEF Waiting, Lives
<1> QED BY <1>3, <1>4, <1>5 DEF TInv

LEMMA ConnectStep == ASSUME TInv, NEW c \in Conns, Connect(c) PROVE TInv'
<1>1. TypeOK /\ TablesAgree /\ Turn /\ Waiting /\ Buffers
  BY DEF TInv
<1>2. /\ phase[c] = "new" /\ phase' = [phase EXCEPT ![c] = "up"] /\ backlog' = Append(backlog, c)
      /\ UNCHANGED <<asked, wire, inbox, outbox, replies, owner, masterSet, maxFds, numClients,
                      readSet, slot, pc, at>>
  BY DEF Connect
<1>3. /\ backlog \in Seq(Conns) /\ Len(backlog) \in Nat /\ backlog' \in Seq(Conns)
      /\ Len(backlog') = Len(backlog) + 1 /\ backlog' # <<>>
      /\ \A i \in 1..Len(backlog) : backlog'[i] = backlog[i]
      /\ backlog'[Len(backlog) + 1] = c
  <2>1. backlog \in Seq(Conns) /\ Len(backlog) \in Nat
    BY <1>1, LenProperties DEF TypeOK
  <2> QED BY <1>2, <2>1, AppendProperties
<1>4. TypeOK'
  BY <1>1, <1>2, <1>3 DEF TypeOK
<1>5. Owned' = Owned
  BY <1>2 DEF Owned
<1>6. TablesAgree' /\ Turn' /\ Buffers'
  BY <1>1, <1>2, <1>3, <1>5 DEF TablesAgree, Turn, Buffers, Buffer, Filled
<1>7. Waiting'
  <2>1. \A d \in Conns : d # c => phase'[d] = phase[d]
    BY <1>1, <1>2 DEF TypeOK
  <2>2. phase'[c] = "up"
    BY <1>1, <1>2 DEF TypeOK
  <2>3. \A i \in 1..Len(backlog) : backlog[i] # c /\ backlog[i] \in Conns
    BY <1>1, <1>2, <1>3, ElementOfSeq DEF Waiting
  <2>4. \A fd \in ClientFds : owner[fd] # c
    <3> SUFFICES ASSUME NEW fd \in ClientFds, owner[fd] = c PROVE FALSE
      OBVIOUS
    <3>1. fd \in Owned
      BY Consts DEF Owned
    <3> QED BY <1>1, <1>2, <3>1 DEF Waiting
  <2>5. \A i \in 1..Len(backlog') : i \in 1..Len(backlog) \/ (i = Len(backlog) + 1 /\ backlog'[i] = c)
    BY <1>3
  <2>6. \A i \in 1..Len(backlog') : /\ phase'[backlog'[i]] \in {"up", "fin", "rst"}
                                     /\ \A fd \in ClientFds : owner'[fd] # backlog'[i]
    BY <1>1, <1>2, <1>3, <2>1, <2>2, <2>3, <2>4, <2>5 DEF Waiting
  <2>7. \A i, j \in 1..Len(backlog') : backlog'[i] = backlog'[j] => i = j
    BY <1>1, <1>3, <2>3, <2>5 DEF Waiting
  <2>8. \A fd \in Owned' : phase'[owner'[fd]] \in {"up", "fin", "rst"}
    <3> SUFFICES ASSUME NEW fd \in Owned PROVE phase'[owner[fd]] \in {"up", "fin", "rst"}
      BY <1>2, <1>5
    <3>1. owner[fd] # c /\ owner[fd] \in Conns
      BY <1>1, <2>4 DEF Owned, TypeOK
    <3> QED BY <1>1, <2>1, <3>1 DEF Waiting
  <2> QED BY <2>6, <2>7, <2>8 DEF Waiting
<1> QED BY <1>4, <1>6, <1>7 DEF TInv

LEMMA PostStep ==
    ASSUME TInv, NEW c \in Conns, NEW p \in Payloads, NEW ok \in BOOLEAN, Post(c, p, ok)
    PROVE  TInv'
<1> DEFINE new == [k \in 1..(HdrLen + p) |-> [conn |-> c, req |-> Len(asked[c]) + 1, part |-> k]]
<1>1. /\ TypeOK /\ asked[c] \in Seq([size : Payloads, ok : BOOLEAN]) /\ Len(asked[c]) \in Nat
      /\ wire[c] \in Seq(Unit) /\ [size |-> p, ok |-> ok] \in [size : Payloads, ok : BOOLEAN]
  BY LenProperties DEF TInv, TypeOK
<1>2. /\ phase[c] = "up" /\ Len(asked[c]) < MaxReqs
      /\ asked' = [asked EXCEPT ![c] = Append(@, [size |-> p, ok |-> ok])]
      /\ wire' = [wire EXCEPT ![c] = @ \o new]
      /\ UNCHANGED <<phase, inbox, outbox, replies, tables, readSet, slot, pc, at>>
  BY DEF Post
<1>3. new \in Seq(Unit)
  <2>1. HdrLen + p \in Nat /\ Len(asked[c]) + 1 \in 1..MaxReqs
    BY <1>1, <1>2, Consts
  <2>2. \A k \in 1..(HdrLen + p) : [conn |-> c, req |-> Len(asked[c]) + 1, part |-> k] \in Unit
    BY <2>1 DEF Unit
  <2>3. new \in [1..(HdrLen + p) -> Unit]
    BY <2>2
  <2> HIDE DEF new
  <2> QED BY <2>1, <2>3, SeqDef
<1> HIDE DEF new
<1>4. wire[c] \o new \in Seq(Unit)
  BY <1>1, <1>3, ConcatProperties
<1>5. Append(asked[c], [size |-> p, ok |-> ok]) \in Seq([size : Payloads, ok : BOOLEAN])
  BY <1>1, AppendProperties
<1>6. NetTypes'
  BY <1>1, <1>2, <1>4, <1>5, Halves DEF NetTypes
<1> QED BY <1>2, <1>6, NetworkStep DEF Lives

LEMMA ClientSteps == ASSUME TInv, NEW c \in Conns, ClientStep(c) PROVE TInv'
<1>0. NetTypes /\ wire[c] \in Seq(Unit) /\ inbox[c] \in Seq(Unit) /\ outbox[c] \in Seq(1..MaxReqs)
  BY Halves DEF TInv, NetTypes
<1>1. CASE Deliver(c)
  <2>1. Head(wire[c]) \in Unit /\ Tail(wire[c]) \in Seq(Unit)
    BY <1>0, <1>1, HeadTailProperties DEF Deliver
  <2>2. Append(inbox[c], Head(wire[c])) \in Seq(Unit)
    BY <1>0, <2>1, AppendProperties
  <2>3. NetTypes'
    BY <1>0, <1>1, <2>1, <2>2 DEF Deliver, NetTypes
  <2> QED BY <1>1, <2>3, NetworkStep DEF Deliver, Lives
<1>2. CASE ReadAnswer(c)
  <2>1. Tail(outbox[c]) \in Seq(1..MaxReqs)
    BY <1>0, <1>2, HeadTailProperties DEF ReadAnswer
  <2>2. NetTypes'
    BY <1>0, <1>2, <2>1 DEF ReadAnswer, NetTypes
  <2> QED BY <1>2, <2>2, NetworkStep DEF ReadAnswer, Lives
<1>3. ASSUME NEW how \in {"fin", "rst"}, Leave(c, how) PROVE TInv'
  <2>1. <<>> \in Seq(Unit) /\ <<>> \in Seq(1..MaxReqs)
    BY EmptySeq
  <2>2. NetTypes'
    BY <1>0, <1>3, <2>1 DEF Leave, NetTypes
  <2>3. \A d \in Conns : Lives(d) => Lives(d)'
    BY <1>0, <1>3 DEF Leave, Lives, NetTypes
  <2> QED BY <1>3, <2>2, <2>3, NetworkStep DEF Leave
<1> QED BY <1>1, <1>2, <1>3, ConnectStep, PostStep DEF ClientStep
-----------------------------------------------------------------------------
(* The server works on the packet of one client.                             *)
LEMMA SlotStep ==
    ASSUME TInv, NEW fd \in Owned, NEW u \in Slot, Buffer(u), Filled(u),
           slot' = [slot EXCEPT ![fd - 1] = u], UNCHANGED <<tables, phase>>, NetTypes',
           readSet' \subseteq readSet, fd \notin readSet', at' \in {fd, at},
           pc' \in {"select", "scan", "payload", "send"},
           pc' = "scan" => readSet' # {},
           pc' \in {"payload", "send"} => at' = fd,
           pc' = "payload" => u.st = "hdr_valid",
           pc' = "send" => u.st = "got_payload"
    PROVE  TInv'
<1>1. UNCHANGED <<backlog, owner, masterSet, maxFds, numClients, phase>> /\ Owned' = Owned
  BY DEF tables, Owned
<1>2. TypeOK /\ TablesAgree /\ Turn /\ Waiting /\ Buffers
  BY DEF TInv
<1>3. /\ fd \in ClientFds /\ fd - 1 \in Index /\ slot \in [Index -> Slot]
      /\ \A g \in ClientFds : g \in Nat /\ g - 1 \in Index
  BY <1>2, Consts DEF Owned, TypeOK
<1>4. /\ slot' \in [Index -> Slot] /\ slot'[fd - 1] = u
      /\ \A g \in ClientFds : g # fd => slot'[g - 1] = slot[g - 1]
  BY <1>3
<1>5. TypeOK'
  <2>1. ServerTypes
    BY <1>2, Halves
  <2>2. at' \in {Listener} \cup ClientFds /\ readSet' \subseteq masterSet \cup {Listener}
    BY <1>3, <2>1 DEF ServerTypes
  <2>3. ServerTypes'
    BY <1>1, <1>4, <2>1, <2>2 DEF ServerTypes
  <2> QED BY <2>3, HalvesNext
<1>6. TablesAgree' /\ Waiting'
  BY <1>1, <1>2 DEF TablesAgree, Waiting
<1>7. Turn'
  BY <1>1, <1>2, <1>4 DEF Turn
<1>8. Buffers'
  <2> SUFFICES ASSUME NEW g \in Owned PROVE Buffer(slot'[g - 1]) /\ Filled(slot'[g - 1])
    BY <1>1 DEF Buffers, Buffer, Filled
  <2>1. g \in ClientFds
    BY DEF Owned
  <2> QED BY <1>2, <1>4, <2>1 DEF Buffers
<1> QED BY <1>5, <1>6, <1>7, <1>8 DEF TInv

LEMMA DisconnectStep ==
    ASSUME TInv, NEW fd \in Owned, NEW s \in Slot, Disconnect(fd, s), UNCHANGED <<network, at>>,
           readSet' \subseteq readSet, fd \notin readSet',
           pc' \in {"select", "scan"}, pc' = "scan" => readSet' # {}
    PROVE  TInv'
<1>1. TypeOK /\ TablesAgree /\ Turn /\ Waiting /\ Buffers
  BY DEF TInv
<1>2. /\ owner' = [owner EXCEPT ![fd] = None] /\ masterSet' = masterSet \ {fd}
      /\ numClients' = numClients - 1 /\ UNCHANGED <<backlog, maxFds>>
      /\ UNCHANGED <<phase, asked, wire, inbox, outbox, replies>>
  BY DEF Disconnect, network
<1>3. /\ fd \in ClientFds /\ fd - 1 \in Index /\ slot \in [Index -> Slot] /\ fd # Listener
      /\ \A g \in ClientFds : g \in Nat /\ g - 1 \in Index
      /\ owner \in [ClientFds -> Conns \cup {None}]
  BY <1>1, Consts DEF Owned, TypeOK
<1>4. \E u \in Slot : slot' = [slot EXCEPT ![fd - 1] = u]
  <2> DEFINE a == IF s.bufsz > 0 THEN 0 ELSE s.alloc
             u == [s EXCEPT !.st = "complete", !.bufsz = 0, !.alloc = a]
  <2>1. a \in 0..BufMax /\ 0 \in 0..BufMax
    BY Consts DEF Slot
  <2>2. slot' = [slot EXCEPT ![fd - 1] = u]
    BY DEF Disconnect
  <2> HIDE DEF a
  <2>3. u \in Slot
    BY <2>1 DEF Slot
  <2> QED BY <2>2, <2>3
<1>5. /\ slot' \in [Index -> Slot]
      /\ \A g \in ClientFds : g # fd => slot'[g - 1] = slot[g - 1]
  BY <1>3, <1>4
<1>6. /\ Owned' = Owned \ {fd} /\ owner' \in [ClientFds -> Conns \cup {None}]
      /\ \A g \in ClientFds : g # fd => owner'[g] = owner[g]
      /\ owner'[fd] = None
  BY <1>2, <1>3 DEF Owned
<1>7. /\ numClients \in 0..MaxClients /\ numClients - 1 \in 0..MaxClients
      /\ numClients' = Cardinality(masterSet') - 1
  <2>1. IsFiniteSet(Owned) /\ Cardinality(Owned) = numClients
        /\ IsFiniteSet(masterSet) /\ Cardinality(masterSet) = numClients + 1
    BY <1>1, OwnedCount
  <2>2. numClients # 0 /\ numClients \in 0..MaxClients /\ numClients \in Nat
    <3>1. numClients \in 0..MaxClients /\ MaxClients \in Nat
      BY <1>1, Consts DEF TypeOK
    <3> QED BY <2>1, <3>1, FS_EmptySet
  <2>3. fd \in masterSet
    BY <1>1 DEF TablesAgree, Owned
  <2>4. Cardinality(masterSet') = numClients
    <3>1. Cardinality(masterSet \ {fd}) = Cardinality(masterSet) - 1
      BY <2>1, <2>3, FS_RemoveElement
    <3>2. Cardinality(masterSet \ {fd}) = numClients
      BY <2>1, <2>2, <3>1
    <3>3. masterSet' = masterSet \ {fd}
      BY <1>2
    <3> QED BY <3>2, <3>3
  <2> QED BY <1>2, <2>2, <2>4, Consts
<1>8. TypeOK'
  <2>1. NetTypes /\ ServerTypes
    BY <1>1, Halves
  <2>2. NetTypes'
    BY <1>2, <2>1 DEF NetTypes
  <2>3. readSet' \subseteq masterSet' /\ masterSet' \subseteq {Listener} \cup ClientFds
    BY <1>1, <1>2 DEF Turn, TypeOK
  <2>4. ServerTypes'
    BY <1>2, <1>5, <1>6, <1>7, <2>1, <2>3 DEF ServerTypes
  <2> QED BY <2>2, <2>4, HalvesNext
<1>9. TablesAgree'
  <2>1. masterSet' = {Listener} \cup {g \in ClientFds : owner'[g] # None}
    BY <1>1, <1>2, <1>3, <1>6 DEF TablesAgree, Owned
  <2>2. \A g \in masterSet' : g <= maxFds'
    BY <1>1, <1>2 DEF TablesAgree
  <2>3. \A f, g \in ClientFds : owner'[f] = owner'[g] /\ owner'[f] # None => f = g
    BY <1>1, <1>6 DEF TablesAgree
  <2> QED BY <1>7, <2>1, <2>2, <2>3 DEF TablesAgree
<1>10. Turn'
  <2>1. readSet' \subseteq masterSet' /\ (Listener \in readSet' => backlog' # <<>>)
    BY <1>1, <1>2 DEF Turn
  <2> QED BY <2>1 DEF Turn
<1>11. Waiting'
  <2>1. \A i \in 1..Len(backlog) : backlog[i] \in Conns
    BY <1>1, ElementOfSeq DEF TypeOK
  <2>2. \A i \in 1..Len(backlog) : \A g \in ClientFds : owner'[g] # backlog[i]
    BY <1>1, <1>6, <2>1, Consts DEF Waiting
  <2>3. \A g \in Owned' : phase[owner'[g]] \in {"up", "fin", "rst"}
    BY <1>1, <1>6 DEF Waiting, Owned
  <2> QED BY <1>1, <1>2, <2>2, <2>3 DEF Waiting
<1>12. Buffers'
  <2> SUFFICES ASSUME NEW g \in Owned, g # fd PROVE Buffer(slot'[g - 1]) /\ Filled(slot'[g - 1])
    BY <1>6 DEF Buffers, Buffer, Filled
  <2>1. g \in ClientFds
    BY DEF Owned
  <2> QED BY <1>1, <1>5, <2>1 DEF Buffers
<1> QED BY <1>8, <1>9, <1>10, <1>11, <1>12 DEF TInv

LEMMA SelectStep == ASSUME TInv, Select PROVE TInv'
<1>1. TypeOK /\ TablesAgree /\ Turn /\ Waiting /\ Buffers
  BY DEF TInv
<1>2. /\ UNCHANGED <<phase, asked, wire, inbox, outbox, replies>>
      /\ UNCHANGED <<backlog, owner, masterSet, maxFds, numClients, slot, at>>
      /\ pc' = "scan" /\ Owned' = Owned
  BY DEF Select, network, tables, Owned
<1>3. readSet' # {} /\ readSet' \subseteq masterSet /\ (Listener \in readSet' => backlog # <<>>)
  BY DEF Select, Ready
<1>4. TypeOK'
  BY <1>1, <1>2, <1>3 DEF TypeOK
<1>5. TablesAgree' /\ Turn' /\ Waiting' /\ Buffers'
  BY <1>1, <1>2, <1>3 DEF TablesAgree, Turn, Waiting, Buffers, Buffer, Filled
<1> QED BY <1>4, <1>5 DEF TInv

LEMMA AcceptStep == ASSUME TInv, Accept PROVE TInv'
<1>1. TypeOK /\ TablesAgree /\ Turn /\ Waiting /\ Buffers
  BY DEF TInv
<1>2. /\ pc = "scan" /\ Next1 = Listener /\ backlog' = Tail(backlog) /\ readSet' = Rest
      /\ pc' \in {"select", "scan"} /\ (pc' = "scan" => readSet' # {}) /\ at' = at
  BY DEF Accept, Go
<1>3. Rest \subseteq readSet /\ Listener \in readSet /\ Listener \notin Rest
  BY <1>1, <1>2, ScanTypes
<1>4. backlog \in Seq(Conns) /\ backlog # <<>> /\ Len(backlog) \in Nat /\ Len(backlog) >= 1
  <2>1. backlog \in Seq(Conns) /\ backlog # <<>>
    BY <1>1, <1>3 DEF TypeOK, Turn
  <2>2. Len(backlog) \in Nat \ {0}
    BY <2>1, EmptySeq
  <2> QED BY <2>1, <2>2
<1> DEFINE c == Head(backlog)
<1>5. /\ c \in Conns /\ c = backlog[1] /\ Tail(backlog) \in Seq(Conns)
      /\ Len(Tail(backlog)) = Len(backlog) - 1
      /\ \A i \in 1..Len(Tail(backlog)) : /\ Tail(backlog)[i] = backlog[i + 1]
                                           /\ i + 1 \in 1..Len(backlog) /\ i + 1 # 1
  <2>1. /\ c \in Conns /\ Tail(backlog) \in Seq(Conns) /\ Len(Tail(backlog)) = Len(backlog) - 1
        /\ \A i \in 1..Len(Tail(backlog)) : Tail(backlog)[i] = backlog[i + 1]
    BY <1>4, HeadTailProperties
  <2>2. c = backlog[1]
    BY <1>4
  <2>3. \A i \in 1..Len(Tail(backlog)) : i + 1 \in 1..Len(backlog) /\ i + 1 # 1
    BY <1>4, <2>1
  <2> QED BY <2>1, <2>2, <2>3
<1>6. /\ phase[c] \in {"up", "fin", "rst"} /\ \A g \in ClientFds : owner[g] # c
      /\ \A i \in 1..Len(Tail(backlog)) : /\ Tail(backlog)[i] # c /\ Tail(backlog)[i] \in Conns
                                           /\ phase[Tail(backlog)[i]] \in {"up", "fin", "rst"}
                                           /\ \A g \in ClientFds : owner[g] # Tail(backlog)[i]
  <2>1. 1 \in 1..Len(backlog)
    BY <1>4
  <2>2. phase[c] \in {"up", "fin", "rst"} /\ \A g \in ClientFds : owner[g] # c
    BY <1>1, <1>5, <2>1 DEF Waiting
  <2>3. ASSUME NEW i \in 1..Len(Tail(backlog))
        PROVE  /\ Tail(backlog)[i] # c /\ Tail(backlog)[i] \in Conns
               /\ phase[Tail(backlog)[i]] \in {"up", "fin", "rst"}
               /\ \A g \in ClientFds : owner[g] # Tail(backlog)[i]
    <3>1. i + 1 \in 1..Len(backlog) /\ i + 1 # 1 /\ Tail(backlog)[i] = backlog[i + 1]
      BY <1>5
    <3>2. backlog[i + 1] # backlog[1]
      BY <1>1, <2>1, <3>1 DEF Waiting
    <3>3. backlog[i + 1] \in Conns
      BY <1>4, <3>1, ElementOfSeq
    <3> QED BY <1>1, <1>5, <3>1, <3>2, <3>3 DEF Waiting
  <2> QED BY <2>2, <2>3
<1>7. \A i, j \in 1..Len(Tail(backlog)) : Tail(backlog)[i] = Tail(backlog)[j] => i = j
  <2> SUFFICES ASSUME NEW i \in 1..Len(Tail(backlog)), NEW j \in 1..Len(Tail(backlog)),
                      Tail(backlog)[i] = Tail(backlog)[j]
               PROVE  i = j
    OBVIOUS
  <2>1. i + 1 = j + 1
    BY <1>1, <1>5 DEF Waiting
  <2> QED BY <1>4, <1>5, <2>1
<1> HIDE DEF c
<1>8. CASE Full /\ Refuse(Head(backlog)) /\ UNCHANGED <<owner, masterSet, maxFds, numClients, slot>>
  <2>1. /\ phase' = [phase EXCEPT ![c] = "refused"] /\ Owned' = Owned
        /\ inbox' = [inbox EXCEPT ![c] = <<>>] /\ wire' = [wire EXCEPT ![c] = <<>>]
        /\ UNCHANGED <<asked, outbox, replies, owner, masterSet, maxFds, numClients, slot>>
    BY <1>8 DEF Refuse, Owned, c
  <2>2. NetTypes'
    <3>1. <<>> \in Seq(Unit) /\ NetTypes
      BY <1>1, EmptySeq, Halves
    <3> QED BY <1>5, <2>1, <3>1 DEF NetTypes
  <2>3. ServerTypes'
    <3>1. ServerTypes
      BY <1>1, Halves
    <3> QED BY <1>2, <1>3, <1>5, <2>1, <3>1 DEF ServerTypes
  <2>4. TablesAgree' /\ Turn' /\ Buffers'
    BY <1>1, <1>2, <1>3, <2>1 DEF TablesAgree, Turn, Buffers, Buffer, Filled
  <2>5. Waiting'
    <3>1. \A d \in Conns : d # c => phase'[d] = phase[d]
      BY <1>1, <2>1 DEF TypeOK
    <3>2. \A g \in Owned : owner[g] # c /\ owner[g] \in Conns
      BY <1>1, <1>6 DEF Owned, TypeOK
    <3>3. \A g \in Owned' : phase'[owner'[g]] \in {"up", "fin", "rst"}
      BY <1>1, <2>1, <3>1, <3>2 DEF Waiting
    <3>4. \A i \in 1..Len(Tail(backlog)) :
             /\ phase'[Tail(backlog)[i]] \in {"up", "fin", "rst"}
             /\ \A g \in ClientFds : owner'[g] # Tail(backlog)[i]
      BY <1>6, <2>1, <3>1
    <3>5. backlog' = Tail(backlog)
      BY <1>2
    <3> QED BY <1>7, <3>3, <3>4, <3>5 DEF Waiting
  <2> QED BY <2>2, <2>3, <2>4, <2>5, HalvesNext DEF TInv
<1>9. CASE ~Full /\ UNCHANGED network
  <2> DEFINE fd == FreeFd
  <2>1. fd \in ClientFds /\ owner[fd] = None /\ numClients + 1 \in 0..MaxClients
    BY <1>1, <1>9, FreeFdTypes
  <2> HIDE DEF fd
  <2>2. /\ owner' = [owner EXCEPT ![fd] = c] /\ masterSet' = masterSet \cup {fd}
        /\ maxFds' = (IF fd > maxFds THEN fd ELSE maxFds) /\ numClients' = numClients + 1
        /\ slot' = [slot EXCEPT ![fd - 1].st = "complete", ![fd - 1].alloc = BufNormal]
    BY <1>9 DEF Accept, fd, c, Full
  <2>3. UNCHANGED <<phase, asked, wire, inbox, outbox, replies>>
    BY <1>9 DEF network
  <2>4. /\ fd \in Nat /\ fd - 1 \in Index /\ fd # Listener /\ c # None
        /\ \A g \in ClientFds : g \in Nat /\ g - 1 \in Index
        /\ owner \in [ClientFds -> Conns \cup {None}] /\ slot \in [Index -> Slot]
        /\ maxFds \in {Listener} \cup ClientFds /\ Listener \in Nat
    BY <1>1, <1>5, <2>1, Consts DEF TypeOK
  <2>5. /\ owner' \in [ClientFds -> Conns \cup {None}] /\ owner'[fd] = c
        /\ \A g \in ClientFds : g # fd => owner'[g] = owner[g]
        /\ Owned' = Owned \cup {fd}
    BY <1>5, <2>1, <2>2, <2>4 DEF Owned
  <2>6. /\ slot' \in [Index -> Slot]
        /\ \A g \in ClientFds : g # fd => slot'[g - 1] = slot[g - 1]
        /\ Buffer(slot'[fd - 1]) /\ Filled(slot'[fd - 1])
    <3> DEFINE u == [slot[fd - 1] EXCEPT !.st = "complete", !.alloc = BufNormal]
    <3>1. BufNormal \in 0..BufMax /\ slot[fd - 1] \in Slot
      BY <2>4, Consts
    <3>2. u \in Slot /\ u.st = "complete" /\ u.alloc = BufNormal
      BY <3>1 DEF Slot
    <3>3. slot' = [slot EXCEPT ![fd - 1] = u]
      BY <2>2
    <3>4. Buffer(u) /\ Filled(u)
      BY <3>2 DEF Buffer, Filled
    <3> HIDE DEF u
    <3>5. slot'[fd - 1] = u
      BY <2>4, <3>3
    <3>6. slot' \in [Index -> Slot] /\ \A g \in ClientFds : g # fd => slot'[g - 1] = slot[g - 1]
      BY <2>4, <3>2, <3>3
    <3> QED BY <3>4, <3>5, <3>6
  <2>7. fd \notin masterSet
    BY <1>1, <2>1, <2>4 DEF TablesAgree
  <2>8. TypeOK'
    <3>1. NetTypes /\ ServerTypes
      BY <1>1, Halves
    <3>2. NetTypes'
      BY <2>3, <3>1 DEF NetTypes
    <3>3. maxFds' \in {Listener} \cup ClientFds /\ masterSet' \subseteq {Listener} \cup ClientFds
      BY <2>1, <2>2, <2>4, <3>1 DEF ServerTypes
    <3>4. readSet' \subseteq masterSet'
      BY <1>1, <1>2, <1>3, <2>2 DEF Turn
    <3>5. ServerTypes'
      BY <1>2, <1>5, <2>1, <2>2, <2>5, <2>6, <3>1, <3>3, <3>4 DEF ServerTypes
    <3> QED BY <3>2, <3>5, HalvesNext
  <2>9. TablesAgree'
    <3>1. masterSet' = {Listener} \cup {g \in ClientFds : owner'[g] # None}
      BY <1>1, <2>1, <2>2, <2>4, <2>5 DEF TablesAgree
    <3>2. \A g \in masterSet' : g <= maxFds'
      <4>1. \A g \in masterSet : g \in Nat /\ g <= maxFds
        BY <1>1, <2>4 DEF TablesAgree, TypeOK
      <4>2. maxFds \in Nat
        BY <2>4
      <4> QED BY <2>2, <2>4, <4>1, <4>2
    <3>3. numClients' = Cardinality(masterSet') - 1
      <4>1. IsFiniteSet(masterSet) /\ Cardinality(masterSet) = numClients + 1
        BY <1>1, OwnedCount
      <4>2. Cardinality(masterSet \cup {fd}) = numClients + 1 + 1
        BY <2>7, <4>1, FS_AddElement
      <4>3. numClients \in Int
        BY <1>1, Consts DEF TypeOK
      <4> QED BY <2>2, <4>2, <4>3
    <3>4. \A f, g \in ClientFds : owner'[f] = owner'[g] /\ owner'[f] # None => f = g
      BY <1>1, <1>6, <2>5 DEF TablesAgree
    <3> QED BY <3>1, <3>2, <3>3, <3>4 DEF TablesAgree
  <2>10. Turn'
    <3>1. readSet' \subseteq masterSet' /\ Listener \notin readSet'
      BY <1>1, <1>2, <1>3, <2>2 DEF Turn
    <3> QED BY <1>2, <3>1 DEF Turn
  <2>11. Waiting'
    <3>1. \A i \in 1..Len(Tail(backlog)) : \A g \in ClientFds : owner'[g] # Tail(backlog)[i]
      BY <1>6, <2>5
    <3>2. \A g \in Owned' : phase[owner'[g]] \in {"up", "fin", "rst"}
      BY <1>1, <1>6, <2>5 DEF Waiting, Owned
    <3> QED BY <1>2, <1>6, <1>7, <2>3, <3>1, <3>2 DEF Waiting
  <2>12. Buffers'
    <3> SUFFICES ASSUME NEW g \in Owned \cup {fd} PROVE Buffer(slot'[g - 1]) /\ Filled(slot'[g - 1])
      BY <2>5 DEF Buffers, Buffer, Filled
    <3>1. CASE g = fd
      BY <2>6, <3>1
    <3>2. CASE g # fd
      <4>1. g \in Owned /\ g \in ClientFds
        BY <3>2 DEF Owned
      <4> QED BY <1>1, <2>6, <3>2, <4>1 DEF Buffers
    <3> QED BY <3>1, <3>2
  <2> QED BY <2>8, <2>9, <2>10, <2>11, <2>12 DEF TInv
<1> QED BY <1>8, <1>9 DEF Accept

(* recv takes the first units of what has arrived.                           *)
LEMMA Received ==
    ASSUME NetTypes, NEW c \in Conns, NEW k \in Nat, k <= Len(inbox[c]),
           inbox' = [inbox EXCEPT ![c] = SubSeq(@, k + 1, Len(@))],
           UNCHANGED <<phase, asked, wire, outbox, replies>>
    PROVE  /\ NetTypes' /\ SubSeq(inbox[c], 1, k) \in Seq(Unit)
           /\ Len(SubSeq(inbox[c], 1, k)) = k
<1>1. inbox[c] \in Seq(Unit) /\ Len(inbox[c]) \in Nat
  BY LenProperties DEF NetTypes
<1>2. \A i \in 1..k : inbox[c][i] \in Unit
  BY <1>1, ElementOfSeq
<1>3. SubSeq(inbox[c], 1, k) \in Seq(Unit) /\ Len(SubSeq(inbox[c], 1, k)) = k
  BY <1>1, <1>2, SubSeqProperties
<1>4. \A i \in (k + 1)..Len(inbox[c]) : inbox[c][i] \in Unit
  BY <1>1, ElementOfSeq
<1>5. SubSeq(inbox[c], k + 1, Len(inbox[c])) \in Seq(Unit)
  BY <1>1, <1>4, SubSeqProperties
<1>6. NetTypes'
  BY <1>5 DEF NetTypes
<1> QED BY <1>3, <1>6

LEMMA LesserBounds ==
    ASSUME NEW a \in Nat, NEW b \in Nat
    PROVE  Lesser(a, b) \in Nat /\ Lesser(a, b) <= a /\ Lesser(a, b) <= b
BY DEF Lesser

LEMMA ReadHeaderStep == ASSUME TInv, ReadHeader PROVE TInv'
<1> DEFINE fd == Next1
           c == owner[fd]
           s == Fresh(slot[fd - 1])
           k == Lesser(HdrLen - Len(s.hdr), Len(inbox[c]))
           t == [s EXCEPT !.hdr = @ \o SubSeq(inbox[c], 1, k)]
           u == IF Len(t.hdr) = HdrLen THEN AfterHeader(t) ELSE t
<1>1. TypeOK /\ TablesAgree /\ Turn /\ Waiting /\ Buffers /\ NetTypes
  BY Halves DEF TInv
<1>2. pc = "scan" /\ fd # Listener /\ slot[fd - 1].st \in {"complete", "start"}
  BY DEF ReadHeader
<1>3. /\ fd \in Owned /\ fd \in ClientFds /\ c \in Conns
      /\ Rest \subseteq readSet /\ fd \notin Rest
  BY <1>1, <1>2, ScanTypes
<1> HIDE DEF fd
<1>4. slot[fd - 1] \in Slot /\ Buffer(slot[fd - 1]) /\ Filled(slot[fd - 1])
  BY <1>1, <1>3, SlotTypes DEF Buffers
<1>5. s \in Slot /\ Buffer(s) /\ s.st = "start" /\ Len(s.hdr) < HdrLen
  <2>1. /\ s \in Slot /\ Buffer(s)
        /\ slot[fd - 1].st # "complete" => s = slot[fd - 1]
        /\ slot[fd - 1].st = "complete" => s.st = "start" /\ s.hdr = <<>>
    BY <1>4, FreshEffect
  <2>2. CASE slot[fd - 1].st = "complete"
    BY <2>1, <2>2, Consts
  <2>3. CASE slot[fd - 1].st # "complete"
    BY <1>2, <1>4, <2>1, <2>3 DEF Filled
  <2> QED BY <2>1, <2>2, <2>3
<1> HIDE DEF s
<1>6. /\ s.hdr \in Seq(Unit) /\ Len(s.hdr) \in Nat /\ HdrLen \in Nat /\ Len(inbox[c]) \in Nat
      /\ k \in Nat /\ k <= Len(inbox[c]) /\ k <= HdrLen - Len(s.hdr)
  <2>1. s.hdr \in Seq(Unit) /\ HdrLen \in Nat /\ inbox[c] \in Seq(Unit)
    BY <1>1, <1>3, <1>5, Consts DEF Slot, NetTypes
  <2>2. Len(s.hdr) \in Nat /\ Len(inbox[c]) \in Nat
    BY <2>1, LenProperties
  <2>3. HdrLen - Len(s.hdr) \in Nat
    BY <1>5, <2>1, <2>2
  <2> QED BY <2>1, <2>2, <2>3, LesserBounds
<1> HIDE DEF k
<1>7. CASE Disconnect(fd, s) /\ Go /\ readSet' = Rest /\ UNCHANGED <<network, at>>
  <2>1. pc' \in {"select", "scan"} /\ (pc' = "scan" => readSet' # {})
    BY <1>7 DEF Go
  <2> QED BY <1>3, <1>5, <1>7, <2>1, DisconnectStep
<1>8. CASE /\ inbox' = [inbox EXCEPT ![c] = SubSeq(@, k + 1, Len(@))]
           /\ slot' = [slot EXCEPT ![fd - 1] = u] /\ Follow(fd, u)
           /\ UNCHANGED <<phase, asked, wire, outbox, replies, tables>>
  <2>1. NetTypes' /\ SubSeq(inbox[c], 1, k) \in Seq(Unit) /\ Len(SubSeq(inbox[c], 1, k)) = k
    BY <1>1, <1>3, <1>6, <1>8, Received
  <2>2. t \in Slot /\ t.st = "start" /\ Buffer(t) /\ Len(t.hdr) \in Nat /\ Len(t.hdr) <= HdrLen
    <3> DEFINE h == s.hdr \o SubSeq(inbox[c], 1, k)
    <3>1. h \in Seq(Unit) /\ Len(h) = Len(s.hdr) + k
      <4>1. h \in Seq(Unit) /\ Len(h) = Len(s.hdr) + Len(SubSeq(inbox[c], 1, k))
        BY <1>6, <2>1, ConcatProperties
      <4> QED BY <2>1, <4>1
    <3>2. t = [s EXCEPT !.hdr = h]
      OBVIOUS
    <3> HIDE DEF h, t
    <3>3. t \in Slot /\ t.hdr = h /\ t.st = "start" /\ t.bufsz = s.bufsz /\ t.alloc = s.alloc
      BY <1>5, <3>1, <3>2 DEF Slot
    <3>4. Buffer(t)
      BY <1>5, <3>3 DEF Buffer
    <3> QED BY <1>6, <3>1, <3>3, <3>4
  <2> HIDE DEF t
  <2>3. u \in Slot /\ Buffer(u) /\ Filled(u)
    <3>1. CASE Len(t.hdr) = HdrLen
      <4>1. /\ AfterHeader(t) \in Slot /\ Buffer(AfterHeader(t)) /\ AfterHeader(t).st # "start"
            /\ AfterHeader(t).hdr = t.hdr /\ AfterHeader(t).pay = <<>>
            /\ AfterHeader(t).st = "hdr_valid" => AfterHeader(t).need > 0
        BY <1>1, <2>2, <3>1, AfterHeaderEffect
      <4>2. u = AfterHeader(t)
        BY <3>1
      <4> HIDE DEF u
      <4> QED BY <3>1, <4>1, <4>2 DEF Filled
    <3>2. CASE Len(t.hdr) # HdrLen
      <4>1. u = t
        BY <3>2
      <4> HIDE DEF u
      <4> QED BY <1>6, <2>2, <3>2, <4>1 DEF Filled
    <3> QED BY <3>1, <3>2
  <2> HIDE DEF u
  <2>4. /\ readSet' = Rest /\ at' = fd /\ pc' \in {"select", "scan", "payload", "send"}
        /\ pc' = "scan" => readSet' # {}
        /\ pc' = "payload" => u.st = "hdr_valid"
        /\ pc' = "send" => u.st = "got_payload"
    BY <1>8 DEF Follow, Go
  <2> QED BY <1>3, <1>8, <2>1, <2>3, <2>4, SlotStep
<1> QED
  <2>1. \/ Disconnect(fd, s) /\ Go /\ readSet' = Rest /\ UNCHANGED <<network, at>>
        \/ /\ inbox' = [inbox EXCEPT ![c] = SubSeq(@, k + 1, Len(@))]
           /\ slot' = [slot EXCEPT ![fd - 1] = u] /\ Follow(fd, u)
           /\ UNCHANGED <<phase, asked, wire, outbox, replies, tables>>
    BY DEF ReadHeader, fd, s, k
  <2> QED BY <1>7, <1>8, <2>1

LEMMA ReadPayloadStep == ASSUME TInv, ReadPayload PROVE TInv'
<1> DEFINE fd == IF pc = "payload" THEN at ELSE Next1
           left == IF pc = "payload" THEN readSet ELSE Rest
           c == owner[fd]
           s == slot[fd - 1]
           k == Lesser(s.need - Len(s.pay), Len(inbox[c]))
           done == Len(s.pay) + k = s.need
           next == IF left = {} THEN "select" ELSE "scan"
<1>1. TypeOK /\ TablesAgree /\ Turn /\ Waiting /\ Buffers /\ NetTypes
  BY Halves DEF TInv
<1>2. /\ pc = "payload" \/ (pc = "scan" /\ Next1 # Listener /\ slot[Next1 - 1].st = "hdr_valid")
      /\ readSet' = left
      /\ \/ Disconnect(fd, s) /\ pc' = next /\ UNCHANGED <<network, at>>
         \/ pc' = next /\ UNCHANGED <<network, tables, slot, at>>
         \/ /\ inbox' = [inbox EXCEPT ![c] = SubSeq(@, k + 1, Len(@))]
            /\ slot' = [slot EXCEPT ![fd - 1].pay = @ \o SubSeq(inbox[c], 1, k),
                                    ![fd - 1].st = IF done THEN "got_payload" ELSE @]
            /\ at' = fd /\ pc' = (IF done THEN "send" ELSE next)
            /\ UNCHANGED <<phase, asked, wire, outbox, replies, tables>>
  BY ZenonT(60) DEF ReadPayload
<1>3. /\ fd \in Owned /\ fd \in ClientFds /\ c \in Conns
      /\ left \subseteq readSet /\ fd \notin left /\ s.st = "hdr_valid"
  <2>1. \A g \in Owned : g \in ClientFds /\ owner[g] \in Conns
    BY <1>1 DEF Owned, TypeOK
  <2>2. CASE pc = "payload"
    BY <1>1, <2>1, <2>2 DEF Turn
  <2>3. CASE pc # "payload"
    BY <1>1, <1>2, <2>3, ScanTypes
  <2> QED BY <2>2, <2>3
<1> HIDE DEF fd, left
<1>4. s \in Slot /\ Buffer(s) /\ Filled(s)
  BY <1>1, <1>3, SlotTypes DEF Buffers
<1>5. next \in {"select", "scan"} /\ (next = "scan" => left # {})
  OBVIOUS
<1> HIDE DEF s, next
<1>6. /\ s.pay \in Seq(Unit) /\ Len(s.pay) \in Nat /\ s.need \in Nat /\ Len(inbox[c]) \in Nat
      /\ k \in Nat /\ k <= Len(inbox[c]) /\ k <= s.need - Len(s.pay)
  <2>1. s.pay \in Seq(Unit) /\ s.need \in Nat /\ inbox[c] \in Seq(Unit)
    BY <1>1, <1>3, <1>4, Consts DEF Slot, NetTypes
  <2>2. Len(s.pay) \in Nat /\ Len(inbox[c]) \in Nat /\ Len(s.pay) < s.need
    BY <1>3, <1>4, <2>1, LenProperties DEF Filled
  <2>3. s.need - Len(s.pay) \in Nat
    BY <2>1, <2>2
  <2> QED BY <2>1, <2>2, <2>3, LesserBounds
<1> HIDE DEF k
<1>7. CASE Disconnect(fd, s) /\ pc' = next /\ UNCHANGED <<network, at>>
  BY <1>2, <1>3, <1>4, <1>5, <1>7, DisconnectStep
<1>8. CASE pc' = next /\ UNCHANGED <<network, tables, slot, at>>
  <2>1. UNCHANGED <<backlog, owner, masterSet, maxFds, numClients, slot, at>> /\ Owned' = Owned
        /\ UNCHANGED <<phase, asked, wire, inbox, outbox, replies>>
    BY <1>8 DEF tables, network, Owned
  <2>2. NetTypes'
    BY <1>1, <2>1 DEF NetTypes
  <2>3. ServerTypes'
    <3>1. ServerTypes
      BY <1>1, Halves
    <3> QED BY <1>2, <1>3, <1>5, <1>8, <2>1, <3>1 DEF ServerTypes
  <2>4. TablesAgree' /\ Turn' /\ Waiting' /\ Buffers'
    BY <1>1, <1>2, <1>3, <1>5, <1>8, <2>1 DEF TablesAgree, Turn, Waiting, Buffers, Buffer, Filled
  <2> QED BY <2>2, <2>3, <2>4, HalvesNext DEF TInv
<1>9. CASE /\ inbox' = [inbox EXCEPT ![c] = SubSeq(@, k + 1, Len(@))]
           /\ slot' = [slot EXCEPT ![fd - 1].pay = @ \o SubSeq(inbox[c], 1, k),
                                   ![fd - 1].st = IF done THEN "got_payload" ELSE @]
           /\ at' = fd /\ pc' = (IF done THEN "send" ELSE next)
           /\ UNCHANGED <<phase, asked, wire, outbox, replies, tables>>
  <2> DEFINE pay == s.pay \o SubSeq(inbox[c], 1, k)
             st == IF done THEN "got_payload" ELSE s.st
             u == [s EXCEPT !.pay = pay, !.st = st]
  <2>1. NetTypes' /\ SubSeq(inbox[c], 1, k) \in Seq(Unit) /\ Len(SubSeq(inbox[c], 1, k)) = k
    BY <1>1, <1>3, <1>6, <1>9, Received
  <2>2. pay \in Seq(Unit) /\ Len(pay) = Len(s.pay) + k
    <3>1. pay \in Seq(Unit) /\ Len(pay) = Len(s.pay) + Len(SubSeq(inbox[c], 1, k))
      BY <1>6, <2>1, ConcatProperties
    <3> QED BY <2>1, <3>1
  <2> HIDE DEF pay
  <2>3. /\ st \in {"got_payload", "hdr_valid"} /\ (done => st = "got_payload")
        /\ (st = "hdr_valid" => Len(pay) < s.need)
    BY <1>3, <1>6, <2>2
  <2>4. slot' = [slot EXCEPT ![fd - 1] = u]
    BY <1>9 DEF s, pay
  <2> HIDE DEF st, done
  <2>5. /\ u \in Slot /\ u.st = st /\ u.pay = pay /\ u.hdr = s.hdr
        /\ u.need = s.need /\ u.bufsz = s.bufsz /\ u.alloc = s.alloc
    BY <1>4, <2>2, <2>3 DEF Slot
  <2> HIDE DEF u
  <2>6. Buffer(u) /\ Filled(u)
    BY <1>3, <1>4, <2>3, <2>5 DEF Buffer, Filled
  <2>7. /\ pc' \in {"select", "scan", "payload", "send"} /\ pc' # "payload"
        /\ pc' = "scan" => readSet' # {}
        /\ pc' = "send" => u.st = "got_payload"
    BY <1>2, <1>5, <1>9, <2>3, <2>5
  <2> QED BY <1>2, <1>3, <1>9, <2>1, <2>4, <2>5, <2>6, <2>7, SlotStep
<1> QED BY <1>2, <1>7, <1>8, <1>9

LEMMA AnswerStep == ASSUME TInv, Answer PROVE TInv'
<1> DEFINE c == owner[at]
           n == slot[at - 1].hdr[1].req
           u == [slot[at - 1] EXCEPT !.st = "complete"]
<1>1. TypeOK /\ TablesAgree /\ Turn /\ Waiting /\ Buffers /\ NetTypes
  BY Halves DEF TInv
<1>2. /\ at \in Owned /\ at \in ClientFds /\ c \in Conns /\ at \notin readSet
      /\ slot[at - 1].st = "got_payload"
  BY <1>1 DEF Answer, Turn, Owned, TypeOK
<1>3. slot[at - 1] \in Slot /\ Buffer(slot[at - 1]) /\ Filled(slot[at - 1])
  BY <1>1, <1>2, SlotTypes DEF Buffers
<1>4. n \in 1..MaxReqs
  <2>1. slot[at - 1].hdr \in Seq(Unit) /\ 1 \in 1..Len(slot[at - 1].hdr)
    BY <1>2, <1>3, Consts DEF Slot, Filled
  <2>2. slot[at - 1].hdr[1] \in Unit
    BY <2>1, ElementOfSeq
  <2> QED BY <2>2 DEF Unit
<1>5. u \in Slot /\ Buffer(u) /\ Filled(u)
  <2>1. /\ u \in Slot /\ u.st = "complete" /\ u.bufsz = slot[at - 1].bufsz
        /\ u.alloc = slot[at - 1].alloc
    BY <1>3 DEF Slot
  <2>2. /\ slot[at - 1].alloc = slot[at - 1].bufsz /\ slot[at - 1].bufsz >= BufNormal
        /\ slot[at - 1].bufsz \in Nat /\ BufNormal \in Nat
    BY <1>2, <1>3, Consts DEF Buffer, Slot
  <2> HIDE DEF u
  <2> QED BY <2>1, <2>2 DEF Buffer, Filled
<1>6. slot' = [slot EXCEPT ![at - 1] = u]
  BY DEF Answer
<1> HIDE DEF n, u
<1>7. /\ pc' \in {"select", "scan"} /\ (pc' = "scan" => readSet' # {})
      /\ UNCHANGED <<phase, asked, wire, inbox, tables, readSet, at>>
  BY DEF Answer
<1>8. /\ outbox[c] \in Seq(1..MaxReqs) /\ replies[c] \in Seq(1..MaxReqs)
      /\ Append(outbox[c], n) \in Seq(1..MaxReqs) /\ Append(replies[c], n) \in Seq(1..MaxReqs)
  <2>1. outbox[c] \in Seq(1..MaxReqs) /\ replies[c] \in Seq(1..MaxReqs)
    BY <1>1, <1>2 DEF NetTypes
  <2> QED BY <1>4, <2>1, AppendProperties
<1>9. outbox' \in [Conns -> Seq(1..MaxReqs)] /\ replies' \in [Conns -> Seq(1..MaxReqs)]
  <2>1. \/ UNCHANGED <<outbox, replies>>
        \/ /\ outbox' = [outbox EXCEPT ![c] = Append(@, n)]
           /\ replies' = [replies EXCEPT ![c] = Append(@, n)]
    BY DEF Answer, n
  <2> QED BY <1>1, <1>2, <1>8, <2>1 DEF NetTypes
<1>10. NetTypes'
  BY <1>1, <1>7, <1>9 DEF NetTypes
<1> QED BY <1>2, <1>5, <1>6, <1>7, <1>10, SlotStep

LEMMA StutterStep == ASSUME TInv, UNCHANGED vars PROVE TInv'
<1>1. /\ UNCHANGED <<phase, asked, wire, inbox, outbox, replies>>
      /\ UNCHANGED <<tables, readSet, slot, pc, at>>
  BY DEF vars, network
<1>2. NetTypes'
  BY <1>1, Halves DEF TInv, NetTypes
<1> QED BY <1>1, <1>2, NetworkStep DEF Lives
-----------------------------------------------------------------------------
LEMMA InitInv == Init => TInv
<1> SUFFICES ASSUME Init PROVE TInv
  OBVIOUS
<1>1. \A fd \in ClientFds : owner[fd] = None
  BY DEF Init
<1>2. Owned = {} /\ {fd \in ClientFds : owner[fd] # None} = {}
  BY <1>1 DEF Owned
<1>3. TypeOK
  <2>1. /\ <<>> \in Seq(Unit) /\ <<>> \in Seq(1..MaxReqs) /\ <<>> \in Seq(Conns)
        /\ <<>> \in Seq([size : Payloads, ok : BOOLEAN])
    BY EmptySeq
  <2>2. Idle \in Slot
    BY <2>1, Consts DEF Idle, Slot
  <2>3. NetTypes
    BY <2>1 DEF Init, NetTypes
  <2>4. ServerTypes
    BY <2>1, <2>2, Consts DEF Init, ServerTypes
  <2> QED BY <2>3, <2>4, Halves
<1>4. TablesAgree
  <2>1. Cardinality({Listener}) = 1
    BY FS_Singleton
  <2>2. Listener <= Listener
    BY Consts
  <2> QED BY <1>1, <1>2, <2>1, <2>2 DEF Init, TablesAgree
<1>5. Turn /\ Waiting /\ Buffers
  BY <1>2, EmptySeq DEF Init, Turn, Waiting, Buffers
<1> QED BY <1>3, <1>4, <1>5 DEF TInv

LEMMA StepInv == TInv /\ [Next]_vars => TInv'
BY ClientSteps, SelectStep, AcceptStep, ReadHeaderStep, ReadPayloadStep, AnswerStep, StutterStep
   DEF Next, ServerStep

(* The tables of the server, the turn of its scan, the connections waiting   *)
(* and the buffers keep the invariant in every behaviour.                    *)
THEOREM TablesInvariant == Spec => []TInv
BY InitInv, StepInv, PTL DEF Spec

(* Every variable keeps its type: numConnectedClients stays within           *)
(* NET_MAX_CLIENTS, descriptors are those that can be open, and a response   *)
(* is sent for the number of a request.                                      *)
THEOREM TypeCorrect == Spec => []TypeOK
<1>1. TInv => TypeOK
  BY DEF TInv
<1> QED BY <1>1, TablesInvariant, PTL

(* Through accepts, refusals and disconnections in any order the set the     *)
(* server selects on, maxFds, numConnectedClients and the open descriptors   *)
(* agree.                                                                    *)
THEOREM TablesAgreeAlways == Spec => []TablesAgree
<1>1. TInv => TablesAgree
  BY DEF TInv
<1> QED BY <1>1, TablesInvariant, PTL

(* The payload buffer of a client is as large as payloadBufferSz says, and    *)
(* as the payload that is being read into it, over all its packets and all    *)
(* the clients its entry of state[] serves.                                   *)
THEOREM BufferHoldsAlways == Spec => []BufferHolds
<1>1. TInv => BufferHolds
  BY DEF TInv, Buffers, Buffer, Owned, BufferHolds
<1> QED BY <1>1, TablesInvariant, PTL

-----------------------------------------------------------------------------
(* The streams of the connections.                                          *)
Reqs == Seq([size : Payloads, ok : BOOLEAN])
Total(reqs, n) == HdrLen + reqs[n].size

(* Unit b follows unit a in the stream of the requests reqs.                 *)
Follows(reqs, a, b) ==
    \/ b.req = a.req /\ b.part = a.part + 1
    \/ b.req = a.req + 1 /\ b.part = 1 /\ a.part = Total(reqs, a.req)

Stream(c, reqs, f) ==
    /\ \A k \in 1..Len(f) : /\ f[k].conn = c /\ f[k].req \in 1..Len(reqs)
                            /\ f[k].part \in 1..Total(reqs, f[k].req)
    /\ \A k \in 2..Len(f) : Follows(reqs, f[k - 1], f[k])

(* Nothing is missing at the end of f.                                       *)
Ends(reqs, f) ==
    f # <<>> => f[Len(f)].req = Len(reqs) /\ f[Len(f)].part = Total(reqs, Len(reqs))

Later(rs, f) == \A k \in 1..Len(f), i \in 1..Len(rs) : rs[i] < f[k].req

Answered(reqs, rs) ==
    \A i \in 1..Len(rs) : /\ rs[i] \in 1..Len(reqs) /\ reqs[rs[i]].ok
                          /\ i > 1 => rs[i - 1] < rs[i]

Packet(c, reqs, s) ==
    /\ s.st = "start" => s.pay = <<>>
    /\ s.st \in {"hdr_valid", "got_payload"} =>
          \E n \in 1..Len(reqs) : /\ HeaderOf(s.hdr, c, n) /\ reqs[n].ok /\ s.need = reqs[n].size
                                  /\ s.st = "got_payload" => Len(s.pay) = s.need

Held(s)   == IF s.st = "complete" THEN <<>> ELSE s.hdr \o s.pay
Coming(c) == inbox[c] \o wire[c]

Open(p) == p \in {"new", "up"}
Good(c, p, reqs, rs, f) ==
    Stream(c, reqs, f) /\ Later(rs, f) /\ (Open(p) => Ends(reqs, f))

ConnInv(c) ==
    /\ Good(c, phase[c], asked[c], replies[c], Coming(c))
    /\ Answered(asked[c], replies[c])
FdInv(fd) ==
    LET c == owner[fd]
    IN /\ Good(c, phase[c], asked[c], replies[c], Held(slot[fd - 1]) \o Coming(c))
       /\ Packet(c, asked[c], slot[fd - 1])
SInv == (\A c \in Conns : ConnInv(c)) /\ (\A fd \in Owned : FdInv(fd))
-----------------------------------------------------------------------------
(* Pieces of a stream.                                                       *)
LEMMA Back ==
    ASSUME NEW c, NEW reqs, NEW rs, NEW a \in Seq(Unit), NEW b \in Seq(Unit)
    PROVE  /\ Stream(c, reqs, a \o b) => Stream(c, reqs, b)
           /\ Later(rs, a \o b) => Later(rs, b)
           /\ Ends(reqs, a \o b) => Ends(reqs, b)
<1>1. /\ Len(a) \in Nat /\ Len(b) \in Nat /\ a \o b \in Seq(Unit)
      /\ Len(a \o b) = Len(a) + Len(b)
      /\ \A k \in 1..Len(b) : Len(a) + k \in 1..Len(a \o b) /\ (a \o b)[Len(a) + k] = b[k]
  <2>1. /\ Len(a) \in Nat /\ Len(b) \in Nat /\ a \o b \in Seq(Unit)
        /\ Len(a \o b) = Len(a) + Len(b)
        /\ \A i \in 1 .. Len(a) + Len(b) : (a \o b)[i] = IF i <= Len(a) THEN a[i] ELSE b[i - Len(a)]
    BY ConcatProperties, LenProperties
  <2>2. ASSUME NEW k \in 1..Len(b)
        PROVE  Len(a) + k \in 1..Len(a \o b) /\ (a \o b)[Len(a) + k] = b[k]
    <3>1. Len(a) + k \in 1..(Len(a) + Len(b)) /\ ~(Len(a) + k <= Len(a)) /\ (Len(a) + k) - Len(a) = k
      BY <2>1
    <3> QED BY <2>1, <3>1
  <2> QED BY <2>1, <2>2
<1> DEFINE f == a \o b
<1>2. f = a \o b
  OBVIOUS
<1> HIDE DEF f
<1>3. ASSUME Stream(c, reqs, f) PROVE Stream(c, reqs, b)
  <2>1. \A k \in 1..Len(b) : /\ b[k].conn = c /\ b[k].req \in 1..Len(reqs)
                              /\ b[k].part \in 1..Total(reqs, b[k].req)
    BY <1>1, <1>2, <1>3 DEF Stream
  <2>2. ASSUME NEW k \in 2..Len(b) PROVE Follows(reqs, b[k - 1], b[k])
    <3>1. /\ k \in 1..Len(b) /\ k - 1 \in 1..Len(b) /\ Len(a) + k \in 2..Len(f)
          /\ Len(a) + (k - 1) = (Len(a) + k) - 1
      BY <1>1, <1>2
    <3>2. f[Len(a) + k] = b[k] /\ f[(Len(a) + k) - 1] = b[k - 1]
      BY <1>1, <1>2, <3>1
    <3>3. Follows(reqs, f[(Len(a) + k) - 1], f[Len(a) + k])
      BY <1>3, <3>1 DEF Stream
    <3> QED BY <3>2, <3>3
  <2> QED BY <2>1, <2>2 DEF Stream
<1>4. ASSUME Later(rs, f) PROVE Later(rs, b)
  BY <1>1, <1>2, <1>4 DEF Later
<1>5. ASSUME Ends(reqs, f), b # <<>> PROVE Ends(reqs, b)
  <2>1. Len(b) \in 1..Len(b) /\ Len(b) >= 1
    BY <1>1, <1>5, EmptySeq
  <2>2. f[Len(f)] = b[Len(b)] /\ f # <<>>
    BY <1>1, <1>2, <2>1
  <2> QED BY <1>5, <2>2 DEF Ends
<1> QED BY <1>2, <1>3, <1>4, <1>5 DEF Ends

LEMMA Front ==
    ASSUME NEW c, NEW reqs, NEW rs, NEW a \in Seq(Unit), NEW b \in Seq(Unit)
    PROVE  /\ Stream(c, reqs, a \o b) => Stream(c, reqs, a)
           /\ Later(rs, a \o b) => Later(rs, a)
<1>1. /\ Len(a) \in Nat /\ Len(b) \in Nat /\ Len(a \o b) = Len(a) + Len(b)
      /\ \A i \in 1 .. Len(a) + Len(b) : (a \o b)[i] = IF i <= Len(a) THEN a[i] ELSE b[i - Len(a)]
  BY ConcatProperties, LenProperties
<1> DEFINE f == a \o b
<1>2. /\ \A k \in 1..Len(a) : k \in 1..Len(f) /\ f[k] = a[k]
      /\ \A k \in 2..Len(a) : k \in 2..Len(f) /\ k - 1 \in 1..Len(a) /\ k \in 1..Len(a)
  BY <1>1
<1>3. f = a \o b
  OBVIOUS
<1> HIDE DEF f
<1>4. ASSUME Stream(c, reqs, f) PROVE Stream(c, reqs, a)
  BY <1>2, <1>4 DEF Stream
<1>5. ASSUME Later(rs, f) PROVE Later(rs, a)
  BY <1>2, <1>5 DEF Later
<1> QED BY <1>3, <1>4, <1>5

LEMMA NoUnits ==
    ASSUME NEW c, NEW reqs, NEW rs
    PROVE  Stream(c, reqs, <<>>) /\ Later(rs, <<>>) /\ Ends(reqs, <<>>)
<1>1. 1..0 = {} /\ 2..0 = {} /\ Len(<<>>) = 0
  BY EmptySeq
<1> QED BY <1>1 DEF Stream, Later, Ends

(* After a whole request the stream goes on with the next one.               *)
LEMMA WholeRequest ==
    ASSUME NEW c, NEW reqs \in Reqs, NEW n \in 1..Len(reqs), NEW h \in Seq(Unit), NEW g \in Seq(Unit),
           Stream(c, reqs, h \o g), Len(h) = Total(reqs, n),
           \A k \in 1..HdrLen : h[k].req = n /\ h[k].part = k
    PROVE  \A k \in 1..Len(g) : n < g[k].req
<1> DEFINE f == h \o g
           T == Total(reqs, n)
<1>1. n \in Nat /\ T \in Nat /\ T >= HdrLen /\ HdrLen \in Nat /\ HdrLen >= 1
  <2>1. n \in Nat /\ Len(reqs) \in Nat
    BY LenProperties DEF Reqs
  <2>2. reqs[n] \in [size : Payloads, ok : BOOLEAN]
    BY ElementOfSeq DEF Reqs
  <2>3. reqs[n].size \in Nat /\ HdrLen \in Nat /\ HdrLen >= 1
    BY <2>2, Consts
  <2> QED BY <2>1, <2>3 DEF Total
<1>2. /\ f \in Seq(Unit) /\ Len(f) = T + Len(g) /\ Len(g) \in Nat
      /\ \A i \in 1 .. Len(h) + Len(g) : f[i] = IF i <= Len(h) THEN h[i] ELSE g[i - Len(h)]
  BY ConcatProperties, LenProperties
<1>3. \A k \in 1..Len(f) : f[k] \in Unit /\ f[k].req \in Nat /\ f[k].part \in Nat
  <2>1. \A k \in 1..Len(f) : f[k] \in Unit
    BY <1>2, ElementOfSeq
  <2>2. \A u \in Unit : u.req \in Nat /\ u.part \in Nat
    BY Consts DEF Unit
  <2> QED BY <2>1, <2>2
<1>4. /\ \A k \in 1..HdrLen : f[k].req = n /\ f[k].part = k
      /\ \A k \in 1..Len(g) : T + k \in 1..Len(f) /\ f[T + k] = g[k]
  <2>1. ASSUME NEW k \in 1..HdrLen PROVE f[k] = h[k]
    <3>1. k \in 1..(Len(h) + Len(g)) /\ k <= Len(h)
      BY <1>1, <1>2
    <3> QED BY <1>2, <3>1
  <2>2. ASSUME NEW k \in 1..Len(g) PROVE T + k \in 1..Len(f) /\ f[T + k] = g[k]
    <3>1. T + k \in 1..(Len(h) + Len(g)) /\ ~(T + k <= Len(h)) /\ (T + k) - Len(h) = k
      BY <1>1, <1>2
    <3> QED BY <1>2, <3>1
  <2> QED BY <2>1, <2>2
<1>5. /\ \A k \in 1..Len(f) : f[k].part \in 1..Total(reqs, f[k].req)
      /\ \A k \in 2..Len(f) : Follows(reqs, f[k - 1], f[k])
  BY DEF Stream
<1> HIDE DEF f, T
<1>6. \A k \in 1..T : f[k].req = n /\ f[k].part = k
  <2> DEFINE B == {k \in 1..T : ~(f[k].req = n /\ f[k].part = k)}
  <2> SUFFICES ASSUME B # {} PROVE FALSE
    OBVIOUS
  <2>1. B \in SUBSET Nat
    BY <1>1
  <2>2. PICK m \in B : \A k \in B : m <= k
    BY <2>1, Least
  <2>3. m \in 1..T /\ m > HdrLen /\ m \in 2..Len(f) /\ m - 1 \in 1..T /\ m - 1 \notin B
    <3>1. m \in 1..T /\ m \notin 1..HdrLen /\ m \in Nat
      BY <1>1, <1>4, <2>2
    <3>2. ~(m <= m - 1) /\ m > HdrLen /\ m \in 2..Len(f) /\ m - 1 \in 1..T
      BY <1>1, <1>2, <3>1
    <3> QED BY <2>2, <3>1, <3>2
  <2>4. f[m - 1].req = n /\ f[m - 1].part = m - 1
    BY <2>3
  <2>5. Follows(reqs, f[m - 1], f[m])
    BY <1>5, <2>3
  <2>6. f[m - 1].part # Total(reqs, f[m - 1].req)
    BY <1>1, <2>3, <2>4 DEF T
  <2>7. f[m].req = n /\ f[m].part = m
    BY <1>1, <2>3, <2>4, <2>5, <2>6 DEF Follows
  <2> QED BY <2>2, <2>7
<1>7. \A k \in (T + 1)..Len(f) : n < f[k].req
  <2> DEFINE B == {k \in (T + 1)..Len(f) : ~(n < f[k].req)}
  <2> SUFFICES ASSUME B # {} PROVE FALSE
    OBVIOUS
  <2>1. B \in SUBSET Nat
    BY <1>1, <1>2
  <2>2. PICK m \in B : \A k \in B : m <= k
    BY <2>1, Least
  <2>3. m \in (T + 1)..Len(f) /\ m \in 2..Len(f) /\ m \in 1..Len(f) /\ m - 1 \in 1..Len(f) /\ m - 1 \notin B
    <3>1. m \in (T + 1)..Len(f) /\ m \in Nat /\ T \in Nat /\ Len(f) \in Nat /\ T >= 1
      BY <1>1, <1>2, <2>2
    <3> QED BY <2>2, <3>1
  <2>4. /\ Follows(reqs, f[m - 1], f[m])
        /\ f[m].part \in 1..Total(reqs, f[m].req)
    BY <1>5, <2>3
  <2>5. /\ f[m].req \in Nat /\ f[m - 1].req \in Nat /\ f[m - 1].part \in Nat
    BY <1>3, <2>3
  <2>6. CASE m - 1 = T
    <3>1. f[m - 1].req = n /\ f[m - 1].part = T
      BY <1>1, <1>6, <2>6
    <3>2. CASE f[m].req = n /\ f[m].part = T + 1
      BY <1>1, <2>4, <3>2 DEF T
    <3>3. CASE f[m].req = n + 1
      BY <1>1, <2>2, <3>3
    <3> QED BY <2>4, <3>1, <3>2, <3>3 DEF Follows
  <2>7. CASE m - 1 # T
    <3>1. n < f[m - 1].req
      <4>1. m - 1 \in (T + 1)..Len(f)
        BY <1>1, <1>2, <2>3, <2>7
      <4> QED BY <2>3, <4>1
    <3>2. n < f[m].req
      BY <1>1, <2>4, <2>5, <3>1 DEF Follows
    <3> QED BY <2>2, <3>2
  <2> QED BY <2>6, <2>7
<1> QED
  <2> SUFFICES ASSUME NEW k \in 1..Len(g) PROVE n < g[k].req
    OBVIOUS
  <2>1. T + k \in (T + 1)..Len(f) /\ f[T + k] = g[k]
    BY <1>1, <1>2, <1>4
  <2> QED BY <1>7, <2>1

(* One more request is asked.                                                *)
LEMMA Longer ==
    ASSUME NEW c, NEW reqs \in Reqs, NEW r \in [size : Payloads, ok : BOOLEAN], NEW f, NEW rs, NEW s
    PROVE  /\ Len(reqs) \in Nat /\ Append(reqs, r) \in Reqs
           /\ Len(Append(reqs, r)) = Len(reqs) + 1 /\ Append(reqs, r)[Len(reqs) + 1] = r
           /\ Stream(c, reqs, f) => Stream(c, Append(reqs, r), f)
           /\ Answered(reqs, rs) => Answered(Append(reqs, r), rs)
           /\ Packet(c, reqs, s) => Packet(c, Append(reqs, r), s)
<1> DEFINE q == Append(reqs, r)
<1>1. /\ Len(reqs) \in Nat /\ q \in Reqs /\ Len(q) = Len(reqs) + 1 /\ q[Len(reqs) + 1] = r
      /\ \A i \in 1..Len(reqs) : q[i] = reqs[i]
  BY AppendProperties, LenProperties DEF Reqs
<1> HIDE DEF q
<1>2. \A i \in 1..Len(reqs) : i \in 1..Len(q) /\ Total(q, i) = Total(reqs, i) /\ q[i] = reqs[i]
  BY <1>1 DEF Total
<1>3. ASSUME Stream(c, reqs, f) PROVE Stream(c, q, f)
  <2>1. \A k \in 1..Len(f) : /\ f[k].conn = c /\ f[k].req \in 1..Len(q)
                              /\ f[k].part \in 1..Total(q, f[k].req)
    BY <1>2, <1>3 DEF Stream
  <2>2. ASSUME NEW k \in 2..Len(f) PROVE Follows(q, f[k - 1], f[k])
    <3>1. k - 1 \in 1..Len(f)
      OBVIOUS
    <3>2. f[k - 1].req \in 1..Len(reqs) /\ Follows(reqs, f[k - 1], f[k])
      BY <1>3, <3>1 DEF Stream
    <3>3. Total(q, f[k - 1].req) = Total(reqs, f[k - 1].req)
      BY <1>2, <3>2
    <3> QED BY <3>2, <3>3 DEF Follows
  <2> QED BY <2>1, <2>2 DEF Stream
<1>4. ASSUME Answered(reqs, rs) PROVE Answered(q, rs)
  BY <1>2, <1>4 DEF Answered
<1>5. ASSUME Packet(c, reqs, s) PROVE Packet(c, q, s)
  BY <1>2, <1>5 DEF Packet
<1> QED BY <1>1, <1>3, <1>4, <1>5 DEF q

Posted(c, reqs, p) == [k \in 1..(HdrLen + p) |-> [conn |-> c, req |-> Len(reqs) + 1, part |-> k]]

LEMMA PostedUnits ==
    ASSUME NEW c \in Conns, NEW reqs \in Reqs, NEW p \in Payloads, Len(reqs) < MaxReqs
    PROVE  /\ Posted(c, reqs, p) \in Seq(Unit) /\ Len(Posted(c, reqs, p)) = HdrLen + p
           /\ HdrLen + p \in Nat /\ HdrLen + p >= 1 /\ Len(reqs) \in Nat
           /\ \A k \in 1..(HdrLen + p) : /\ Posted(c, reqs, p)[k].conn = c
                                          /\ Posted(c, reqs, p)[k].req = Len(reqs) + 1
                                          /\ Posted(c, reqs, p)[k].part = k
<1>1. HdrLen + p \in Nat /\ HdrLen + p >= 1 /\ Len(reqs) \in Nat /\ Len(reqs) + 1 \in 1..MaxReqs
  <2>1. p \in Nat /\ HdrLen \in Nat /\ HdrLen >= 1 /\ MaxReqs \in Nat
    BY Consts
  <2>2. Len(reqs) \in Nat
    BY LenProperties DEF Reqs
  <2> QED BY <2>1, <2>2
<1>2. \A k \in 1..(HdrLen + p) : [conn |-> c, req |-> Len(reqs) + 1, part |-> k] \in Unit
  BY <1>1 DEF Unit
<1>3. Posted(c, reqs, p) \in [1..(HdrLen + p) -> Unit]
  BY <1>2 DEF Posted
<1>4. Posted(c, reqs, p) \in Seq(Unit) /\ Len(Posted(c, reqs, p)) = HdrLen + p
  BY <1>1, <1>3, SeqDef
<1> QED BY <1>1, <1>4 DEF Posted

LEMMA PostedGood ==
    ASSUME NEW c \in Conns, NEW reqs \in Reqs, NEW p \in Payloads, NEW ok \in BOOLEAN,
           Len(reqs) < MaxReqs, NEW f \in Seq(Unit), NEW rs \in Seq(1..MaxReqs),
           Good(c, "up", reqs, rs, f), Answered(reqs, rs)
    PROVE  Good(c, "up", Append(reqs, [size |-> p, ok |-> ok]), rs, f \o Posted(c, reqs, p))
<1> DEFINE r == [size |-> p, ok |-> ok]
           q == Append(reqs, r)
           new == Posted(c, reqs, p)
           g == f \o new
           L == Len(f)
           N == Len(reqs)
<1>1. r \in [size : Payloads, ok : BOOLEAN] /\ r.size = p
  OBVIOUS
<1> HIDE DEF r
<1>2. /\ N \in Nat /\ q \in Reqs /\ Len(q) = N + 1 /\ q[N + 1] = r /\ Stream(c, q, f)
  BY <1>1, Longer DEF Good
<1>3. /\ new \in Seq(Unit) /\ Len(new) = HdrLen + p /\ HdrLen + p \in Nat /\ HdrLen + p >= 1
      /\ \A k \in 1..(HdrLen + p) : new[k].conn = c /\ new[k].req = N + 1 /\ new[k].part = k
  BY PostedUnits
<1>4. Total(q, N + 1) = HdrLen + p
  BY <1>1, <1>2 DEF Total
<1>5. /\ L \in Nat /\ Len(g) = L + HdrLen + p /\ g \in Seq(Unit)
      /\ \A k \in 1..L : g[k] = f[k]
      /\ \A k \in 1..(HdrLen + p) : g[L + k] = new[k]
  <2>1. /\ L \in Nat /\ Len(g) = L + Len(new) /\ g \in Seq(Unit)
        /\ \A i \in 1 .. L + Len(new) : g[i] = IF i <= L THEN f[i] ELSE new[i - L]
    BY <1>3, ConcatProperties, LenProperties
  <2>2. \A k \in 1..L : g[k] = f[k]
    BY <1>3, <2>1
  <2>3. ASSUME NEW k \in 1..(HdrLen + p) PROVE g[L + k] = new[k]
    <3>1. L + k \in 1..(L + Len(new)) /\ ~(L + k <= L) /\ (L + k) - L = k
      BY <1>3, <2>1
    <3> QED BY <2>1, <3>1
  <2>4. Len(g) = L + HdrLen + p
    BY <1>3, <2>1, Consts
  <2> QED BY <2>1, <2>2, <2>3, <2>4
<1> HIDE DEF g, new, q
<1>6. \A k \in 1..Len(g) : k \in 1..L \/ (k - L \in 1..(HdrLen + p) /\ k = L + (k - L))
  BY <1>3, <1>5, Consts
<1>7. ASSUME NEW k \in 1..Len(g), k \notin 1..L
      PROVE  g[k].conn = c /\ g[k].req = N + 1 /\ g[k].part = k - L /\ k - L \in 1..(HdrLen + p)
  <2>1. k - L \in 1..(HdrLen + p) /\ k = L + (k - L)
    BY <1>6, <1>7
  <2>2. g[L + (k - L)] = new[k - L]
    BY <1>5, <2>1
  <2> QED BY <1>3, <2>1, <2>2
<1>8. Stream(c, q, g)
  <2>1. ASSUME NEW k \in 1..Len(g)
        PROVE  g[k].conn = c /\ g[k].req \in 1..Len(q) /\ g[k].part \in 1..Total(q, g[k].req)
    <3>1. CASE k \in 1..L
      BY <1>2, <1>5, <3>1 DEF Stream
    <3>2. CASE k \notin 1..L
      BY <1>2, <1>4, <1>7, <3>2
    <3> QED BY <3>1, <3>2
  <2>2. ASSUME NEW k \in 2..Len(g) PROVE Follows(q, g[k - 1], g[k])
    <3>0. k \in 1..Len(g) /\ k - 1 \in 1..Len(g) /\ k \in Nat
      BY <1>5
    <3>1. CASE k \in 1..L
      <4>1. k - 1 \in 1..L /\ k \in 2..L
        BY <1>5, <3>1
      <4> QED BY <1>2, <1>5, <3>1, <4>1 DEF Stream
    <3>2. CASE k \notin 1..L /\ k - 1 \notin 1..L
      <4>1. /\ g[k].req = N + 1 /\ g[k].part = k - L
            /\ g[k - 1].req = N + 1 /\ g[k - 1].part = (k - 1) - L
        BY <1>7, <3>0, <3>2
      <4> QED BY <1>5, <3>0, <4>1 DEF Follows
    <3>3. CASE k \notin 1..L /\ k - 1 \in 1..L
      <4>1. k = L + 1 /\ k - 1 = L /\ L \in 1..L
        BY <1>5, <3>0, <3>3
      <4>2. g[k].req = N + 1 /\ g[k].part = 1
        BY <1>5, <1>7, <3>0, <3>3, <4>1
      <4>3. f # <<>>
        BY <4>1, EmptySeq
      <4>4. f[L].req = N /\ f[L].part = Total(reqs, N)
        BY <4>3 DEF Good, Open, Ends
      <4>5. N \in 1..N
        BY <4>1, <4>4 DEF Good, Stream
      <4>6. Total(q, N) = Total(reqs, N)
        <5>1. q[N] = reqs[N]
          BY <1>1, <4>5, AppendProperties DEF q, Reqs
        <5> QED BY <5>1 DEF Total
      <4> QED BY <1>5, <4>1, <4>2, <4>4, <4>6 DEF Follows
    <3> QED BY <3>1, <3>2, <3>3
  <2> QED BY <2>1, <2>2 DEF Stream
<1>9. Later(rs, g)
  <2> SUFFICES ASSUME NEW k \in 1..Len(g), NEW i \in 1..Len(rs) PROVE rs[i] < g[k].req
    BY DEF Later
  <2>1. CASE k \in 1..L
    BY <1>5, <2>1 DEF Good, Later
  <2>2. CASE k \notin 1..L
    <3>1. rs[i] \in 1..N
      BY DEF Answered
    <3> QED BY <1>2, <1>7, <2>2, <3>1
  <2> QED BY <2>1, <2>2
<1>10. Ends(q, g)
  <2>1. Len(g) \in 1..Len(g) /\ Len(g) \notin 1..L /\ Len(g) - L = HdrLen + p
    BY <1>3, <1>5, Consts
  <2> QED BY <1>2, <1>4, <1>7, <2>1 DEF Ends
<1> QED BY <1>8, <1>9, <1>10 DEF Good, g, q, new, r
-----------------------------------------------------------------------------
LEMMA GoodBack ==
    ASSUME NEW c, NEW p, NEW reqs, NEW rs, NEW a \in Seq(Unit), NEW b \in Seq(Unit),
           Good(c, p, reqs, rs, a \o b)
    PROVE  Good(c, p, reqs, rs, b)
BY Back DEF Good

LEMMA GoodFront ==
    ASSUME NEW c, NEW p, NEW q, NEW reqs, NEW rs, NEW a \in Seq(Unit), NEW b \in Seq(Unit),
           Good(c, p, reqs, rs, a \o b), ~Open(q)
    PROVE  Good(c, q, reqs, rs, a)
BY Front DEF Good

LEMMA GoodEmpty == ASSUME NEW c, NEW p, NEW reqs, NEW rs PROVE Good(c, p, reqs, rs, <<>>)
BY NoUnits DEF Good

LEMMA GoodLeft ==
    ASSUME NEW c, NEW p, NEW q, NEW reqs, NEW rs, NEW f, Good(c, p, reqs, rs, f), Open(q) => Open(p)
    PROVE  Good(c, q, reqs, rs, f)
BY DEF Good

LEMMA Emptied == <<>> \in Seq(Unit) /\ <<>> \o <<>> = <<>>
BY EmptySeq, ConcatEmptySeq

LEMMA Assoc ==
    ASSUME NEW a \in Seq(Unit), NEW b \in Seq(Unit), NEW d \in Seq(Unit)
    PROVE  (a \o b) \o d = a \o (b \o d)
BY ConcatAssociative

LEMMA StreamTypes ==
    ASSUME TypeOK
    PROVE  /\ \A c \in Conns : /\ inbox[c] \in Seq(Unit) /\ wire[c] \in Seq(Unit)
                               /\ Coming(c) \in Seq(Unit) /\ asked[c] \in Reqs
                               /\ replies[c] \in Seq(1..MaxReqs)
           /\ \A fd \in ClientFds : /\ Held(slot[fd - 1]) \in Seq(Unit) /\ slot[fd - 1] \in Slot
                                    /\ slot[fd - 1].hdr \in Seq(Unit) /\ slot[fd - 1].pay \in Seq(Unit)
           /\ \A fd \in Owned : fd \in ClientFds /\ owner[fd] \in Conns
<1>1. \A c \in Conns : /\ inbox[c] \in Seq(Unit) /\ wire[c] \in Seq(Unit) /\ asked[c] \in Reqs
                       /\ replies[c] \in Seq(1..MaxReqs)
  BY DEF TypeOK, Reqs
<1>2. \A c \in Conns : Coming(c) \in Seq(Unit)
  BY <1>1, ConcatProperties DEF Coming
<1>3. ASSUME NEW fd \in ClientFds
      PROVE  /\ Held(slot[fd - 1]) \in Seq(Unit) /\ slot[fd - 1] \in Slot
             /\ slot[fd - 1].hdr \in Seq(Unit) /\ slot[fd - 1].pay \in Seq(Unit)
  <2>1. /\ slot[fd - 1] \in Slot
        /\ slot[fd - 1].hdr \in Seq(Unit) /\ slot[fd - 1].pay \in Seq(Unit)
    BY SlotTypes
  <2> QED BY <2>1, ConcatProperties, EmptySeq DEF Held
<1>4. \A fd \in Owned : fd \in ClientFds /\ owner[fd] \in Conns
  BY DEF TypeOK, Owned
<1> QED BY <1>1, <1>2, <1>3, <1>4

(* What a step leaves alone.                                                 *)
LEMMA ConnSame ==
    ASSUME NEW c \in Conns, ConnInv(c), asked'[c] = asked[c], replies'[c] = replies[c],
           inbox'[c] \o wire'[c] = inbox[c] \o wire[c], Open(phase'[c]) => Open(phase[c])
    PROVE  ConnInv(c)'
BY GoodLeft DEF ConnInv, Coming

LEMMA FdSame ==
    ASSUME NEW fd, FdInv(fd), owner'[fd] = owner[fd], slot'[fd - 1] = slot[fd - 1],
           asked'[owner[fd]] = asked[owner[fd]], replies'[owner[fd]] = replies[owner[fd]],
           inbox'[owner[fd]] \o wire'[owner[fd]] = inbox[owner[fd]] \o wire[owner[fd]],
           Open(phase'[owner[fd]]) => Open(phase[owner[fd]])
    PROVE  FdInv(fd)'
BY GoodLeft DEF FdInv, Coming

(* A step that moves no unit into or out of a piece of stream.               *)
LEMMA QuietStep ==
    ASSUME TInv, SInv, UNCHANGED <<asked, replies, owner, slot>>,
           \A c \in Conns : /\ inbox'[c] \o wire'[c] = inbox[c] \o wire[c]
                            /\ Open(phase'[c]) => Open(phase[c])
    PROVE  SInv'
<1>1. \A c \in Conns : ConnInv(c)'
  BY ConnSame DEF SInv
<1>2. Owned' = Owned
  BY DEF Owned
<1>3. ASSUME NEW fd \in Owned PROVE FdInv(fd)'
  <2>1. owner[fd] \in Conns /\ FdInv(fd)
    BY StreamTypes DEF TInv, SInv
  <2> QED BY <2>1, FdSame
<1> QED BY <1>1, <1>2, <1>3 DEF SInv

(* A step that concerns one connection, and the descriptor it is open on.    *)
LEMMA OneConnection ==
    ASSUME TInv, SInv, NEW c \in Conns, UNCHANGED owner,
           \A d \in Conns : d # c => /\ phase'[d] = phase[d] /\ asked'[d] = asked[d]
                                     /\ replies'[d] = replies[d] /\ inbox'[d] = inbox[d]
                                     /\ wire'[d] = wire[d],
           \A fd \in Owned : owner[fd] # c => slot'[fd - 1] = slot[fd - 1],
           ConnInv(c)', \A fd \in Owned : owner[fd] = c => FdInv(fd)'
    PROVE  SInv'
<1>1. ASSUME NEW d \in Conns PROVE ConnInv(d)'
  <2>1. CASE d = c
    BY <2>1
  <2>2. CASE d # c
    BY <2>2, ConnSame DEF SInv
  <2> QED BY <2>1, <2>2
<1>2. Owned' = Owned
  BY DEF Owned
<1>3. ASSUME NEW fd \in Owned PROVE FdInv(fd)'
  <2>1. owner[fd] \in Conns /\ FdInv(fd)
    BY StreamTypes DEF TInv, SInv
  <2>2. CASE owner[fd] = c
    BY <2>2
  <2>3. CASE owner[fd] # c
    <3>1. /\ phase'[owner[fd]] = phase[owner[fd]] /\ asked'[owner[fd]] = asked[owner[fd]]
          /\ replies'[owner[fd]] = replies[owner[fd]] /\ inbox'[owner[fd]] = inbox[owner[fd]]
          /\ wire'[owner[fd]] = wire[owner[fd]] /\ slot'[fd - 1] = slot[fd - 1]
          /\ owner'[fd] = owner[fd]
      BY <2>1, <2>3
    <3> QED BY <2>1, <3>1, FdSame
  <2> QED BY <2>2, <2>3
<1> QED BY <1>1, <1>2, <1>3 DEF SInv

LEMMA PostStream ==
    ASSUME TInv, SInv, NEW c \in Conns, NEW p \in Payloads, NEW ok \in BOOLEAN, Post(c, p, ok)
    PROVE  SInv'
<1> DEFINE new == Posted(c, asked[c], p)
           q == Append(asked[c], [size |-> p, ok |-> ok])
<1>1. /\ TypeOK /\ asked[c] \in Reqs /\ inbox[c] \in Seq(Unit) /\ wire[c] \in Seq(Unit)
      /\ Coming(c) \in Seq(Unit) /\ replies[c] \in Seq(1..MaxReqs)
      /\ [size |-> p, ok |-> ok] \in [size : Payloads, ok : BOOLEAN]
  BY StreamTypes DEF TInv
<1>2. /\ phase[c] = "up" /\ Len(asked[c]) < MaxReqs
      /\ asked' = [asked EXCEPT ![c] = q] /\ wire' = [wire EXCEPT ![c] = @ \o new]
      /\ UNCHANGED <<phase, inbox, replies, owner, slot>>
  BY DEF Post, Posted, tables
<1>3. new \in Seq(Unit)
  BY <1>1, <1>2, PostedUnits
<1>4. /\ asked'[c] = q /\ wire'[c] = wire[c] \o new
      /\ \A d \in Conns : d # c => asked'[d] = asked[d] /\ wire'[d] = wire[d]
  BY <1>1, <1>2 DEF TypeOK
<1> HIDE DEF new, q
<1>5. inbox'[c] \o wire'[c] = Coming(c) \o new
  <2>1. inbox[c] \o (wire[c] \o new) = (inbox[c] \o wire[c]) \o new
    BY <1>1, <1>3, Assoc
  <2> QED BY <1>2, <1>4, <2>1 DEF Coming
<1>6. ConnInv(c)
  BY DEF SInv
<1>7. ConnInv(c)'
  <2>1. Good(c, "up", q, replies[c], Coming(c) \o new)
    BY <1>1, <1>2, <1>6, PostedGood DEF ConnInv, new, q
  <2>2. Answered(q, replies[c])
    BY <1>1, <1>6, Longer DEF ConnInv, q
  <2> QED BY <1>2, <1>4, <1>5, <2>1, <2>2 DEF ConnInv, Coming
<1>8. ASSUME NEW fd \in Owned, owner[fd] = c PROVE FdInv(fd)'
  <2>1. FdInv(fd) /\ Held(slot[fd - 1]) \in Seq(Unit)
    BY <1>1, StreamTypes DEF SInv
  <2> DEFINE h == Held(slot[fd - 1])
  <2>2. h \o Coming(c) \in Seq(Unit) /\ h \o (Coming(c) \o new) = (h \o Coming(c)) \o new
    BY <1>1, <1>3, <2>1, ConcatProperties, ConcatAssociative
  <2>3. Good(c, "up", asked[c], replies[c], h \o Coming(c)) /\ Packet(c, asked[c], slot[fd - 1])
    BY <1>2, <1>8, <2>1 DEF FdInv
  <2> HIDE DEF h
  <2>4. Good(c, "up", q, replies[c], (h \o Coming(c)) \o new)
    BY <1>1, <1>2, <1>6, <2>2, <2>3, PostedGood DEF ConnInv, new, q
  <2>5. Packet(c, q, slot[fd - 1])
    BY <1>1, <2>3, Longer DEF q
  <2>6. h = Held(slot[fd - 1])
    BY DEF h
  <2> QED BY <1>2, <1>4, <1>5, <1>8, <2>2, <2>4, <2>5, <2>6 DEF FdInv, Coming
<1> QED BY <1>2, <1>4, <1>7, <1>8, OneConnection

LEMMA ClientStream == ASSUME TInv, SInv, NEW c \in Conns, ClientStep(c) PROVE SInv'
<1>0. /\ TypeOK /\ asked[c] \in Reqs /\ inbox[c] \in Seq(Unit) /\ wire[c] \in Seq(Unit)
      /\ Coming(c) \in Seq(Unit)
  BY StreamTypes DEF TInv
<1>1. CASE Connect(c)
  BY <1>0, <1>1, QuietStep DEF Connect, Open, TypeOK
<1>2. CASE Deliver(c)
  <2>1. /\ wire[c] # <<>> /\ inbox' = [inbox EXCEPT ![c] = Append(@, Head(wire[c]))]
        /\ wire' = [wire EXCEPT ![c] = Tail(@)] /\ UNCHANGED <<phase, asked, replies, owner, slot>>
    BY <1>2 DEF Deliver, tables
  <2>2. Append(inbox[c], Head(wire[c])) \o Tail(wire[c]) = inbox[c] \o wire[c]
    <3>1. Head(wire[c]) \in Unit /\ Tail(wire[c]) \in Seq(Unit) /\ <<Head(wire[c])>> \in Seq(Unit)
      BY <1>0, <2>1, HeadTailProperties
    <3>2. Append(inbox[c], Head(wire[c])) = inbox[c] \o <<Head(wire[c])>>
      BY <1>0, <3>1, AppendIsConcat
    <3>3. <<Head(wire[c])>> \o Tail(wire[c]) = wire[c]
      BY <1>0, <2>1, ConcatSimplifications, HeadTailProperties
    <3>4. (inbox[c] \o <<Head(wire[c])>>) \o Tail(wire[c]) = inbox[c] \o (<<Head(wire[c])>> \o Tail(wire[c]))
      BY <1>0, <3>1, Assoc
    <3> QED BY <3>2, <3>3, <3>4
  <2>3. \A d \in Conns : inbox'[d] \o wire'[d] = inbox[d] \o wire[d]
    <3>1. inbox'[c] = Append(inbox[c], Head(wire[c])) /\ wire'[c] = Tail(wire[c])
      BY <1>0, <2>1 DEF TypeOK
    <3>2. \A d \in Conns : d # c => inbox'[d] = inbox[d] /\ wire'[d] = wire[d]
      BY <1>0, <2>1 DEF TypeOK
    <3> QED BY <2>2, <3>1, <3>2
  <2> QED BY <2>1, <2>3, QuietStep
<1>3. CASE ReadAnswer(c)
  BY <1>3, QuietStep DEF ReadAnswer, tables
<1>4. ASSUME NEW how \in {"fin", "rst"}, Leave(c, how) PROVE SInv'
  <2>1. /\ phase' = [phase EXCEPT ![c] = how] /\ UNCHANGED <<asked, replies, owner, slot>>
        /\ phase'[c] = how /\ ~Open(how)
        /\ \A d \in Conns : d # c => phase'[d] = phase[d]
    BY <1>0, <1>4 DEF Leave, tables, TypeOK, Open
  <2>2. CASE how # "rst"
    <3>1. UNCHANGED <<inbox, wire>>
      BY <1>4, <2>2 DEF Leave
    <3>2. \A d \in Conns : Open(phase'[d]) => Open(phase[d])
      BY <2>1
    <3> QED BY <2>1, <3>1, <3>2, QuietStep
  <2>3. CASE how = "rst"
    <3>1. /\ inbox'[c] = <<>> /\ wire'[c] = <<>>
          /\ \A d \in Conns : d # c => inbox'[d] = inbox[d] /\ wire'[d] = wire[d]
      BY <1>0, <1>4, <2>3 DEF Leave, TypeOK
    <3>2. ConnInv(c)'
      <4>1. Answered(asked[c], replies[c])
        BY DEF SInv, ConnInv
      <4> QED BY <2>1, <3>1, <4>1, Emptied, GoodEmpty DEF ConnInv, Coming
    <3>3. ASSUME NEW fd \in Owned, owner[fd] = c PROVE FdInv(fd)'
      <4> DEFINE h == Held(slot[fd - 1])
      <4>1. h \in Seq(Unit) /\ h \o <<>> = h
        <5>1. h \in Seq(Unit)
          BY <1>0, StreamTypes
        <5> QED BY <5>1, ConcatEmptySeq
      <4>2. /\ Good(c, phase[c], asked[c], replies[c], h \o Coming(c))
            /\ Packet(c, asked[c], slot[fd - 1])
        BY <3>3 DEF SInv, FdInv
      <4>3. Good(c, how, asked[c], replies[c], h)
        BY <1>0, <2>1, <4>1, <4>2, GoodFront
      <4> QED BY <2>1, <3>1, <3>3, <4>1, <4>2, <4>3, Emptied DEF FdInv, Coming
    <3> QED BY <2>1, <3>1, <3>2, <3>3, OneConnection
  <2> QED BY <2>2, <2>3
<1> QED BY <1>1, <1>2, <1>3, <1>4, PostStream DEF ClientStep
-----------------------------------------------------------------------------
(* k units are taken from what has arrived.                                  *)
Got(b, k)  == SubSeq(b, 1, k)
Left(b, k) == SubSeq(b, k + 1, Len(b))

LEMMA Parts ==
    ASSUME NEW b \in Seq(Unit), NEW k \in Nat, k <= Len(b)
    PROVE  /\ Got(b, k) \in Seq(Unit) /\ Len(Got(b, k)) = k /\ Left(b, k) \in Seq(Unit)
           /\ Got(b, k) \o Left(b, k) = b
<1>1. Len(b) \in Nat
  BY LenProperties
<1>2. (\A i \in 1..k : b[i] \in Unit) /\ (\A i \in (k + 1)..Len(b) : b[i] \in Unit)
  BY <1>1, ElementOfSeq
<1>3. Got(b, k) \in Seq(Unit) /\ Len(Got(b, k)) = k /\ Left(b, k) \in Seq(Unit)
  BY <1>1, <1>2, SubSeqProperties DEF Got, Left
<1>4. Got(b, k) \o Left(b, k) = b
  <2>1. 1 \in 1..(Len(b) + 1) /\ k \in (1 - 1)..Len(b) /\ Len(b) \in k..Len(b)
    BY <1>1
  <2>2. Got(b, k) \o Left(b, k) = SubSeq(b, 1, Len(b))
    BY <2>1, ConcatAdjacentSubSeq DEF Got, Left
  <2>3. SubSeq(b, 1, Len(b)) = b
    BY SubSeqFull
  <2> QED BY <2>2, <2>3
<1> QED BY <1>3, <1>4

LEMMA Taken ==
    ASSUME NEW b \in Seq(Unit), NEW w \in Seq(Unit), NEW k \in Nat, k <= Len(b)
    PROVE  Left(b, k) \o w \in Seq(Unit) /\ b \o w = Got(b, k) \o (Left(b, k) \o w)
<1>1. Got(b, k) \in Seq(Unit) /\ Left(b, k) \in Seq(Unit) /\ Got(b, k) \o Left(b, k) = b
  BY Parts
<1>2. Left(b, k) \o w \in Seq(Unit)
  BY <1>1, ConcatProperties
<1>3. (Got(b, k) \o Left(b, k)) \o w = Got(b, k) \o (Left(b, k) \o w)
  BY <1>1, Assoc
<1> QED BY <1>1, <1>2, <1>3

LEMMA DisconnectStream ==
    ASSUME TInv, SInv, NEW fd \in Owned, NEW s, Disconnect(fd, s), UNCHANGED network
    PROVE  SInv'
<1>1. /\ UNCHANGED <<phase, asked, replies, inbox, wire>>
      /\ owner' = [owner EXCEPT ![fd] = None] /\ TypeOK
      /\ \E u : slot' = [slot EXCEPT ![fd - 1] = u]
  BY DEF network, Disconnect, TInv
<1>2. \A g \in ClientFds : g # fd => owner'[g] = owner[g] /\ slot'[g - 1] = slot[g - 1]
  <2>1. \A g \in ClientFds : g \in Nat /\ g - 1 \in Index
    BY Consts
  <2>2. slot \in [Index -> Slot] /\ owner \in [ClientFds -> Conns \cup {None}] /\ fd \in ClientFds
    BY <1>1 DEF TypeOK, Owned
  <2> QED BY <1>1, <2>1, <2>2
<1>3. Owned' = Owned \ {fd}
  BY <1>1, <1>2 DEF TypeOK, Owned
<1>4. \A c \in Conns : ConnInv(c)'
  BY <1>1, ConnSame DEF SInv
<1>5. ASSUME NEW g \in Owned, g # fd PROVE FdInv(g)'
  <2>1. g \in ClientFds /\ FdInv(g)
    BY DEF Owned, SInv
  <2> QED BY <1>1, <1>2, <1>5, <2>1, FdSame
<1> QED BY <1>3, <1>4, <1>5 DEF SInv

LEMMA AcceptStream == ASSUME TInv, SInv, Accept PROVE SInv'
<1>1. TypeOK /\ TablesAgree /\ Turn /\ Waiting
  BY DEF TInv
<1>2. pc = "scan" /\ Next1 = Listener
  BY DEF Accept
<1>3. PICK c \in Conns : c = Head(backlog) /\ \A g \in ClientFds : owner[g] # c
  <2> DEFINE c == Head(backlog)
  <2>1. backlog \in Seq(Conns) /\ backlog # <<>>
    BY <1>1, <1>2, ScanTypes DEF TypeOK, Turn
  <2>2. c \in Conns /\ c = backlog[1] /\ 1 \in 1..Len(backlog)
    BY <2>1, HeadTailProperties, EmptySeq
  <2> QED BY <1>1, <2>2 DEF Waiting
<1>4. CASE Full /\ Refuse(Head(backlog)) /\ UNCHANGED <<owner, masterSet, maxFds, numClients, slot>>
  <2>1. /\ phase'[c] = "refused" /\ inbox'[c] = <<>> /\ wire'[c] = <<>>
        /\ UNCHANGED <<asked, replies, owner, slot>>
        /\ \A d \in Conns : d # c => phase'[d] = phase[d] /\ inbox'[d] = inbox[d] /\ wire'[d] = wire[d]
    BY <1>1, <1>3, <1>4 DEF Refuse, TypeOK
  <2>2. ConnInv(c)'
    <3>1. Answered(asked[c], replies[c])
      BY <1>3 DEF SInv, ConnInv
    <3> QED BY <2>1, <3>1, Emptied, GoodEmpty DEF ConnInv, Coming
  <2>3. \A fd \in Owned : owner[fd] # c
    BY <1>3 DEF Owned
  <2> QED BY <1>3, <2>1, <2>2, <2>3, OneConnection
<1>5. CASE ~Full /\ UNCHANGED network
  <2>1. PICK fd \in ClientFds : fd = FreeFd /\ owner[fd] = None
    BY <1>1, <1>5, FreeFdTypes
  <2>2. /\ owner' = [owner EXCEPT ![fd] = c]
        /\ slot' = [slot EXCEPT ![fd - 1].st = "complete", ![fd - 1].alloc = BufNormal]
        /\ UNCHANGED <<phase, asked, replies, inbox, wire>>
    BY <1>3, <1>5, <2>1 DEF Accept, Full, network
  <2>3. /\ owner \in [ClientFds -> Conns \cup {None}] /\ slot \in [Index -> Slot]
        /\ \A g \in ClientFds : g \in Nat /\ g - 1 \in Index
    BY <1>1, Consts DEF TypeOK
  <2>4. /\ owner'[fd] = c /\ slot'[fd - 1].st = "complete"
        /\ \A g \in ClientFds : g # fd => owner'[g] = owner[g] /\ slot'[g - 1] = slot[g - 1]
    <3> DEFINE u == [slot[fd - 1] EXCEPT !.st = "complete", !.alloc = BufNormal]
    <3>1. slot[fd - 1] \in Slot
      BY <2>1, <2>3
    <3>2. u.st = "complete"
      BY <3>1 DEF Slot
    <3>3. slot' = [slot EXCEPT ![fd - 1] = u]
      BY <2>2
    <3> HIDE DEF u
    <3> QED BY <2>1, <2>2, <2>3, <3>2, <3>3
  <2>5. Owned' \subseteq Owned \cup {fd}
    BY <2>4 DEF Owned
  <2>6. \A d \in Conns : ConnInv(d)'
    BY <2>2, ConnSame DEF SInv
  <2>7. FdInv(fd)'
    <3>1. Good(c, phase[c], asked[c], replies[c], Coming(c)) /\ Coming(c) \in Seq(Unit)
      BY <1>1, <1>3, StreamTypes DEF SInv, ConnInv
    <3>2. <<>> \o Coming(c) = Coming(c)
      BY <3>1, ConcatEmptySeq
    <3>3. Held(slot'[fd - 1]) = <<>> /\ Packet(c, asked[c], slot'[fd - 1])
      BY <2>4 DEF Held, Packet
    <3> QED BY <2>2, <2>4, <3>1, <3>2, <3>3 DEF FdInv, Coming
  <2>8. ASSUME NEW g \in Owned, g # fd PROVE FdInv(g)'
    <3>1. g \in ClientFds /\ FdInv(g)
      BY DEF Owned, SInv
    <3> QED BY <2>2, <2>4, <2>8, <3>1, FdSame
  <2> QED BY <2>5, <2>6, <2>7, <2>8 DEF SInv
<1> QED BY <1>4, <1>5 DEF Accept

(* The server works on the packet of one client.                             *)
LEMMA ServeStream ==
    ASSUME TInv, SInv, NEW fd \in Owned, NEW c, c = owner[fd],
           NEW u, slot' = [slot EXCEPT ![fd - 1] = u], UNCHANGED <<owner, phase, asked, wire>>,
           \A d \in Conns : d # c => inbox'[d] = inbox[d] /\ replies'[d] = replies[d],
           ConnInv(c)',
           Good(c, phase[c], asked[c], replies'[c], Held(u) \o (inbox'[c] \o wire[c])),
           Packet(c, asked[c], u)
    PROVE  SInv'
<1>1. /\ TypeOK /\ TablesAgree /\ fd \in ClientFds /\ c \in Conns
      /\ slot \in [Index -> Slot] /\ \A g \in ClientFds : g \in Nat /\ g - 1 \in Index
  BY StreamTypes, Consts DEF TInv, TypeOK
<1>2. /\ slot'[fd - 1] = u
      /\ \A g \in ClientFds : g # fd => slot'[g - 1] = slot[g - 1]
  BY <1>1
<1>3. FdInv(fd)'
  BY <1>2 DEF FdInv, Coming
<1>4. \A g \in Owned : g \in ClientFds /\ (owner[g] = c => g = fd)
  BY <1>1 DEF TablesAgree, Owned
<1>5. \A g \in Owned : owner[g] = c => FdInv(g)'
  BY <1>3, <1>4
<1>6. \A g \in Owned : owner[g] # c => slot'[g - 1] = slot[g - 1]
  BY <1>2, <1>4
<1> QED BY <1>1, <1>5, <1>6, OneConnection

LEMMA AnswerStream == ASSUME TInv, SInv, Answer PROVE SInv'
<1>0. PICK fd, c : fd = at /\ c = owner[at]
  OBVIOUS
<1> DEFINE s == slot[fd - 1]
           h == s.hdr \o s.pay
           u == [s EXCEPT !.st = "complete"]
           m == s.hdr[1].req
<1>1. TypeOK /\ Turn /\ Buffers
  BY DEF TInv
<1>2. /\ fd \in Owned /\ fd \in ClientFds /\ c \in Conns /\ s.st = "got_payload"
      /\ s \in Slot /\ s.hdr \in Seq(Unit) /\ s.pay \in Seq(Unit) /\ h \in Seq(Unit)
      /\ asked[c] \in Reqs /\ replies[c] \in Seq(1..MaxReqs) /\ Coming(c) \in Seq(Unit)
      /\ Len(s.hdr) = HdrLen
  <2>1. fd \in Owned /\ s.st = "got_payload"
    BY <1>0, <1>1 DEF Answer, Turn
  <2>2. /\ fd \in ClientFds /\ c \in Conns /\ s \in Slot /\ s.hdr \in Seq(Unit) /\ s.pay \in Seq(Unit)
        /\ asked[c] \in Reqs /\ replies[c] \in Seq(1..MaxReqs) /\ Coming(c) \in Seq(Unit)
    BY <1>0, <1>1, <2>1, StreamTypes
  <2>3. Len(s.hdr) = HdrLen
    BY <1>1, <2>1 DEF Buffers, Filled
  <2> QED BY <2>1, <2>2, <2>3, ConcatProperties
<1>3. /\ slot' = [slot EXCEPT ![fd - 1] = u]
      /\ UNCHANGED <<phase, asked, wire, inbox, owner>>
      /\ \/ phase[c] # "up" /\ UNCHANGED replies
         \/ replies' = [replies EXCEPT ![c] = Append(@, m)]
  BY <1>0 DEF Answer, tables
<1>4. FdInv(fd) /\ ConnInv(c)
  BY <1>2 DEF SInv
<1>5. PICK n \in 1..Len(asked[c]) : /\ HeaderOf(s.hdr, c, n) /\ asked[c][n].ok
                                    /\ Len(s.pay) = asked[c][n].size
  BY <1>0, <1>2, <1>4 DEF FdInv, Packet
<1>6. Good(c, phase[c], asked[c], replies[c], h \o Coming(c))
  BY <1>0, <1>2, <1>4 DEF FdInv, Held
<1>7. /\ Len(h) = Total(asked[c], n) /\ \A k \in 1..HdrLen : h[k].req = n /\ h[k].part = k
      /\ HdrLen >= 1 /\ HdrLen \in Nat /\ m = n
  <2>1. /\ Len(h) = HdrLen + Len(s.pay) /\ Len(s.pay) \in Nat /\ HdrLen \in Nat /\ HdrLen >= 1
        /\ \A i \in 1..(HdrLen + Len(s.pay)) : h[i] = IF i <= HdrLen THEN s.hdr[i] ELSE s.pay[i - HdrLen]
    <3>1. /\ Len(h) = Len(s.hdr) + Len(s.pay) /\ Len(s.pay) \in Nat
          /\ \A i \in 1..(Len(s.hdr) + Len(s.pay)) :
                h[i] = IF i <= Len(s.hdr) THEN s.hdr[i] ELSE s.pay[i - Len(s.hdr)]
      BY <1>2, ConcatProperties, LenProperties
    <3>2. HdrLen \in Nat /\ HdrLen >= 1
      BY Consts
    <3> QED BY <1>2, <3>1, <3>2
  <2>2. ASSUME NEW k \in 1..HdrLen PROVE h[k] = s.hdr[k]
    <3>1. k \in 1..(HdrLen + Len(s.pay)) /\ k <= HdrLen
      BY <2>1
    <3> QED BY <2>1, <3>1
  <2>3. \A k \in 1..HdrLen : s.hdr[k].req = n /\ s.hdr[k].part = k
    BY <1>5 DEF HeaderOf
  <2>4. 1 \in 1..HdrLen
    BY <2>1
  <2> QED BY <1>5, <2>1, <2>2, <2>3, <2>4 DEF Total
<1> HIDE DEF s, h, u, m
<1>8. \A k \in 1..Len(Coming(c)) : n < Coming(c)[k].req
  BY <1>2, <1>5, <1>6, <1>7, WholeRequest DEF Good
<1>9. \A i \in 1..Len(replies[c]) : replies[c][i] < n
  <2>1. Len(h \o Coming(c)) = Len(h) + Len(Coming(c)) /\ Len(h) \in Nat /\ Len(Coming(c)) \in Nat
        /\ \A i \in 1..(Len(h) + Len(Coming(c))) :
              (h \o Coming(c))[i] = IF i <= Len(h) THEN h[i] ELSE Coming(c)[i - Len(h)]
    BY <1>2, ConcatProperties, LenProperties
  <2>2. HdrLen <= Len(h)
    <3>1. asked[c][n].size \in Nat
      <4>1. asked[c][n] \in [size : Payloads, ok : BOOLEAN]
        BY <1>2, <1>5, ElementOfSeq DEF Reqs
      <4> QED BY <4>1, Consts
    <3> QED BY <1>7, <3>1 DEF Total
  <2>3. 1 \in 1..Len(h \o Coming(c)) /\ (h \o Coming(c))[1] = h[1] /\ 1 \in 1..HdrLen
    BY <1>7, <2>1, <2>2
  <2> QED BY <1>6, <1>7, <2>3 DEF Good, Later
<1>10. Good(c, phase[c], asked[c], replies[c], Coming(c)) /\ Answered(asked[c], replies[c])
  BY <1>4 DEF ConnInv
<1>11. Good(c, phase[c], asked[c], replies'[c], Coming(c)) /\ Answered(asked[c], replies'[c])
  <2>1. CASE UNCHANGED replies
    BY <1>10, <2>1
  <2>2. CASE replies' = [replies EXCEPT ![c] = Append(@, m)]
    <3> DEFINE rs == replies[c]
               qs == Append(rs, n)
    <3>1. replies'[c] = qs
      BY <1>1, <1>2, <1>7, <2>2 DEF TypeOK
    <3>2. /\ Len(rs) \in Nat /\ Len(qs) = Len(rs) + 1 /\ qs[Len(rs) + 1] = n
          /\ \A i \in 1..Len(rs) : qs[i] = rs[i]
      <4>1. n \in Nat /\ rs \in Seq(Nat)
        <5>1. Len(asked[c]) \in Nat
          BY <1>2, LenProperties DEF Reqs
        <5>2. 1..MaxReqs \subseteq Nat
          BY Consts
        <5>3. rs \in Seq(Nat)
          BY <1>2, <5>2, SeqMonotonic
        <5> QED BY <5>1, <5>3
      <4> QED BY <4>1, AppendProperties, LenProperties
    <3> HIDE DEF rs, qs
    <3>3. \A i \in 1..Len(qs) : i \in 1..Len(rs) \/ i = Len(rs) + 1
      BY <3>2
    <3>4. Later(qs, Coming(c))
      <4>1. Later(rs, Coming(c))
        BY <1>10 DEF Good, rs
      <4> QED BY <1>8, <3>2, <3>3, <4>1 DEF Later
    <3>5. Answered(asked[c], qs)
      <4> SUFFICES ASSUME NEW i \in 1..Len(qs)
                   PROVE  /\ qs[i] \in 1..Len(asked[c]) /\ asked[c][qs[i]].ok
                          /\ i > 1 => qs[i - 1] < qs[i]
        BY DEF Answered
      <4>1. CASE i \in 1..Len(rs)
        <5>1. i > 1 => i - 1 \in 1..Len(rs)
          BY <3>2, <4>1
        <5> QED BY <1>10, <3>2, <4>1, <5>1 DEF Answered, rs
      <4>2. CASE i = Len(rs) + 1
        <5>1. i > 1 => i - 1 \in 1..Len(rs)
          BY <3>2, <4>2
        <5> QED BY <1>5, <1>9, <3>2, <4>2, <5>1 DEF rs
      <4> QED BY <3>3, <4>1, <4>2
    <3> QED BY <1>10, <3>1, <3>4, <3>5 DEF Good
  <2> QED BY <1>3, <2>1, <2>2
<1>12. ConnInv(c)'
  <2>1. /\ phase'[c] = phase[c] /\ asked'[c] = asked[c] /\ inbox'[c] \o wire'[c] = inbox[c] \o wire[c]
    BY <1>3
  <2> QED BY <1>11, <2>1 DEF ConnInv, Coming
<1>13. u.st = "complete" /\ Held(u) = <<>> /\ Packet(c, asked[c], u)
  <2>1. u.st = "complete"
    BY <1>2 DEF u, Slot
  <2> QED BY <2>1 DEF Held, Packet
<1>14. Good(c, phase[c], asked[c], replies'[c], Held(u) \o (inbox'[c] \o wire[c]))
  <2>1. Held(u) \o (inbox'[c] \o wire[c]) = Coming(c)
    BY <1>2, <1>3, <1>13, ConcatEmptySeq DEF Coming
  <2> QED BY <1>11, <2>1
<1>15. \A d \in Conns : d # c => inbox'[d] = inbox[d] /\ replies'[d] = replies[d]
  BY <1>1, <1>3 DEF TypeOK
<1> QED BY <1>0, <1>2, <1>3, <1>12, <1>13, <1>14, <1>15, ServeStream

LEMMA ReadHeaderStream == ASSUME TInv, SInv, ReadHeader PROVE SInv'
<1>0. PICK fd, c, s : fd = Next1 /\ c = owner[fd] /\ s = Fresh(slot[fd - 1])
  OBVIOUS
<1> DEFINE k == Lesser(HdrLen - Len(s.hdr), Len(inbox[c]))
           sub == Got(inbox[c], k)
           hdr == s.hdr \o sub
           rest == Left(inbox[c], k)
           t == [s EXCEPT !.hdr = hdr]
           u == IF Len(t.hdr) = HdrLen THEN AfterHeader(t) ELSE t
<1>1. TypeOK /\ TablesAgree /\ Turn /\ Buffers
  BY DEF TInv
<1>2. pc = "scan" /\ fd # Listener /\ slot[fd - 1].st \in {"complete", "start"}
  BY <1>0 DEF ReadHeader
<1>3. /\ fd \in Owned /\ fd \in ClientFds /\ c \in Conns
      /\ slot[fd - 1] \in Slot /\ slot[fd - 1].hdr \in Seq(Unit) /\ slot[fd - 1].pay \in Seq(Unit)
      /\ inbox[c] \in Seq(Unit) /\ wire[c] \in Seq(Unit) /\ Coming(c) \in Seq(Unit)
      /\ Buffer(slot[fd - 1]) /\ Filled(slot[fd - 1])
  <2>1. fd \in Owned /\ fd \in ClientFds /\ c \in Conns
    BY <1>0, <1>1, <1>2, ScanTypes
  <2>2. Buffer(slot[fd - 1]) /\ Filled(slot[fd - 1])
    BY <1>1, <2>1 DEF Buffers
  <2> QED BY <1>1, <2>1, <2>2, StreamTypes
<1>4. /\ ConnInv(c) /\ Packet(c, asked[c], slot[fd - 1])
      /\ Good(c, phase[c], asked[c], replies[c], Held(slot[fd - 1]) \o Coming(c))
  BY <1>0, <1>3 DEF SInv, FdInv
<1>5. /\ s \in Slot /\ Buffer(s) /\ s.st = "start" /\ Len(s.hdr) < HdrLen
      /\ s.pay = <<>> /\ s.hdr \in Seq(Unit) /\ Held(slot[fd - 1]) = s.hdr
  <2>1. /\ s \in Slot /\ Buffer(s)
        /\ slot[fd - 1].st # "complete" => s = slot[fd - 1]
        /\ slot[fd - 1].st = "complete" => s.st = "start" /\ s.hdr = <<>> /\ s.pay = <<>>
    BY <1>0, <1>3, FreshEffect
  <2>2. CASE slot[fd - 1].st = "complete"
    <3>1. s.st = "start" /\ s.hdr = <<>> /\ s.pay = <<>> /\ Held(slot[fd - 1]) = <<>>
      BY <2>1, <2>2 DEF Held
    <3>2. <<>> \in Seq(Unit) /\ Len(<<>>) = 0 /\ 0 < HdrLen
      BY Consts, EmptySeq
    <3> QED BY <2>1, <3>1, <3>2
  <2>3. CASE slot[fd - 1].st # "complete"
    <3>1. s = slot[fd - 1] /\ s.st = "start" /\ s.pay = <<>> /\ Len(s.hdr) < HdrLen
      BY <1>2, <1>3, <1>4, <2>1, <2>3 DEF Packet, Filled
    <3>2. s.hdr \o <<>> = s.hdr
      BY <1>3, <3>1, ConcatEmptySeq
    <3> QED BY <1>3, <2>1, <3>1, <3>2 DEF Held
  <2> QED BY <2>2, <2>3, <2>1
<1>6. /\ k \in Nat /\ k <= Len(inbox[c]) /\ Len(s.hdr) \in Nat /\ HdrLen \in Nat
      /\ k <= HdrLen - Len(s.hdr)
  <2>1. HdrLen \in Nat /\ Len(s.hdr) \in Nat /\ Len(inbox[c]) \in Nat
    BY <1>3, <1>5, Consts, LenProperties
  <2>2. HdrLen - Len(s.hdr) \in Nat
    BY <1>5, <2>1
  <2> QED BY <2>1, <2>2, LesserBounds
<1> HIDE DEF k
<1>7. CASE Disconnect(fd, s) /\ UNCHANGED network
  BY <1>3, <1>7, DisconnectStream
<1>8. CASE /\ inbox' = [inbox EXCEPT ![c] = SubSeq(@, k + 1, Len(@))]
           /\ slot' = [slot EXCEPT ![fd - 1] = u]
           /\ UNCHANGED <<phase, asked, wire, outbox, replies, tables>>
  <2>1. /\ UNCHANGED <<phase, asked, wire, replies, owner>> /\ inbox'[c] = rest
        /\ \A d \in Conns : d # c => inbox'[d] = inbox[d]
    BY <1>1, <1>3, <1>8 DEF tables, TypeOK, Left
  <2>2. /\ sub \in Seq(Unit) /\ rest \o wire[c] \in Seq(Unit)
        /\ Coming(c) = sub \o (rest \o wire[c])
        /\ s.hdr \o Coming(c) = hdr \o (rest \o wire[c])
    <3>1. sub \in Seq(Unit)
      BY <1>3, <1>6, Parts
    <3>2. rest \o wire[c] \in Seq(Unit) /\ inbox[c] \o wire[c] = sub \o (rest \o wire[c])
      BY <1>3, <1>6, Taken
    <3>3. s.hdr \o (inbox[c] \o wire[c]) = (s.hdr \o sub) \o (rest \o wire[c])
      <4> HIDE DEF sub, rest
      <4>1. (s.hdr \o sub) \o (rest \o wire[c]) = s.hdr \o (sub \o (rest \o wire[c]))
        BY <1>5, <3>1, <3>2, Assoc
      <4> QED BY <3>2, <4>1
    <3> QED BY <3>1, <3>2, <3>3 DEF Coming
  <2>3. hdr \in Seq(Unit)
    BY <1>5, <2>2, ConcatProperties
  <2> HIDE DEF hdr, rest
  <2>4. /\ Good(c, phase[c], asked[c], replies[c], rest \o wire[c])
        /\ Good(c, phase[c], asked[c], replies[c], hdr \o (rest \o wire[c]))
    <3>1. Good(c, phase[c], asked[c], replies[c], Coming(c))
      BY <1>4 DEF ConnInv
    <3>2. Good(c, phase[c], asked[c], replies[c], rest \o wire[c])
      BY <2>2, <3>1, GoodBack
    <3>3. Good(c, phase[c], asked[c], replies[c], hdr \o (rest \o wire[c]))
      BY <1>4, <1>5, <2>2
    <3> QED BY <3>2, <3>3
  <2>5. /\ t \in Slot /\ t.st = "start" /\ t.hdr = hdr /\ t.pay = <<>> /\ Buffer(t)
    <3>1. /\ t \in Slot /\ t.st = "start" /\ t.hdr = hdr /\ t.pay = <<>>
          /\ t.bufsz = s.bufsz /\ t.alloc = s.alloc
      BY <1>5, <2>3 DEF Slot
    <3> HIDE DEF t
    <3>2. Buffer(t)
      BY <1>5, <3>1 DEF Buffer
    <3> QED BY <3>1, <3>2
  <2> HIDE DEF t
  <2>6. (Held(u) = <<>> \/ Held(u) = hdr) /\ Packet(c, asked[c], u)
    <3>0. hdr \o <<>> = hdr
      BY <2>3, ConcatEmptySeq
    <3>1. CASE Len(t.hdr) # HdrLen
      <4>1. u = t
        BY <3>1
      <4> HIDE DEF u
      <4> QED BY <2>5, <3>0, <4>1 DEF Held, Packet
    <3>2. CASE Len(t.hdr) = HdrLen
      <4> DEFINE v == AfterHeader(t)
      <4>1. /\ v.st # "start" /\ v.hdr = hdr /\ v.pay = <<>>
            /\ v.st # "complete" => /\ Validated(hdr) /\ v.need = Required(hdr)
                                    /\ v.st = "got_payload" => v.need = 0
        BY <1>1, <2>5, <3>2, AfterHeaderEffect
      <4>2. u = v
        BY <3>2
      <4> HIDE DEF u, v
      <4>3. Held(v) = <<>> \/ Held(v) = hdr
        BY <3>0, <4>1 DEF Held
      <4>4. CASE v.st = "complete"
        BY <4>2, <4>3, <4>4 DEF Packet
      <4>5. CASE v.st # "complete"
        <5>1. PICK d \in Conns, n \in Nat :
                 /\ n \in 1..Len(asked[d]) /\ HeaderOf(hdr, d, n) /\ asked[d][n].ok
                 /\ Required(hdr) = asked[d][n].size
          <6>1. hdr \in Seq(Unit) /\ Len(hdr) = HdrLen /\ Validated(hdr)
            BY <2>3, <2>5, <3>2, <4>1, <4>5
          <6> QED BY <1>1, <6>1, ValidatedEffect
        <5>2. d = c
          <6>1. 1 \in 1..HdrLen /\ 1 \in 1..Len(hdr)
            BY <2>5, <3>2, Consts
          <6>2. hdr[1].conn = d
            BY <5>1, <6>1 DEF HeaderOf
          <6>3. Stream(c, asked[c], hdr)
            BY <2>2, <2>3, <2>4, Front DEF Good
          <6> QED BY <6>1, <6>2, <6>3 DEF Stream
        <5>3. v.st = "got_payload" => Len(v.pay) = v.need
          <6>1. Len(v.pay) = 0
            BY <4>1, EmptySeq
          <6> QED BY <4>1, <4>5, <6>1
        <5>4. Packet(c, asked[c], v)
          <6>1. HeaderOf(v.hdr, c, n) /\ n \in 1..Len(asked[c]) /\ asked[c][n].ok /\ v.need = asked[c][n].size
            BY <4>1, <4>5, <5>1, <5>2
          <6> QED BY <4>1, <5>3, <6>1 DEF Packet
        <5> QED BY <4>2, <4>3, <5>4
      <4> QED BY <4>4, <4>5
    <3> QED BY <3>1, <3>2
  <2> HIDE DEF u
  <2>7. Good(c, phase[c], asked[c], replies'[c], Held(u) \o (inbox'[c] \o wire[c]))
    <3>1. <<>> \o (rest \o wire[c]) = rest \o wire[c]
      BY <2>2, ConcatEmptySeq
    <3> QED BY <2>1, <2>4, <2>6, <3>1
  <2>8. ConnInv(c)'
    BY <1>4, <2>1, <2>4 DEF ConnInv, Coming
  <2>9. slot' = [slot EXCEPT ![fd - 1] = u]
    BY <1>8
  <2> QED BY <1>0, <1>3, <2>1, <2>6, <2>7, <2>8, <2>9, ServeStream
<1> QED
  <2>1. \/ Disconnect(fd, s) /\ UNCHANGED network
        \/ /\ inbox' = [inbox EXCEPT ![c] = SubSeq(@, k + 1, Len(@))]
           /\ slot' = [slot EXCEPT ![fd - 1] = u]
           /\ UNCHANGED <<phase, asked, wire, outbox, replies, tables>>
    BY <1>0 DEF ReadHeader, Got, k
  <2> QED BY <1>7, <1>8, <2>1

LEMMA ReadPayloadStream == ASSUME TInv, SInv, ReadPayload PROVE SInv'
<1> DEFINE here == IF pc = "payload" THEN at ELSE Next1
           num == Lesser(slot[here - 1].need - Len(slot[here - 1].pay), Len(inbox[owner[here]]))
           whole == Len(slot[here - 1].pay) + num = slot[here - 1].need
<1>a. /\ pc = "payload" \/ (pc = "scan" /\ Next1 # Listener /\ slot[Next1 - 1].st = "hdr_valid")
      /\ \/ Disconnect(here, slot[here - 1]) /\ UNCHANGED network
         \/ UNCHANGED <<network, tables, slot>>
         \/ /\ inbox' = [inbox EXCEPT ![owner[here]] = SubSeq(@, num + 1, Len(@))]
            /\ slot' = [slot EXCEPT ![here - 1].pay = @ \o SubSeq(inbox[owner[here]], 1, num),
                                    ![here - 1].st = IF whole THEN "got_payload" ELSE @]
            /\ UNCHANGED <<phase, asked, wire, outbox, replies, tables>>
  BY ZenonT(60) DEF ReadPayload
<1> HIDE DEF here
<1>0. PICK fd, c, s : /\ here = fd /\ c = owner[fd] /\ s = slot[fd - 1]
  OBVIOUS
<1> DEFINE k == Lesser(s.need - Len(s.pay), Len(inbox[c]))
           done == Len(s.pay) + k = s.need
           pay == s.pay \o Got(inbox[c], k)
           rest == Left(inbox[c], k)
           st == IF done THEN "got_payload" ELSE s.st
           u == [s EXCEPT !.pay = pay, !.st = st]
<1>1. TypeOK /\ TablesAgree /\ Turn /\ Buffers
  BY DEF TInv
<1>2. /\ pc = "payload" \/ (pc = "scan" /\ Next1 # Listener /\ slot[Next1 - 1].st = "hdr_valid")
      /\ \/ Disconnect(fd, s) /\ UNCHANGED network
         \/ UNCHANGED <<network, tables, slot>>
         \/ /\ inbox' = [inbox EXCEPT ![c] = SubSeq(@, k + 1, Len(@))]
            /\ slot' = [slot EXCEPT ![fd - 1].pay = @ \o SubSeq(inbox[c], 1, k),
                                    ![fd - 1].st = IF done THEN "got_payload" ELSE @]
            /\ UNCHANGED <<phase, asked, wire, outbox, replies, tables>>
  BY <1>0, <1>a
<1>3. /\ fd \in Owned /\ fd \in ClientFds /\ c \in Conns /\ s.st = "hdr_valid"
      /\ s \in Slot /\ s.hdr \in Seq(Unit) /\ s.pay \in Seq(Unit)
      /\ inbox[c] \in Seq(Unit) /\ wire[c] \in Seq(Unit) /\ Coming(c) \in Seq(Unit)
      /\ Filled(s)
  <2>1. fd \in Owned /\ s.st = "hdr_valid"
    <3>1. CASE pc = "payload"
      BY <1>0, <1>1, <3>1 DEF Turn, here
    <3>2. CASE pc # "payload"
      BY <1>0, <1>1, <1>2, <3>2, ScanTypes DEF here
    <3> QED BY <3>1, <3>2
  <2>2. Filled(s)
    BY <1>0, <1>1, <2>1 DEF Buffers
  <2> QED BY <1>0, <1>1, <2>1, <2>2, StreamTypes
<1>4. /\ ConnInv(c) /\ Packet(c, asked[c], s)
      /\ Good(c, phase[c], asked[c], replies[c], (s.hdr \o s.pay) \o Coming(c))
  BY <1>0, <1>3 DEF SInv, FdInv, Held
<1>5. /\ k \in Nat /\ k <= Len(inbox[c]) /\ Len(s.pay) \in Nat /\ s.need \in Nat
      /\ k <= s.need - Len(s.pay)
  <2>1. s.need \in Nat /\ Len(s.pay) \in Nat /\ Len(inbox[c]) \in Nat
    BY <1>3, Consts, LenProperties DEF Slot
  <2>2. s.need - Len(s.pay) \in Nat
    BY <1>3, <2>1 DEF Filled
  <2> QED BY <2>1, <2>2, LesserBounds
<1> HIDE DEF k
<1>6. CASE Disconnect(fd, s) /\ UNCHANGED network
  BY <1>3, <1>6, DisconnectStream
<1>7. CASE UNCHANGED <<network, tables, slot>>
  BY <1>7, QuietStep DEF network, tables
<1>8. CASE /\ inbox' = [inbox EXCEPT ![c] = SubSeq(@, k + 1, Len(@))]
           /\ slot' = [slot EXCEPT ![fd - 1].pay = @ \o SubSeq(inbox[c], 1, k),
                                   ![fd - 1].st = IF done THEN "got_payload" ELSE @]
           /\ UNCHANGED <<phase, asked, wire, outbox, replies, tables>>
  <2>1. /\ UNCHANGED <<phase, asked, wire, replies, owner>> /\ inbox'[c] = rest
        /\ \A d \in Conns : d # c => inbox'[d] = inbox[d]
    BY <1>1, <1>3, <1>8 DEF tables, TypeOK, Left
  <2>2. slot' = [slot EXCEPT ![fd - 1] = u]
    BY <1>0, <1>8 DEF Got
  <2> DEFINE h == s.hdr \o s.pay
             sub == Got(inbox[c], k)
  <2>3. h \in Seq(Unit)
    BY <1>3, ConcatProperties
  <2> HIDE DEF h
  <2>4. /\ sub \in Seq(Unit) /\ Len(sub) = k /\ rest \o wire[c] \in Seq(Unit)
        /\ Coming(c) = sub \o (rest \o wire[c])
        /\ h \o Coming(c) = (h \o sub) \o (rest \o wire[c])
    <3>1. sub \in Seq(Unit) /\ Len(sub) = k
      BY <1>3, <1>5, Parts
    <3>2. rest \o wire[c] \in Seq(Unit) /\ inbox[c] \o wire[c] = sub \o (rest \o wire[c])
      BY <1>3, <1>5, Taken
    <3>3. h \o (inbox[c] \o wire[c]) = (h \o sub) \o (rest \o wire[c])
      <4> HIDE DEF sub, rest
      <4>1. (h \o sub) \o (rest \o wire[c]) = h \o (sub \o (rest \o wire[c]))
        BY <2>3, <3>1, <3>2, Assoc
      <4> QED BY <3>2, <4>1
    <3> QED BY <3>1, <3>2, <3>3 DEF Coming
  <2>5. Len(sub) = k
    BY <2>4
  <2> HIDE DEF sub, rest
  <2>6. h \o sub = s.hdr \o pay
    <3>1. (s.hdr \o s.pay) \o sub = s.hdr \o (s.pay \o sub)
      BY <1>3, <2>4, Assoc
    <3>2. h = s.hdr \o s.pay /\ pay = s.pay \o sub
      BY DEF h, sub
    <3> HIDE DEF pay
    <3> QED BY <3>1, <3>2
  <2>7. Len(pay) = Len(s.pay) + k /\ pay \in Seq(Unit)
    <3>1. Len(pay) = Len(s.pay) + Len(sub) /\ pay \in Seq(Unit)
      BY <1>3, <2>4, ConcatProperties DEF sub
    <3> QED BY <2>5, <3>1
  <2>8. st \in {"got_payload", "hdr_valid"} /\ (st = "got_payload" => Len(pay) = s.need)
    BY <1>3, <2>7
  <2> HIDE DEF pay, st, done
  <2>9. u.st = st /\ u.pay = pay /\ u.hdr = s.hdr /\ u.need = s.need
    BY <1>3 DEF Slot
  <2> HIDE DEF u
  <2>10. Held(u) = s.hdr \o pay /\ Packet(c, asked[c], u)
    <3>1. Held(u) = s.hdr \o pay
      BY <2>8, <2>9 DEF Held
    <3> QED BY <1>3, <1>4, <2>8, <2>9, <3>1 DEF Packet
  <2>11. /\ Good(c, phase[c], asked[c], replies[c], rest \o wire[c])
         /\ Good(c, phase[c], asked[c], replies[c], Held(u) \o (rest \o wire[c]))
    <3>1. Good(c, phase[c], asked[c], replies[c], Coming(c))
      BY <1>4 DEF ConnInv
    <3>2. Good(c, phase[c], asked[c], replies[c], rest \o wire[c])
      BY <2>4, <3>1, GoodBack
    <3>3. Good(c, phase[c], asked[c], replies[c], h \o Coming(c))
      BY <1>4 DEF h
    <3> QED BY <2>4, <2>6, <2>10, <3>2, <3>3
  <2>12. ConnInv(c)'
    BY <1>4, <2>1, <2>11 DEF ConnInv, Coming
  <2>13. Good(c, phase[c], asked[c], replies'[c], Held(u) \o (inbox'[c] \o wire[c]))
    BY <2>1, <2>11
  <2> QED BY <1>0, <1>3, <2>1, <2>2, <2>10, <2>12, <2>13, ServeStream
<1> QED BY <1>2, <1>6, <1>7, <1>8

LEMMA SelectStream == ASSUME TInv, SInv, Select PROVE SInv'
BY QuietStep DEF Select, network, tables
LEMMA StutterStream == ASSUME TInv, SInv, UNCHANGED vars PROVE SInv'
BY QuietStep DEF vars, network, tables
-----------------------------------------------------------------------------
LEMMA InitStream == Init => SInv
<1> SUFFICES ASSUME Init PROVE SInv
  OBVIOUS
<1>1. Owned = {}
  BY DEF Init, Owned
<1>2. ASSUME NEW c \in Conns PROVE ConnInv(c)
  <2>1. Coming(c) = <<>> /\ replies[c] = <<>>
    BY Emptied DEF Init, Coming
  <2>2. Answered(asked[c], <<>>)
    BY EmptySeq DEF Answered
  <2> QED BY <2>1, <2>2, GoodEmpty DEF ConnInv
<1> QED BY <1>1, <1>2 DEF SInv

LEMMA StepStream == TInv /\ SInv /\ [Next]_vars => SInv'
BY ClientStream, SelectStream, AcceptStream, ReadHeaderStream, ReadPayloadStream, AnswerStream,
   StutterStream DEF Next, ServerStep

(* What is held, arrived or on the way of a connection is at all times one   *)
(* piece of its client's stream, with nothing before what was answered.      *)
THEOREM StreamsInvariant == Spec => []SInv
<1>1. TInv /\ SInv /\ [Next]_vars => SInv'
  BY StepStream
<1> QED BY InitStream, <1>1, TablesInvariant, PTL DEF Spec

LEMMA OwnUnitsHold == TInv /\ SInv => OwnUnits
<1> SUFFICES ASSUME TInv, SInv, NEW fd \in ClientFds, owner[fd] # None,
                    slot[fd - 1].st # "complete"
             PROVE  /\ Run(slot[fd - 1].hdr \o slot[fd - 1].pay, owner[fd])
                    /\ slot[fd - 1].st = "got_payload" =>
                          \E n \in 1..Len(asked[owner[fd]]) :
                             /\ asked[owner[fd]][n].ok /\ HeaderOf(slot[fd - 1].hdr, owner[fd], n)
                             /\ Len(slot[fd - 1].pay) = asked[owner[fd]][n].size
  BY DEF OwnUnits
<1> DEFINE c == owner[fd]
           s == slot[fd - 1]
           h == s.hdr \o s.pay
<1>1. /\ fd \in Owned /\ c \in Conns /\ s.hdr \in Seq(Unit) /\ s.pay \in Seq(Unit)
      /\ Coming(c) \in Seq(Unit) /\ h \in Seq(Unit)
  <2>1. fd \in Owned
    BY DEF Owned
  <2>2. c \in Conns /\ s.hdr \in Seq(Unit) /\ s.pay \in Seq(Unit) /\ Coming(c) \in Seq(Unit)
    BY <2>1, StreamTypes DEF TInv
  <2> QED BY <2>1, <2>2, ConcatProperties
<1>2. Good(c, phase[c], asked[c], replies[c], h \o Coming(c)) /\ Packet(c, asked[c], s)
  BY <1>1 DEF SInv, FdInv, Held
<1> HIDE DEF c, s, h
<1>3. Stream(c, asked[c], h)
  BY <1>1, <1>2, Front DEF Good
<1>4. Run(h, c)
  <2>1. DOMAIN h = 1..Len(h) /\ Len(h) \in Nat /\ \A k \in 1..Len(h) : h[k] \in Unit
    BY <1>1, LenProperties, ElementOfSeq
  <2>2. ASSUME NEW k \in 1..Len(h), k > 1
        PROVE  \/ h[k] = [h[k - 1] EXCEPT !.part = @ + 1]
               \/ h[k].req = h[k - 1].req + 1 /\ h[k].part = 1
    <3>1. k \in 2..Len(h) /\ k - 1 \in 1..Len(h)
      BY <2>1, <2>2
    <3>2. h[k] \in Unit /\ h[k - 1] \in Unit /\ h[k].conn = c /\ h[k - 1].conn = c
      BY <1>3, <2>1, <3>1 DEF Stream
    <3>3. Follows(asked[c], h[k - 1], h[k])
      BY <1>3, <3>1 DEF Stream
    <3>4. CASE h[k].req = h[k - 1].req /\ h[k].part = h[k - 1].part + 1
      BY <3>2, <3>4 DEF Unit
    <3> QED BY <3>3, <3>4 DEF Follows
  <2>3. \A k \in 1..Len(h) : h[k].conn = c
    BY <1>3 DEF Stream
  <2> QED BY <2>1, <2>2, <2>3 DEF Run
<1>5. s.st = "got_payload" =>
        \E n \in 1..Len(asked[c]) :
           asked[c][n].ok /\ HeaderOf(s.hdr, c, n) /\ Len(s.pay) = asked[c][n].size
  BY <1>2 DEF Packet
<1> QED BY <1>4, <1>5 DEF c, s, h

(* The entry of state[] behind a descriptor never mixes in a unit of an       *)
(* earlier connection, nor skips or repeats one, and what is executed is one  *)
(* whole request with its own payload.                                        *)
THEOREM OwnUnitsAlways == Spec => []OwnUnits
BY OwnUnitsHold, TablesInvariant, StreamsInvariant, PTL

(* Every connection is answered for its own valid requests only, in the      *)
(* order they were made and each at most once.                               *)
THEOREM AnsweredInOrderAlways == Spec => []AnsweredInOrder
<1>1. TInv /\ SInv => AnsweredInOrder
  <2> SUFFICES ASSUME TInv, SInv, NEW c \in Conns, NEW i \in DOMAIN replies[c]
               PROVE  /\ replies[c][i] \in 1..Len(asked[c]) /\ asked[c][replies[c][i]].ok
                      /\ i > 1 => replies[c][i - 1] < replies[c][i]
    BY DEF AnsweredInOrder
  <2>1. replies[c] \in Seq(1..MaxReqs)
    BY StreamTypes DEF TInv
  <2>2. DOMAIN replies[c] = 1..Len(replies[c])
    BY <2>1, LenProperties
  <2> QED BY <2>2 DEF SInv, ConnInv, Answered
<1> QED BY <1>1, TablesInvariant, StreamsInvariant, PTL
=============================================================================
