------------------------------ MODULE CmdServer ------------------------------
(***************************************************************************)
(* The server process of the Zynq board and all its connections:           *)
(* command_processor() and disconnectClient() of                           *)
(* zynqmp/server/commandProcessor.c.  One thread selects over the listening *)
(* socket and the clients, and serves the ready descriptors in ascending    *)
(* order; the state of a connection is kept in an array indexed by its      *)
(* descriptor less one, and descriptors are used again after a close.       *)
(* CmdLink.tla has the client library's side and one connection in detail.  *)
(*                                                                         *)
(* A request is a header of HdrLen units and a payload; a unit is a record  *)
(* of the connection, the request and the place in it.                      *)
(***************************************************************************)
EXTENDS Integers, Sequences, FiniteSets

CONSTANTS
    Conns,      \* the connections made while the server runs, in any order
    None,       \* no connection
    Listener,   \* descriptor of the listening socket; those below are in use
    MaxClients, \* NET_MAX_CLIENTS
    Slots,      \* entries of state[] (NET_MAX_CLIENTS+3)
    HdrLen,     \* units of a header
    Payloads,   \* payload sizes the requests ask for
    BufNormal,  \* ZYNQMP_TO_FEM_BUFFER_BYTES
    BufMax,     \* ZYNQMP_TO_FEM_BUFFER_MAX
    Window,     \* responses a client's receive side can buffer
    MaxReqs,    \* bound: requests of one connection
    MaxTotal    \* bound: requests of all connections

ASSUME ServerAssumption ==
    /\ None \notin Conns
    /\ Listener \in Nat /\ MaxClients \in Nat \ {0} /\ Slots \in Nat
    /\ HdrLen \in Nat \ {0} /\ Payloads \subseteq Nat
    /\ BufNormal \in Nat /\ BufMax \in Nat /\ BufNormal <= BufMax
    /\ Window \in Nat \ {0} /\ MaxReqs \in Nat
    /\ MaxTotal \in Nat /\ IsFiniteSet(Conns)

(* With MaxClients connections open one more is accepted to be refused.     *)
ClientFds == (Listener + 1)..(Listener + MaxClients + 1)
Index     == Listener..(Listener + MaxClients)

VARIABLES
    (* the connections: the clients' ends and what is on the way *)
    phase,      \* "new", "up", "refused", or how the client left: "fin", "rst"
    asked,      \* [conn -> its requests: payload size and validity]
    wire,       \* [conn -> units sent and not yet arrived]
    inbox,      \* [conn -> units in the server's socket buffer]
    outbox,     \* [conn -> responses not yet read by the client]
    replies,    \* [conn -> the requests answered, in order] (history)
    (* the server *)
    backlog,    \* connections waiting in the listening socket
    owner,      \* [descriptor -> the connection it is open for, or None]
    masterSet, readSet, maxFds,
    numClients, \* numConnectedClients
    slot,       \* state[]
    pc,         \* select, scan, payload or send
    at          \* clientSocket

network == <<phase, asked, wire, inbox, outbox, replies>>
tables  == <<backlog, owner, masterSet, maxFds, numClients>>
vars    == <<network, tables, readSet, slot, pc, at>>

Unit == [conn : Conns, req : 1..MaxReqs, part : Nat]
Lesser(a, b) == IF a <= b THEN a ELSE b

(* state, the header and payload units read, payload_bytes_required,        *)
(* payloadBufferSz and the size that is really allocated (0: NULL).         *)
Idle == [st |-> "complete", hdr |-> <<>>, pay |-> <<>>, need |-> 0, bufsz |-> 0, alloc |-> 0]

Init ==
    /\ phase = [c \in Conns |-> "new"]
    /\ asked = [c \in Conns |-> <<>>]
    /\ wire = [c \in Conns |-> <<>>] /\ inbox = [c \in Conns |-> <<>>]
    /\ outbox = [c \in Conns |-> <<>>] /\ replies = [c \in Conns |-> <<>>]
    /\ backlog = <<>> /\ owner = [fd \in ClientFds |-> None]
    /\ masterSet = {Listener} /\ readSet = {} /\ maxFds = Listener /\ numClients = 0
    /\ slot = [x \in Index |-> Idle]
    /\ pc = "select" /\ at = Listener
-----------------------------------------------------------------------------
(* Clients *)

Connect(c) ==
    /\ phase[c] = "new"
    /\ phase' = [phase EXCEPT ![c] = "up"]
    /\ backlog' = Append(backlog, c)
    /\ UNCHANGED <<asked, wire, inbox, outbox, replies, owner, masterSet, maxFds, numClients,
                   readSet, slot, pc, at>>

(* Requests are posted without waiting for the answers.                     *)
Post(c, p, ok) ==
    /\ phase[c] = "up" /\ Len(asked[c]) < MaxReqs
    /\ p \in Payloads /\ (ok \/ p = 0)
    /\ Cardinality(UNION {{<<d, n>> : n \in DOMAIN asked[d]} : d \in Conns}) < MaxTotal
    /\ asked' = [asked EXCEPT ![c] = Append(@, [size |-> p, ok |-> ok])]
    /\ wire' = [wire EXCEPT ![c] = @ \o
         [k \in 1..(HdrLen + p) |-> [conn |-> c, req |-> Len(asked[c]) + 1, part |-> k]]]
    /\ UNCHANGED <<phase, inbox, outbox, replies, tables, readSet, slot, pc, at>>

Deliver(c) ==
    /\ wire[c] # <<>> /\ phase[c] # "rst"
    /\ inbox' = [inbox EXCEPT ![c] = Append(@, Head(wire[c]))]
    /\ wire' = [wire EXCEPT ![c] = Tail(@)]
    /\ UNCHANGED <<phase, asked, outbox, replies, tables, readSet, slot, pc, at>>

ReadAnswer(c) ==
    /\ phase[c] = "up" /\ outbox[c] # <<>>
    /\ outbox' = [outbox EXCEPT ![c] = Tail(@)]
    /\ UNCHANGED <<phase, asked, wire, inbox, replies, tables, readSet, slot, pc, at>>

(* The client closes its socket, or is reset and loses what has arrived.    *)
Leave(c, how) ==
    /\ phase[c] = "up"
    /\ phase' = [phase EXCEPT ![c] = how]
    /\ outbox' = [outbox EXCEPT ![c] = <<>>]
    /\ IF how = "rst" THEN /\ inbox' = [inbox EXCEPT ![c] = <<>>]
                           /\ wire' = [wire EXCEPT ![c] = <<>>]
       ELSE UNCHANGED <<inbox, wire>>
    /\ UNCHANGED <<asked, replies, tables, readSet, slot, pc, at>>
-----------------------------------------------------------------------------
(* Server *)

Ended(c) == phase[c] = "rst" \/ (phase[c] = "fin" /\ inbox[c] = <<>> /\ wire[c] = <<>>)
Ready(fd) ==
    IF fd = Listener THEN backlog # <<>>
    ELSE inbox[owner[fd]] # <<>> \/ Ended(owner[fd])

(* select() with its timeout: a turn in which nothing is ready only counts  *)
(* timeoutCount, which nothing looks at.                                    *)
Select ==
    /\ pc = "select"
    /\ LET ready == {fd \in masterSet : fd <= maxFds /\ Ready(fd)}
       IN ready # {} /\ readSet' = ready
    /\ pc' = "scan"
    /\ UNCHANGED <<network, tables, slot, at>>

(* for (i=0; i<=maxFds; i++) if (FD_ISSET(i, &readSet)) ...                 *)
Next1 == CHOOSE fd \in readSet : \A g \in readSet : fd <= g
Rest  == readSet \ {Next1}
Go    == pc' = IF Rest = {} THEN "select" ELSE "scan"

FreeFd == CHOOSE fd \in ClientFds : /\ owner[fd] = None
                                    /\ \A g \in ClientFds : owner[g] = None => fd <= g

(* close(newFd): what the client has sent is lost.                          *)
Refuse(c) ==
    /\ phase' = [phase EXCEPT ![c] = "refused"]
    /\ inbox' = [inbox EXCEPT ![c] = <<>>] /\ wire' = [wire EXCEPT ![c] = <<>>]
    /\ UNCHANGED <<asked, outbox, replies>>

FullLate == numClients > MaxClients     \* mutant of Full: one client too many
Full     == numClients = MaxClients

(* A connection too many is accepted and closed at once.                    *)
Accept ==
    /\ pc = "scan" /\ Next1 = Listener
    /\ backlog' = Tail(backlog) /\ readSet' = Rest /\ Go
    /\ \/ /\ Full
          /\ Refuse(Head(backlog))
          /\ UNCHANGED <<owner, masterSet, maxFds, numClients, slot>>
       \/ /\ ~Full
          /\ UNCHANGED network
          /\ owner' = [owner EXCEPT ![FreeFd] = Head(backlog)]
          /\ masterSet' = masterSet \cup {FreeFd}
          /\ maxFds' = IF FreeFd > maxFds THEN FreeFd ELSE maxFds
          /\ numClients' = numClients + 1
          /\ slot' = [slot EXCEPT ![FreeFd - 1].st = "complete",
                                  ![FreeFd - 1].alloc = BufNormal]
    /\ UNCHANGED at

(* Mutant of Disconnect: the place of the client is not given back.         *)
DisconnectUncounted(fd, s) ==
    /\ owner' = [owner EXCEPT ![fd] = None]
    /\ masterSet' = masterSet \ {fd}
    /\ slot' = [slot EXCEPT ![fd - 1] = [s EXCEPT !.st = "complete", !.bufsz = 0, !.alloc = 0]]
    /\ UNCHANGED <<backlog, maxFds, numClients>>

(* disconnectClient *)
Disconnect(fd, s) ==
    /\ owner' = [owner EXCEPT ![fd] = None]
    /\ masterSet' = masterSet \ {fd}
    /\ numClients' = numClients - 1
    /\ slot' = [slot EXCEPT ![fd - 1] =
          [s EXCEPT !.st = "complete", !.bufsz = 0, !.alloc = IF s.bufsz > 0 THEN 0 ELSE @]]
    /\ UNCHANGED <<backlog, maxFds>>

(* Mutants of Fresh: done at every wake-up; payloadBufferSz forgotten.      *)
FreshAlways(s) == [s EXCEPT !.st = "start", !.bufsz = BufNormal, !.hdr = <<>>, !.pay = <<>>,
                            !.alloc = BufNormal]
FreshKeptSize(s) ==
    IF s.st # "complete" THEN s ELSE [s EXCEPT !.st = "start", !.hdr = <<>>, !.pay = <<>>]

(* STATE_COMPLETE: the connection is made ready for a new packet, and a     *)
(* payload buffer that had been enlarged is given back.                     *)
Fresh(s) ==
    IF s.st # "complete" THEN s
    ELSE [s EXCEPT !.st = "start", !.bufsz = BufNormal, !.hdr = <<>>, !.pay = <<>>,
                   !.alloc = IF s.bufsz > BufNormal THEN BufNormal ELSE @]

(* validateHeaderContents: HdrLen units that are the header of one request, *)
(* with fields it accepts.                                                  *)
HeaderOf(units, c, n) == units = [k \in 1..HdrLen |-> [conn |-> c, req |-> n, part |-> k]]
Validated(units) ==
    \E n \in 1..Len(asked[units[1].conn]) :
        HeaderOf(units, units[1].conn, n) /\ asked[units[1].conn][n].ok
Required(units) == asked[units[1].conn][units[1].req].size

(* Mutant of AfterHeader: what cannot be validated is not dropped.          *)
AfterHeaderUnchecked(s) ==
    [s EXCEPT !.st = "got_payload", !.pay = <<>>]

(* A valid header with a payload that is too long is dropped; otherwise the *)
(* buffer is enlarged if need be.                                           *)
AfterHeader(s) ==
    IF ~Validated(s.hdr) \/ Required(s.hdr) > BufMax THEN [s EXCEPT !.st = "complete", !.pay = <<>>]
    ELSE LET p == Required(s.hdr)
         IN [s EXCEPT !.st = IF p = 0 THEN "got_payload" ELSE "hdr_valid", !.need = p, !.pay = <<>>,
                      !.bufsz = IF p > @ THEN p ELSE @, !.alloc = IF p > s.bufsz THEN p ELSE @]

(* Goes on with the packet of fd, or to the next ready descriptor.          *)
Follow(fd, s) ==
    /\ at' = fd
    /\ IF s.st = "got_payload" THEN pc' = "send" /\ readSet' = Rest
       ELSE IF s.st = "hdr_valid" THEN pc' = "payload" /\ readSet' = Rest
       ELSE Go /\ readSet' = Rest

(* recv(MSG_DONTWAIT) of what is missing of the header.                     *)
ReadHeader ==
    /\ pc = "scan" /\ Next1 # Listener /\ slot[Next1 - 1].st \in {"complete", "start"}
    /\ LET fd == Next1
           c == owner[fd]
           s == Fresh(slot[fd - 1])
           k == Lesser(HdrLen - Len(s.hdr), Len(inbox[c]))
           t == [s EXCEPT !.hdr = @ \o SubSeq(inbox[c], 1, k)]
           u == IF Len(t.hdr) = HdrLen THEN AfterHeader(t) ELSE t
       IN \/ /\ k = 0 /\ Ended(c)
             /\ Disconnect(fd, s)
             /\ Go /\ readSet' = Rest
             /\ UNCHANGED <<network, at>>
          \/ /\ k > 0
             /\ inbox' = [inbox EXCEPT ![c] = SubSeq(@, k + 1, Len(@))]
             /\ slot' = [slot EXCEPT ![fd - 1] = u]
             /\ Follow(fd, u)
             /\ UNCHANGED <<phase, asked, wire, outbox, replies, tables>>

(* recv(MSG_DONTWAIT) of what is missing of the payload, directly after the *)
(* header or in a later turn; there may be nothing yet.                     *)
ReadPayload ==
    LET direct == pc = "payload"
        fd == IF direct THEN at ELSE Next1
        left == IF direct THEN readSet ELSE Rest
        c == owner[fd]
        s == slot[fd - 1]
        k == Lesser(s.need - Len(s.pay), Len(inbox[c]))
        done == Len(s.pay) + k = s.need
    IN /\ \/ direct
          \/ pc = "scan" /\ Next1 # Listener /\ slot[Next1 - 1].st = "hdr_valid"
       /\ readSet' = left
       /\ \/ /\ k = 0 /\ Ended(c)
             /\ Disconnect(fd, s)
             /\ pc' = (IF left = {} THEN "select" ELSE "scan")
             /\ UNCHANGED <<network, at>>
          \/ /\ k = 0 /\ ~Ended(c)
             /\ pc' = (IF left = {} THEN "select" ELSE "scan")
             /\ UNCHANGED <<network, tables, slot, at>>
          \/ /\ k > 0
             /\ inbox' = [inbox EXCEPT ![c] = SubSeq(@, k + 1, Len(@))]
             /\ slot' = [slot EXCEPT ![fd - 1].pay = @ \o SubSeq(inbox[c], 1, k),
                                     ![fd - 1].st = IF done THEN "got_payload" ELSE @]
             /\ at' = fd
             /\ pc' = IF done THEN "send" ELSE IF left = {} THEN "select" ELSE "scan"
             /\ UNCHANGED <<phase, asked, wire, outbox, replies, tables>>

(* Mutant of Answer: the packet is not finished with.                       *)
AnswerRepeated ==
    /\ pc = "send" /\ phase[owner[at]] = "up" /\ Len(outbox[owner[at]]) < Window
    /\ outbox' = [outbox EXCEPT ![owner[at]] = Append(@, slot[at - 1].hdr[1].req)]
    /\ replies' = [replies EXCEPT ![owner[at]] = Append(@, slot[at - 1].hdr[1].req)]
    /\ UNCHANGED <<phase, asked, wire, inbox, tables, readSet, slot, pc, at>>

(* The request is executed and answered with a blocking send, which fails   *)
(* when the client is gone; either way the packet is finished with.         *)
Answer ==
    /\ pc = "send"
    /\ LET c == owner[at]
           n == slot[at - 1].hdr[1].req
       IN \/ /\ phase[c] # "up"
             /\ UNCHANGED <<outbox, replies>>
          \/ /\ phase[c] = "up" /\ Len(outbox[c]) < Window
             /\ outbox' = [outbox EXCEPT ![c] = Append(@, n)]
             /\ replies' = [replies EXCEPT ![c] = Append(@, n)]
    /\ slot' = [slot EXCEPT ![at - 1].st = "complete"]
    /\ pc' = IF readSet = {} THEN "select" ELSE "scan"
    /\ UNCHANGED <<phase, asked, wire, inbox, tables, readSet, at>>
-----------------------------------------------------------------------------
ClientStep(c) ==
    \/ Connect(c) \/ Deliver(c) \/ ReadAnswer(c)
    \/ \E p \in Payloads, ok \in BOOLEAN : Post(c, p, ok)
    \/ \E how \in {"fin", "rst"} : Leave(c, how)
ServerStep == Select \/ Accept \/ ReadHeader \/ ReadPayload \/ Answer

Next == ServerStep \/ \E c \in Conns : ClientStep(c)

Spec == Init /\ [][Next]_vars
FairSpec ==
    /\ Spec /\ WF_vars(ServerStep)
    /\ \A c \in Conns : WF_vars(Deliver(c)) /\ WF_vars(ReadAnswer(c))
-----------------------------------------------------------------------------
Slot == [st : {"complete", "start", "hdr_valid", "got_payload"}, hdr : Seq(Unit), pay : Seq(Unit),
         need : 0..BufMax, bufsz : 0..BufMax, alloc : 0..BufMax]
TypeOK ==
    /\ phase \in [Conns -> {"new", "up", "fin", "rst", "refused"}]
    /\ asked \in [Conns -> Seq([size : Payloads, ok : BOOLEAN])]
    /\ wire \in [Conns -> Seq(Unit)] /\ inbox \in [Conns -> Seq(Unit)]
    /\ outbox \in [Conns -> Seq(1..MaxReqs)] /\ replies \in [Conns -> Seq(1..MaxReqs)]
    /\ backlog \in Seq(Conns) /\ owner \in [ClientFds -> Conns \cup {None}]
    /\ masterSet \subseteq {Listener} \cup ClientFds /\ readSet \subseteq masterSet \cup {Listener}
    /\ maxFds \in {Listener} \cup ClientFds /\ numClients \in 0..MaxClients
    /\ slot \in [Index -> Slot]
    /\ pc \in {"select", "scan", "payload", "send"} /\ at \in {Listener} \cup ClientFds

(* The entry of state[] behind an open descriptor holds units of the         *)
(* connection that has it now and of no earlier one, and they follow each    *)
(* other in its stream; what is executed is one whole request.              *)
Run(units, c) ==
    \A k \in DOMAIN units : /\ units[k].conn = c
                            /\ k > 1 => \/ units[k] = [units[k-1] EXCEPT !.part = @ + 1]
                                        \/ units[k].req = units[k-1].req + 1 /\ units[k].part = 1
OwnUnits ==
    \A fd \in ClientFds :
        LET s == slot[fd - 1]
        IN owner[fd] # None /\ s.st # "complete" =>
             /\ Run(s.hdr \o s.pay, owner[fd])
             /\ s.st = "got_payload" =>
                  \E n \in 1..Len(asked[owner[fd]]) :
                      /\ asked[owner[fd]][n].ok
                      /\ HeaderOf(s.hdr, owner[fd], n) /\ Len(s.pay) = asked[owner[fd]][n].size

(* Every connection is answered for its own requests, in the order it made  *)
(* them, each at most once, and only for those that were valid.             *)
AnsweredInOrder ==
    \A c \in Conns : \A i \in DOMAIN replies[c] :
        /\ replies[c][i] \in 1..Len(asked[c]) /\ asked[c][replies[c][i]].ok
        /\ i > 1 => replies[c][i - 1] < replies[c][i]

(* The tables agree: the descriptors selected on are those of the open      *)
(* connections, maxFds covers them, numConnectedClients counts them, and no  *)
(* connection has two.                                                      *)
TablesAgree ==
    /\ masterSet = {Listener} \cup {fd \in ClientFds : owner[fd] # None}
    /\ \A fd \in masterSet : fd <= maxFds
    /\ numClients = Cardinality(masterSet) - 1
    /\ \A f, g \in ClientFds : owner[f] = owner[g] /\ owner[f] # None => f = g

(* A payload is read only into memory that was allocated for it: the size   *)
(* the server remembers is the size it has, through enlarging, giving back, *)
(* disconnecting and using the entry again.                                 *)
BufferHolds ==
    \A fd \in ClientFds :
        LET s == slot[fd - 1]
        IN owner[fd] # None /\ s.st \in {"start", "hdr_valid", "got_payload"} =>
             s.alloc = s.bufsz /\ (s.st # "start" => s.need <= s.alloc)

(* The entry of every client lies inside state[]: "Allow space ofr stdin,   *)
(* stdout, stderr", says its declaration.                                   *)
SlotInRange == \A fd \in ClientFds : owner[fd] # None => fd - 1 < Slots

(* A request the server accepts is answered, as long as its client stays,   *)
(* whatever the other clients do, provided they go on reading: an earlier   *)
(* request it rejects must not have left the stream out of step.            *)
Sound(c) == \A n \in 1..Len(asked[c]) : asked[c][n].ok /\ asked[c][n].size <= BufMax
Served(c) == \E fd \in ClientFds : owner[fd] = c
Outstanding(c) == Served(c) /\ phase[c] = "up" /\ Sound(c) /\ Len(replies[c]) < Len(asked[c])
AllAnswered == \A c \in Conns : Outstanding(c) ~> ~Outstanding(c)
=============================================================================
