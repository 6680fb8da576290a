----------------------------- MODULE SafetyPair -----------------------------
(***************************************************************************)
(* SafetyScannerConnection (safety/scanner_connection.py): an originator   *)
(* opens two connections with a safety target, the server connection, on   *)
(* which it produces, and then the client connection, on which the target  *)
(* does, and closes both.  Several pairs may share an EipScanner           *)
(* (protocol/eip_scanner.py): a request is written and its reply read      *)
(* under the scanner's lock, and replies carry nothing that tells whose    *)
(* they are.  The TCP connection may end at any moment; the target notices *)
(* later, after it has handled what was written, or without.               *)
(***************************************************************************)
EXTENDS SafetyTarget, Sequences, SequencesExt

CONSTANTS Pair,          \* pairs; each is opened at most once
          OrigOf,        \* the originator of a pair
          ScannerOf,     \* the scanner, and so the socket, it uses
          ConfigOf,      \* the configuration id it opens with, or Unset
          MarkedOf,      \* whether its paths have a byte 0x50 of their own
          Clock,         \* the serial numbers the clock gives a pair
          OtherRequest,  \* opens of others, on sockets of theirs
          OtherSocket,
          MaxOther       \* bound: others open while there were fewer opens than this

VARIABLES link,    \* the scanners that are connected
          sock,    \* the sockets the target has a task for
          queue,   \* for each scanner, the holder of its lock and the waiters
          sent,    \* the pairs that have written their request
          wire,    \* for each socket, the requests that are written, not handled
          stream,  \* for each scanner, the replies that are not read
          pair     \* the pairs: [stage, base, server, client]

pairVars == <<link, sock, queue, sent, wire, stream, pair>>
vars == <<targetVars, pairVars>>

Scanner == Socket \ OtherSocket

ASSUME PairAssumption ==
    /\ OrigOf \in [Pair -> Originator] /\ ScannerOf \in [Pair -> Scanner]
    /\ ConfigOf \in [Pair -> Config \cup {Unset}] /\ MarkedOf \in [Pair -> BOOLEAN]
    /\ Clock \subseteq Serial /\ OtherSocket \subseteq Socket
ASSUME OtherAssumption == OtherRequest \subseteq OpenRequest

NoHalf == [id |-> 0, device |-> None, sv |-> 0]

Init ==
    /\ TargetInit
    /\ link = Scanner /\ sock = Scanner
    /\ queue = [s \in Scanner |-> <<>>]
    /\ sent = {}
    /\ wire = [s \in Scanner |-> <<>>]
    /\ stream = [s \in Scanner |-> <<>>]
    /\ pair = [p \in Pair |-> [stage |-> "new", base |-> 0, server |-> NoHalf, client |-> NoHalf]]

(***************************************************************************)
(* Requests: a pair waits for the reply to the one its stage is named for. *)
(***************************************************************************)
Waiting == {"open_server", "open_client", "close_server", "close_client"}

\* base + 1 in 16 bits
SecondSerial(base) == (base + 1) % Serials

SerialIn(p, stage) ==
    IF stage \in {"open_server", "close_server"} THEN pair[p].base ELSE SecondSerial(pair[p].base)

\* build_safety_forward_open
OpenRequestOf(p, kind) ==
    [kind |-> kind, orig |-> OrigOf[p], serial |-> SerialIn(p, pair[p].stage),
     scid |-> ConfigOf[p], tunid |-> FirstUnid, marked |-> MarkedOf[p]]

RequestOf(p) ==
    CASE pair[p].stage = "open_server" -> [open |-> TRUE, req |-> OpenRequestOf(p, "server")]
      [] pair[p].stage = "open_client" -> [open |-> TRUE, req |-> OpenRequestOf(p, "client")]
      [] OTHER -> [open |-> FALSE, req |-> [orig |-> OrigOf[p], serial |-> SerialIn(p, pair[p].stage)]]

Enters(p, stage) == pair' = [pair EXCEPT ![p].stage = stage]

Waits(p) == queue' = [queue EXCEPT ![ScannerOf[p]] = Append(@, p)]

\* The clock gives the first serial.
Open(p, base) ==
    /\ pair[p].stage = "new"
    /\ pair' = [pair EXCEPT ![p].stage = "open_server", ![p].base = base]
    /\ Waits(p)
    /\ UNCHANGED <<targetVars, link, sock, sent, wire, stream>>

Close(p) ==
    /\ pair[p].stage = "open"
    /\ Enters(p, "close_server")
    /\ Waits(p)
    /\ UNCHANGED <<targetVars, link, sock, sent, wire, stream>>

(***************************************************************************)
(* The lock.                                                               *)
(***************************************************************************)
\* Mutant of MayWrite: the lock is not waited for.
AnyMayWrite(p) == p \in Range(queue[ScannerOf[p]])

MayWrite(p) == queue[ScannerOf[p]] # <<>> /\ p = Head(queue[ScannerOf[p]])

Write(p) ==
    LET s == ScannerOf[p]
    IN  /\ MayWrite(p) /\ p \notin sent
        /\ s \in link
        /\ wire' = [wire EXCEPT ![s] = Append(@, RequestOf(p))]
        /\ sent' = sent \cup {p}
        /\ UNCHANGED <<targetVars, link, sock, queue, stream, pair>>

\* Mutant of Leave: the lock is kept.
LeaveNot(q) == q

\* The holder, who is first, goes, and the next in line has the lock.
Leave(q) == Tail(q)

\* The lock is let go; a pair with another request to make waits for it again.
LetGo(p, stage) ==
    LET s == ScannerOf[p]
        rest == Leave(queue[s])
    IN  /\ queue' = [queue EXCEPT ![s] = IF stage \in Waiting THEN Append(rest, p) ELSE rest]
        /\ sent' = sent \ {p}

(***************************************************************************)
(* Replies.  The application reply names the target and its validator.     *)
(***************************************************************************)
Half(r) == [id |-> r.id, device |-> r.device, sv |-> r.sv]

\* A refusal, or no reply at all, ends open() with an exception; close() goes on.
StageAfter(stage, ok) ==
    CASE stage = "open_server"  -> IF ok THEN "open_client" ELSE "failed"
      [] stage = "open_client"  -> IF ok THEN "open" ELSE "failed"
      [] stage = "close_server" -> "close_client"
      [] OTHER                  -> "closed"

Receive(p) ==
    LET s == ScannerOf[p]
        r == Head(stream[s])
        stage == StageAfter(pair[p].stage, r.ok)
    IN  /\ p \in sent /\ MayWrite(p) /\ stream[s] # <<>>
        /\ stream' = [stream EXCEPT ![s] = Tail(@)]
        /\ LetGo(p, stage)
        /\ pair' = [pair EXCEPT
                ![p].stage = stage,
                ![p].server = IF pair[p].stage = "open_server" /\ r.ok THEN Half(r) ELSE @,
                ![p].client = IF pair[p].stage = "open_client" /\ r.ok THEN Half(r) ELSE @]
        /\ UNCHANGED <<targetVars, link, sock, wire>>

\* The stream has ended: the write or the read of the lock's holder raises.
Raise(p) ==
    /\ MayWrite(p)
    /\ ScannerOf[p] \notin link
    /\ Enters(p, StageAfter(pair[p].stage, FALSE))
    /\ LetGo(p, StageAfter(pair[p].stage, FALSE))
    /\ UNCHANGED <<targetVars, link, sock, wire, stream>>

(***************************************************************************)
(* The target's side of a socket.                                          *)
(***************************************************************************)
RefusedReply == [ok |-> FALSE, id |-> 0, device |-> None, sv |-> 0]

OpenedReply(r, s) ==
    [ok |-> TRUE, id |-> nextId + 1, device |-> Device, sv |-> SvInstId(Entry(r, s))]

ClosedReply(ok) == [ok |-> ok, id |-> 0, device |-> None, sv |-> 0]

Answers(s, reply) ==
    /\ wire' = [wire EXCEPT ![s] = Tail(@)]
    /\ stream' = IF s \in link THEN [stream EXCEPT ![s] = Append(@, reply)] ELSE stream
    /\ UNCHANGED <<link, sock, queue, sent, pair>>

ServeOpen(s) ==
    LET r == Head(wire[s]).req
    IN  /\ s \in sock /\ wire[s] # <<>> /\ Head(wire[s]).open
        /\ IF Refused(r)
           THEN UNCHANGED targetVars /\ Answers(s, RefusedReply)
           ELSE Admit(r, s) /\ Answers(s, OpenedReply(r, s))

ServeClose(s) ==
    LET r == Head(wire[s]).req
    IN  /\ s \in sock /\ wire[s] # <<>> /\ ~Head(wire[s]).open
        /\ ForwardClose(r.orig, r.serial, s)
        /\ Answers(s, ClosedReply(WithTriad(r.orig, r.serial) # {}))

\* The TCP connection ends for the originator: what is under way to it is lost.
Drop(s) ==
    /\ s \in link
    /\ link' = link \ {s}
    /\ stream' = [stream EXCEPT ![s] = <<>>]
    /\ UNCHANGED <<targetVars, sock, queue, sent, wire, pair>>

\* The target's task of the socket ends; what it has not handled is lost.
Notice(s) ==
    /\ s \in sock \ link
    /\ Reap(s)
    /\ sock' = sock \ {s}
    /\ wire' = [wire EXCEPT ![s] = <<>>]
    /\ UNCHANGED <<link, queue, sent, stream, pair>>

\* connect() again, when no request waits for the old connection and the target
\* has noticed its end.
Connect(s) ==
    /\ s \notin link \cup sock
    /\ queue[s] = <<>>
    /\ link' = link \cup {s}
    /\ sock' = sock \cup {s}
    /\ UNCHANGED <<targetVars, queue, sent, wire, stream, pair>>

(***************************************************************************)
(* Everyone else at the target.                                            *)
(***************************************************************************)
Other ==
    \/ \E r \in OtherRequest, s \in OtherSocket : nextId < MaxOther /\ Admit(r, s)
    \/ \E i \in Id : TimesOut(i)
    \/ Supervise

Serve(s) == ServeOpen(s) \/ ServeClose(s)
Proceed(p) == Write(p) \/ Receive(p) \/ Raise(p)

Next ==
    \/ \E p \in Pair : Proceed(p) \/ Close(p) \/ \E b \in Clock : Open(p, b)
    \/ \E s \in Scanner : Serve(s) \/ Drop(s) \/ Notice(s) \/ Connect(s)
    \/ Other /\ UNCHANGED pairVars

\* A socket's task reads the end of its stream.  Nothing makes anyone open or
\* close, or the network fail.
Fairness == \A s \in Scanner : WF_vars(Notice(s))

Spec == Init /\ [][Next]_vars /\ Fairness

(***************************************************************************)
(* Properties.                                                             *)
(***************************************************************************)
Stage == {"new", "open", "failed", "closed"} \cup Waiting

HalfType == [id : 0 .. MaxId, device : {Device, None}, sv : 0 .. Word - 1]

ReplyType == [ok : BOOLEAN, id : 0 .. MaxId, device : {Device, None}, sv : 0 .. Word - 1]

Message == [open : {TRUE}, req : OpenRequest]
               \cup [open : {FALSE}, req : [orig : Originator, serial : Serial]]

Typed ==
    /\ TargetTypeOK
    /\ link \subseteq Scanner /\ sock \subseteq Scanner
    /\ sent \subseteq Pair
    /\ wire \in [Scanner -> Seq(Message)]
    /\ stream \in [Scanner -> Seq(ReplyType)]
    /\ pair \in [Pair -> [stage : Stage, base : Serial, server : HalfType, client : HalfType]]

\* Who waits is in line for the lock, and nobody else.
TypeOK ==
    /\ Typed
    /\ \A p \in Pair : pair[p].stage \in Waiting <=> p \in Range(queue[ScannerOf[p]])

\* Seeds at the originator (open, lines 238 to 268).
OriginatorSeed(p) == Seed(OrigOf[p], pair[p].base)
TargetSeed(p) == Seed(pair[p].server.device, pair[p].client.sv)
CoordinationSeed(p) == Seed(OrigOf[p], SecondSerial(pair[p].base))
TargetCoordinationSeed(p) == Seed(pair[p].server.device, pair[p].server.sv)

\* The ends of an open pair agree on the four seeds that frames and time
\* coordination are checked with, for as long as the target has the
\* connections, whoever else opens and closes meanwhile.
SeedsAgree ==
    \A p \in Pair : pair[p].stage = "open" =>
        LET server == pair[p].server.id
            client == pair[p].client.id
        IN  /\ server \in LiveId =>
                    /\ OriginatorPid(conn[server]) = OriginatorSeed(p)
                    /\ ConsumerCid(conn[server]) = TargetCoordinationSeed(p)
            /\ client \in LiveId =>
                    /\ TargetPid(conn[client]) = TargetSeed(p)
                    /\ OriginatorPid(conn[client]) = CoordinationSeed(p)

\* When the scanner's connection ends, the target gives back every connection
\* opened over it: the halves of open pairs, the first one of a pair whose second
\* open was refused, which open() leaves behind (scanner_connection.py:226-231),
\* and those whose reply has never reached the originator.
GivenBack ==
    \A s \in Scanner : \A i \in Id :
        i \in LiveId /\ conn[i].via = s /\ s \notin link ~> i \notin LiveId
=============================================================================
