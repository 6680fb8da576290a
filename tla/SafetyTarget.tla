---------------------------- MODULE SafetyTarget ----------------------------
(***************************************************************************)
(* Who may configure a safety device: the Safety Supervisor                *)
(* (safety/supervisor_object.py), the validation and configuration of a    *)
(* safety open (SafetyDevice.validate_safety_open and                      *)
(* configure_safety_connection in safety/safety_device.py) and the table   *)
(* of connections they act on (connections/connection_manager.py).         *)
(*                                                                         *)
(* The first originator that opens with a configuration id (SCID) binds    *)
(* the device to it; the binding ends with the last safety connection or   *)
(* with a reset of the ownership.  A frame is accepted only by an end that *)
(* has the seed it was made with: the identity of a device together with   *)
(* a serial number, of a connection or of a validator.                     *)
(*                                                                         *)
(* A request is handled without an await, so each action is one request,   *)
(* or one timer, or the end of one TCP socket.                             *)
(***************************************************************************)
EXTENDS Integers, FiniteSets

CONSTANTS Originator,  \* identities (vendor, serial) of originators
          Device,      \* the identity of this device
          Socket,      \* TCP sockets of the device
          Serials,     \* how many connection serial numbers there are (65536)
          Word,        \* and how many validator ids a seed can tell apart (65536)
          Config,      \* configuration ids
          Unset,       \* the configuration id that is all zeros
          NewUnid,     \* network ids it may be given
          FirstUnid,   \* the one it is made with
          None,        \* no originator, no network id
          MaxConn,     \* max_connections
          MaxId        \* bound: how many connections are ever opened

Id == 1 .. MaxId
Serial == 0 .. Serials - 1
Unid == NewUnid \cup {FirstUnid}
Kind == {"server", "client", "standard"}

OpenRequest == [kind : Kind, orig : Originator, serial : Serial, scid : Config \cup {Unset},
                tunid : Unid, marked : BOOLEAN]

\* What the model keeps of an IoConnection; sv is the id of its validator, or 0,
\* and via, which is history, the socket it was opened over.
Connection == [kind : Kind, orig : Originator, serial : Serial,
               scid : Config \cup {Unset}, sv : 0 .. MaxId, via : Socket]

\* An id without a connection.
NoConn == [kind |-> "none", orig |-> None, serial |-> 0, scid |-> Unset, sv |-> 0, via |-> None]

ASSUME NamesAssumption ==
    /\ Device \notin Originator /\ None \notin Originator \cup Unid
    /\ Unset \notin Config
ASSUME SerialAssumption == Serials \in Nat \ {0}
ASSUME WordAssumption == Word \in Nat \ {0}
ASSUME IdAssumption == MaxId \in Nat

VARIABLES conn,      \* _connections
          nextId,    \* _next_connection_id
          nextSv,    \* _next_instance_id of the validators
          owned,     \* the ids each socket has opened
          scid,      \* the configuration id the supervisor checks opens against
          mirror,    \* its attribute 6, which a client reads
          owner,     \* its attribute 25: the originator that opened last
          tunid,     \* attribute 27
          proposed,  \* _proposed_tunid
          before     \* history: the connections there were when the ownership
                     \* was last reset

ownership == <<scid, mirror, owner>>
naming == <<tunid, proposed>>
targetVars == <<conn, nextId, nextSv, owned, ownership, naming, before>>

TargetInit ==
    /\ conn = [i \in Id |-> NoConn]
    /\ nextId = 0
    /\ nextSv = 0
    /\ owned = [s \in Socket |-> {}]
    /\ scid = Unset
    /\ mirror = Unset
    /\ owner = None
    /\ tunid = FirstUnid
    /\ proposed = None
    /\ before = {}

LiveId == {i \in Id : conn[i].kind # "none"}
IsSafety(i) == conn[i].kind # "standard"
SafetyId == {i \in LiveId : IsSafety(i)}

(***************************************************************************)
(* Opening.  A path is marked when it has a byte 0x50 before the safety    *)
(* segment: the device takes the segment to start there, and the CRC over  *)
(* the parameters fails.                                                   *)
(***************************************************************************)
\* Mutant of SafetyRefuses: the configuration id is not checked.
RefusesStrangers(r) == r.tunid # tunid \/ r.marked

SafetyRefuses(r) ==
    \/ r.tunid # tunid
    \/ r.marked
    \/ scid # Unset /\ r.scid # Unset /\ r.scid # scid

SameTriad(c, orig, serial) == c.orig = orig /\ c.serial = serial

Refused(r) ==
    \/ r.kind # "standard" /\ SafetyRefuses(r)
    \/ \E i \in LiveId : SameTriad(conn[i], r.orig, r.serial)
    \/ Cardinality(LiveId) >= MaxConn

\* Mutant of ValidatorId: a number is given again when its connection is gone.
ValidatorIdAgain == Cardinality(SafetyId) + 1

\* create_instance
ValidatorId == nextSv + 1

Entry(r, s) ==
    [kind |-> r.kind, orig |-> r.orig, serial |-> r.serial,
     scid |-> IF r.kind = "standard" THEN Unset ELSE r.scid,
     sv |-> IF r.kind = "standard" THEN 0 ELSE ValidatorId,
     via |-> s]

\* Mutant of Bound: each open puts its own configuration id in place.
BoundAnew(r) == r.scid

\* The first write wins.
Bound(r) == IF scid = Unset THEN r.scid ELSE scid

Configure(r) ==
    /\ nextSv' = nextSv + 1
    /\ owner' = r.orig
    /\ scid' = Bound(r)
    /\ mirror' = IF scid = Unset THEN r.scid ELSE mirror

Admit(r, s) ==
    /\ ~Refused(r)
    /\ nextId < MaxId
    /\ nextId' = nextId + 1
    /\ conn' = [conn EXCEPT ![nextId + 1] = Entry(r, s)]
    /\ owned' = [owned EXCEPT ![s] = @ \cup {nextId + 1}]
    /\ IF r.kind = "standard" THEN UNCHANGED <<nextSv, ownership>> ELSE Configure(r)
    /\ UNCHANGED <<naming, before>>

(***************************************************************************)
(* Removal: by Forward_Close, by a timer, or because a socket has ended.   *)
(***************************************************************************)
\* Mutant of AnyLeft: a connection of any kind keeps the binding.
AnyLeftAtAll(ids) == LiveId \ ids # {}

AnyLeft(ids) == SafetyId \ ids # {}

RemoveAll(ids) ==
    /\ conn' = [i \in Id |-> IF i \in ids THEN NoConn ELSE conn[i]]
    /\ IF ids \cap SafetyId # {} /\ ~AnyLeft(ids)
       THEN scid' = Unset /\ mirror' = Unset /\ owner' = None
       ELSE UNCHANGED ownership
    /\ before' = before \ ids
    /\ UNCHANGED <<nextId, nextSv, naming>>

\* The connections with a triad; there is one or none.
WithTriad(orig, serial) == {i \in LiveId : SameTriad(conn[i], orig, serial)}

ForwardClose(orig, serial, s) ==
    /\ RemoveAll(WithTriad(orig, serial))
    /\ owned' = [owned EXCEPT ![s] = @ \ WithTriad(orig, serial)]

TimesOut(i) ==
    /\ i \in LiveId
    /\ RemoveAll({i})
    /\ UNCHANGED owned

\* Mutant of Reap: only the last connection a socket has opened is removed.
ReapLatest(s) ==
    /\ RemoveAll({i \in owned[s] \cap LiveId : \A j \in owned[s] : j <= i})
    /\ owned' = [owned EXCEPT ![s] = {}]

Reap(s) ==
    /\ RemoveAll(owned[s] \cap LiveId)
    /\ owned' = [owned EXCEPT ![s] = {}]

(***************************************************************************)
(* The services of the supervisor.  They are refused while attribute 4,    *)
(* the configuration lock, is set; nothing in the package sets it.  A      *)
(* Safety_Reset of type 2 leaves attribute 6 as it was.                    *)
(***************************************************************************)
ResetOwnership ==
    /\ owner' = None
    /\ scid' = Unset
    /\ proposed' = None
    /\ before' = LiveId
    /\ UNCHANGED <<conn, nextId, nextSv, owned, mirror, tunid>>

\* None stands for the id of all ones, which cancels.
ProposeTunid(u) ==
    /\ proposed' = u
    /\ UNCHANGED <<conn, nextId, nextSv, owned, ownership, tunid, before>>

ApplyTunid(u) ==
    /\ proposed = u
    /\ tunid' = u
    /\ proposed' = None
    /\ UNCHANGED <<conn, nextId, nextSv, owned, ownership, before>>

Supervise ==
    \/ ResetOwnership
    \/ \E u \in NewUnid \cup {None} : ProposeTunid(u)
    \/ \E u \in NewUnid : ApplyTunid(u)

TargetNext ==
    \/ \E r \in OpenRequest, s \in Socket : Admit(r, s)
    \/ \E o \in Originator, n \in Serial, s \in Socket : ForwardClose(o, n, s)
    \/ \E i \in Id : TimesOut(i)
    \/ \E s \in Socket : Reap(s)
    \/ Supervise

(***************************************************************************)
(* Seeds at the target (configure_safety_connection, lines 216 to 247).    *)
(***************************************************************************)
Seed(device, serial) == [device |-> device, serial |-> serial]

\* sv_inst_id: 16 bits of the validator's id.
SvInstId(c) == c.sv % Word

\* Of what the target produces, of what the originator produces, and of the
\* time coordination of the consumer.
TargetPid(c) == Seed(Device, SvInstId(c))
OriginatorPid(c) == Seed(c.orig, c.serial)
ConsumerCid(c) == IF c.kind = "server" THEN Seed(Device, SvInstId(c)) ELSE Seed(c.orig, c.serial)

(***************************************************************************)
(* Properties.                                                             *)
(***************************************************************************)
TargetTypeOK ==
    /\ conn \in [Id -> Connection \cup {NoConn}]
    /\ nextId \in 0 .. MaxId /\ nextSv \in 0 .. MaxId
    /\ owned \in [Socket -> SUBSET Id]
    /\ scid \in Config \cup {Unset} /\ mirror \in Config \cup {Unset}
    /\ owner \in Originator \cup {None}
    /\ tunid \in Unid /\ proposed \in NewUnid \cup {None}
    /\ before \subseteq Id

\* The safety connections that carry a configuration id, of those opened since
\* the ownership was last reset, carry the one the supervisor is bound to: two
\* originators with different configurations never hold the device together.
BoundByOne ==
    \A i \in SafetyId \ before : conn[i].scid # Unset => scid = conn[i].scid

\* A device without safety connections is unconfigured and unowned, for the
\* check of the next open and for those who read its attributes.
UnownedWhenIdle ==
    SafetyId = {} => scid = Unset /\ mirror = Unset /\ owner = None

\* The validators of two connections were made less than a cycle of 16 bits
\* apart.
SameCycle(c, d) == c.sv < d.sv + Word /\ d.sv < c.sv + Word

\* No frame made for one connection passes the check of another, across the wrap
\* of the validator's id in a seed too (safety_device.py:214), as long as fewer
\* safety opens than the cycle has ids came between the two.
SeedsDistinct ==
    \A i, j \in SafetyId : i # j =>
        /\ OriginatorPid(conn[i]) # OriginatorPid(conn[j])
        /\ SameCycle(conn[i], conn[j]) =>
               /\ TargetPid(conn[i]) # TargetPid(conn[j])
               /\ ConsumerCid(conn[i]) # ConsumerCid(conn[j])

\* A binding is replaced by none but through a reset of the ownership or the
\* end of the last safety connection: an open, with another configuration id or
\* with none, never changes it (safety_device.py:163-170).
ConfigurationKept ==
    [][scid # Unset /\ scid' # scid =>
            /\ scid' = Unset
            /\ SafetyId' = {} \/ (conn' = conn /\ before' = LiveId)]_targetVars
=============================================================================
