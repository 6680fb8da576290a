------------------------------ MODULE TagClient ------------------------------
(***************************************************************************)
(* TagClient (logix/tag_client.py): the tasks of an application share one  *)
(* TCP connection to a controller.  A call builds its paths, from the      *)
(* cache of instance ids where it can, and waits for the lock; the holder  *)
(* writes its request and keeps the lock until it has read the reply.      *)
(* What follows up to the next await, the next request of a loop included, *)
(* is part of the step that receives the reply.  asyncio.Lock serves its   *)
(* waiters in the order in which they came.                                *)
(***************************************************************************)
EXTENDS TagServer

CONSTANTS Task,    \* the application's tasks
          Address, \* the tags, elements and members its calls name
          Extent,  \* where each of them lies: [off, size, type]
          Calls    \* what each task may call

ASSUME TaskAssumption == NoTag \notin Task
ASSUME CallAssumption ==
    \A t \in Task : \A c \in Calls[t] :
        c.op \in {"read", "write", "multiple", "struct", "template", "browse"}
ASSUME AddressAssumption ==
    /\ \A a \in Address : /\ a = [root |-> a.root, segs |-> a.segs]
                         /\ a.root \in Tag
                         /\ LastIndex(a.segs) \in Nat
    /\ Extent \in [Address -> [off : Nat, size : Nat, type : {Atomic} \cup DOMAIN Template]]
\* read_multiple and write_multiple send nothing for an empty list.
ASSUME RequestAssumption ==
    /\ \A t \in Task : \A c \in Calls[t] :
           /\ c.op \in {"read", "write", "struct"} => c.addr \in Address
           /\ c.op \in {"read", "write"} => c.count \in Nat
           /\ c.op = "write" => c.bytes \in Seq(Byte)
           /\ c.op = "multiple" =>
                  /\ c.subs # <<>>
                  /\ c.subs \in Seq([svc : {"read", "write"}, addr : Address, bytes : Seq(Byte)])
    /\ \A req \in ForeignRequest :
           /\ req.svc \in TagService
           /\ [root |-> req.path.root, segs |-> req.path.segs] \in Address
           /\ req.path.id \in Nat /\ req.count \in Nat /\ req.off \in Nat
           /\ req.bytes \in Seq(Byte)

VARIABLES atoms,   \* _controller_atoms and _program_atoms; 0 is no entry
          queue,   \* the holder of _lock and those that wait for it
          sent,    \* tasks that have written their request
          task     \* the call each task is in

vars == <<serverVars, atoms, queue, sent, task>>

NoReq == [svc |-> "none"]

\* No call; and the fields of one.
Free == [op |-> "none", req |-> NoReq, addr |-> NoTag, pos |-> 0, size |-> 0, header |-> FALSE,
         got |-> <<>>, part |-> <<>>, stage |-> "none", due |-> {}, cut |-> FALSE]

Waits(t) == task[t].req # NoReq
Finished(t) == task[t].op # "none" /\ ~Waits(t)

Init ==
    /\ ServerInit
    /\ atoms = [n \in Tag |-> 0]
    /\ queue = <<>>
    /\ sent = {}
    /\ task = [t \in Task |-> Free]

(***************************************************************************)
(* Requests.                                                               *)
(***************************************************************************)
\* _build_tag_path
PathOf(a) == [root |-> a.root, segs |-> a.segs, id |-> atoms[a.root]]

TagRequest(svc, a, count, off, bytes) ==
    [svc |-> svc, path |-> PathOf(a), count |-> count, off |-> off,
     type |-> Extent[a].type, bytes |-> bytes]

FragmentRequest(a, pos) == TagRequest("read_fragment", a, 1, pos, <<>>)

BrowseRequest(scope, start) == [svc |-> "browse", scope |-> scope, start |-> start]

DefinitionRequest(off, size) == [svc |-> "definition", off |-> off, size |-> size]

AttributesRequest == [svc |-> "attributes"]

(***************************************************************************)
(* Calls.                                                                  *)
(***************************************************************************)
Registered == Range(ids) \cup (IF program THEN {Program} ELSE {})

First(c) ==
    CASE c.op = "read"     -> [Free EXCEPT !.req = TagRequest("read", c.addr, c.count, 0, <<>>)]
      [] c.op = "write"    -> [Free EXCEPT !.req = TagRequest("write", c.addr, c.count, 0, c.bytes)]
      [] c.op = "multiple" -> [Free EXCEPT !.req =
                                  [svc |-> "multiple",
                                   subs |-> [i \in DOMAIN c.subs |->
                                       TagRequest(c.subs[i].svc, c.subs[i].addr, 1, 0, c.subs[i].bytes)]]]
      [] c.op = "struct"   -> [Free EXCEPT !.req = FragmentRequest(c.addr, 0), !.addr = c.addr]
      [] c.op = "template" -> [Free EXCEPT !.req = AttributesRequest, !.stage = "attributes"]
      [] c.op = "browse"   -> [Free EXCEPT !.req = BrowseRequest("controller", 0),
                                           !.stage = "controller", !.due = Registered]

Start(t, c) ==
    /\ task[t] = Free
    /\ task' = [task EXCEPT ![t] = [First(c) EXCEPT !.op = c.op]]
    /\ queue' = Append(queue, t)
    /\ UNCHANGED <<serverVars, atoms, sent>>

Holds(t) == queue # <<>> /\ t = Head(queue)

Send(t) ==
    /\ Holds(t)
    /\ t \notin sent
    /\ wire = NoRequest
    /\ wire' = [task |-> t, req |-> task[t].req, parts |-> <<>>]
    /\ sent' = sent \cup {t}
    /\ UNCHANGED <<database, inst, mem, stream, atoms, queue, task>>

(***************************************************************************)
(* Structures: read_struct takes four bytes off the first fragment and two *)
(* off each later one.                                                     *)
(***************************************************************************)
Drops(bytes, n) == SubSeq(bytes, n + 1, Len(bytes))

\* Mutant of Body: two bytes are taken off every fragment.
BodyOfAtomic(st, raw) == IF Len(raw) >= 2 THEN Drops(raw, 2) ELSE raw

Body(st, raw) ==
    CASE ~st.header /\ Len(raw) >= 4 -> Drops(raw, 4)
      [] st.header /\ Len(raw) >= 2  -> Drops(raw, 2)
      [] OTHER                       -> raw

AfterFragment(st, r) ==
    LET raw == r.parts[1].head \o r.parts[1].data
        body == Body(st, raw)
        pos == st.pos + Len(body)
        next == [st EXCEPT !.got = @ \o body, !.pos = pos, !.header = @ \/ Len(raw) >= 4]
    IN  CASE r.status = "error" -> Free
          [] r.status = "ok"    -> [next EXCEPT !.req = NoReq]
          [] r.status = "more"  -> [next EXCEPT !.req.off = pos]

(***************************************************************************)
(* Templates: read_template asks for the attributes and then for the       *)
(* definition piece by piece; it keeps what it has when a piece fails.     *)
(***************************************************************************)
\* Mutant of ReadSize: the name's terminator is taken off as well.
ReadSizeShort(words) == words * 4 - 25

ReadSize(words) == IF words * 4 - 23 > 0 THEN words * 4 - 23 ELSE words * 4

AfterAttributes(st, r) ==
    LET size == ReadSize(r.parts[1].data[1])
    IN  [st EXCEPT !.size = size, !.pos = 0, !.stage = "definition",
                   !.req = DefinitionRequest(0, size)]

\* Mutant of AfterDefinition: a reply that says there is more is taken for the last.
AfterDefinitionOnce(st, r) == [st EXCEPT !.part = @ \o r.parts[1].data, !.req = NoReq]

AfterDefinition(st, r) ==
    LET chunk == r.parts[1].data
        pos == st.pos + Len(chunk)
        next == [st EXCEPT !.part = @ \o chunk, !.pos = pos]
    IN  IF r.status = "more"
        THEN [next EXCEPT !.req = DefinitionRequest(pos, st.size - pos)]
        ELSE [next EXCEPT !.req = NoReq]

(***************************************************************************)
(* Browsing: the controller's tags, the tags of the program if it is among *)
(* them, and the template if a structure is.  An error ends the tags of a  *)
(* scope and is not reported.                                              *)
(***************************************************************************)
NamesIn(entries) == {e.name : e \in Range(entries)}

NextStart(entries) == Last(entries).id + 1

BrowseTemplates(st) ==
    IF \E n \in NamesIn(st.got) \cap Tag : IsStruct(n)
    THEN [st EXCEPT !.stage = "attributes", !.req = AttributesRequest]
    ELSE [st EXCEPT !.stage = "done", !.req = NoReq]

BrowseProgram(st) ==
    IF Program \in NamesIn(st.got)
    THEN [st EXCEPT !.stage = "program", !.req = BrowseRequest("program", 0),
                    !.due = @ \cup Range(pids)]
    ELSE BrowseTemplates(st)

AfterPage(st, r) ==
    LET entries == r.parts[1].data
        next == [st EXCEPT !.got = @ \o entries, !.cut = @ \/ r.status = "error"]
    IN  IF r.status = "more" THEN [next EXCEPT !.req.start = NextStart(entries)]
        ELSE IF st.stage = "controller" THEN BrowseProgram(next)
        ELSE BrowseTemplates(next)

\* The ids a scope's tags are cached under when the scope is done.
Cached(st, r) ==
    IF st.stage \in {"controller", "program"} /\ r.status # "more"
    THEN LET seen == Range(st.got \o r.parts[1].data)
         IN  [n \in Tag |-> IF \E e \in seen : e.name = n
                            THEN (CHOOSE e \in seen : e.name = n).id
                            ELSE atoms[n]]
    ELSE atoms

(***************************************************************************)
(* The reply.                                                              *)
(***************************************************************************)
Continued(st, r) ==
    CASE st.stage \in {"controller", "program"} -> AfterPage(st, r)
      [] st.stage = "attributes"               -> AfterAttributes(st, r)
      [] st.stage = "definition"               -> AfterDefinition(st, r)
      [] st.stage = "none"                     -> IF st.op = "struct" THEN AfterFragment(st, r) ELSE Free

\* Mutant of Released: the lock is kept.
ReleasedNever == queue

\* The holder is first.
Released == Tail(queue)

\* The lock is released, and a loop gets in line for its next request.
Receive(t) ==
    /\ Holds(t)
    /\ t \in sent
    /\ stream # <<>>
    /\ LET r == Head(stream)
           next == Continued(task[t], r)
       IN  /\ task' = [task EXCEPT ![t] = next]
           /\ queue' = IF next.req = NoReq THEN Released ELSE Append(Released, t)
           /\ atoms' = Cached(task[t], r)
    /\ stream' = Tail(stream)
    /\ sent' = sent \ {t}
    /\ UNCHANGED <<database, inst, mem, wire>>

\* The application has looked at what a loop returned.
Return(t) ==
    /\ Finished(t)
    /\ task' = [task EXCEPT ![t] = Free]
    /\ UNCHANGED <<serverVars, atoms, queue, sent>>

Others == UNCHANGED <<atoms, queue, sent, task>>

Next ==
    \/ \E t \in Task : \E c \in Calls[t] : Start(t, c)
    \/ \E t \in Task : Send(t) \/ Receive(t) \/ Return(t)
    \/ Serve /\ Others
    \/ Register /\ Others
    \/ \E req \in ForeignRequest : Foreign(req) /\ Others

\* The event loops run what is ready, in any order.  Nothing makes anyone
\* call, register or write.
Fairness == WF_vars((Serve /\ Others) \/ \E t \in Task : Send(t) \/ Receive(t))

Spec == Init /\ [][Next]_vars /\ Fairness

(***************************************************************************)
(* Properties.                                                             *)
(***************************************************************************)
TypeOK ==
    /\ Range(ids) \subseteq CTag /\ named \subseteq Range(ids)
    /\ program \in BOOLEAN
    /\ Range(pids) \subseteq PTag
    /\ inst \in [Instance -> Tag \cup {Program, NoTag}]
    /\ DOMAIN mem = Tag
    /\ \A n \in Tag : Len(mem[n]) = DataSize(n) /\ Range(mem[n]) \subseteq Byte
    /\ atoms \in [Tag -> 0 .. MaxTag]
    /\ sent \subseteq Range(queue) /\ Range(queue) \subseteq Task
    /\ \A t \in Task : task[t].pos \in Nat /\ (Waits(t) <=> t \in Range(queue))

(***************************************************************************)
(* Where addresses lie.  Extent says it; a request gets there by the names *)
(* of its path, or by the instance of its root and the last index.         *)
(***************************************************************************)
PlaceOf(a) == IF a.segs = <<>> THEN Root(a.root) ELSE Walk(a.root, a.segs)

\* The walker finds what there is of an address where Extent says it lies.
PlacesFound ==
    /\ \A n \in Tag : DataSize(n) \in Nat
    /\ \A a \in Address :
           LET at == PlaceOf(a)
           IN  at # NoPlace => /\ at.bit \in Bit \cup {NoBit}
                               /\ at.off = Extent[a].off /\ at.size = Extent[a].size
                               /\ at.type = Extent[a].type /\ at.size > 0

\* A path with the instance of its root leads to the same place: the address is
\* of a controller tag, whole or one of its elements by a single index.
Direct(a) ==
    /\ a.root \in CTag
    /\ PlaceOf(a).bit = NoBit
    /\ Extent[a] = [off |-> LastIndex(a.segs) * Shape[a.root].size,
                    size |-> Shape[a.root].size, type |-> Shape[a.root].type]

\* The addresses of a call, and the payloads of its writes with their counts.
AddressesOf(c) ==
    CASE c.op \in {"read", "write", "struct"} -> {c.addr}
      [] c.op = "multiple"                    -> {c.subs[i].addr : i \in DOMAIN c.subs}
      [] OTHER                                -> {}

WritesWhole(c) ==
    /\ c.op = "write" => Len(c.bytes) = c.count * Extent[c.addr].size
    /\ c.op = "multiple" => \A i \in DOMAIN c.subs :
           c.subs[i].svc = "write" => Len(c.subs[i].bytes) = Extent[c.subs[i].addr].size

DirectCall(c) == WritesWhole(c) /\ \A a \in AddressesOf(c) : Direct(a)

DirectCalls == \A t \in Task : \A c \in Calls[t] : DirectCall(c)

\* The structures that are read exist, and fit one reply behind their prefix.
FitsReply(c) ==
    c.op = "struct" =>
        LET e == Extent[c.addr]
        IN  /\ e.type # Atomic
            /\ e.off + e.size <= DataSize(c.addr.root)
            /\ e.size + Len(Prefix(e.type)) <= MaxReply

StructsFit == \A t \in Task : \A c \in Calls[t] : FitsReply(c)

\* Instances that a browse of the program makes are of ids the controller has
\* given out before.
FewProgramTags == Cardinality(PTag) <= Len(Initial)

(***************************************************************************)
(* The promise of TagStore: the access that the request of a task stands   *)
(* for, and the answers the server has made for it so far.                 *)
(***************************************************************************)
AccessOf(req) ==
    LET e == Extent[[root |-> req.path.root, segs |-> req.path.segs]]
    IN  [tag |-> req.path.root, off |-> e.off + req.off, len |-> req.count * e.size - req.off,
         put |-> req.svc = "write", bytes |-> req.bytes]

AsksFor(req) ==
    CASE req.svc \in TagService -> <<AccessOf(req)>>
      [] req.svc = "multiple"    -> [i \in DOMAIN req.subs |-> AccessOf(req.subs[i])]
      [] OTHER                   -> <<>>

AnswersOf(t) ==
    LET own == {i \in DOMAIN stream : stream[i].task = t}
        parts == IF wire.task = t THEN wire.parts
                 ELSE IF own # {} THEN stream[Min(own)].parts ELSE <<>>
    IN  [i \in DOMAIN parts |-> [status |-> parts[i].status, data |-> parts[i].data]]

JobOf(t) ==
    IF AsksFor(task[t].req) = <<>> THEN [asked |-> <<>>, answers |-> <<>>]
    ELSE [asked |-> AsksFor(task[t].req), answers |-> AnswersOf(t)]

Store == INSTANCE TagStore WITH job <- [t \in Task |-> JobOf(t)]

\* What read_*, write_*, read_multiple and write_multiple do: each access is
\* applied once, in order, to the bytes its name stands for, whether the path
\* gives the name or a cached id, and each answer goes to the task that asked.
ImplementsStore == Store!Spec

\* A path with an id from the cache leads to the tag with that name, also while
\* add_tag is between its steps and a browse has made the instance before it.
\* A program with more tags than the controller had at the start is left out:
\* browsing it makes instances for ids the controller gives out later.
CachedIdsHold ==
    Len(pids) <= Len(Initial) => \A n \in CTag : atoms[n] # 0 => inst[atoms[n]] = n

NamedBy(path) == [root |-> path.root, segs |-> path.segs]

\* The bytes of its tag that a request may change: those its path names.  A
\* Read_Modify_Write changes the first ones, as many as it has masks, whatever the
\* path says behind the root (logix_dispatcher.py:188), although it is said to be
\* "Bit-level OR/AND mask modification" (src/README.md:601) of what is walked to
\* (walker.py:3).
Room(req) ==
    LET e == Extent[NamedBy(req.path)]
    IN  IF req.svc = "modify" THEN [off |-> 0, len |-> Len(req.bytes)]
        ELSE [off |-> e.off, len |-> req.count * e.size]

\* The root is given by its name, or it is the tag of the instance given and
\* what is behind it is at most the index of an element.
NamesPlace(path) ==
    path.id # 0 => path.id \in Instance /\ inst[path.id] = path.root /\ Direct(NamedBy(path))

\* A request of another peer changes nothing outside its room, in its own tag or
\* in another: the walker (walker.py), the element index of an instance and the
\* bounds of the services (tag_services.py) keep it there.
WritesWithin ==
    \A req \in ForeignRequest : NamesPlace(req.path) =>
        LET after == MemAfter(req)
            room == Room(req)
        IN  \A n \in Tag : \A i \in DOMAIN mem[n] :
                after[n][i] # mem[n][i] =>
                    n = req.path.root /\ room.off < i /\ i <= room.off + room.len

Browsed(t) == task[t].op = "browse" /\ task[t].stage \notin {"controller", "program"}

\* The entries whose names are in scope have ascending ids.
Ascends(entries, scope) ==
    \A i, j \in DOMAIN entries :
        i < j /\ entries[i].name \in scope /\ entries[j].name \in scope
            => entries[i].id < entries[j].id

\* The pages of browse_tags, put together, name each tag once and in the order
\* of their ids, and leave out none that was there when the browse began and
\* lies before the last one they name, however many tags are added meanwhile.
BrowseHasNoGaps ==
    \A t \in Task : Browsed(t) =>
        LET got == task[t].got
        IN  /\ Ascends(got, CTag \cup {Program}) /\ Ascends(got, PTag)
            /\ task[t].cut \/ task[t].due \subseteq NamesIn(got)
            /\ \A i \in DOMAIN ids :
                    /\ ids[i] \in task[t].due
                    /\ \E e \in Range(got) : e.name \in CTag /\ e.id > i
                    => ids[i] \in NamesIn(got)

\* read_struct returns the bytes of the structure and nothing else
\* (src/README.md:577 "Auto-fragments large struct reads").
StructWhole ==
    \A t \in Task : task[t].op = "struct" /\ Finished(t) =>
        /\ Len(task[t].got) = Extent[task[t].addr].size
        /\ Range(task[t].got) \subseteq Byte

\* read_template's pieces, put together, are the definition the server holds:
\* the size the client computes from attribute 4 covers it.
TemplateWhole ==
    \A t \in Task : Finished(t) /\ task[t].part # <<>> => task[t].part = Definition

\* A request lands where its name says (src/README.md:106 "clients address them
\* as `Program:Cell.Timer1.PRE`", README.md:99 on the instance-ID cache).
LandsWhereNamed ==
    HasRequest(TagService) =>
        LET to == Landing(wire.req.path)
            path == wire.req.path
            e == Extent[[root |-> path.root, segs |-> path.segs]]
        IN  to # Nowhere => to.tag = path.root /\ to.at.off = e.off /\ to.at.size = e.size

\* add_template gives the members room of their own within the size of the
\* structure, whatever the members are, and aligns those whose alignment is a
\* power of two.  A structure of 3, 5, 6 or 7 bytes registered as a template of
\* its own and nested is not aligned: the mask (tag_database.py:185) is not for it.
PowerOfTwo == {1, 2, 4, 8}

MemberList == UNION {[1 .. n -> [size : 1 .. 8 \cup {12}, count : {1, 2}]] : n \in 0 .. 3}

LayoutSound ==
    \A ms \in MemberList :
        LET at == Layout(ms).members
        IN  /\ Len(at) = Len(ms)
            /\ \A i \in DOMAIN at :
                    /\ Alignment(ms[i].size) \in PowerOfTwo =>
                           at[i].off % Alignment(ms[i].size) = 0
                    /\ at[i].off + ms[i].size * ms[i].count <= StructureSize(ms)
                    /\ \A j \in DOMAIN at :
                            i < j => at[i].off + ms[i].size * ms[i].count <= at[j].off
            /\ StructureSize(ms) % 4 = 0

\* Every call comes back: the lock goes round, and the loops over fragments,
\* pages and pieces end.
EveryCallReturns == \A t \in Task : Waits(t) ~> ~Waits(t)
=============================================================================
