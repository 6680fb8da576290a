------------------------------ MODULE TagServer ------------------------------
(***************************************************************************)
(* A Logix controller as this code emulates it: the tags of TagDatabase    *)
(* (logix/tag_database.py, tag.py), the classes LogixDispatcher registers  *)
(* (symbol_object.py, template_object.py, multi_service.py) and the tag    *)
(* services (tag_services.py), reached by name or by Symbol instance.      *)
(*                                                                         *)
(* The server runs on one event loop: a service runs without an await,     *)
(* except that a Multiple_Service_Packet yields after each of its services *)
(* (handle_multi_service_async).  add_tag may run on another thread; its   *)
(* two steps are those of _register.                                       *)
(*                                                                         *)
(* A byte is the set of its bits that are one.  There is one program and   *)
(* one template, and the application gives each tag a name of its own.     *)
(***************************************************************************)
EXTENDS TagLayout, FiniteSets, FiniteSetsExt

CONSTANTS CTag,         \* tags the application adds at controller scope
          PTag,         \* tags it adds to the program
          Initial,      \* the controller tags it has added, in their order,
                        \* before the server is made
          Program,      \* the name of the program's pseudo-tag
          Pseudo,       \* its instance id (0xF000 and up)
          Bit,          \* the bits of a byte the model keeps
          Definition,   \* the bytes of the template's member data
          MaxReply,     \* MAX_REPLY_DATA (480)
          PageSize,     \* how many tags fit a page of the browse
          MaxServices,  \* MAX_SERVICE_COUNT (20)
          ForeignRequest, \* what other peers and the scan may ask
          NoTag         \* no tag

Tag == CTag \cup PTag
MaxTag == Max({Cardinality(CTag), Cardinality(PTag)})
Instance == 1 .. MaxTag \cup {Pseudo}
Byte == SUBSET Bit

ASSUME ScopeAssumption ==
    /\ IsFiniteSet(CTag) /\ IsFiniteSet(PTag) /\ CTag \cap PTag = {}
    /\ Program \notin Tag /\ NoTag \notin Tag \cup {Program}
ASSUME InitialAssumption ==
    Initial \in Seq(CTag) /\ \A i, j \in DOMAIN Initial : Initial[i] = Initial[j] => i = j
ASSUME PseudoAssumption == Pseudo \in Nat /\ Pseudo > MaxTag + 1
\* _build_member_data pads to a multiple of four.
ASSUME DefinitionAssumption ==
    /\ Definition \in Seq(Range(Definition)) /\ Definition # <<>>
    /\ Len(Definition) % 4 = 0
ASSUME PageAssumption ==
    PageSize \in Nat \ {0} /\ MaxReply \in Nat /\ MaxReply > 4 /\ MaxServices \in Nat
ASSUME ShapeAssumption ==
    Shape \in [Tag -> [size : Nat \ {0}, dims : Seq(Nat \ {0}), type : {Atomic} \cup DOMAIN Template]]

VARIABLES ids,      \* the controller tags in _tags_by_id: ids[i] has id i
          named,    \* the controller tags a name finds: _symbol_cache, _tags_by_name
          program,  \* the program is registered
          pids,     \* the program's tags: pids[i] has id i of the program
          inst,     \* user_data of the instances of the Symbol class
          mem,      \* the buffer of each tag
          wire,     \* the request of the modelled client the server has
          stream    \* replies on their way to that client

database == <<ids, named, program, pids>>
serverVars == <<database, inst, mem, wire, stream>>

NoRequest == [task |-> NoTag]

\* __init__ and sync_cip_instances
ServerInit ==
    /\ ids = Initial
    /\ named = Range(Initial)
    /\ program = FALSE
    /\ pids = <<>>
    /\ inst = [k \in Instance |-> IF k \in DOMAIN Initial THEN Initial[k] ELSE NoTag]
    /\ mem = [n \in Tag |-> [i \in 1 .. DataSize(n) |-> {}]]
    /\ wire = NoRequest
    /\ stream = <<>>

(***************************************************************************)
(* Registration.                                                           *)
(***************************************************************************)
\* Mutant of Ensured: an instance that exists is given the tag seen last.
EnsuredAnew(entries) ==
    [k \in Instance |->
        IF \E e \in entries : e.id = k
        THEN (CHOOSE e \in entries : e.id = k).name
        ELSE inst[k]]

\* ensure_instance: an instance that exists keeps its tag.
Ensured(entries) ==
    [k \in Instance |->
        IF inst[k] = NoTag /\ \E e \in entries : e.id = k
        THEN (CHOOSE e \in entries : e.id = k).name
        ELSE inst[k]]

Entry(id, name) == [id |-> id, name |-> name]

\* The tag is in _tags_by_id, and its subscribers have not been called yet.
Publish(n) ==
    /\ n \in CTag \ Range(ids)
    /\ Range(ids) \subseteq named
    /\ ids' = Append(ids, n)
    /\ UNCHANGED <<named, program, pids, inst, mem, wire, stream>>

\* _on_tag_added, then _tags_by_name.
Announce ==
    /\ ids # <<>>
    /\ Last(ids) \notin named
    /\ named' = named \cup {Last(ids)}
    /\ inst' = Ensured({Entry(Len(ids), Last(ids))})
    /\ UNCHANGED <<ids, program, pids, mem, wire, stream>>

RegisterProgram ==
    /\ ~program
    /\ program' = TRUE
    /\ UNCHANGED <<ids, named, pids, inst, mem, wire, stream>>

AddProgramTag(n) ==
    /\ program
    /\ n \in PTag \ Range(pids)
    /\ pids' = Append(pids, n)
    /\ UNCHANGED <<ids, named, program, inst, mem, wire, stream>>

(***************************************************************************)
(* Routing.  A path names a root and the segments past it; when its id is  *)
(* not zero the root is given as an instance of the Symbol class.  Of such *)
(* a path the dispatcher looks at the class and the instance alone: not at *)
(* the program in front of them, and of the segments behind them only at   *)
(* the last index.                                                         *)
(***************************************************************************)
LastIndex(segs) ==
    LET at == {i \in 1 .. Len(segs) : segs[i].member = NoMember}
    IN  IF at = {} THEN 0 ELSE segs[Max(at)].index

Known(n) == n \in named \cup Range(pids)

\* Where a request lands: a tag and a place in its buffer.
Nowhere == [tag |-> NoTag, at |-> NoPlace]

\* Mutant of ByInstance: the index is not looked at.
ByInstanceFirst(id, segs) ==
    IF id \notin Instance \/ inst[id] \notin Tag THEN Nowhere
    ELSE [tag |-> inst[id], at |-> Root(inst[id])]

ByInstance(id, segs) ==
    IF id \notin Instance \/ inst[id] \notin Tag THEN Nowhere
    ELSE LET n == inst[id]
         IN  [tag |-> n, at |-> [Root(n) EXCEPT !.off = LastIndex(segs) * Shape[n].size]]

ByName(n, segs) ==
    IF ~Known(n) THEN Nowhere
    ELSE IF segs = <<>> THEN [tag |-> n, at |-> Root(n)]
    ELSE IF Walk(n, segs) = NoPlace THEN Nowhere
    ELSE [tag |-> n, at |-> Walk(n, segs)]

Landing(path) ==
    IF path.id # 0 THEN ByInstance(path.id, path.segs) ELSE ByName(path.root, path.segs)

(***************************************************************************)
(* Tag services.  What precedes the data of a read: two bytes of type, and *)
(* two of structure handle for a structure.                                *)
(***************************************************************************)
Prefix(type) == IF type = Atomic THEN <<{"type"}, {"type"}>>
                ELSE <<{"type"}, {"type"}, {"handle"}, {"handle"}>>

Refused == [status |-> "error", head |-> <<>>, data |-> <<>>]
Done == [status |-> "ok", head |-> <<>>, data |-> <<>>]

Bytes(n, off, len) == SubSeq(mem[n], off + 1, off + len)

ReadReply(to, off, len, partial) ==
    [status |-> IF partial THEN "more" ELSE "ok",
     head |-> Prefix(to.at.type),
     data |-> Bytes(to.tag, off, len)]

\* The host byte of a BOOL member, cut to its bit.
BitReply(to) == [status |-> "ok", head |-> Prefix(Atomic),
                 data |-> <<mem[to.tag][to.at.off + 1] \cap {to.at.bit}>>]

\* handle_read_tag and handle_read_tag_at
ReadTag(to, req) ==
    LET len == req.count * to.at.size
        fit == MaxReply - Len(Prefix(to.at.type))
    IN  IF to.at.bit # NoBit
        THEN IF req.count = 1 THEN BitReply(to) ELSE Refused
        ELSE IF to.at.off + len > DataSize(to.tag) THEN Refused
        ELSE ReadReply(to, to.at.off, Lesser(len, fit), len > fit)

\* handle_read_tag_fragmented and its walked variant
ReadFragment(to, req) ==
    LET total == req.count * to.at.size
        off == to.at.off + req.off
        chunk == Lesser(Lesser(total - req.off, DataSize(to.tag) - off),
                        MaxReply - Len(Prefix(to.at.type)))
    IN  IF to.at.bit # NoBit \/ req.off >= total \/ off >= DataSize(to.tag)
        THEN Refused
        ELSE ReadReply(to, off, chunk, req.off + chunk < total)

\* set_data cuts what does not fit, without a word.
SetData(n, off, bytes) ==
    LET len == Lesser(Len(bytes), Len(mem[n]) - off)
    IN  [mem EXCEPT ![n] = [i \in DOMAIN @ |->
            IF off < i /\ i <= off + len THEN bytes[i - off] ELSE @[i]]]

\* atomic_set_bit
SetBit(to, one) ==
    [mem EXCEPT ![to.tag][to.at.off + 1] = IF one THEN @ \cup {to.at.bit} ELSE @ \ {to.at.bit}]

\* What makes handle_write_tag and its walked variant refuse.
WriteRefused(to, req) ==
    \/ req.type # to.at.type
    \/ IF to.at.bit # NoBit
       THEN req.count # 1 \/ req.bytes = <<>>
       ELSE \/ Len(req.bytes) < req.count * to.at.size
            \/ to.at.off + req.count * to.at.size > DataSize(to.tag)

WriteTag(to, req) ==
    IF to.at.bit # NoBit THEN SetBit(to, to.at.bit \in req.bytes[1])
    ELSE SetData(to.tag, to.at.off, SubSeq(req.bytes, 1, req.count * to.at.size))

\* Mutant of FragmentRefused: a fragment is held against the tag alone.
FragmentRefusedPastTag(to, req) ==
    \/ req.type # to.at.type
    \/ to.at.bit # NoBit
    \/ to.at.off + req.off + Len(req.bytes) > DataSize(to.tag)

FragmentRefused(to, req) ==
    \/ req.type # to.at.type
    \/ to.at.bit # NoBit
    \/ req.off + Len(req.bytes) > req.count * to.at.size
    \/ to.at.off + req.off + Len(req.bytes) > DataSize(to.tag)

\* Read_Modify_Write starts at the first byte of the tag wherever the path leads.
Modified(n, orMask, andMask) ==
    LET len == Lesser(Len(orMask), DataSize(n))
    IN  SetData(n, 0, [i \in 1 .. len |-> (mem[n][i] \cup orMask[i]) \cap andMask[i]])

TagService == {"read", "read_fragment", "write", "write_fragment", "modify"}

\* Whether a request is refused, the reply to it, and the buffers after it.
IsRefused(to, req) ==
    \/ to = Nowhere
    \/ req.svc = "write" /\ WriteRefused(to, req)
    \/ req.svc = "write_fragment" /\ FragmentRefused(to, req)

Answer(req) ==
    LET to == Landing(req.path)
    IN  IF IsRefused(to, req) THEN Refused
        ELSE CASE req.svc = "read"          -> ReadTag(to, req)
               [] req.svc = "read_fragment" -> ReadFragment(to, req)
               [] OTHER                     -> Done

MemAfter(req) ==
    LET to == Landing(req.path)
    IN  IF IsRefused(to, req) THEN mem
        ELSE CASE req.svc = "write"          -> WriteTag(to, req)
               [] req.svc = "write_fragment" -> SetData(to.tag, to.at.off + req.off, req.bytes)
               [] req.svc = "modify"         -> Modified(to.tag, req.bytes, req.mask)
               [] OTHER                      -> mem

(***************************************************************************)
(* The connection of the modelled client.                                  *)
(***************************************************************************)
Reply(parts, status) == [task |-> wire.task, status |-> status, parts |-> parts]

Replies(parts, status) ==
    /\ stream' = Append(stream, Reply(parts, status))
    /\ wire' = NoRequest

HasRequest(svcs) == wire # NoRequest /\ wire.req.svc \in svcs

ServeTag ==
    /\ HasRequest(TagService)
    /\ LET answer == Answer(wire.req) IN Replies(<<answer>>, answer.status)
    /\ mem' = MemAfter(wire.req)
    /\ UNCHANGED <<database, inst>>

\* One service of a Multiple_Service_Packet; the last one sends the replies.
ServePart ==
    /\ HasRequest({"multiple"})
    /\ Len(wire.req.subs) <= MaxServices
    /\ LET sub == wire.req.subs[Len(wire.parts) + 1]
           parts == Append(wire.parts, Answer(sub))
       IN  /\ mem' = MemAfter(sub)
           /\ IF Len(parts) = Len(wire.req.subs)
              THEN Replies(parts, "ok")
              ELSE wire' = [wire EXCEPT !.parts = parts] /\ UNCHANGED stream
    /\ UNCHANGED <<database, inst>>

RefuseParts ==
    /\ HasRequest({"multiple"})
    /\ Len(wire.req.subs) > MaxServices
    /\ Replies(<<>>, "error")
    /\ UNCHANGED <<database, inst, mem>>

(***************************************************************************)
(* Browsing: Get_Instance_Attribute_List.                                  *)
(***************************************************************************)
\* In the order of their ids: they are given in order, and the program's
\* pseudo-tag has one that is past them all.
Listed(names) == [i \in 1 .. Len(names) |-> Entry(i, names[i])]

ControllerEntries == Listed(ids) \o (IF program THEN <<Entry(Pseudo, Program)>> ELSE <<>>)

ProgramEntries == Listed(pids)

\* Mutant of Before: the page starts behind the tag that was asked for.
UpTo(entries, start) == Cardinality({i \in 1 .. Len(entries) : entries[i].id <= start})

\* How many entries are before the one asked for.
Before(entries, start) == Cardinality({i \in 1 .. Len(entries) : entries[i].id < start})

From(entries, start) == SubSeq(entries, Before(entries, start) + 1, Len(entries))

\* A start other than zero is routed as an instance, which has to exist.
Startable(start) == start = 0 \/ (start \in Instance /\ inst[start] # NoTag)

ServeBrowse ==
    /\ HasRequest({"browse"})
    /\ LET scope == IF wire.req.scope = "program" THEN ProgramEntries ELSE ControllerEntries
           wanted == From(scope, wire.req.start)
           page == SubSeq(wanted, 1, Lesser(PageSize, Len(wanted)))
           seen == Range(SubSeq(wanted, 1, Lesser(PageSize + 1, Len(wanted))))
           status == IF Len(wanted) > PageSize THEN "more" ELSE "ok"
       IN  IF ~Startable(wire.req.start) \/ (wire.req.scope = "program" /\ ~program)
           THEN Replies(<<Refused>>, "error") /\ UNCHANGED inst
           ELSE /\ Replies(<<[status |-> status, head |-> <<>>, data |-> page]>>, status)
                /\ inst' = Ensured(seen)
    /\ UNCHANGED <<database, mem>>

(***************************************************************************)
(* Templates.                                                              *)
(***************************************************************************)
\* Attribute 4: the size of the definition in words.
DefinitionWords == (21 + Len(Definition) + 3) \div 4

ServeAttributes ==
    /\ HasRequest({"attributes"})
    /\ Replies(<<[status |-> "ok", head |-> <<>>, data |-> <<DefinitionWords>>]>>, "ok")
    /\ UNCHANGED <<database, inst, mem>>

ServeDefinition ==
    /\ HasRequest({"definition"})
    /\ LET off == wire.req.off
           chunk == Min({Len(Definition) - off, wire.req.size, MaxReply})
           status == IF off + chunk < Len(Definition) THEN "more" ELSE "ok"
       IN  IF off >= Len(Definition)
           THEN Replies(<<Refused>>, "error")
           ELSE Replies(<<[status |-> status, head |-> <<>>,
                           data |-> SubSeq(Definition, off + 1, off + chunk)]>>, status)
    /\ UNCHANGED <<database, inst, mem>>

(***************************************************************************)
(* Everyone else.                                                          *)
(***************************************************************************)
\* A tag service another peer, or the application, has the server run, when it
\* changes something.
Foreign(req) ==
    /\ MemAfter(req) # mem
    /\ mem' = MemAfter(req)
    /\ UNCHANGED <<database, inst, wire, stream>>

Serve == ServeTag \/ ServePart \/ RefuseParts \/ ServeBrowse \/ ServeAttributes \/ ServeDefinition

Register ==
    \/ \E n \in CTag : Publish(n)
    \/ Announce
    \/ RegisterProgram
    \/ \E n \in PTag : AddProgramTag(n)
=============================================================================
