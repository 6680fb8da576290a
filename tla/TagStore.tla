------------------------------ MODULE TagStore ------------------------------
(***************************************************************************)
(* What the tasks that share one client are promised of a controller: each *)
(* access a call asks for is applied once, to the bytes it names, between  *)
(* the call and its return, in the order the call lists them, and the      *)
(* answers go to the task that asked.  An access may be refused, and then  *)
(* it does nothing; a read may return a part.  Others write the same tags. *)
(***************************************************************************)
EXTENDS Integers, Sequences

CONSTANTS Task

VARIABLES mem,   \* the bytes of each tag
          job    \* what each task asked for and the answers it has so far

vars == <<mem, job>>

\* An access is [tag, off, len, put, bytes], an answer [status, data].
NoJob == [asked |-> <<>>, answers |-> <<>>]

Idle(t) == job[t].asked = <<>>
Complete(t) == Len(job[t].answers) = Len(job[t].asked)

Init == job = [t \in Task |-> NoJob]

\* A task without a job, or with all of its answers, asks for the next.
Call(t) ==
    /\ Complete(t)
    /\ job'[t].answers = <<>>
    /\ \A u \in Task \ {t} : job'[u] = job[u]
    /\ UNCHANGED mem

Written(bytes, a) ==
    [i \in DOMAIN bytes |->
        IF a.off < i /\ i <= a.off + Len(a.bytes) THEN a.bytes[i - a.off] ELSE bytes[i]]

Refuse == UNCHANGED mem

Get(a, answer) ==
    /\ ~a.put
    /\ answer.status = "ok" => Len(answer.data) = a.len
    /\ Len(answer.data) <= a.len
    /\ answer.data = SubSeq(mem[a.tag], a.off + 1, a.off + Len(answer.data))
    /\ UNCHANGED mem

Put(a) ==
    /\ a.put
    /\ mem' = [mem EXCEPT ![a.tag] = Written(@, a)]

Apply(t) ==
    /\ ~Complete(t)
    /\ LET a == job[t].asked[Len(job[t].answers) + 1]
           answer == job'[t].answers[Len(job[t].answers) + 1]
       IN  /\ Len(job'[t].answers) = Len(job[t].answers) + 1
           /\ job' = [job EXCEPT ![t].answers = Append(@, answer)]
           /\ CASE answer.status = "error" -> Refuse
                [] OTHER                   -> Get(a, answer) \/ Put(a)

\* The whole call is refused before any of it is applied.
Reject(t) ==
    /\ job[t].answers = <<>>
    /\ job' = [job EXCEPT ![t] = NoJob]
    /\ UNCHANGED mem

Foreign == UNCHANGED job

Next == Foreign \/ \E t \in Task : Call(t) \/ Apply(t) \/ Reject(t)

Spec == Init /\ [][Next]_vars
=============================================================================
