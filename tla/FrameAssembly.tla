--------------------------- MODULE FrameAssembly ---------------------------
(***************************************************************************)
(* How _handle_client of protocol/eip_adapter.py puts frames together on   *)
(* one socket: the byte accumulator, the idle timeout around each read and *)
(* the wall-clock budget on a frame.  The session side of the same task is *)
(* module EipAdapter.                                                      *)
(*                                                                         *)
(* Time is counted in ticks.  Bytes are counted in units of which a frame  *)
(* has FrameLen; a chunk returned by reader.read has up to MaxChunk.       *)
(***************************************************************************)
EXTENDS Integers

CONSTANTS FrameLen, MaxChunk,
          Budget,     \* FRAME_ASSEMBLY_TIMEOUT
          Idle,       \* idle_timeout
          Handling,   \* the longest the frames of one chunk may take, in ticks
          MaxTime     \* bound of this model on the clock

ASSUME FrameAssumption ==
    /\ FrameLen \in Nat \ {0}
    /\ MaxChunk \in Nat
    /\ Budget \in Nat
    /\ Idle \in Nat
    /\ Handling \in Nat
    /\ MaxTime \in Nat

VARIABLES state,       \* "reading", "handling" buffered frames, or "closed"
          now,         \* time.monotonic()
          since,       \* when the pending read was issued; while frames are
                       \* handled, when it returned
          accum,       \* len(accum)
          frameStart,  \* frame_start
          firstByte    \* history: when the first byte of the frame at the head
                       \* of accum was read

vars == <<state, now, since, accum, frameStart, firstByte>>

None == -1

TypeOK ==
    /\ state \in {"reading", "handling", "closed"}
    /\ now \in 0 .. MaxTime
    /\ since \in 0 .. MaxTime
    /\ accum \in 0 .. (FrameLen - 1 + MaxChunk)
    /\ frameStart \in {None} \cup 0 .. MaxTime
    /\ firstByte \in {None} \cup 0 .. MaxTime

Init ==
    /\ state = "reading"
    /\ now = 0
    /\ since = 0
    /\ accum = 0
    /\ frameStart = None
    /\ firstByte = None

\* Mutant of IdleExpired: a half-received frame keeps the socket open.
IdleBetweenFrames == accum = 0 /\ now - since >= Idle

\* wait_for around reader.read.
IdleExpired == now - since >= Idle

\* A read that is due to time out does so before the clock moves on, and
\* handling takes no longer than Handling.
Tick ==
    /\ now < MaxTime
    /\ state = "reading" => ~IdleExpired
    /\ state = "handling" => now - since < Handling
    /\ state # "closed"
    /\ now' = now + 1
    /\ UNCHANGED <<state, since, accum, frameStart, firstByte>>

\* Mutant of StartOfAssembly: every chunk restarts the clock.
StartOfChunk == now

\* frame_start once a chunk has been read.
StartOfAssembly == IF accum = 0 THEN now ELSE frameStart

\* The check made on every chunk, before any frame in it is looked at.
OverBudget == now - StartOfAssembly > Budget

ReadChunk(n) ==
    /\ state = "reading"
    /\ frameStart' = StartOfAssembly
    /\ firstByte' = IF accum = 0 THEN now ELSE firstByte
    /\ accum' = accum + n
    /\ since' = now
    /\ state' = IF OverBudget THEN "closed" ELSE "handling"
    /\ UNCHANGED now

Read == \E n \in 1 .. MaxChunk : ReadChunk(n)

\* A complete frame is cut off the accumulator and dispatched; the awaits of
\* dispatch and drain let time pass before the next one.
HandleFrame ==
    /\ state = "handling"
    /\ accum >= FrameLen
    /\ accum' = accum - FrameLen
    /\ frameStart' = IF accum' = 0 THEN None ELSE frameStart
    /\ firstByte' = IF accum' = 0 THEN None ELSE since
    /\ UNCHANGED <<state, now, since>>

\* Mutant of NothingComplete: the loop may leave a complete frame buffered.
MayLeaveFrame == state = "handling"

NothingComplete == accum < FrameLen

\* No complete frame is left: the next read is issued, with a new idle timer.
NextRead ==
    /\ state = "handling"
    /\ NothingComplete
    /\ state' = "reading"
    /\ since' = now
    /\ UNCHANGED <<now, accum, frameStart, firstByte>>

IdleTimeout ==
    /\ state = "reading"
    /\ IdleExpired
    /\ state' = "closed"
    /\ UNCHANGED <<now, since, accum, frameStart, firstByte>>

\* End of stream, a header that does not parse, or a connection error.
Disconnect ==
    /\ state \in {"reading", "handling"}
    /\ state' = "closed"
    /\ UNCHANGED <<now, since, accum, frameStart, firstByte>>

Next ==
    \/ Tick
    \/ Read
    \/ HandleFrame
    \/ NextRead
    \/ IdleTimeout
    \/ Disconnect

Spec == Init /\ [][Next]_vars

-----------------------------------------------------------------------------
(***************************************************************************)
(* Properties                                                              *)
(***************************************************************************)

\* No frame is dispatched whose bytes took longer than the budget to arrive,
\* however its bytes are cut into chunks and whatever frames came with it
\* (eip_adapter.py:37-42, "Hard ceiling on how long a single encapsulation
\* frame may take to arrive in full").
DispatchedWithinBudget ==
    (state = "handling" /\ accum >= FrameLen) => since - firstByte <= Budget

\* The budget, one idle timeout, and the frames handled ahead of it.
Horizon == Budget + Handling + Idle

\* A frame that never gets its last byte is held for a bounded time: one byte
\* before every idle timeout gains no more than one idle timeout.
HalfFrameBounded ==
    (state = "reading" /\ accum > 0) => now - firstByte <= Horizon
=============================================================================
