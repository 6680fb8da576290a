------------------------- MODULE FrameAssembly_proofs -------------------------
(***************************************************************************)
(* Proofs about FrameAssembly for every frame length, chunk size, budget   *)
(* and timeout.                                                            *)
(***************************************************************************)
EXTENDS FrameAssembly, TLAPS

\* The clock of the assembly is set exactly while bytes are buffered, and is
\* never younger than the frame at the head of the buffer.
ClockInv ==
    /\ accum = 0 => frameStart = None /\ firstByte = None
    /\ accum > 0 => /\ frameStart \in Nat
                    /\ frameStart <= firstByte
                    /\ firstByte <= since
    /\ since <= now

\* What the check on each chunk leaves behind: while frames are handled, the
\* buffered bytes are within the budget.
BudgetInv ==
    (state = "handling" /\ accum > 0) => since - frameStart <= Budget

\* How long the task has been in its present state, and how old a half frame
\* was when the pending read was issued.
WaitInv ==
    /\ state = "reading" => accum < FrameLen /\ now - since <= Idle
    /\ state = "handling" => now - since <= Handling
    /\ (state = "reading" /\ accum > 0) => since - firstByte <= Budget + Handling

FrameInv == TypeOK /\ ClockInv /\ BudgetInv /\ WaitInv

LEMMA FrameInit == Init => FrameInv
  BY FrameAssumption
     DEF Init, FrameInv, TypeOK, ClockInv, BudgetInv, WaitInv, None

LEMMA FrameNext == FrameInv /\ [Next]_vars => FrameInv'
  <1> SUFFICES ASSUME FrameInv, [Next]_vars PROVE FrameInv'
    OBVIOUS
  <1> USE FrameAssumption DEF FrameInv, TypeOK, ClockInv, BudgetInv, WaitInv, None
  <1>1. CASE Tick
    BY <1>1 DEF Tick, IdleExpired
  <1>2. ASSUME NEW n \in 1 .. MaxChunk, ReadChunk(n) PROVE FrameInv'
    <2>1. TypeOK'
      BY <1>2 DEF ReadChunk, StartOfAssembly
    <2>2. ClockInv'
      BY <1>2 DEF ReadChunk, StartOfAssembly
    <2>3. BudgetInv' /\ WaitInv'
      BY <1>2 DEF ReadChunk, StartOfAssembly, OverBudget
    <2> QED
      BY <2>1, <2>2, <2>3
  <1>3. CASE HandleFrame
    <2>1. TypeOK'
      BY <1>3 DEF HandleFrame
    <2>2. ClockInv'
      BY <1>3 DEF HandleFrame
    <2>3. BudgetInv' /\ WaitInv'
      BY <1>3 DEF HandleFrame
    <2> QED
      BY <2>1, <2>2, <2>3
  <1>4. CASE NextRead
    BY <1>4 DEF NextRead, NothingComplete
  <1>5. CASE IdleTimeout
    BY <1>5 DEF IdleTimeout
  <1>6. CASE Disconnect
    BY <1>6 DEF Disconnect
  <1>7. CASE UNCHANGED vars
    BY <1>7 DEF vars
  <1> QED
    BY <1>1, <1>2, <1>3, <1>4, <1>5, <1>6, <1>7 DEF Next, Read

\* The clock of the code and the history agree in every behaviour
\* (_handle_client).
THEOREM FrameInvariance == Spec => []FrameInv
  <1> QED
    BY FrameInit, FrameNext, PTL DEF Spec

\* The buffer never holds more than a frame less one byte and one chunk, and
\* the clocks never leave their range (_handle_client).
THEOREM BufferCorrect == Spec => []TypeOK
  <1>1. FrameInv => TypeOK
    BY DEF FrameInv
  <1> QED
    BY <1>1, FrameInvariance, PTL

\* No frame is dispatched whose bytes took longer than the budget.
THEOREM BudgetCorrect == Spec => []DispatchedWithinBudget
  <1>1. FrameInv => DispatchedWithinBudget
    BY FrameAssumption
       DEF FrameInv, TypeOK, ClockInv, BudgetInv, DispatchedWithinBudget, None
  <1> QED
    BY <1>1, FrameInvariance, PTL

\* A frame that never ends is held no longer than the horizon.
THEOREM HorizonCorrect == Spec => []HalfFrameBounded
  <1>1. FrameInv => HalfFrameBounded
    BY FrameAssumption
       DEF FrameInv, TypeOK, ClockInv, WaitInv, HalfFrameBounded, Horizon, None
  <1> QED
    BY <1>1, FrameInvariance, PTL
=============================================================================
