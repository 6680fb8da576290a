------------------------- MODULE SafetyStream_proofs -------------------------
(***************************************************************************)
(* Proofs about SafetyStream for every cycle length, initial values, rate  *)
(* of production, slew and drift.                                          *)
(***************************************************************************)
EXTENDS SafetyStream, SequenceTheorems, TLAPS

LEMMA Cycle ==
    /\ Wrap \in Nat /\ Wrap >= 4
    /\ Half \in Nat /\ 2 * Half = Wrap
    /\ 0 \in Tick16 /\ 1 \in Tick16
  BY WrapAssumption DEF Half, Tick16

\* A 16-bit sum and difference of 16-bit numbers has 16 bits.
LEMMA SumFits == ASSUME NEW a \in Tick16, NEW n \in Tick16 PROVE Plus(a, n) \in Tick16
  BY Cycle DEF Plus, Tick16

LEMMA DifferenceFits == ASSUME NEW a \in Tick16, NEW b \in Tick16 PROVE Ahead(a, b) \in Tick16
  BY Cycle DEF Ahead, Tick16

LEMMA RemainderFits == ASSUME NEW x \in Int PROVE x % Wrap \in Tick16
  BY Cycle DEF Tick16

\* A slew step is at least one tick and never passes the goal.
LEMMA StepWithinRest ==
    ASSUME NEW rest \in Nat, rest > 0
    PROVE  SlewStep(rest) \in 1 .. rest
  <1>1. SlewDivisor \in Nat /\ SlewDivisor >= 1
    BY RateAssumption
  <1>2. rest \div SlewDivisor \in Int /\ rest \div SlewDivisor <= rest
    BY <1>1
  <1> QED
    BY <1>2 DEF SlewStep

\* Slewing keeps the applied correction within the cycle and does not pass
\* the goal.
LEMMA SlewBehindGoal ==
    ASSUME applied \in Tick16, goal \in Tick16, GoalAhead
    PROVE  /\ Slewed \in Tick16
           /\ goal # Slewed => Positive(Ahead(goal, Slewed))
  <1>1. CASE Positive(Ahead(goal, applied))
    <2> DEFINE rest == Ahead(goal, applied)
               step == SlewStep(rest)
    <2>1. rest \in Nat /\ rest > 0 /\ rest < Half
      BY <1>1, DifferenceFits DEF Positive, Tick16
    <2>2. step \in 1 .. rest
      BY <2>1, StepWithinRest
    <2> HIDE DEF step
    <2>3. Slewed = Plus(applied, step)
      BY <1>1 DEF Slewed, step
    <2>4. Plus(applied, step) \in Tick16
      BY <2>1, <2>2, Cycle DEF Plus, Tick16
    <2>5. goal # Plus(applied, step) => Positive(Ahead(goal, Plus(applied, step)))
      BY <2>1, <2>2, Cycle DEF Plus, Tick16, Ahead, Positive
    <2> QED
      BY <2>3, <2>4, <2>5
  <1>2. CASE ~Positive(Ahead(goal, applied))
    BY <1>2 DEF Slewed
  <1> QED
    BY <1>1, <1>2

\* A TCOO leaves the goal where it is, or moves it ahead of the correction.
LEMMA CorrectKeepsGoalAhead ==
    ASSUME applied \in Tick16, goal \in Tick16, GoalAhead,
           NEW worst \in Tick16, Correct(worst)
    PROVE  applied' \in Tick16 /\ goal' \in Tick16 /\ GoalAhead'
  BY Cycle DEF Correct, Raises, GoalAhead, Positive, Ahead, Tick16

\* What is left in the window after a frame has entered it is frames.
LEMMA WindowOfFrames ==
    ASSUME window \in Seq(Frame), NEW f \in Frame, behind \in 0 .. Tolerated + 1, Send(f)
    PROVE  window' \in Seq(Frame) /\ behind' \in 0 .. Tolerated + 1
  <1> DEFINE n == IF Len(window) < Depth THEN Len(window) + 1 ELSE Depth
  <1>1. <<f>> \o window \in Seq(Frame) /\ Len(<<f>> \o window) = Len(window) + 1
    OBVIOUS
  <1>2. n \in 0 .. Len(window) + 1
    BY RateAssumption
  <1>3. SubSeq(<<f>> \o window, 1, n) \in Seq(Frame)
    <2> HIDE DEF n
    <2> QED BY <1>1, <1>2, SubSeqProperties
  <1>4. behind' \in 0 .. Tolerated + 1
    BY RateAssumption DEF Send
  <1> QED
    BY <1>3, <1>4 DEF Send

StreamInv == TypeOK /\ GoalAhead

LEMMA StreamInit == Init => StreamInv
  <1> SUFFICES ASSUME Init PROVE StreamInv
    OBVIOUS
  <1>1. start \in Starts /\ start.ts \in Tick16 /\ start.roll \in Tick16
    BY StartAssumption DEF Init
  <1>2. {offset, stamp, roll, raw, applied, goal, consRoll, consStamp} \subseteq Tick16
    BY <1>1, Cycle DEF Init, Originator, Target
  <1>3. {active, coordinated, heard} \subseteq BOOLEAN
    BY DEF Init
  <1>4. /\ elapsed \in Time
        /\ sent \in Nat
        /\ {sentAt, pingAt} \subseteq Time \cup {Unset}
        /\ ping \in 0 .. 3
        /\ consPing \in 0 .. 3 \cup {NoPing}
        /\ behind \in 0 .. Tolerated + 1
    BY RateAssumption DEF Init, Time
  <1>5. window \in Seq(Frame) /\ tcoos \subseteq Tcoo
    BY DEF Init
  <1>6. GoalAhead
    BY DEF Init, GoalAhead
  <1> QED
    BY <1>1, <1>2, <1>3, <1>4, <1>5, <1>6 DEF StreamInv, TypeOK

Produce == OriginatorProduces \/ TargetIdles \/ TargetProduces

Coordinate == \E t \in tcoos : OriginatorCoordinated(t) \/ TargetCoordinated(t)

\* The steps that send a frame.
LEMMA StreamProduces ==
    ASSUME StreamInv, Produce
    PROVE  StreamInv'
  <1> USE DEF StreamInv, TypeOK
  <1>0. start \in Starts /\ start.ts \in Tick16 /\ start.roll \in Tick16
    BY StartAssumption
  <1>1. CASE OriginatorProduces
    <2> DEFINE f == [ts |-> IF active THEN stamp ELSE 0, roll |-> roll, run |-> active, ping |-> ping]
    <2>1. f \in Frame
      BY Cycle DEF Frame
    <2>2. Send(f)
      BY <1>1 DEF OriginatorProduces
    <2> HIDE DEF f
    <2>3. window' \in Seq(Frame) /\ behind' \in 0 .. Tolerated + 1
      BY <2>1, <2>2, WindowOfFrames
    <2>4. stamp' \in Tick16
      BY <1>1, RateAssumption, SumFits DEF OriginatorProduces
    <2>5. roll' \in Tick16
      BY <1>1, Cycle, SumFits DEF OriginatorProduces
    <2> QED
      BY <1>1, <2>3, <2>4, <2>5
         DEF OriginatorProduces, clock, producing, correcting, consuming, GoalAhead
  <1>2. CASE TargetIdles
    <2> DEFINE f == [ts |-> 0, roll |-> roll, run |-> FALSE, ping |-> ping]
    <2>1. f \in Frame
      BY Cycle DEF Frame
    <2>2. Send(f)
      BY <1>2 DEF TargetIdles
    <2> HIDE DEF f
    <2>3. window' \in Seq(Frame) /\ behind' \in 0 .. Tolerated + 1
      BY <2>1, <2>2, WindowOfFrames
    <2> QED
      BY <1>2, <2>3 DEF TargetIdles, clock, producing, correcting, consuming, GoalAhead
  <1>3. CASE TargetProduces
    <2>1. Slewed \in Tick16 /\ (goal # Slewed => Positive(Ahead(goal, Slewed)))
      BY SlewBehindGoal
    <2> DEFINE ticks == NeverBack(start.ts + elapsed + Slewed)
               f == [ts |-> ticks % Wrap, roll |-> roll', run |-> TRUE, ping |-> ping']
    <2>2. ticks \in Nat
      <3>1. elapsed \in Nat /\ sent \in Nat
        BY DEF Time
      <3>2. start.ts \in Nat /\ Slewed \in Nat
        BY <1>0, <2>1, Cycle DEF Tick16
      <3>3. start.ts + elapsed + Slewed \in Nat
        BY <3>1, <3>2
      <3> QED
        BY <3>1, <3>3 DEF NeverBack
    <2>3. applied' = Slewed /\ sent' = ticks /\ goal' = goal
      BY <1>3 DEF TargetProduces
    <2>4. raw' = (start.ts + elapsed) % Wrap /\ roll' = (start.roll + ticks \div Wrap) % Wrap
      BY <1>3 DEF TargetProduces
    <2>5. Send(f)
      BY <1>3 DEF TargetProduces
    <2>6. /\ sentAt' = elapsed
          /\ pingAt' = IF pingAt = Unset \/ PingDue THEN elapsed ELSE pingAt
          /\ ping' = IF PingDue THEN (ping + 1) % 4 ELSE ping
      BY <1>3 DEF TargetProduces
    <2> HIDE DEF ticks
    <2>7. raw' \in Tick16 /\ ticks % Wrap \in Tick16
      <3>1. start.ts + elapsed \in Int /\ ticks \in Int
        BY <1>0, <2>2 DEF Tick16, Time
      <3> QED
        BY <2>4, <3>1, RemainderFits
    <2>8. roll' \in Tick16
      <3>1. ticks \div Wrap \in Int
        BY <2>2, Cycle
      <3>2. start.roll + ticks \div Wrap \in Int
        BY <1>0, <3>1 DEF Tick16
      <3> QED
        BY <2>4, <3>2, RemainderFits
    <2>9. ping' \in 0 .. 3 /\ {sentAt', pingAt'} \subseteq Time \cup {Unset}
      BY <2>6
    <2>10. f \in Frame
      BY <2>7, <2>8, <2>9 DEF Frame
    <2> HIDE DEF f
    <2>11. window' \in Seq(Frame) /\ behind' \in 0 .. Tolerated + 1
      BY <2>5, <2>10, WindowOfFrames
    <2>12. GoalAhead'
      BY <2>1, <2>3 DEF GoalAhead, Positive, Ahead, Half
    <2>13. UNCHANGED <<start, offset, elapsed, active, stamp, goal, coordinated, tcoos,
                       heard, consRoll, consStamp, consPing>>
      BY <1>3 DEF TargetProduces, clock, consuming
    <2> QED
      BY <2>1, <2>2, <2>3, <2>7, <2>8, <2>9, <2>11, <2>12, <2>13 DEF Time
  <1> QED
    BY <1>1, <1>2, <1>3 DEF Produce

\* The steps of the clocks and of the consumer.
LEMMA StreamConsumes ==
    ASSUME StreamInv, ClockTicks \/ (\E n \in 1 .. Depth : FrameArrives(n)) \/ (\E t \in tcoos : TcooLost(t))
    PROVE  StreamInv'
  <1> USE DEF StreamInv, TypeOK
  <1>1. CASE ClockTicks
    <2>1. offset' \in Tick16
      <3>1. PICK g \in 0 .. Gain : offset' = Plus(offset, g)
        BY <1>1 DEF ClockTicks
      <3>2. g \in Tick16
        <4>1. Gain \in Tick16
          BY RateAssumption
        <4>2. Gain \in 0 .. Wrap - 1 /\ Wrap \in Nat
          BY <4>1, Cycle DEF Tick16
        <4>3. g \in 0 .. Wrap - 1
          BY <3>1, <4>2
        <4> QED
          BY <4>3 DEF Tick16
      <3> QED
        BY <3>1, <3>2, SumFits
    <2>2. elapsed' \in Time /\ tcoos' \subseteq Tcoo
      BY <1>1, RateAssumption DEF ClockTicks, Time
    <2> QED
      BY <1>1, <2>1, <2>2
         DEF ClockTicks, producing, correcting, consuming, GoalAhead, Tcoo
  <1>2. ASSUME NEW n \in 1 .. Depth, FrameArrives(n) PROVE StreamInv'
    <2>1. window[n] \in Frame
      BY <1>2 DEF FrameArrives
    <2>2. consRoll' \in Tick16 /\ consStamp' \in Tick16 /\ consPing' \in 0 .. 3 /\ heard' \in BOOLEAN
      BY <1>2, <2>1 DEF FrameArrives, Frame
    <2>3. tcoos' \subseteq Tcoo
      <3>1. offset + elapsed \in Int
        BY DEF Tick16, Time
      <3>2. ConsumerTime \in Tick16
        BY <3>1, RemainderFits DEF ConsumerTime
      <3> QED
        BY <1>2, <3>2 DEF FrameArrives, Tcoo
    <2>4. behind' \in 0 .. Tolerated + 1
      BY <1>2, RateAssumption DEF FrameArrives
    <2> QED
      BY <1>2, <2>2, <2>3, <2>4 DEF FrameArrives, clock, producing, correcting, GoalAhead
  <1>3. ASSUME NEW t \in tcoos, TcooLost(t) PROVE StreamInv'
    BY <1>3 DEF TcooLost, clock, producing, correcting, consuming, GoalAhead
  <1> QED
    BY <1>1, <1>2, <1>3

\* A TCOO that reaches the producer.
LEMMA StreamCoordinates ==
    ASSUME StreamInv, Coordinate
    PROVE  StreamInv'
  <1> USE DEF StreamInv, TypeOK
  <1>0. start \in Starts /\ start.roll \in Tick16
    BY StartAssumption
  <1>1. ASSUME NEW t \in tcoos, OriginatorCoordinated(t) PROVE StreamInv'
    BY <1>1 DEF OriginatorCoordinated, Taken, clock, producing, correcting, consuming, GoalAhead
  <1>2. ASSUME NEW t \in tcoos, TargetCoordinated(t) PROVE StreamInv'
    <2>1. tcoos' \subseteq Tcoo /\ active' \in BOOLEAN /\ roll' \in Tick16
      BY <1>0, <1>2 DEF TargetCoordinated, Taken
    <2>2. applied' \in Tick16 /\ goal' \in Tick16 /\ GoalAhead' /\ coordinated' \in BOOLEAN
      <3> DEFINE worst == (t.time - raw - Correction) % Wrap
      <3>1. worst \in Tick16
        <4>1. t.time \in Tick16
          BY DEF Tcoo
        <4>2. t.time - raw - Correction \in Int
          <5>1. Correction \in Int
            BY RateAssumption
          <5>2. t.time \in Int /\ raw \in Int
            BY <4>1 DEF Tick16
          <5> QED
            BY <5>1, <5>2
        <4> QED
          BY <4>2, RemainderFits
      <3>2. CASE ~TooLate /\ coordinated
        <4>1. Correct(worst) /\ coordinated'
          BY <1>2, <3>2 DEF TargetCoordinated
        <4> HIDE DEF worst
        <4> QED
          BY <3>1, <4>1, CorrectKeepsGoalAhead, <1>2, <3>2 DEF TargetCoordinated
      <3>3. CASE TooLate
        BY <1>2, <3>3 DEF TargetCoordinated, correcting, GoalAhead
      <3>4. CASE ~TooLate /\ ~coordinated
        BY <1>2, <3>4 DEF TargetCoordinated, GoalAhead
      <3> QED
        BY <3>2, <3>3, <3>4
    <2> QED
      BY <1>2, <2>1, <2>2 DEF TargetCoordinated, clock, producing, consuming
  <1> QED
    BY <1>1, <1>2 DEF Coordinate

LEMMA StreamNext == StreamInv /\ [Next]_vars => StreamInv'
  <1> SUFFICES ASSUME StreamInv, [Next]_vars PROVE StreamInv'
    OBVIOUS
  <1>1. CASE Produce
    BY <1>1, StreamProduces
  <1>2. CASE ClockTicks \/ (\E n \in 1 .. Depth : FrameArrives(n)) \/ (\E t \in tcoos : TcooLost(t))
    BY <1>2, StreamConsumes
  <1>3. CASE Coordinate
    BY <1>3, StreamCoordinates
  <1>4. CASE UNCHANGED vars
    BY <1>4 DEF vars, clock, producing, correcting, consuming, StreamInv, TypeOK, GoalAhead
  <1> QED
    BY <1>1, <1>2, <1>3, <1>4 DEF Next, Produce, Coordinate

\* Type correctness, and the goal never falls behind the applied correction.
THEOREM StreamInvariance == Spec => []StreamInv
  BY StreamInit, StreamNext, PTL DEF Spec

\* The 16-bit values of producer and consumer stay within 16 bits, and frames
\* and TCOOs under way are well-formed (safety_device.py:260-540).
THEOREM StreamTyped == Spec => []TypeOK
  <1>1. StreamInv => TypeOK
    BY DEF StreamInv
  <1> QED
    BY <1>1, StreamInvariance, PTL

\* The branch of produce_io_data that "shouldn't happen"
\* (safety_device.py:306-309), a goal behind the applied correction, does not
\* happen: whatever TCOOs arrive, and whenever the correction wraps.
THEOREM GoalNeverBehind == Spec => []GoalAhead
  <1>1. StreamInv => GoalAhead
    BY DEF StreamInv
  <1> QED
    BY <1>1, StreamInvariance, PTL

(***************************************************************************)
(* Numbers.  A count and a stamp are two digits of one number modulo       *)
(* Wrap * Wrap.                                                            *)
(***************************************************************************)
LEMMA Multiple ==
    ASSUME NEW m \in Nat, m > 0, NEW k \in Int
    PROVE  /\ m * k \in Int
           /\ k >= 1 => m * k >= m
           /\ k <= -1 => m * k <= -m
  OBVIOUS

LEMMA Divided ==
    ASSUME NEW m \in Nat, m > 0, NEW x \in Int
    PROVE  x \div m \in Int /\ x % m \in 0 .. m - 1 /\ x = m * (x \div m) + (x % m)
  OBVIOUS

LEMMA Remainder ==
    ASSUME NEW m \in Nat, m > 0, NEW k \in Int, NEW r \in 0 .. m - 1,
           NEW x \in Int, x = m * k + r
    PROVE  x % m = r
  <1> DEFINE q == x \div m
             s == x % m
  <1>1. q \in Int /\ s \in 0 .. m - 1 /\ x = m * q + s
    BY Divided
  <1> HIDE DEF q, s
  <1>2. m * (q - k) = r - s
    BY <1>1
  <1>3. q - k \in Int
    BY <1>1
  <1>4. ~(q - k >= 1) /\ ~(q - k <= -1)
    BY <1>1, <1>2, <1>3, Multiple
  <1>5. q = k
    BY <1>1, <1>4
  <1> QED
    BY <1>1, <1>5 DEF s

LEMMA Square ==
    /\ Wrap * Wrap \in Nat /\ Wrap * Wrap > 0
    /\ Wrap * Half \in Nat /\ 2 * (Wrap * Half) = Wrap * Wrap
    /\ 2 * Wrap <= Wrap * Half
  <1>1. Half >= 2 /\ Half \in Nat /\ Wrap \in Nat /\ Wrap > 0 /\ 2 * Half = Wrap
    BY Cycle
  <1>2. Wrap * Half \in Nat /\ Wrap * Wrap \in Nat
    BY <1>1
  <1>3. Wrap * Half >= 2 * Wrap
    <2>1. Half - 1 \in Int /\ Half - 1 >= 1
      BY <1>1
    <2>2. Wrap * (Half - 1) >= Wrap
      BY <1>1, <2>1, Multiple
    <2> QED
      BY <1>1, <2>2
  <1>4. 2 * (Wrap * Half) = Wrap * (2 * Half)
    BY <1>1
  <1>5. 2 * (Wrap * Half) = Wrap * Wrap
    BY <1>1, <1>4
  <1> QED
    BY <1>1, <1>2, <1>3, <1>5

LEMMA DistanceIs ==
    ASSUME NEW r1 \in Int, NEW ts1 \in Int, NEW r2 \in Int, NEW ts2 \in Int,
           NEW k \in Int, NEW d \in Nat, d < Wrap * Half,
           (r1 - r2) * Wrap + ts1 - ts2 = (Wrap * Wrap) * k + d
    PROVE  Distance(r1, ts1, r2, ts2) = d
  <1> DEFINE x == (r1 - r2) * Wrap + ts1 - ts2
             m == Wrap * Wrap
  <1>1. x \in Int /\ m \in Nat /\ m > 0 /\ d \in 0 .. m - 1
    BY Cycle, Square
  <1>2. x = m * k + d
    OBVIOUS
  <1> HIDE DEF x, m
  <1>3. x % m = d
    BY <1>1, <1>2, Remainder
  <1> QED
    BY <1>3 DEF Distance, x, m

\* Frames of the same cycle, and of one cycle and the next.
LEMMA DistanceWithin ==
    ASSUME NEW r \in Tick16, NEW a \in Tick16, NEW b \in Tick16, a >= b
    PROVE  Distance(r, a, r, b) = a - b
  <1>1. a - b \in Nat /\ a - b < Wrap * Half
    BY Cycle, Square DEF Tick16
  <1>2. (r - r) * Wrap + a - b = (Wrap * Wrap) * 0 + (a - b)
    BY Cycle, Square DEF Tick16
  <1> QED
    BY <1>1, <1>2, DistanceIs DEF Tick16

LEMMA DistanceAcross ==
    ASSUME NEW r \in Tick16, NEW a \in Tick16, NEW b \in Tick16, a < b
    PROVE  Distance(Plus(r, 1), a, r, b) = Wrap + a - b
  <1> DEFINE d == Wrap + a - b
  <1>1. d \in Nat /\ d < Wrap * Half
    BY Cycle, Square DEF Tick16
  <1>2. CASE r + 1 < Wrap
    <2>1. Plus(r, 1) = r + 1
      BY <1>2 DEF Plus
    <2>2. ((r + 1) - r) * Wrap + a - b = (Wrap * Wrap) * 0 + d
      BY Cycle, Square DEF Tick16
    <2> HIDE DEF d
    <2>3. Distance(r + 1, a, r, b) = d
      BY <1>1, <2>2, DistanceIs DEF Tick16
    <2> QED
      BY <2>1, <2>3 DEF d
  <1>3. CASE ~(r + 1 < Wrap)
    <2>1. r = Wrap - 1 /\ Plus(r, 1) = 0
      BY <1>3, Cycle DEF Plus, Tick16
    <2>2. (0 - (Wrap - 1)) * Wrap + a - b = (Wrap * Wrap) * (-1) + d
      BY Cycle DEF Tick16
    <2> HIDE DEF d
    <2>3. Wrap - 1 \in Int /\ 0 \in Int /\ -1 \in Int /\ a \in Int /\ b \in Int
      BY Cycle DEF Tick16
    <2>4. Distance(0, a, Wrap - 1, b) = d
      BY <1>1, <2>2, <2>3, DistanceIs
    <2> QED
      BY <2>1, <2>4 DEF d
  <1> QED
    BY <1>2, <1>3

(***************************************************************************)
(* What entering the window does to it.                                    *)
(***************************************************************************)
LEMMA WindowShifts ==
    ASSUME window \in Seq(Frame), NEW f \in Frame, Send(f)
    PROVE  /\ Len(window') \in 1 .. Depth
           /\ window' # <<>>
           /\ window'[1] = f
           /\ \A i \in 2 .. Len(window') : i - 1 \in 1 .. Len(window) /\ window'[i] = window[i - 1]
  <1> DEFINE all == <<f>> \o window
             n == IF Len(window) < Depth THEN Len(window) + 1 ELSE Depth
  <1>1. /\ all \in Seq(Frame) /\ Len(all) = Len(window) + 1 /\ all[1] = f
        /\ \A i \in 2 .. Len(window) + 1 : all[i] = window[i - 1]
    OBVIOUS
  <1>2. n \in 1 .. Depth /\ n \in 1 .. Len(window) + 1 /\ n \in Nat
    BY RateAssumption
  <1>3. window' = SubSeq(all, 1, n)
    BY DEF Send
  <1> HIDE DEF all, n
  <1>4. /\ Len(window') = n /\ window' \in Seq(Frame)
        /\ \A i \in 1 .. n : window'[i] = all[i]
    BY <1>1, <1>2, <1>3, SubSeqProperties
  <1> QED
    BY <1>1, <1>2, <1>4

(***************************************************************************)
(* Time on the wire.  The newest frame that runs tells where its producer  *)
(* is, and the ticks the target has sent are at most a period behind its   *)
(* clock.                                                                  *)
(***************************************************************************)
Wraps(s) == (start.roll + s \div Wrap) % Wrap

LastFrame ==
    window # <<>> /\ window[1].run =>
        /\ active
        /\ Originator =>
              /\ stamp = Plus(window[1].ts, Stride)
              /\ roll = IF stamp < window[1].ts THEN Plus(window[1].roll, 1) ELSE window[1].roll
        /\ Target =>
              /\ window[1].ts = sent % Wrap
              /\ window[1].roll = Wraps(sent)
              /\ sentAt # Unset

Pace ==
    /\ sentAt # Unset => start.ts + sentAt <= sent
    /\ elapsed <= sentAt + Period \/ elapsed = 0

ForwardInv == LastFrame /\ Pace

\* Two counts of ticks, cut to the digits of a frame, are as far apart as they
\* were.
LEMMA WrapsKeepDistance ==
    ASSUME start.roll \in Int, NEW s1 \in Nat, NEW s2 \in Nat, s2 <= s1, s1 - s2 < Wrap * Half
    PROVE  Distance(Wraps(s1), s1 % Wrap, Wraps(s2), s2 % Wrap) = s1 - s2
  <1> DEFINE x1 == start.roll + s1 \div Wrap
             x2 == start.roll + s2 \div Wrap
             k1 == x1 \div Wrap
             k2 == x2 \div Wrap
  <1>0. Wrap \in Nat /\ Wrap > 0
    BY Cycle
  <1>1. /\ s1 \div Wrap \in Int /\ s1 % Wrap \in Int /\ s1 = Wrap * (s1 \div Wrap) + (s1 % Wrap)
        /\ s2 \div Wrap \in Int /\ s2 % Wrap \in Int /\ s2 = Wrap * (s2 \div Wrap) + (s2 % Wrap)
    BY <1>0, Divided
  <1>2. x1 \in Int /\ x2 \in Int
    BY <1>1
  <1> HIDE DEF x1, x2
  <1>3. /\ k1 \in Int /\ x1 % Wrap \in Int /\ x1 = Wrap * k1 + (x1 % Wrap)
        /\ k2 \in Int /\ x2 % Wrap \in Int /\ x2 = Wrap * k2 + (x2 % Wrap)
    BY <1>0, <1>2, Divided
  <1> HIDE DEF k1, k2
  <1>4. x1 - x2 = (s1 \div Wrap) - (s2 \div Wrap)
    BY <1>1 DEF x1, x2
  <1> DEFINE r1 == x1 % Wrap
             r2 == x2 % Wrap
             q1 == s1 \div Wrap
             q2 == s2 \div Wrap
             t1 == s1 % Wrap
             t2 == s2 % Wrap
  <1>5. /\ r1 \in Int /\ r2 \in Int /\ q1 \in Int /\ q2 \in Int /\ t1 \in Int /\ t2 \in Int
        /\ r1 - r2 = q1 - q2 - Wrap * (k1 - k2)
        /\ s1 - s2 = Wrap * (q1 - q2) + t1 - t2
    BY <1>0, <1>1, <1>3, <1>4
  <1> HIDE DEF r1, r2, q1, q2, t1, t2
  <1>6. (r1 - r2) * Wrap = Wrap * (q1 - q2) - (Wrap * Wrap) * (k1 - k2)
    <2>1. (r1 - r2) * Wrap = (q1 - q2 - Wrap * (k1 - k2)) * Wrap
      BY <1>5
    <2> QED
      BY <1>0, <1>3, <1>5, <2>1
  <1>7. (r1 - r2) * Wrap + t1 - t2 = (Wrap * Wrap) * (k2 - k1) + (s1 - s2)
    <2>1. (Wrap * Wrap) * (k2 - k1) = -((Wrap * Wrap) * (k1 - k2))
      BY <1>0, <1>3
    <2>2. (Wrap * Wrap) * (k1 - k2) \in Int
      BY <1>0, <1>3
    <2> QED
      BY <1>0, <1>3, <1>5, <1>6, <2>1, <2>2
  <1>8. k2 - k1 \in Int /\ s1 - s2 \in Nat
    BY <1>3
  <1>9. Distance(r1, t1, r2, t2) = s1 - s2
    BY <1>5, <1>7, <1>8, DistanceIs
  <1> QED
    BY <1>9 DEF r1, r2, t1, t2, x1, x2, Wraps

\* What produce_io_data sends is not behind its clock, not behind what it has
\* sent, and not far ahead of it.
LEMMA TicksForward ==
    ASSUME StreamInv, Pace, start.ts \in Tick16, elapsed > sentAt
    PROVE  LET ticks == NeverBack(start.ts + elapsed + Slewed)
           IN  /\ ticks \in Nat
               /\ start.ts + elapsed <= ticks
               /\ sent <= ticks
               /\ sentAt # Unset => ticks - sent < Wrap * Half
  <1>1. Slewed \in 0 .. Wrap - 1
    BY SlewBehindGoal DEF StreamInv, TypeOK, Tick16
  <1>2. /\ elapsed \in Nat /\ sent \in Nat /\ start.ts \in Nat
        /\ sentAt \in Nat \cup {Unset} /\ Unset = -1
    BY DEF StreamInv, TypeOK, Time, Tick16, Unset
  <1>3. sentAt # Unset => start.ts + sentAt <= sent /\ elapsed <= sentAt + Period
    BY <1>2 DEF Pace
  <1>4. Period \in Nat /\ Wrap \in Nat /\ Wrap + Period <= Wrap * Half /\ 1 < Wrap * Half
        /\ Wrap * Half \in Nat
    BY RateAssumption, PeriodAssumption, Cycle, Square
  <1> QED
    BY <1>1, <1>2, <1>3, <1>4 DEF NeverBack

LEMMA ForwardInit == Init => ForwardInv
  BY DEF Init, ForwardInv, LastFrame, Pace

\* What the two producers send.
LEMMA ServerFrame ==
    ASSUME StreamInv, OriginatorProduces
    PROVE  LET f == [ts |-> IF active THEN stamp ELSE 0, roll |-> roll, run |-> active, ping |-> ping]
           IN  f \in Frame /\ Send(f)
  BY Cycle DEF OriginatorProduces, StreamInv, TypeOK, Frame

LEMMA ClientFrame ==
    ASSUME StreamInv, TargetProduces
    PROVE  LET ticks == NeverBack(start.ts + elapsed + Slewed)
               f == [ts |-> ticks % Wrap, roll |-> Wraps(ticks), run |-> TRUE, ping |-> ping']
           IN  f \in Frame /\ Send(f) /\ sent' = ticks /\ roll' = Wraps(ticks)
  <1> DEFINE ticks == NeverBack(start.ts + elapsed + Slewed)
             f == [ts |-> ticks % Wrap, roll |-> Wraps(ticks), run |-> TRUE, ping |-> ping']
  <1>1. start.ts \in Tick16 /\ start.roll \in Tick16
    BY StartAssumption DEF StreamInv, TypeOK
  <1>2. Slewed \in Tick16
    BY SlewBehindGoal DEF StreamInv, TypeOK
  <1>3. ticks \in Nat
    <2>1. elapsed \in Nat /\ sent \in Nat
      BY DEF StreamInv, TypeOK, Time
    <2>2. start.ts \in Nat /\ Slewed \in Nat
      BY <1>1, <1>2, Cycle DEF Tick16
    <2> QED
      BY <2>1, <2>2 DEF NeverBack
  <1>4. ping' \in 0 .. 3
    BY DEF TargetProduces, StreamInv, TypeOK
  <1>5. sent' = ticks /\ roll' = Wraps(ticks) /\ Send(f)
    BY DEF TargetProduces, Wraps
  <1> HIDE DEF ticks
  <1>6. ticks \div Wrap \in Int
    BY <1>3, Cycle
  <1>7. start.roll + ticks \div Wrap \in Int
    BY <1>1, <1>6 DEF Tick16
  <1>8. Wraps(ticks) \in Tick16 /\ ticks % Wrap \in Tick16
    BY <1>3, <1>7, RemainderFits DEF Wraps
  <1> QED
    BY <1>4, <1>5, <1>8 DEF Frame, ticks

\* Every step keeps the newest frame and the producer together.
LEMMA ForwardStep ==
    ASSUME StreamInv, ForwardInv, [Next]_vars
    PROVE  ForwardInv'
  <1>0. /\ window \in Seq(Frame) /\ start.ts \in Tick16 /\ start.roll \in Tick16
        /\ start.producer \in {"originator", "target"}
    BY StartAssumption DEF StreamInv, TypeOK
  <1>1. CASE OriginatorProduces
    <2> DEFINE f == [ts |-> IF active THEN stamp ELSE 0, roll |-> roll, run |-> active, ping |-> ping]
    <2>1. f \in Frame /\ Send(f)
      BY <1>1, ServerFrame
    <2>2. window'[1] = f
      BY <1>0, <2>1, WindowShifts
    <2>3. /\ Originator /\ UNCHANGED <<start, elapsed, active, sent, sentAt>>
          /\ stamp' = IF active THEN Plus(stamp, Stride) ELSE stamp
          /\ roll' = IF stamp' < stamp THEN Plus(roll, 1) ELSE roll
      BY <1>1 DEF OriginatorProduces, clock, producing
    <2>4. Originator' /\ ~Target'
      BY <2>3 DEF Originator, Target
    <2>5. LastFrame'
      BY <2>2, <2>3, <2>4 DEF LastFrame
    <2> QED
      BY <2>3, <2>5 DEF ForwardInv, Pace
  <1>2. CASE TargetIdles
    <2> DEFINE f == [ts |-> 0, roll |-> roll, run |-> FALSE, ping |-> ping]
    <2>1. f \in Frame
      BY Cycle DEF StreamInv, TypeOK, Frame
    <2>2. Send(f)
      BY <1>2 DEF TargetIdles
    <2>3. window'[1] = f
      BY <1>0, <2>1, <2>2, WindowShifts
    <2>4. LastFrame'
      BY <2>3 DEF LastFrame
    <2> QED
      BY <1>2, <2>4 DEF TargetIdles, clock, producing, ForwardInv, Pace
  <1>3. CASE TargetProduces
    <2> DEFINE ticks == NeverBack(start.ts + elapsed + Slewed)
               f == [ts |-> ticks % Wrap, roll |-> Wraps(ticks), run |-> TRUE, ping |-> ping']
    <2>1. f \in Frame /\ Send(f) /\ sent' = ticks
      BY <1>3, ClientFrame
    <2>2. /\ Target /\ active /\ elapsed > sentAt /\ sentAt' = elapsed
          /\ UNCHANGED <<start, elapsed, active>>
      BY <1>3 DEF TargetProduces, clock
    <2>3. start.ts + elapsed <= ticks
      BY <1>0, <2>2, TicksForward DEF ForwardInv
    <2>4. window'[1] = f
      BY <1>0, <2>1, WindowShifts
    <2> HIDE DEF ticks
    <2>5. ~Originator' /\ elapsed # Unset /\ elapsed \in Nat
      BY <2>2 DEF Originator, Target, StreamInv, TypeOK, Time, Unset
    <2>6. LastFrame'
      BY <2>1, <2>2, <2>4, <2>5 DEF LastFrame, Wraps
    <2>7. Pace'
      BY <2>1, <2>2, <2>3, <2>5, RateAssumption DEF Pace
    <2> QED
      BY <2>6, <2>7 DEF ForwardInv
  <1>4. CASE ClockTicks
    <2>1. /\ elapsed - sentAt < Period /\ elapsed' = elapsed + 1
          /\ UNCHANGED <<start, active, stamp, roll, sent, sentAt, window>>
      BY <1>4 DEF ClockTicks, producing
    <2>2. LastFrame'
      BY <2>1 DEF ForwardInv, LastFrame, Originator, Target, Wraps
    <2>3. elapsed \in Int /\ sentAt \in Int
      BY DEF StreamInv, TypeOK, Time, Unset
    <2>4. Pace'
      BY <2>1, <2>3, RateAssumption DEF ForwardInv, Pace
    <2> QED
      BY <2>2, <2>4 DEF ForwardInv
  <1>5. CASE \E n \in 1 .. Depth : FrameArrives(n)
    BY <1>5 DEF FrameArrives, clock, producing, ForwardInv, LastFrame, Pace, Originator, Target, Wraps
  <1>6. CASE \E t \in tcoos : OriginatorCoordinated(t) \/ TcooLost(t)
    BY <1>6 DEF OriginatorCoordinated, TcooLost, clock, producing, ForwardInv, LastFrame, Pace,
                Originator, Target, Wraps
  <1>7. ASSUME NEW t \in tcoos, TargetCoordinated(t) PROVE ForwardInv'
    <2>1. /\ Target /\ active' = TRUE /\ roll' = IF active THEN roll ELSE start.roll
          /\ UNCHANGED <<start, elapsed, stamp, sent, sentAt, window>>
      BY <1>7 DEF TargetCoordinated, clock, producing
    <2>2. ~Originator'
      BY <2>1 DEF Originator, Target
    <2> QED
      BY <2>1, <2>2 DEF ForwardInv, LastFrame, Pace, Target, Wraps
  <1>8. CASE UNCHANGED vars
    BY <1>8 DEF vars, clock, producing, ForwardInv, LastFrame, Pace, Originator, Target, Wraps
  <1> QED
    BY <1>1, <1>2, <1>3, <1>4, <1>5, <1>6, <1>7, <1>8 DEF Next

\* One stride on, across a wrap or not.
LEMMA StrideForward ==
    ASSUME NEW r \in Tick16, NEW ts \in Tick16
    PROVE  LET next == Plus(ts, Stride)
           IN  Distance(IF next < ts THEN Plus(r, 1) ELSE r, next, r, ts) = Stride
  <1> DEFINE next == Plus(ts, Stride)
  <1>1. Stride \in Tick16
    BY RateAssumption
  <1>2. next \in Tick16 /\ next = IF next < ts THEN ts + Stride - Wrap ELSE ts + Stride
    BY <1>1, Cycle DEF Plus, Tick16
  <1> HIDE DEF next
  <1>3. ts \in Int /\ Stride \in Int /\ next \in Int /\ Wrap \in Int
    BY <1>1, <1>2, Cycle DEF Tick16
  <1>4. CASE next < ts
    <2>1. Distance(Plus(r, 1), next, r, ts) = Wrap + next - ts
      BY <1>2, <1>4, DistanceAcross
    <2> QED
      BY <1>2, <1>3, <1>4, <2>1 DEF next
  <1>5. CASE ~(next < ts)
    <2>1. Distance(r, next, r, ts) = next - ts
      BY <1>2, <1>3, <1>5, DistanceWithin
    <2> QED
      BY <1>2, <1>3, <1>5, <2>1 DEF next
  <1> QED
    BY <1>4, <1>5

\* What enters the window behind a frame that runs is ahead of it.
LEMMA WireStep ==
    ASSUME StreamInv, ForwardInv, [Next]_vars,
           window # <<>>, window[1].run, window' # window
    PROVE  Distance(window'[1].roll, window'[1].ts, window[1].roll, window[1].ts) < Wrap * Half
  <1>0. /\ window \in Seq(Frame) /\ start.ts \in Tick16 /\ start.roll \in Tick16 /\ active
        /\ window[1] \in Frame
    BY StartAssumption DEF StreamInv, TypeOK, ForwardInv, LastFrame
  <1>1. CASE OriginatorProduces
    <2> DEFINE f == [ts |-> IF active THEN stamp ELSE 0, roll |-> roll, run |-> active, ping |-> ping]
    <2>1. f \in Frame /\ Send(f)
      BY <1>1, ServerFrame
    <2>2. window'[1] = f
      BY <1>0, <2>1, WindowShifts
    <2>3. window'[1].ts = stamp /\ window'[1].roll = roll
      BY <1>0, <2>2
    <2>4. /\ stamp = Plus(window[1].ts, Stride)
          /\ roll = IF stamp < window[1].ts THEN Plus(window[1].roll, 1) ELSE window[1].roll
      BY <1>1 DEF OriginatorProduces, ForwardInv, LastFrame
    <2>5. window[1].roll \in Tick16 /\ window[1].ts \in Tick16
      BY <1>0 DEF Frame
    <2>6. Distance(roll, stamp, window[1].roll, window[1].ts) = Stride
      BY <2>4, <2>5, StrideForward
    <2>7. Stride < Wrap * Half
      BY RateAssumption, Cycle, Square DEF Tick16
    <2> QED
      BY <2>3, <2>6, <2>7
  <1>2. CASE TargetProduces
    <2> DEFINE ticks == NeverBack(start.ts + elapsed + Slewed)
               f == [ts |-> ticks % Wrap, roll |-> Wraps(ticks), run |-> TRUE, ping |-> ping']
    <2>1. f \in Frame /\ Send(f)
      BY <1>2, ClientFrame
    <2>2. Target /\ elapsed > sentAt
      BY <1>2 DEF TargetProduces
    <2>3. window[1].ts = sent % Wrap /\ window[1].roll = Wraps(sent) /\ sentAt # Unset
      BY <2>2 DEF ForwardInv, LastFrame
    <2>4. ticks \in Nat /\ sent <= ticks /\ ticks - sent < Wrap * Half
      BY <1>0, <2>2, <2>3, TicksForward DEF ForwardInv
    <2>5. window'[1] = f
      BY <1>0, <2>1, WindowShifts
    <2> HIDE DEF ticks
    <2>6. sent \in Nat /\ start.roll \in Int
      BY <1>0 DEF StreamInv, TypeOK, Tick16
    <2>7. Distance(Wraps(ticks), ticks % Wrap, Wraps(sent), sent % Wrap) = ticks - sent
      BY <2>4, <2>6, WrapsKeepDistance
    <2> QED
      BY <2>3, <2>4, <2>5, <2>7
  <1>3. CASE ~OriginatorProduces /\ ~TargetProduces
    BY <1>0, <1>3 DEF Next, vars, TargetIdles, ClockTicks, FrameArrives, OriginatorCoordinated,
                      TargetCoordinated, TcooLost
  <1> QED
    BY <1>1, <1>2, <1>3

\* The frames that run never go back in time on the wire, whatever drift,
\* corrections and wraps do (produce_io_data, safety_device.py:311-320).
THEOREM WireNeverBack == Spec => WireForward
  <1>1. StreamInv /\ ForwardInv /\ [Next]_vars =>
          [(window # <<>> /\ window[1].run /\ window' # window) =>
              Distance(window'[1].roll, window'[1].ts, window[1].roll, window[1].ts)
                  < Wrap * Half]_vars
    BY WireStep
  <1>2. StreamInv /\ ForwardInv /\ [Next]_vars => ForwardInv'
    BY ForwardStep
  <1> QED
    BY <1>1, <1>2, ForwardInit, StreamInvariance, PTL DEF Spec, WireForward

(***************************************************************************)
(* The first TCOO.                                                         *)
(***************************************************************************)
\* Until it arrives every frame has the ping count of the first, and a consumer
\* that has accepted one has answered that.
IdlePings ==
    ~active =>
        /\ ping = 0
        /\ \A n \in 1 .. Len(window) : window[n].ping = 0
        /\ heard => consPing = 0

LEMMA IdlePingsInit == Init => IdlePings
  BY DEF Init, IdlePings

LEMMA IdlePingsSent ==
    ASSUME StreamInv, IdlePings, ~active, OriginatorProduces \/ TargetIdles
    PROVE  IdlePings'
  <1>1. PICK f \in Frame : f.ping = ping /\ Send(f)
    <2>1. CASE OriginatorProduces
      BY <2>1, ServerFrame
    <2>2. CASE TargetIdles
      BY <2>2, Cycle DEF TargetIdles, StreamInv, TypeOK, Frame
    <2> QED
      BY <2>1, <2>2
  <1>2. UNCHANGED <<active, ping, heard, consPing>>
    BY DEF OriginatorProduces, TargetIdles, producing, consuming
  <1>3. /\ window'[1] = f
        /\ \A i \in 2 .. Len(window') : i - 1 \in 1 .. Len(window) /\ window'[i] = window[i - 1]
        /\ Len(window') \in Nat
    BY <1>1, WindowShifts DEF StreamInv, TypeOK
  <1>4. ASSUME NEW n \in 1 .. Len(window') PROVE window'[n].ping = 0
    <2>1. CASE n = 1
      BY <1>1, <1>3, <2>1 DEF IdlePings
    <2>2. CASE n \in 2 .. Len(window')
      BY <1>3, <2>2 DEF IdlePings
    <2> QED
      BY <1>3, <2>1, <2>2
  <1> QED
    BY <1>2, <1>4 DEF IdlePings

LEMMA IdlePingsStep ==
    ASSUME StreamInv, IdlePings, [Next]_vars
    PROVE  IdlePings'
  <1> SUFFICES ASSUME ~active' PROVE IdlePings'
    BY DEF IdlePings
  <1>1. ~active
    BY DEF Next, vars, OriginatorProduces, TargetIdles, TargetProduces, ClockTicks, FrameArrives,
           OriginatorCoordinated, TargetCoordinated, TcooLost
  <1>2. CASE OriginatorProduces \/ TargetIdles
    BY <1>1, <1>2, IdlePingsSent
  <1>3. CASE \E n \in 1 .. Depth : FrameArrives(n)
    BY <1>1, <1>3 DEF FrameArrives, producing, IdlePings
  <1>4. CASE \E t \in tcoos : TcooLost(t)
    BY <1>4 DEF TcooLost, producing, consuming, IdlePings
  <1>5. CASE UNCHANGED vars
    BY <1>5 DEF vars, producing, consuming, IdlePings
  <1> QED
    BY <1>1, <1>2, <1>3, <1>4, <1>5 DEF Next, TargetProduces, ClockTicks, OriginatorCoordinated,
                                        TargetCoordinated

\* No second TCOO is made before a stream runs (safety_device.py:341,
\* scanner_connection.py:459-461): a connection whose first is lost idles for good.
THEOREM FirstTcooOnce == Spec => OneFirstTcoo
  <1>1. IdlePings /\ [Next]_vars =>
            [~active /\ heard /\ tcoos = {} => ~active' /\ tcoos' = {}]_vars
    <2> SUFFICES ASSUME IdlePings, Next, ~active, heard, tcoos = {}
                 PROVE  ~active' /\ tcoos' = {}
      OBVIOUS
    <2>1. CASE OriginatorProduces \/ TargetIdles
      BY <2>1 DEF OriginatorProduces, TargetIdles
    <2>2. CASE \E n \in 1 .. Depth : FrameArrives(n)
      BY <2>2 DEF FrameArrives, Answers, IdlePings
    <2> QED
      BY <2>1, <2>2 DEF Next, TargetProduces, ClockTicks
  <1>2. StreamInv /\ IdlePings /\ [Next]_vars => IdlePings'
    BY IdlePingsStep
  <1> QED
    BY <1>1, <1>2, IdlePingsInit, StreamInvariance, PTL DEF Spec, OneFirstTcoo

(***************************************************************************)
(* Frames that are not stale.  A consumer that accepts by its candidate    *)
(* stays within a quarter of a cycle of where it was.  The second try of a *)
(* target, with count zero, is another matter: it accepts an idle frame    *)
(* long after the stream began to run.  That does no harm if, as long as   *)
(* an idle frame may still arrive, no stamp has gone past a quarter of the *)
(* cycle.                                                                  *)
(***************************************************************************)
Strides(k) == k * Stride

\* The initial values of server connections under which that is so.
EarlyStarts ==
    \A s \in Starts : s.producer = "originator" /\ s.roll = 0 =>
        s.ts + Strides(Depth - 2) <= Quarter

LEMMA StrideMore ==
    ASSUME NEW j \in Int, NEW k \in Int
    PROVE  /\ Strides(k) \in Int
           /\ Strides(0) = 0
           /\ Strides(k + 1) = Strides(k) + Stride
           /\ j <= k => Strides(j) <= Strides(k)
  <1>1. Stride \in Nat
    BY RateAssumption, Cycle DEF Tick16
  <1>2. Strides(k) \in Int /\ Strides(0) = 0 /\ Strides(k + 1) = Strides(k) + Stride
    BY <1>1 DEF Strides
  <1>3. j <= k => Strides(j) <= Strides(k)
    <2>1. SUFFICES ASSUME j <= k PROVE j * Stride <= k * Stride
      BY DEF Strides
    <2>2. (k - j) * Stride >= 0
      BY <1>1, <2>1
    <2> QED
      BY <1>1, <2>2
  <1> QED
    BY <1>2, <1>3

\* Before the first TCOO nothing has run.
IdleFirst ==
    ~active =>
        /\ roll = start.roll /\ stamp = start.ts
        /\ \A n \in 1 .. Len(window) : ~window[n].run
        /\ heard => consRoll = start.roll /\ consStamp = 0

\* A target that has accepted a frame is on a connection that counts from zero.
CountsFromZero == heard \/ active \/ tcoos # {} => start.roll = 0

\* As long as an idle frame may arrive, everything is early in the first cycle.
IdleFrames ==
    \A n \in 1 .. Len(window) : ~window[n].run =>
        /\ window[n].ts = 0 /\ window[n].roll = start.roll
        /\ n < Depth => stamp <= start.ts + Strides(n - 1) /\ roll = start.roll
        /\ \A i \in 1 .. Len(window) : window[i].roll = start.roll /\ window[i].ts <= Quarter
        /\ heard => consRoll = start.roll /\ consStamp <= Quarter

ServerInv == Originator => IdleFirst /\ CountsFromZero /\ IdleFrames

LEMMA ServerInit == Init => ServerInv
  BY DEF Init, ServerInv, IdleFirst, CountsFromZero, IdleFrames, Originator

LEMMA QuarterFits == Quarter \in Nat /\ 4 * Quarter = Wrap /\ 2 * Quarter = Half
  BY WrapAssumption DEF Quarter, Half

\* The server's producer: idle frames, and the first strides behind them.
LEMMA ServerProduces ==
    ASSUME EarlyStarts, StreamInv, ServerInv, OriginatorProduces
    PROVE  ServerInv'
  <1> DEFINE f == [ts |-> IF active THEN stamp ELSE 0, roll |-> roll, run |-> active, ping |-> ping]
  <1>0. f \in Frame /\ Send(f)
    BY ServerFrame
  <1>1. /\ window \in Seq(Frame) /\ start \in Starts /\ start.ts \in Tick16 /\ start.roll \in Tick16
        /\ stamp \in Tick16 /\ active \in BOOLEAN
    BY StartAssumption DEF StreamInv, TypeOK
  <1>2. /\ Len(window') \in 1 .. Depth /\ window'[1] = f
        /\ \A i \in 2 .. Len(window') : i - 1 \in 1 .. Len(window) /\ window'[i] = window[i - 1]
    BY <1>0, <1>1, WindowShifts
  <1>3. /\ Originator /\ UNCHANGED <<start, active, tcoos, heard, consRoll, consStamp>>
        /\ stamp' = IF active THEN Plus(stamp, Stride) ELSE stamp
        /\ roll' = IF stamp' < stamp THEN Plus(roll, 1) ELSE roll
    BY DEF OriginatorProduces, consuming
  <1>4. IdleFirst /\ CountsFromZero /\ IdleFrames
    BY <1>3 DEF ServerInv
  <1>5. CountsFromZero'
    BY <1>3, <1>4 DEF CountsFromZero
  <1>6. CASE ~active
    <2>1. \A n \in 1 .. Len(window') :
              ~window'[n].run /\ window'[n].ts = 0 /\ window'[n].roll = start.roll
      <3> SUFFICES ASSUME NEW n \in 1 .. Len(window')
                   PROVE  ~window'[n].run /\ window'[n].ts = 0 /\ window'[n].roll = start.roll
        OBVIOUS
      <3>1. CASE n = 1
        BY <1>2, <1>4, <1>6, <3>1 DEF IdleFirst
      <3>2. CASE n # 1
        <4>1. n \in 2 .. Len(window')
          BY <1>2, <3>2
        <4> QED
          BY <1>2, <1>4, <1>6, <4>1 DEF IdleFirst, IdleFrames
      <3> QED
        BY <3>1, <3>2
    <2>2. IdleFirst'
      <3>1. stamp' = stamp /\ ~(stamp < stamp)
        BY <1>1, <1>3, <1>6 DEF Tick16
      <3>2. roll' = roll
        BY <1>3, <3>1
      <3> QED
        BY <1>3, <1>4, <1>6, <2>1, <3>1, <3>2 DEF IdleFirst
    <2>3. ASSUME NEW n \in 1 .. Len(window') PROVE stamp' <= start.ts + Strides(n - 1)
      <3>1. Strides(0) <= Strides(n - 1) /\ Strides(0) = 0 /\ Strides(n - 1) \in Int
        <4>1. 0 \in Int /\ n - 1 \in Int /\ 0 <= n - 1
          BY <1>2
        <4> QED
          BY <4>1, StrideMore
      <3> QED
        BY <1>1, <1>3, <1>4, <1>6, <3>1 DEF IdleFirst, Tick16
    <2> QED
      BY <1>1, <1>3, <1>4, <1>5, <1>6, <2>1, <2>2, <2>3, QuarterFits
         DEF ServerInv, IdleFirst, IdleFrames
  <1>7. CASE active
    <2>1. start.roll = 0 /\ start.ts + Strides(Depth - 2) <= Quarter
      BY <1>1, <1>3, <1>4, <1>7 DEF EarlyStarts, Originator, CountsFromZero
    <2>2. ASSUME NEW n \in 1 .. Len(window'), ~window'[n].run
          PROVE  /\ window'[n].ts = 0 /\ window'[n].roll = start.roll
                 /\ n < Depth => stamp' <= start.ts + Strides(n - 1) /\ roll' = start.roll
                 /\ \A i \in 1 .. Len(window') :
                        window'[i].roll = start.roll /\ window'[i].ts <= Quarter
                 /\ heard => consRoll = start.roll /\ consStamp <= Quarter
      <3>1. n \in 2 .. Len(window') /\ window'[n] = window[n - 1] /\ n - 1 \in 1 .. Len(window)
        BY <1>2, <1>7, <2>2
      <3>2. /\ window[n - 1].ts = 0 /\ window[n - 1].roll = start.roll
            /\ stamp <= start.ts + Strides(n - 2) /\ roll = start.roll
            /\ \A i \in 1 .. Len(window) : window[i].roll = start.roll /\ window[i].ts <= Quarter
            /\ heard => consRoll = start.roll /\ consStamp <= Quarter
        <4>1. n - 1 < Depth /\ (n - 1) - 1 = n - 2 /\ ~window[n - 1].run
          BY <1>2, <2>2, <3>1, RateAssumption
        <4> QED
          BY <1>4, <3>1, <4>1 DEF IdleFrames
      <3>3. /\ Strides(n - 2) \in Int /\ Strides(n - 1) = Strides(n - 2) + Stride
            /\ Strides(n - 2) <= Strides(Depth - 2) /\ Strides(Depth - 2) \in Int
        <4>1. n - 2 \in Int /\ Depth - 2 \in Int /\ n - 2 <= Depth - 2 /\ (n - 2) + 1 = n - 1
          BY <1>2, RateAssumption
        <4> QED
          BY <4>1, StrideMore
      <3>4. stamp <= Quarter
        BY <1>1, <2>1, <3>2, <3>3, QuarterFits DEF Tick16
      <3>5. \A i \in 1 .. Len(window') : window'[i].roll = start.roll /\ window'[i].ts <= Quarter
        <4> SUFFICES ASSUME NEW i \in 1 .. Len(window')
                     PROVE  window'[i].roll = start.roll /\ window'[i].ts <= Quarter
          OBVIOUS
        <4>1. CASE i = 1
          BY <1>2, <1>7, <3>2, <3>4, <4>1
        <4>2. CASE i # 1
          <5>1. i \in 2 .. Len(window')
            BY <1>2, <4>2
          <5> QED
            BY <1>2, <3>2, <5>1
        <4> QED
          BY <4>1, <4>2
      <3>6. n < Depth => stamp' <= start.ts + Strides(n - 1) /\ roll' = start.roll
        <4> SUFFICES ASSUME n < Depth
                     PROVE  stamp' <= start.ts + Strides(n - 1) /\ roll' = start.roll
          OBVIOUS
        <4>1. n - 1 <= Depth - 2 /\ n - 1 \in Int /\ Depth - 2 \in Int
          BY <1>2, RateAssumption
        <4>2. Strides(n - 1) <= Strides(Depth - 2) /\ Strides(n - 1) \in Int
          BY <4>1, StrideMore
        <4>3. stamp + Stride <= start.ts + Strides(n - 1) /\ stamp + Stride <= Quarter
          <5>1. /\ Stride \in Nat /\ stamp \in Nat /\ start.ts \in Int /\ Quarter \in Int
                /\ Strides(Depth - 2) \in Int
            <6>1. Stride \in Tick16
              BY RateAssumption
            <6>2. Stride \in Nat /\ stamp \in Nat /\ start.ts \in Int
              BY <1>1, <6>1, Cycle DEF Tick16
            <6> QED
              BY <3>3, <6>2, QuarterFits
          <5> QED
            BY <2>1, <3>2, <3>3, <4>2, <5>1
        <4>4. Plus(stamp, Stride) = stamp + Stride /\ ~(stamp + Stride < stamp)
          <5>1. Stride \in Tick16
            BY RateAssumption
          <5>2. Stride \in Nat /\ stamp \in Nat
            BY <1>1, <5>1, Cycle DEF Tick16
          <5>3. stamp + Stride \in Nat /\ stamp + Stride < Wrap
            BY <4>3, <5>2, QuarterFits, Cycle
          <5> QED
            BY <5>2, <5>3, Cycle DEF Plus
        <4> QED
          BY <1>3, <1>7, <3>2, <4>3, <4>4
      <3> QED
        BY <3>1, <3>2, <3>5, <3>6
    <2>3. IdleFrames'
      BY <1>3, <2>2 DEF IdleFrames
    <2> QED
      BY <1>3, <1>5, <1>7, <2>3 DEF ServerInv, IdleFirst
  <1> QED
    BY <1>1, <1>6, <1>7

\* The server's consumer.
LEMMA ServerConsumes ==
    ASSUME StreamInv, ServerInv, NEW n \in 1 .. Depth, FrameArrives(n)
    PROVE  ServerInv'
  <1>1. /\ n \in 1 .. Len(window) /\ Accepts(window[n])
        /\ heard' = TRUE /\ consRoll' = window[n].roll /\ consStamp' = window[n].ts
        /\ UNCHANGED <<start, active, stamp, roll, window>>
    BY DEF FrameArrives
  <1>2. SUFFICES ASSUME Originator, IdleFirst, CountsFromZero, IdleFrames
                 PROVE  IdleFirst' /\ CountsFromZero' /\ IdleFrames'
    BY <1>1 DEF ServerInv, Originator
  <1>3. start.roll = 0
    <2>1. CASE heard \/ active
      BY <1>2, <2>1 DEF CountsFromZero
    <2>2. CASE ~heard /\ ~active
      BY <1>1, <1>2, <2>2 DEF Accepts, Candidate, IdleFirst, IdleFrames
    <2> QED
      BY <2>1, <2>2
  <1> QED
    BY <1>1, <1>2, <1>3 DEF IdleFirst, CountsFromZero, IdleFrames

LEMMA ServerStep ==
    ASSUME EarlyStarts, StreamInv, ServerInv, [Next]_vars
    PROVE  ServerInv'
  <1>1. CASE OriginatorProduces
    BY <1>1, ServerProduces
  <1>2. CASE TargetIdles \/ TargetProduces \/ ClockTicks \/ \E t \in tcoos : TargetCoordinated(t)
    <2>1. Target /\ start' = start
      BY <1>2 DEF TargetIdles, TargetProduces, ClockTicks, TargetCoordinated
    <2> QED
      BY <2>1 DEF ServerInv, Target, Originator
  <1>3. CASE \E n \in 1 .. Depth : FrameArrives(n)
    BY <1>3, ServerConsumes
  <1>4. CASE \E t \in tcoos : OriginatorCoordinated(t)
    BY <1>4 DEF OriginatorCoordinated, Taken, consuming, ServerInv, Originator,
                IdleFirst, CountsFromZero, IdleFrames
  <1>5. CASE \E t \in tcoos : TcooLost(t)
    BY <1>5 DEF TcooLost, consuming, ServerInv, Originator, IdleFirst, CountsFromZero, IdleFrames
  <1>6. CASE UNCHANGED vars
    BY <1>6 DEF vars, consuming, ServerInv, Originator, IdleFirst, CountsFromZero, IdleFrames
  <1> QED
    BY <1>1, <1>2, <1>3, <1>4, <1>5, <1>6 DEF Next

\* What is accepted is not more than a quarter of a cycle old.
LEMMA AcceptedStep ==
    ASSUME StreamInv, ServerInv, [Next]_vars, heard, consuming' # consuming
    PROVE  \/ Distance(consRoll, consStamp, consRoll', consStamp') <= Quarter
           \/ Distance(consRoll', consStamp', consRoll, consStamp) < Wrap * Half
  <1>1. PICK n \in 1 .. Depth : FrameArrives(n)
    BY DEF Next, vars, OriginatorProduces, TargetIdles, TargetProduces, ClockTicks,
           OriginatorCoordinated, TargetCoordinated, TcooLost
  <1>2. /\ n \in 1 .. Len(window) /\ Accepts(window[n])
        /\ consRoll' = window[n].roll /\ consStamp' = window[n].ts
    BY <1>1 DEF FrameArrives
  <1>3. window[n] \in Frame /\ consRoll \in Tick16 /\ consStamp \in Tick16
    BY <1>2 DEF StreamInv, TypeOK
  <1>4. window[n].ts \in Tick16 /\ window[n].roll \in Tick16
    BY <1>3 DEF Frame
  <1> DEFINE ts == window[n].ts
  <1>5. CASE window[n].roll = Candidate(window[n].ts)
    <2>1. CASE Wrapped(ts)
      <3>1. ts < consStamp /\ window[n].roll = Plus(consRoll, 1)
        BY <1>3, <1>4, <1>5, <2>1, QuarterFits DEF Wrapped, Candidate, Tick16
      <3>2. Distance(Plus(consRoll, 1), ts, consRoll, consStamp) = Wrap + ts - consStamp
        BY <1>3, <1>4, <3>1, DistanceAcross
      <3>3. Wrap + ts - consStamp < Wrap * Half
        BY <1>3, <1>4, <3>1, Cycle, Square DEF Tick16
      <3> QED
        BY <1>2, <3>1, <3>2, <3>3
    <2>2. CASE ~Wrapped(ts) /\ ts >= consStamp
      <3>1. window[n].roll = consRoll
        BY <1>5, <2>2 DEF Candidate
      <3>2. Distance(consRoll, ts, consRoll, consStamp) = ts - consStamp
        BY <1>3, <1>4, <2>2, DistanceWithin
      <3>3. ts - consStamp < Wrap * Half
        BY <1>3, <1>4, Cycle, Square DEF Tick16
      <3> QED
        BY <1>2, <3>1, <3>2, <3>3
    <2>3. CASE ~Wrapped(ts) /\ ~(ts >= consStamp)
      <3>1. window[n].roll = consRoll
        BY <1>5, <2>3 DEF Candidate
      <3>2. consStamp >= ts /\ consStamp - ts <= Quarter
        BY <1>3, <1>4, <2>3, QuarterFits DEF Wrapped, Tick16
      <3>3. Distance(consRoll, consStamp, consRoll, ts) = consStamp - ts
        BY <1>3, <1>4, <3>2, DistanceWithin
      <3> QED
        BY <1>2, <3>1, <3>2, <3>3
    <2> QED
      BY <2>1, <2>2, <2>3
  <1>6. CASE window[n].roll # Candidate(window[n].ts)
    <2>1. Originator /\ ~window[n].run
      BY <1>2, <1>6 DEF Accepts
    <2>2. /\ window[n].ts = 0 /\ window[n].roll = start.roll
          /\ consRoll = start.roll /\ consStamp <= Quarter
      BY <1>2, <2>1 DEF ServerInv, IdleFrames
    <2>3. Distance(consRoll, consStamp, consRoll, 0) = consStamp
      <3>1. consStamp >= 0 /\ 0 \in Tick16 /\ consStamp - 0 = consStamp
        BY <1>3, Cycle DEF Tick16
      <3>2. Distance(consRoll, consStamp, consRoll, 0) = consStamp - 0
        BY <1>3, <3>1, DistanceWithin
      <3> QED
        BY <3>1, <3>2
    <2> QED
      BY <1>2, <2>2, <2>3
  <1> QED
    BY <1>5, <1>6

\* An old frame is not taken for a new one of the next cycle: on client
\* connections whatever is lost, and on server connections that start early
\* in the cycle (handle_received_io_data, safety_device.py:478-510).
THEOREM NeverStale ==
    ASSUME EarlyStarts
    PROVE  Spec => NotStale
  <1>1. StreamInv /\ ServerInv /\ [Next]_vars =>
          [(heard /\ consuming' # consuming) =>
              \/ Distance(consRoll, consStamp, consRoll', consStamp') <= Quarter
              \/ Distance(consRoll', consStamp', consRoll, consStamp) < Wrap * Half]_vars
    BY AcceptedStep
  <1>2. StreamInv /\ ServerInv /\ [Next]_vars => ServerInv'
    BY ServerStep
  <1> QED
    BY <1>1, <1>2, ServerInit, StreamInvariance, PTL DEF Spec, NotStale

(***************************************************************************)
(* Loss on a server connection.  The frames that are still in the window,  *)
(* and the one accepted last, are so many strides behind the newest; the   *)
(* jump of a stamp over that many strides tells whether it has wrapped.    *)
(***************************************************************************)
\* The frames that may be lost make no jump that looks like an old frame, and
\* a stream does not wrap while idle frames may be the last ones heard.
ShortStrides ==
    /\ Strides(Tolerated) < Wrap - Quarter
    /\ \A s \in Starts : s.producer = "originator" => s.ts + Strides(Tolerated - 1) < Wrap

\* (r2, ts2) is d ticks after (r1, ts1), with at most one wrap between.
Later(r2, ts2, d, r1, ts1) ==
    \/ ts2 = ts1 + d /\ r2 = r1
    \/ ts2 = ts1 + d - Wrap /\ r2 = Plus(r1, 1)

\* The producer has not wrapped since the stream ran, d strides ago at most.
Young(d) == roll = start.roll /\ stamp <= start.ts + Strides(d)

\* What the consumer accepted last, and the newest frame.
ConsumerBehind ==
    heard =>
        /\ window # <<>>
        /\ behind <= Tolerated =>
              \/ /\ window[1].run
                 /\ Later(window[1].roll, window[1].ts, Strides(behind), consRoll, consStamp)
              \/ /\ consStamp = 0 /\ consRoll = start.roll /\ window[1].roll = start.roll
                 /\ behind < Tolerated => Young(behind)

\* Each frame that may still arrive, and the newest.
WindowBehind ==
    \A n \in 1 .. Len(window) :
        /\ window[n].run => window[1].run
        /\ ~window[n].run => window[n].ts = 0 /\ window[n].roll = start.roll
        /\ n - 1 <= Tolerated =>
              /\ window[n].run =>
                    Later(window[1].roll, window[1].ts, Strides(n - 1), window[n].roll, window[n].ts)
              /\ ~window[n].run =>
                    /\ window[1].roll = start.roll
                    /\ n <= Tolerated => Young(n - 1)

LossInv == Originator => IdleFirst /\ ConsumerBehind /\ WindowBehind

LEMMA LossInit == Init => LossInv
  BY DEF Init, LossInv, IdleFirst, ConsumerBehind, WindowBehind, Originator

\* One more stride, as long as they are less than a cycle together.
LEMMA LaterStill ==
    ASSUME NEW r1 \in Tick16, NEW ts1 \in Tick16, NEW r2 \in Tick16, NEW ts2 \in Tick16,
           NEW d \in Nat, Later(r2, ts2, d, r1, ts1), d + Stride < Wrap,
           NEW ts3, ts3 = Plus(ts2, Stride),
           NEW r3, r3 = IF ts3 < ts2 THEN Plus(r2, 1) ELSE r2
    PROVE  Later(r3, ts3, d + Stride, r1, ts1)
  <1>1. Stride \in Nat /\ Stride < Wrap /\ Wrap \in Nat
    BY RateAssumption, Cycle DEF Tick16
  <1>2. /\ ts1 \in 0 .. Wrap - 1 /\ ts2 \in 0 .. Wrap - 1
        /\ ts3 = IF ts2 + Stride < Wrap THEN ts2 + Stride ELSE ts2 + Stride - Wrap
    BY DEF Tick16, Plus
  <1>3. CASE ts2 = ts1 + d /\ r2 = r1
    BY <1>1, <1>2, <1>3 DEF Later
  <1>4. CASE ts2 = ts1 + d - Wrap /\ r2 = Plus(r1, 1)
    BY <1>1, <1>2, <1>4 DEF Later
  <1> QED
    BY <1>3, <1>4 DEF Later

LEMMA StridesFit ==
    ASSUME ShortStrides, NEW k \in Nat, k <= Tolerated
    PROVE  /\ Strides(k) \in Nat /\ Strides(k) < Wrap - Quarter /\ Strides(k) < Wrap
           /\ k >= 1 => Strides(k) = Strides(k - 1) + Stride /\ Strides(k - 1) \in Nat
  <1>1. Tolerated \in Nat
    BY RateAssumption
  <1>2. /\ Strides(k) \in Int /\ Strides(k) <= Strides(Tolerated) /\ Strides(Tolerated) \in Int
        /\ 0 <= Strides(k)
    BY <1>1, StrideMore
  <1>3. k >= 1 => Strides(k) = Strides(k - 1) + Stride /\ Strides(k - 1) \in Int /\ 0 <= Strides(k - 1)
    <2>1. SUFFICES ASSUME k >= 1
                   PROVE  Strides(k) = Strides(k - 1) + Stride /\ Strides(k - 1) \in Int /\ 0 <= Strides(k - 1)
      OBVIOUS
    <2>2. k - 1 \in Int /\ (k - 1) + 1 = k /\ 0 <= k - 1 /\ 0 \in Int
      BY <2>1
    <2> QED
      BY <2>2, StrideMore
  <1> QED
    BY <1>2, <1>3, QuarterFits DEF ShortStrides

\* A young stream does not wrap with its next stride.
LEMMA YoungStill ==
    ASSUME ShortStrides, StreamInv, Originator, active,
           NEW d \in Nat, d < Tolerated, Young(d),
           stamp' = Plus(stamp, Stride), start' = start,
           roll' = IF stamp' < stamp THEN Plus(roll, 1) ELSE roll
    PROVE  d + 1 < Tolerated => Young(d + 1)'
  <1> SUFFICES ASSUME d + 1 < Tolerated PROVE Young(d + 1)'
    OBVIOUS
  <1>1. start \in Starts /\ start.ts \in Nat /\ stamp \in Nat /\ Stride \in Nat /\ Wrap \in Nat
    <2>1. start \in Starts /\ stamp \in Tick16
      BY DEF StreamInv, TypeOK
    <2>2. start.ts \in Tick16
      BY <2>1, StartAssumption
    <2>3. Stride \in Tick16
      BY RateAssumption
    <2> QED
      BY <2>1, <2>2, <2>3, Cycle DEF Tick16
  <1>2. /\ Strides(d) \in Int /\ Strides(d + 1) = Strides(d) + Stride
        /\ Strides(d + 1) <= Strides(Tolerated - 1) /\ Strides(Tolerated - 1) \in Int
    <2>1. d \in Int /\ d + 1 \in Int /\ Tolerated - 1 \in Int /\ d + 1 <= Tolerated - 1
      BY RateAssumption
    <2> QED
      BY <2>1, StrideMore
  <1>3. start.ts + Strides(Tolerated - 1) < Wrap
    BY <1>1 DEF ShortStrides, Originator
  <1>4. stamp + Stride <= start.ts + Strides(d + 1) /\ stamp + Stride < Wrap
    BY <1>1, <1>2, <1>3 DEF Young
  <1>5. stamp' = stamp + Stride /\ ~(stamp + Stride < stamp)
    BY <1>1, <1>4 DEF Plus
  <1> QED
    BY <1>4, <1>5 DEF Young, Strides

LEMMA LossProduces ==
    ASSUME ShortStrides, StreamInv, ForwardInv, LossInv, OriginatorProduces
    PROVE  LossInv'
  <1> DEFINE f == [ts |-> IF active THEN stamp ELSE 0, roll |-> roll, run |-> active, ping |-> ping]
  <1>0. f \in Frame /\ Send(f)
    BY ServerFrame
  <1>1. /\ window \in Seq(Frame) /\ start \in Starts /\ start.ts \in Tick16 /\ start.roll \in Tick16
        /\ stamp \in Tick16 /\ roll \in Tick16 /\ active \in BOOLEAN /\ heard \in BOOLEAN
        /\ consRoll \in Tick16 /\ consStamp \in Tick16 /\ behind \in Nat /\ Tolerated \in Nat
    BY StartAssumption, RateAssumption DEF StreamInv, TypeOK
  <1>2. /\ Len(window') \in 1 .. Depth /\ window'[1] = f /\ window' # <<>>
        /\ \A i \in 2 .. Len(window') : i - 1 \in 1 .. Len(window) /\ window'[i] = window[i - 1]
    BY <1>0, <1>1, WindowShifts
  <1>3. /\ Originator /\ UNCHANGED <<start, active, heard, consRoll, consStamp>>
        /\ stamp' = IF active THEN Plus(stamp, Stride) ELSE stamp
        /\ roll' = IF stamp' < stamp THEN Plus(roll, 1) ELSE roll
    BY DEF OriginatorProduces, consuming
  <1>4. IdleFirst /\ ConsumerBehind /\ WindowBehind
    BY <1>3 DEF LossInv
  <1>5. behind' <= Tolerated => behind < Tolerated /\ behind' = behind + 1
    BY <1>0, <1>1 DEF Send
  <1>6. f.run = active /\ f.roll = roll /\ f.ts = IF active THEN stamp ELSE 0
    OBVIOUS
  <1> HIDE DEF f
  <1>7. CASE ~active
    <2>1. stamp' = stamp /\ roll' = roll /\ roll = start.roll /\ stamp = start.ts
      <3>1. stamp' = stamp /\ ~(stamp < stamp)
        BY <1>1, <1>3, <1>7 DEF Tick16
      <3> QED
        BY <1>3, <1>4, <1>7, <3>1 DEF IdleFirst
    <2>2. ASSUME NEW k \in Nat PROVE Young(k)'
      <3>1. Strides(0) <= Strides(k) /\ Strides(0) = 0 /\ Strides(k) \in Int
        <4>1. 0 \in Int /\ k \in Int /\ 0 <= k
          OBVIOUS
        <4> QED
          BY <4>1, StrideMore
      <3>2. stamp' \in Int /\ start'.ts = stamp' /\ roll' = start'.roll
        BY <1>1, <1>3, <2>1 DEF Tick16
      <3> QED
        BY <3>1, <3>2 DEF Young, Strides
    <2>3. \A n \in 1 .. Len(window') :
              ~window'[n].run /\ window'[n].ts = 0 /\ window'[n].roll = start.roll
      <3> SUFFICES ASSUME NEW n \in 1 .. Len(window')
                   PROVE  ~window'[n].run /\ window'[n].ts = 0 /\ window'[n].roll = start.roll
        OBVIOUS
      <3>1. CASE n = 1
        BY <1>2, <1>6, <1>7, <2>1, <3>1
      <3>2. CASE n # 1
        <4>1. n \in 2 .. Len(window')
          BY <1>2, <3>2
        <4> QED
          BY <1>2, <1>4, <1>7, <4>1 DEF IdleFirst, WindowBehind
      <3> QED
        BY <3>1, <3>2
    <2>4. 1 \in 1 .. Len(window') /\ \A n \in 1 .. Len(window') : n - 1 \in Nat
      BY <1>2
    <2>5. IdleFirst'
      BY <1>3, <1>4, <1>7, <2>1, <2>3 DEF IdleFirst
    <2>6. WindowBehind'
      BY <1>3, <2>2, <2>3, <2>4 DEF WindowBehind
    <2>7. ConsumerBehind'
      <3>1. behind' <= Tolerated => behind' \in Nat
        BY <1>1, <1>5
      <3> QED
        BY <1>2, <1>3, <1>4, <1>7, <2>2, <2>3, <2>4, <3>1 DEF ConsumerBehind, IdleFirst
    <2> QED
      BY <2>5, <2>6, <2>7 DEF LossInv
  <1>8. CASE active
    <2>1. stamp' = Plus(stamp, Stride) /\ f.run /\ f.roll = roll /\ f.ts = stamp
      BY <1>3, <1>6, <1>8
    <2>2. ASSUME window # <<>>, window[1].run, NEW r \in Tick16, NEW ts \in Tick16,
                 NEW k \in Nat, k < Tolerated,
                 Later(window[1].roll, window[1].ts, Strides(k), r, ts)
          PROVE  Later(f.roll, f.ts, Strides(k + 1), r, ts)
      <3>1. /\ stamp = Plus(window[1].ts, Stride)
            /\ roll = IF stamp < window[1].ts THEN Plus(window[1].roll, 1) ELSE window[1].roll
        BY <1>3, <2>2 DEF ForwardInv, LastFrame
      <3>2. window[1].ts \in Tick16 /\ window[1].roll \in Tick16
        <4>1. window[1] \in Frame
          BY <1>1, <2>2
        <4> QED
          BY <4>1 DEF Frame
      <3>3. Strides(k) \in Nat /\ Strides(k + 1) = Strides(k) + Stride /\ Strides(k + 1) < Wrap
        <4>1. k + 1 \in Nat /\ k + 1 <= Tolerated /\ k + 1 >= 1 /\ (k + 1) - 1 = k
          BY <1>1, <2>2
        <4> QED
          BY <4>1, StridesFit
      <3>4. Later(roll, stamp, Strides(k) + Stride, r, ts)
        BY <2>2, <3>1, <3>2, <3>3, LaterStill
      <3> QED
        BY <2>1, <3>3, <3>4
    <2>3. ASSUME NEW k \in Nat, k < Tolerated, Young(k)
          PROVE  f.roll = start.roll /\ (k + 1 < Tolerated => Young(k + 1)')
      BY <1>3, <1>8, <2>1, <2>3, YoungStill DEF Young
    <2>4. Later(f.roll, f.ts, Strides(0), f.roll, f.ts)
      <3>1. Strides(0) = 0 /\ stamp \in Int
        BY <1>1, StrideMore DEF Tick16
      <3> QED
        BY <2>1, <3>1 DEF Later
    <2>5. WindowBehind'
      <3> SUFFICES ASSUME NEW n \in 1 .. Len(window')
                   PROVE  /\ window'[n].run => window'[1].run
                          /\ ~window'[n].run => window'[n].ts = 0 /\ window'[n].roll = start.roll
                          /\ n - 1 <= Tolerated =>
                                /\ window'[n].run =>
                                      Later(window'[1].roll, window'[1].ts, Strides(n - 1),
                                            window'[n].roll, window'[n].ts)
                                /\ ~window'[n].run =>
                                      /\ window'[1].roll = start.roll
                                      /\ n <= Tolerated => Young(n - 1)'
        BY <1>3 DEF WindowBehind, Later, Strides, Plus
      <3>1. CASE n = 1
        BY <1>2, <2>1, <2>4, <3>1
      <3>2. CASE n # 1
        <4> DEFINE g == window[n - 1]
        <4>1. n \in 2 .. Len(window') /\ n - 1 \in 1 .. Len(window) /\ window'[n] = g
          BY <1>2, <3>2
        <4>2. n - 2 \in Nat /\ (n - 2) + 1 = n - 1 /\ (n - 1) - 1 = n - 2
          BY <4>1
        <4>3. g \in Frame /\ g.ts \in Tick16 /\ g.roll \in Tick16 /\ window # <<>>
          <5>1. g \in Frame /\ window # <<>>
            BY <1>1, <4>1
          <5> QED
            BY <5>1 DEF Frame
        <4>4. ~g.run => g.ts = 0 /\ g.roll = start.roll
          BY <1>4, <4>1 DEF WindowBehind
        <4>5. ASSUME n - 1 <= Tolerated, g.run
              PROVE  Later(f.roll, f.ts, Strides(n - 1), g.roll, g.ts)
          <5>1. /\ window[1].run
                /\ Later(window[1].roll, window[1].ts, Strides(n - 2), g.roll, g.ts)
            <6>1. n - 2 <= Tolerated
              BY <1>1, <4>2, <4>5
            <6> QED
              BY <1>4, <4>1, <4>2, <4>5, <6>1 DEF WindowBehind
          <5>2. n - 2 < Tolerated
            BY <1>1, <4>2, <4>5
          <5> QED
            BY <2>2, <4>2, <4>3, <5>1, <5>2
        <4>6. ASSUME n - 1 <= Tolerated, ~g.run
              PROVE  f.roll = start.roll /\ (n <= Tolerated => Young(n - 1)')
          <5>1. n - 2 < Tolerated /\ n - 2 <= Tolerated /\ (n <= Tolerated => n - 1 < Tolerated)
            BY <1>1, <4>2, <4>6
          <5>2. Young(n - 2)
            BY <1>4, <4>1, <4>2, <4>6, <5>1 DEF WindowBehind
          <5> QED
            BY <2>3, <4>2, <5>1, <5>2
        <4> HIDE DEF g
        <4> QED
          BY <1>2, <2>1, <4>1, <4>4, <4>5, <4>6
      <3> QED
        BY <3>1, <3>2
    <2>6. ConsumerBehind'
      <3> SUFFICES ASSUME heard, behind' <= Tolerated
                   PROVE  \/ Later(f.roll, f.ts, Strides(behind'), consRoll, consStamp)
                          \/ /\ consStamp = 0 /\ consRoll = start.roll /\ f.roll = start.roll
                             /\ behind' < Tolerated => Young(behind)'
        BY <1>2, <1>3, <2>1 DEF ConsumerBehind, Later, Strides, Plus
      <3>1. window # <<>> /\ behind < Tolerated /\ behind' = behind + 1 /\ behind <= Tolerated
        BY <1>1, <1>4, <1>5 DEF ConsumerBehind
      <3>2. \/ /\ window[1].run
               /\ Later(window[1].roll, window[1].ts, Strides(behind), consRoll, consStamp)
            \/ consStamp = 0 /\ consRoll = start.roll /\ Young(behind)
        BY <1>4, <3>1 DEF ConsumerBehind
      <3>3. CASE /\ window[1].run
                 /\ Later(window[1].roll, window[1].ts, Strides(behind), consRoll, consStamp)
        BY <1>1, <2>2, <3>1, <3>3
      <3>4. CASE consStamp = 0 /\ consRoll = start.roll /\ Young(behind)
        <4>1. PICK k \in Nat : k = behind
          BY <1>1
        <4>2. k < Tolerated /\ Young(k)
          BY <3>1, <3>4, <4>1
        <4>3. f.roll = start.roll /\ (k + 1 < Tolerated => Young(k + 1)')
          BY <2>3, <4>2
        <4>4. behind' = k + 1
          BY <3>1, <4>1
        <4> QED
          BY <3>4, <4>3, <4>4 DEF Young, Strides
      <3> QED
        BY <3>2, <3>3, <3>4
    <2> QED
      BY <1>3, <1>8, <2>5, <2>6 DEF LossInv, IdleFirst
  <1> QED
    BY <1>1, <1>7, <1>8

LEMMA LossConsumes ==
    ASSUME StreamInv, LossInv, NEW n \in 1 .. Depth, FrameArrives(n)
    PROVE  LossInv'
  <1>1. /\ n \in 1 .. Len(window)
        /\ heard' = TRUE /\ consRoll' = window[n].roll /\ consStamp' = window[n].ts
        /\ behind' = IF n - 1 > Tolerated THEN Tolerated + 1 ELSE n - 1
        /\ UNCHANGED <<start, active, stamp, roll, window>>
    BY DEF FrameArrives
  <1>2. Tolerated \in Nat /\ window \in Seq(Frame)
    BY RateAssumption DEF StreamInv, TypeOK
  <1>3. SUFFICES ASSUME Originator, IdleFirst, ConsumerBehind, WindowBehind
                 PROVE  IdleFirst' /\ ConsumerBehind' /\ WindowBehind'
    BY <1>1 DEF LossInv, Originator
  <1>4. IdleFirst'
    BY <1>1, <1>3 DEF IdleFirst, WindowBehind
  <1>5. WindowBehind'
    BY <1>1, <1>3 DEF WindowBehind, Later, Young, Strides, Plus
  <1>6. behind' <= Tolerated => behind' = n - 1 /\ n - 1 <= Tolerated /\ (n - 1 < Tolerated => n <= Tolerated)
    BY <1>1, <1>2
  <1>7. ConsumerBehind'
    <2>1. window' # <<>>
      BY <1>1, <1>2
    <2> SUFFICES ASSUME behind' <= Tolerated
                 PROVE  \/ /\ window[1].run
                           /\ Later(window[1].roll, window[1].ts, Strides(n - 1), window[n].roll, window[n].ts)
                        \/ /\ window[n].ts = 0 /\ window[n].roll = start.roll /\ window[1].roll = start.roll
                           /\ n - 1 < Tolerated => Young(n - 1)
      BY <1>1, <1>6, <2>1 DEF ConsumerBehind, Later, Young, Strides, Plus
    <2> QED
      BY <1>1, <1>3, <1>6 DEF WindowBehind
  <1> QED
    BY <1>4, <1>5, <1>7

LEMMA LossStep ==
    ASSUME ShortStrides, StreamInv, ForwardInv, LossInv, [Next]_vars
    PROVE  LossInv'
  <1> USE DEF LossInv, IdleFirst, ConsumerBehind, WindowBehind, Later, Young, Strides, Plus
  <1>1. CASE OriginatorProduces
    BY <1>1, LossProduces
  <1>2. CASE TargetIdles \/ TargetProduces \/ ClockTicks \/ \E t \in tcoos : TargetCoordinated(t)
    <2>1. Target /\ start' = start
      BY <1>2 DEF TargetIdles, TargetProduces, ClockTicks, TargetCoordinated
    <2> QED
      BY <2>1 DEF Target, Originator
  <1>3. CASE \E n \in 1 .. Depth : FrameArrives(n)
    BY <1>3, LossConsumes
  <1>4. CASE \E t \in tcoos : OriginatorCoordinated(t)
    BY <1>4 DEF OriginatorCoordinated, consuming, Originator
  <1>5. CASE \E t \in tcoos : TcooLost(t)
    BY <1>5 DEF TcooLost, consuming, Originator
  <1>6. CASE UNCHANGED vars
    BY <1>6 DEF vars, consuming, Originator
  <1> QED
    BY <1>1, <1>2, <1>3, <1>4, <1>5, <1>6 DEF Next

\* A target that has missed no more than Tolerated frames accepts the newest:
\* it has not lost count of the originator's wraps, for every stride, initial
\* values and order of the frames (handle_received_io_data,
\* safety_device.py:478-510; _produce_server_frame).
THEOREM ServerSurvivesLoss ==
    ASSUME ShortStrides
    PROVE  Spec => [](Originator => SurvivesLoss)
  <1>1. StreamInv /\ LossInv => (Originator => SurvivesLoss)
    <2> SUFFICES ASSUME StreamInv, LossInv, Originator, heard, window # <<>>, behind <= Tolerated
                 PROVE  Accepts(window[1])
      BY DEF SurvivesLoss
    <2>1. /\ window[1] \in Frame /\ behind \in Nat
          /\ consStamp \in Tick16 /\ consRoll \in Tick16
      BY RateAssumption DEF StreamInv, TypeOK
    <2>2. window[1].ts \in Tick16 /\ window[1].roll \in Tick16
      BY <2>1 DEF Frame
    <2>3. Strides(behind) \in Nat /\ Strides(behind) < Wrap - Quarter
      BY <2>1, StridesFit
    <2>4. \/ Later(window[1].roll, window[1].ts, Strides(behind), consRoll, consStamp)
          \/ consStamp = 0 /\ consRoll = start.roll /\ window[1].roll = start.roll
      BY DEF LossInv, ConsumerBehind
    <2>5. window[1].roll = Candidate(window[1].ts)
      BY <2>1, <2>2, <2>3, <2>4, QuarterFits, Cycle DEF Later, Candidate, Wrapped, Tick16
    <2> QED
      BY <2>5 DEF Accepts
  <1>2. StreamInv /\ ForwardInv /\ LossInv /\ [Next]_vars => LossInv'
    BY LossStep
  <1>3. StreamInv /\ ForwardInv /\ [Next]_vars => ForwardInv'
    BY ForwardStep
  <1> QED
    BY <1>1, <1>2, <1>3, LossInit, ForwardInit, StreamInvariance, PTL DEF Spec
=============================================================================
