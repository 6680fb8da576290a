---------------------------- MODULE SafetyStream ----------------------------
(***************************************************************************)
(* One safety connection in the Extended Format: its producer, its         *)
(* consumer, and the datagrams between them.  On a server connection the   *)
(* originator produces (safety/scanner_connection.py) and the target       *)
(* consumes (safety/safety_device.py); on a client connection it is the    *)
(* other way round.                                                        *)
(*                                                                         *)
(* A frame carries a time stamp of 16 bits.  How often the stamp has       *)
(* wrapped is not in the frame: it seeds the CRC, so a consumer whose own  *)
(* count of wraps differs rejects the frame.  A producer sends idle frames *)
(* until the consumer's first time coordination message (TCOO) arrives.    *)
(*                                                                         *)
(* One tick is 128 us.  The CRC is taken to accept exactly the frames made *)
(* with the count it is checked with.  Every frame and every TCOO may be   *)
(* lost, reordered and duplicated, within the bounds Depth and Travel.     *)
(***************************************************************************)
EXTENDS Integers, Sequences

CONSTANTS
    Wrap,         \* 2^16 in the code
    Starts,       \* producers, each with the initial values of a connection
    Stride,       \* ticks the originator adds for each frame (390)
    Correction,   \* the connection correction constant of the target
    Instant,      \* corrections up to this are applied at once
    SlewDivisor,  \* larger ones by this fraction (8) for each frame
    PingInterval, \* ticks between changes of the ping count
    Late,         \* age (2 ms) at which a TCOO no longer corrects
    Period,       \* the target produces at least this often
    Travel,       \* how long a TCOO may be under way
    Gain,         \* how much the originator's clock may gain in a tick
    MaxElapsed,   \* bound of this model on the target's clock
    Depth,        \* how many frames back the network may reorder
    Tolerated     \* the lag that SurvivesLoss promises to survive

Tick16 == 0 .. Wrap - 1

ASSUME WrapAssumption == Wrap \in Nat /\ Wrap > 0 /\ Wrap % 4 = 0
ASSUME StartAssumption ==
    Starts \subseteq [producer : {"originator", "target"}, ts : Tick16, roll : Tick16]
ASSUME RateAssumption ==
    /\ {Stride, Gain} \subseteq Tick16
    /\ Correction \in Int
    /\ Instant \in Nat
    /\ SlewDivisor \in Nat \ {0}
    /\ PingInterval \in Nat
    /\ {Late, Period, Travel, MaxElapsed, Tolerated} \subseteq Nat
    /\ Depth \in Nat \ {0}

VARIABLES
    start,        \* who produces, initial_timestamp and initial_rollover_value
    offset,       \* how far the originator's clock is ahead of the target's
    active,       \* consumer_active: the first TCOO has arrived
    stamp,        \* _timestamp of the originator
    roll,         \* the producer's rollover count
    elapsed,      \* the target's clock since production started
    raw,          \* safety_last_produced_timestamp
    sent,         \* safety_last_sent_ticks
    sentAt,       \* when the target last sent a frame
    ping,         \* the producer's ping count
    pingAt,       \* when the target last changed it
    applied,      \* safety_consumer_time_correction_value
    goal,         \* safety_consumer_time_correction_goal
    coordinated,  \* safety_time_correction_initialized
    window,       \* the last Depth frames, newest first: what may still arrive
    tcoos,        \* TCOOs under way: when sent, and the consumer's time
    heard,        \* the consumer has accepted a frame
    consRoll,     \* the consumer's rollover count
    consStamp,    \* the time stamp it accepted last
    consPing,     \* the ping count it answered last
    behind        \* history: how many frames were produced since the one it
                  \* accepted last, up to Tolerated + 1

clock == <<offset, elapsed>>
producing == <<raw, sent, sentAt, ping, pingAt>>
correcting == <<applied, goal, coordinated>>
consuming == <<heard, consRoll, consStamp, consPing>>
vars == <<start, clock, active, stamp, roll, producing, correcting, window, tcoos,
          consuming, behind>>

Half == Wrap \div 2
Quarter == Wrap \div 4

\* An RPI has 32 bits of microseconds, which is less than half of the ticks
\* that a count and a stamp can tell apart.
ASSUME PeriodAssumption == Wrap + Period <= Wrap * Half

Unset == -1
Time == 0 .. MaxElapsed

Frame == [ts : Tick16, roll : Tick16, run : BOOLEAN, ping : 0 .. 3]
Tcoo == [at : Time, time : Tick16]

Originator == start.producer = "originator"
Target == start.producer = "target"

\* Mutant of Plus: a sum is not cut to 16 bits.
PlusUncut(a, n) == a + n

\* Differences and sums of 16 bits.  A difference is positive when its sign
\* bit is clear and it is not zero.
Ahead(a, b) == IF a >= b THEN a - b ELSE a - b + Wrap
Plus(a, n) == IF a + n < Wrap THEN a + n ELSE a + n - Wrap
Positive(d) == 0 < d /\ d < Half

\* 0xFF, the ping count of no frame.
NoPing == Unset

TypeOK ==
    /\ start \in Starts
    /\ {offset, stamp, roll, raw, applied, goal, consRoll, consStamp} \subseteq Tick16
    /\ {active, coordinated, heard} \subseteq BOOLEAN
    /\ elapsed \in Time
    /\ sent \in Nat
    /\ {sentAt, pingAt} \subseteq Time \cup {Unset}
    /\ ping \in 0 .. 3
    /\ window \in Seq(Frame)
    /\ tcoos \subseteq Tcoo
    /\ consPing \in 0 .. 3 \cup {NoPing}
    /\ behind \in 0 .. Tolerated + 1

\* The originator produces from the rollover value it has put in the open;
\* the target's count is zero until the first TCOO.
Init ==
    /\ start \in Starts
    /\ offset \in IF Target THEN Tick16 ELSE {0}
    /\ active = FALSE
    /\ stamp = IF Originator THEN start.ts ELSE 0
    /\ roll = IF Originator THEN start.roll ELSE 0
    /\ elapsed = 0 /\ raw = 0 /\ sent = 0 /\ sentAt = Unset
    /\ ping = 0 /\ pingAt = Unset
    /\ applied = 0 /\ goal = 0 /\ coordinated = FALSE
    /\ window = <<>>
    /\ tcoos = {}
    /\ heard = FALSE /\ consRoll = 0 /\ consStamp = 0 /\ consPing = NoPing
    /\ behind = 0

(***************************************************************************)
(* Producing.  Every frame enters the window, the oldest leaves it.        *)
(***************************************************************************)
Send(f) ==
    /\ window' = SubSeq(<<f>> \o window, 1, IF Len(window) < Depth THEN Len(window) + 1 ELSE Depth)
    /\ behind' = IF behind > Tolerated THEN behind ELSE behind + 1

\* The originator's idle frames have time stamp zero; its ping count never
\* changes.
OriginatorProduces ==
    /\ Originator
    /\ Send([ts |-> IF active THEN stamp ELSE 0, roll |-> roll, run |-> active, ping |-> ping])
    /\ stamp' = IF active THEN Plus(stamp, Stride) ELSE stamp
    /\ roll' = IF stamp' < stamp THEN Plus(roll, 1) ELSE roll
    /\ UNCHANGED <<start, clock, active, producing, correcting, tcoos, consuming>>

\* An idle frame of the target.
TargetIdles ==
    /\ Target
    /\ ~active
    /\ Send([ts |-> 0, roll |-> roll, run |-> FALSE, ping |-> ping])
    /\ UNCHANGED <<start, clock, active, stamp, roll, producing, correcting, tcoos, consuming>>

\* The applied correction moves towards its goal by a fraction of the rest.
SlewStep(rest) == IF rest \div SlewDivisor < 1 THEN 1 ELSE rest \div SlewDivisor

Slewed ==
    IF Positive(Ahead(goal, applied))
    THEN Plus(applied, SlewStep(Ahead(goal, applied)))
    ELSE goal

\* Mutant of NeverBack: the corrected clock is sent as it is.
AsCorrected(ticks) == ticks

\* The ticks sent never go back, whatever the correction does.
NeverBack(ticks) == IF sent # 0 /\ ticks < sent THEN sent + 1 ELSE ticks

PingDue == pingAt # Unset /\ PingInterval > 0 /\ elapsed - pingAt >= PingInterval

\* One frame of the target in a tick.
TargetProduces ==
    LET ticks == NeverBack(start.ts + elapsed + Slewed)
    IN  /\ Target
        /\ active
        /\ elapsed > sentAt
        /\ sentAt' = elapsed
        /\ raw' = (start.ts + elapsed) % Wrap
        /\ applied' = Slewed
        /\ sent' = ticks
        /\ roll' = (start.roll + ticks \div Wrap) % Wrap
        /\ pingAt' = IF pingAt = Unset \/ PingDue THEN elapsed ELSE pingAt
        /\ ping' = IF PingDue THEN (ping + 1) % 4 ELSE ping
        /\ Send([ts |-> ticks % Wrap, roll |-> roll', run |-> TRUE, ping |-> ping'])
        /\ UNCHANGED <<start, clock, active, stamp, goal, coordinated, tcoos, consuming>>

\* Time passes for the target; the originator's clock may gain on it.  A TCOO
\* that is under way for too long is lost.
ClockTicks ==
    /\ Target
    /\ active
    /\ elapsed < MaxElapsed
    /\ elapsed - sentAt < Period
    /\ elapsed' = elapsed + 1
    /\ \E g \in 0 .. Gain : offset' = Plus(offset, g)
    /\ tcoos' = {t \in tcoos : elapsed - t.at < Travel}
    /\ UNCHANGED <<start, active, stamp, roll, producing, correcting, window, consuming, behind>>

(***************************************************************************)
(* Consuming.  The consumer guesses the count of wraps from the stamp, and *)
(* keeps the guess only if the CRC holds with it.  A target that fails     *)
(* tries again with zero if the frame is idle.                             *)
(***************************************************************************)
\* Mutant of Wrapped: only a jump back by half a cycle is a wrap.
WrappedByHalf(ts) == ts - consStamp < -Half

Wrapped(ts) == ts - consStamp < -Quarter

Candidate(ts) == IF ~heard THEN 0 ELSE IF Wrapped(ts) THEN Plus(consRoll, 1) ELSE consRoll

Accepts(f) ==
    \/ f.roll = Candidate(f.ts)
    \/ Originator /\ ~f.run /\ f.roll = 0

\* Mutant of Answers: every frame is answered.
AnswersEvery(f) == TRUE

\* A ping count that differs from the one answered last is answered.
Answers(f) == f.ping # consPing

\* The consumer's time; the originator reads its own clock for it.
ConsumerTime == (offset + elapsed) % Wrap

FrameArrives(n) ==
    /\ n \in 1 .. Len(window)
    /\ Accepts(window[n])
    /\ heard' = TRUE
    /\ consRoll' = window[n].roll
    /\ consStamp' = window[n].ts
    /\ consPing' = window[n].ping
    /\ tcoos' = IF Answers(window[n])
                THEN tcoos \cup {[at |-> elapsed, time |-> ConsumerTime]}
                ELSE tcoos
    /\ behind' = IF n - 1 > Tolerated THEN Tolerated + 1 ELSE n - 1
    /\ UNCHANGED <<start, clock, active, stamp, roll, producing, correcting, window>>

(***************************************************************************)
(* Time coordination.  A TCOO is one datagram: it may be lost, the first   *)
(* like any other, and may arrive again.                                   *)
(***************************************************************************)
Taken(t) == tcoos' \in {tcoos, tcoos \ {t}}

OriginatorCoordinated(t) ==
    /\ Originator
    /\ Taken(t)
    /\ active' = TRUE
    /\ UNCHANGED <<start, clock, stamp, roll, producing, correcting, window, consuming, behind>>

Raises(worst) == Positive(Ahead(worst, applied))

\* Mutant of Correct: a correction applied at once leaves the goal alone.
CorrectWithoutGoal(worst) ==
    \/ /\ ~Raises(worst)
       /\ UNCHANGED <<applied, goal>>
    \/ /\ Raises(worst)
       /\ applied = 0 \/ Ahead(worst, applied) <= Instant
       /\ applied' = worst
       /\ UNCHANGED goal
    \/ /\ Raises(worst)
       /\ applied # 0 /\ Ahead(worst, applied) > Instant
       /\ goal' = IF Positive(Ahead(worst, goal)) THEN worst ELSE goal
       /\ UNCHANGED applied

\* The correction that a TCOO asks for is ignored, applied at once, or becomes
\* the goal.
Correct(worst) ==
    \/ /\ ~Raises(worst)
       /\ UNCHANGED <<applied, goal>>
    \/ /\ Raises(worst)
       /\ applied = 0 \/ Ahead(worst, applied) <= Instant
       /\ applied' = worst
       /\ goal' = worst
    \/ /\ Raises(worst)
       /\ applied # 0 /\ Ahead(worst, applied) > Instant
       /\ goal' = IF Positive(Ahead(worst, goal)) THEN worst ELSE goal
       /\ UNCHANGED applied

TooLate == sentAt # Unset /\ elapsed - sentAt > Late

\* The first TCOO starts production and corrects nothing.
TargetCoordinated(t) ==
    /\ Target
    /\ Taken(t)
    /\ active' = TRUE
    /\ roll' = IF active THEN roll ELSE start.roll
    /\ IF TooLate
       THEN UNCHANGED correcting
       ELSE /\ coordinated' = TRUE
            /\ IF coordinated
               THEN Correct((t.time - raw - Correction) % Wrap)
               ELSE UNCHANGED <<applied, goal>>
    /\ UNCHANGED <<start, clock, stamp, producing, window, consuming, behind>>

TcooLost(t) ==
    /\ tcoos' = tcoos \ {t}
    /\ UNCHANGED <<start, clock, active, stamp, roll, producing, correcting, window,
                   consuming, behind>>

Next ==
    \/ OriginatorProduces
    \/ TargetIdles
    \/ TargetProduces
    \/ ClockTicks
    \/ \E n \in 1 .. Depth : FrameArrives(n)
    \/ \E t \in tcoos : OriginatorCoordinated(t)
    \/ \E t \in tcoos : TargetCoordinated(t)
    \/ \E t \in tcoos : TcooLost(t)

Spec == Init /\ [][Next]_vars

-----------------------------------------------------------------------------
(***************************************************************************)
(* Properties                                                              *)
(***************************************************************************)
\* How far a frame, by count and stamp, is ahead of another.
Distance(r1, ts1, r2, ts2) == ((r1 - r2) * Wrap + ts1 - ts2) % (Wrap * Wrap)

\* "TCOO handler refuses negative deltas, so this shouldn't happen"
\* (safety_device.py:307): the goal is never behind the applied correction,
\* for any sequence of TCOOs in the middle of a slew, and across its wrap.
GoalAhead == goal # applied => Positive(Ahead(goal, applied))

\* The frames that run never go back in time on the wire, although the
\* correction wraps at 16 bits (safety_device.py:311-320).
WireForward ==
    [][(window # <<>> /\ window[1].run /\ window' # window) =>
          Distance(window'[1].roll, window'[1].ts, window[1].roll, window[1].ts)
              < Wrap * Half]_vars

\* A consumer that has lost, or got out of order, no more than Tolerated
\* frames accepts the newest: it has not lost count of the wraps, although it
\* sees only stamps, and corrections make them jump.
SurvivesLoss ==
    (heard /\ window # <<>> /\ behind <= Tolerated) => Accepts(window[1])

\* An accepted frame is at most a quarter of a cycle older than the one
\* accepted before: an old frame is not taken for a new one of the next cycle.
NotStale ==
    [][(heard /\ consuming' # consuming) =>
          \/ Distance(consRoll, consStamp, consRoll', consStamp') <= Quarter
          \/ Distance(consRoll', consStamp', consRoll, consStamp) < Wrap * Half]_vars

\* One chance to start: "outgoing frames stay in IDLE mode until the first TCOO
\* arrives" (src/README.md:619), and there is one first TCOO.  It answers a change
\* of the ping count, and the count of idle frames does not change
\* (safety_device.py:341).  Once the consumer has accepted a frame and its TCOO is
\* gone, nothing that arrives later, new or delayed, makes another, and the
\* connection idles for good.
OneFirstTcoo ==
    [][~active /\ heard /\ tcoos = {} => ~active' /\ tcoos' = {}]_vars

\* "both ends must agree from frame 1" (scanner_connection.py:159-162): the
\* consumer accepts the first frames whatever rollover value the open carries.
AgreeFromFirst == ~heard => \A n \in 1 .. Len(window) : Accepts(window[n])
=============================================================================
