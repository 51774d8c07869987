------------------------------ MODULE MotorDrive -----------------------------
(***************************************************************************)
(* The DC motors: an order sets the velocity, a timer ends it, and every   *)
(* 250 ms the main loop turns the velocity into a duty                     *)
(* (asyncTools/asyncMOTOR.c, PID_speedControl of tools.c).  Percentages of *)
(* duty that the code keeps as float are kept in hundredths.               *)
(***************************************************************************)
EXTENDS Actuators

CONSTANTS
    Motor,          \* the configuration: minPWM, minRPM, maxRPM, inverted, PID
    Rpms,           \* speeds the encoders may report
    SpeedLimit,     \* no motor turns faster, in percent of its maximum
    VelocityLimit,  \* the highest velocity a host asks for, in percent
    CounterLimit,   \* the counter of a wheel starts again here (65536)
    ByteLimit,      \* its low byte starts again here (256)
    MaxTurns        \* bound: pulses of a wheel in a behaviour

rpmToPercent(m, rpm) == (rpm * 100) \div Motor[m].maxRPM

ASSUME MotorAssumption ==
    \A m \in Motors :
        /\ Motor[m].minPWM \in 0 .. 100 /\ Motor[m].minRPM \in Nat
        /\ Motor[m].maxRPM \in Nat \ {0} /\ Motor[m].inverted \in BOOLEAN
        /\ Motor[m].PID \in [on : BOOLEAN, Kp : Int, Ki : Int, Kd : Int]
ASSUME SpeedAssumption ==
    /\ SpeedLimit \in Nat /\ VelocityLimit \in Nat /\ Rpms \subseteq Int
    /\ \A m \in Motors : \A rpm \in Rpms : rpmToPercent(m, rpm) \in -SpeedLimit .. SpeedLimit
ASSUME CounterAssumption ==
    /\ ByteLimit \in Nat \ {0} /\ CounterLimit \in Nat \ {0} /\ MaxTurns \in Nat
    /\ CounterLimit % ByteLimit = 0

VARIABLES
    motor,       \* robot.motor and robot.encoder: velocity, direction, orders, rpm
    regulator,   \* oldSetpoint of checkDCmotorPower, and the PID's statics
    wheel        \* the encoders: counter, what hwTask has read of it, true pulses

(* History: where the wheel should be when a distance has been made,       *)
(* whether the reading it was reckoned from was sound, and whether         *)
(* setTimer had no slot left for the motor.                                *)
RestingMotor ==
    [velocity |-> 0, direction |-> "stop", cm |-> 0, stop |-> 0, rpm |-> 0,
     due |-> 0, sound |-> TRUE, missed |-> FALSE]

(* low: the low byte, between the two reads; at: the true pulses at the    *)
(* last reading.                                                           *)
RestingWheel ==
    [count |-> 0, turned |-> 0, low |-> 0, reading |-> FALSE, torn |-> FALSE,
     pulses |-> 0, at |-> 0, sound |-> TRUE]

MotorInit ==
    /\ motor = [m \in Motors |-> RestingMotor]
    /\ regulator = [old |-> 0, sum |-> [m \in Motors |-> 0], last |-> [m \in Motors |-> 0]]
    /\ wheel = [m \in Motors |-> RestingWheel]

------------------------------------------------------------------------------
(* Orders.                                                                 *)

(* runMotorAction copies the orders before anything is started.            *)
OrderedMotors(orders) ==
    [m \in Motors |->
        LET named == {k \in DOMAIN orders : orders[k].id = m}
            o == orders[Max(named)]
        IN  IF named = {} THEN motor[m]
            ELSE [motor[m] EXCEPT !.velocity = o.velocity, !.cm = o.cm]]

(* setAsyncMotorAction: negative velocities turn forward.                  *)
DirectionOf(m, velocity) ==
    CASE velocity = 0 -> "stop"
      [] (velocity < 0) # Motor[m].inverted /\ velocity # 0 -> "forward"
      [] OTHER -> "back"

(* The distance is counted from 0.                                         *)
StopFromZero(m) == motor[m].cm

(* A pulse is a centimeter of the model.                                   *)
StopAt(m) == wheel[m].pulses + motor[m].cm

StartMotor(m, time, id) ==
    LET v == motor[m].velocity
        direction == DirectionOf(m, v)
        far == motor[m].cm > 0
        fn == IF far THEN "checkEncoder" ELSE IF time > 0 THEN "endWheel" ELSE "dummyMotor"
        set == SetTimer(timer, id, m, 0, fn)
    IN  /\ timer' = set.table
        /\ motor' = [motor EXCEPT ![m] =
              [motor[m] EXCEPT
                  !.direction = direction, !.velocity = IF v < 0 THEN -v ELSE v,
                  !.stop = IF far THEN StopAt(m) ELSE motor[m].stop,
                  !.due = IF far THEN wheel[m].at + motor[m].cm ELSE motor[m].due,
                  !.sound = IF far THEN wheel[m].sound ELSE motor[m].sound,
                  !.missed = set.result = 0]]
        /\ hw' = IF set.result = 0 THEN hw ELSE setMotorDirection(hw, m, direction)

(* resetConfig stops the motors; resetHardware clears the counters.        *)
ResetMotors ==
    /\ motor' = [m \in Motors |-> [motor[m] EXCEPT !.velocity = 0, !.cm = 0]]
    /\ wheel' = [m \in Motors |->
          [wheel[m] EXCEPT !.count = 0, !.torn = wheel[m].reading]]

------------------------------------------------------------------------------
(* Callbacks of TimerTask.                                                 *)

(* The velocity, which the regulator goes by, is left.                     *)
StoppedByDirection(m) == [motor[m] EXCEPT !.direction = "stop"]

(* endWheelAction.                                                         *)
Stopped(m) == [motor[m] EXCEPT !.velocity = 0, !.direction = "stop"]

EndWheel(m) == motor' = [motor EXCEPT ![m] = Stopped(m)] /\ UNCHANGED timer

Again(id, m, fn) ==
    LET set == SetTimer(timer, id, m, 0, fn)
    IN  timer' = set.table /\ motor' = [motor EXCEPT ![m].missed = set.result = 0]

MotorCallback ==
    LET m == fired.name
    IN  CASE fired.fn = "endWheel" -> EndWheel(m)
          [] fired.fn = "checkEncoder" ->
               IF wheel[m].pulses >= motor[m].stop THEN EndWheel(m)
               ELSE Again(fired.id, m, "checkEncoder")
          [] fired.fn = "dummyMotor" -> Again(fired.id, m, "dummyMotor")

------------------------------------------------------------------------------
(* checkDCmotorPower.                                                      *)

Trunc(x) == IF x < 0 THEN -((-x) \div 100) ELSE x \div 100

(* The error is summed up whether or not the output is at its limit.       *)
PIDsumAlways(m, current, setPoint) == regulator.sum[m] + setPoint - current

PIDoutput(m, current, setPoint) ==
    LET c == Motor[m].PID
    IN  c.Kp * (setPoint - current) + c.Ki * regulator.sum[m]
            + c.Kd * (regulator.last[m] - current)

(* PID_speedControl: the sum is kept where the output is at its limit.     *)
PIDsum(m, current, setPoint) ==
    IF PIDoutput(m, current, setPoint) \in 1 .. 99
    THEN regulator.sum[m] + setPoint - current ELSE regulator.sum[m]

Current(m) == rpmToPercent(m, motor[m].rpm)
Abs(x) == IF x < 0 THEN -x ELSE x
AtLeast(x, y) == IF x < y THEN y ELSE x

(* Without the regulator: the least duty, what the user adds to it, and    *)
(* 30 % of the least duty more for a motor that turns slowly.              *)
FixedSetpoint(m) ==
    LET c == Motor[m]
        asked == Trunc(100 * c.minPWM + (100 - c.minPWM) * motor[m].velocity)
        slow == Current(m) < c.minRPM
    IN  AtLeast(IF slow THEN Trunc(100 * asked + 30 * c.minPWM) ELSE asked, c.minPWM)

(* 25 % of the least duty to start with.  (minRPM / 100 is an int.)        *)
Kick(m) ==
    IF motor[m].rpm < Motor[m].minRPM - (Motor[m].minRPM \div 100) * 50
    THEN 25 * Motor[m].minPWM ELSE 0

PIDtarget(m) == rpmToPercent(m, Motor[m].minRPM) + motor[m].velocity

(* newSetpoint of a motor that is to run, in hundredths.                   *)
NewSetpoint(m) ==
    100 * (IF Motor[m].PID.on
           THEN AtLeast(Clamped(PIDoutput(m, Current(m), PIDtarget(m))), Motor[m].minPWM)
           ELSE FixedSetpoint(m))
    + Kick(m)

ToRun == {m \in Motors : motor[m].velocity > 0}

(* oldSetpoint, one for all motors: that of the last motor before.         *)
OldSetpoint(m) ==
    LET before == {j \in ToRun : j < m}
    IN  IF before = {} THEN regulator.old ELSE NewSetpoint(Max(before))

(* A stop is sent while the wheel still turns.                             *)
SentWhileTurning(m) ==
    IF m \in ToRun THEN NewSetpoint(m) # OldSetpoint(m) ELSE motor[m].rpm > 0

(* A stop is sent at each pass, another set point when it is new.          *)
Sent(m) == m \in ToRun => NewSetpoint(m) # OldSetpoint(m)

Speed(m) == IF m \in ToRun THEN Trunc(NewSetpoint(m)) ELSE 0
Sending(m) == IF Sent(m) THEN <<SpeedCommand(m, Speed(m))>> ELSE <<>>

(* Timing: in the 250 ms between two calls hwTask, which takes a command   *)
(* every few ms, has sent the speeds of the last call.                     *)
PowerIsDue == \A n \in DOMAIN hw.queue : hw.queue[n].fn # "DCmotorSetSpeed"

checkDCmotorPower ==
    /\ PowerIsDue
    /\ \E commands \in {Sending(0) \o Sending(1)} : hw' = QueuedAll(hw, commands)
    /\ regulator' =
         [old  |-> OldSetpoint(Cardinality(Motors)),
          sum  |-> [m \in Motors |-> IF m \in ToRun /\ Motor[m].PID.on
                                     THEN PIDsum(m, Current(m), PIDtarget(m))
                                     ELSE regulator.sum[m]],
          last |-> [m \in Motors |-> IF m \in ToRun /\ Motor[m].PID.on
                                     THEN Current(m) ELSE regulator.last[m]]]
    /\ UNCHANGED <<motor, wheel>>

------------------------------------------------------------------------------
(* The wheels and their encoders.                                          *)

DutyOf(m) == DutyAt(hw.board, MotorAddress[m])

Turning(m) ==
    /\ DutyOf(m) > 0
    /\ "enable" \in hw.board.gpio.olat
    /\ Cardinality(DirectionBits(m) \cap hw.board.gpio.olat) = 1

(* A pulse of the encoder, counted by the microcontroller.                 *)
Turn(m) ==
    /\ Turning(m)
    /\ wheel[m].turned < MaxTurns
    /\ wheel' = [wheel EXCEPT ![m] =
          [wheel[m] EXCEPT
              !.turned = wheel[m].turned + 1, !.count = (wheel[m].count + 1) % CounterLimit,
              !.torn = wheel[m].reading
                         /\ (wheel[m].torn \/ (wheel[m].count + 1) % ByteLimit = 0)]]
    /\ UNCHANGED <<motor, regulator, hw, faults>>

(* EFM8BB_readPulseCounter: the low byte, and a millisecond later the high *)
(* byte; the counter may have carried in between.  One motor after the     *)
(* other is read.                                                          *)
ReadLow(m) ==
    /\ \A j \in Motors : ~wheel[j].reading
    /\ wheel' = [wheel EXCEPT ![m] =
          [@ EXCEPT !.low = wheel[m].count % ByteLimit, !.reading = TRUE, !.torn = FALSE]]
    /\ UNCHANGED <<motor, regulator, hw, faults>>

Read(m, pulses, sound) ==
    [wheel[m] EXCEPT !.pulses = pulses, !.sound = sound,
                     !.at = wheel[m].turned - ((wheel[m].count % ByteLimit) - wheel[m].low),
                     !.reading = FALSE, !.torn = FALSE, !.low = 0]

ReadHigh(m) ==
    /\ wheel[m].reading
    /\ \/ /\ wheel' = [wheel EXCEPT ![m] =
                Read(m, (@.count \div ByteLimit) * ByteLimit + @.low, ~@.torn)]
          /\ UNCHANGED faults
       \/ /\ faults > 0
          /\ faults' = faults - 1
          /\ wheel' = [wheel EXCEPT ![m] = Read(m, -1, FALSE)]
    /\ UNCHANGED <<motor, regulator, hw>>

(* Every 100 ms the main loop takes over the frequency hwTask has read.    *)
MeasureSpeed ==
    /\ \E rpm \in [Motors -> Rpms] :
          motor' = [m \in Motors |-> [motor[m] EXCEPT !.rpm = rpm[m]]]
    /\ UNCHANGED <<regulator, wheel, hw, faults>>

==============================================================================
