------------------------------- MODULE Devices -------------------------------
(***************************************************************************)
(* Orders for motors, lights, PWM outputs, servos and the stepper, from    *)
(* the command in the main loop to the registers of the board.  Three      *)
(* threads: the main loop starts actions and regulates the motors,         *)
(* TimerTask ends or polls them, hwTask drives the bus.                    *)
(*                                                                         *)
(* run...Action stores the settings of all devices it finds and then       *)
(* starts one action after the other; TimerTask may call back in between.  *)
(* Tasks, events and their numbers are the subject of BuggyTasks: here the *)
(* task of an order is always created, and has the number 1.               *)
(***************************************************************************)
EXTENDS MotorDrive, Blinking, StepperDrive

CONSTANT Scripts   \* bound: what may happen in a behaviour

(* An order names devices there are, each once.  A percentage fits a char. *)
Orders ==
    LET MotorEntry == [id : Motors, velocity : -VelocityLimit .. VelocityLimit,
                       cm : Int, time : Int]
        OutputEntry(S) == [id : S, state : STRING, power : -1 .. 127, count : Int]
        StepperEntry == [id : {0}, velocity : Int, value : Nat,
                         unit : {"step", "angle", "rotation", "time", "none"}]
    IN  [kind : {"motor"}, entries : Seq(MotorEntry)]
          \cup [kind : {"led"}, servo : {FALSE}, entries : Seq(OutputEntry(Leds))]
          \cup [kind : {"pwm"}, servo : {FALSE}, entries : Seq(OutputEntry(Pwms))]
          \cup [kind : {"pwm"}, servo : {TRUE}, entries : Seq(OutputEntry(Servos))]
          \cup [kind : {"stepper"}, entries : Seq(StepperEntry)]
NamesEachOnce(o) ==
    /\ o.entries # <<>>
    /\ \A j, k \in DOMAIN o.entries : o.entries[j].id = o.entries[k].id => j = k

(* A script: the orders of the host, the transfers that may fail, the room *)
(* in the queue, and the jobs of the threads and wheels that go on         *)
(* meanwhile (those left out concern nothing that its orders are about).   *)
ScriptSet ==
    [orders : Seq({[kind |-> "reset"]} \cup {o \in Orders : NamesEachOnce(o)}),
     faults : Nat, room : Nat, jobs : SUBSET {"power", "speeds", "wheels", "stepper"}]
ASSUME ScriptsAssumption == Scripts \subseteq ScriptSet

VARIABLES
    main,     \* the main loop: idle, or starting entry k of an order
    script,   \* the script of the behaviour
    given     \* bound: orders taken

motorVars == <<motor, regulator, wheel>>
blinkVars == <<output, counter>>
vars == <<hw, faults, timer, fired, motor, regulator, wheel, output, counter,
          stepper, main, script, given>>

Task == 1
Idle == [pc |-> "idle"]
NoCallback == [fn |-> "none"]

Init ==
    /\ script \in Scripts
    /\ hw = Started(script.room)
    /\ faults = script.faults
    /\ timer = EmptyTimerTable
    /\ fired = NoCallback
    /\ MotorInit /\ BlinkInit /\ StepperInit
    /\ main = Idle
    /\ given = 0

------------------------------------------------------------------------------
(* The main loop.                                                          *)

(* A command: the settings are stored.                                     *)
Take(o) ==
    /\ main = Idle
    /\ o.kind # "reset"
    /\ given' = given + 1
    /\ main' = [pc |-> "start", order |-> o, k |-> 1]
    /\ motor' = IF o.kind = "motor" THEN OrderedMotors(o.entries) ELSE motor
    /\ output' = IF o.kind \in DOMAIN output
                 THEN OrderedOutputs(o.kind, o.servo, o.entries) ELSE output
    /\ UNCHANGED <<hw, faults, timer, fired, regulator, wheel, counter, stepper, script>>

(* The next entry of the command: its action is started.                   *)
Advance ==
    main' = IF main.k < Len(main.order.entries) THEN [main EXCEPT !.k = @ + 1] ELSE Idle

StartEntry ==
    /\ main # Idle
    /\ UNCHANGED <<faults, fired, counter, script, given>>
    /\ Advance
    /\ LET e == main.order.entries[main.k]
       IN  \/ /\ main.order.kind = "motor"
              /\ StartMotor(e.id, e.time, Task)
              /\ UNCHANGED <<regulator, wheel, output, stepper>>
           \/ /\ main.order.kind \in DOMAIN output
              /\ StartOutput(main.order.kind, main.order.servo, e.id, Task)
              /\ UNCHANGED <<motorVars, stepper>>
           \/ /\ main.order.kind = "stepper"
              /\ StartStepper(e, Task)
              /\ UNCHANGED <<motorVars, output>>

(* A reset: resetConfig, resetHardware.                                    *)
Reset(o) ==
    /\ main = Idle
    /\ o.kind = "reset"
    /\ given' = given + 1
    /\ ResetMotors
    /\ hw' = resetHardware(hw, 0)
    /\ UNCHANGED <<faults, timer, fired, regulator, blinkVars, stepper, main, script>>

(* checkMotorPowerFlag is up.                                              *)
CheckPower ==
    /\ main = Idle
    /\ UNCHANGED <<faults, timer, fired, blinkVars, stepper, main, script, given>>
    /\ "power" \in script.jobs
    /\ checkDCmotorPower

(* t100msFlag is up.                                                       *)
Measure ==
    /\ main = Idle
    /\ UNCHANGED <<timer, fired, blinkVars, stepper, main, script, given>>
    /\ "speeds" \in script.jobs
    /\ MeasureSpeed

------------------------------------------------------------------------------
(* TimerTask: a slot expires; then its callback runs.                      *)

Fire(i) ==
    /\ fired = NoCallback
    /\ UNCHANGED <<hw, faults, motorVars, blinkVars, stepper, main, script, given>>
    /\ timer[i].id > 0
    /\ fired' = timer[i]
    /\ timer' = Expire(timer, i)

MotorFns == {"endWheel", "checkEncoder", "dummyMotor"}
StepperFns == {"endStepper", "checkStepper", "dummyStepper"}

Callback ==
    /\ fired # NoCallback /\ fired' = NoCallback
    /\ UNCHANGED <<faults, regulator, wheel, main, script, given>>
    /\ \/ fired.fn \in MotorFns /\ MotorCallback /\ UNCHANGED <<hw, output, counter, stepper>>
       \/ fired.fn \in BlinkFns /\ BlinkCallback /\ UNCHANGED <<motor, stepper>>
       \/ fired.fn \in StepperFns /\ StepperCallback /\ UNCHANGED <<motor, output, counter>>

------------------------------------------------------------------------------
(* hwTask, the wheels and the stepper driver.                              *)

Unread == UNCHANGED <<timer, fired, blinkVars, main, script, given>>

HwCommand == Unread /\ UNCHANGED <<motorVars, stepper>> /\ ProcessCommandQueue
HwPulses(m) ==
    /\ "wheels" \in script.jobs
    /\ Unread /\ UNCHANGED stepper
    /\ ReadLow(m) \/ ReadHigh(m)
HwStepper == "stepper" \in script.jobs /\ Unread /\ UNCHANGED motorVars /\ ReadMotorState
Wheel(m) == "wheels" \in script.jobs /\ Unread /\ UNCHANGED stepper /\ Turn(m)
Arrive == Unread /\ UNCHANGED motorVars /\ StepperArrives

------------------------------------------------------------------------------
Next ==
    \/ /\ given < Len(script.orders)
       /\ LET o == script.orders[given + 1] IN Take(o) \/ Reset(o)
    \/ StartEntry \/ CheckPower \/ Measure
    \/ \E i \in TimerSlots : Fire(i)
    \/ Callback \/ HwCommand \/ HwStepper \/ Arrive
    \/ \E m \in Motors : HwPulses(m) \/ Wheel(m)

Spec == Init /\ [][Next]_vars

(* The loops of the three threads never stop, and each does all of its     *)
(* jobs again and again; TimerTask scans its slots in turn.                *)
FairSpec ==
    /\ Spec
    /\ WF_vars(StartEntry) /\ SF_vars(CheckPower)
    /\ \A i \in TimerSlots : SF_vars(Fire(i))
    /\ WF_vars(Callback) /\ WF_vars(HwCommand) /\ WF_vars(HwStepper) /\ WF_vars(Arrive)

------------------------------------------------------------------------------
(* A motor never runs on alone: as long as it has a velocity, a timer that *)
(* will end its action or look after it is armed or calling back, or the   *)
(* main loop is about to arm it; also when orders come while older timers  *)
(* of the motor expire.  Only setTimer with no slot left makes an          *)
(* exception: setAsyncMotorAction and the callbacks leave the velocity.    *)
RunningMotorIsTimed ==
    \A m \in Motors : motor[m].velocity # 0 /\ ~motor[m].missed =>
        \/ \E i \in TimerSlots : timer[i].id > 0 /\ Matches(timer[i], m, 0)
        \/ fired.fn \in MotorFns /\ fired.name = m
        \/ main # Idle /\ main.order.kind = "motor"
               /\ \E k \in main.k .. Len(main.order.entries) : main.order.entries[k].id = m

(* A motor that was sent some distance does not stop before it has made    *)
(* it, when the encoder was read soundly at the start and at the end; also *)
(* when its counter was cleared on the way.                                *)
NotBeforeDistance ==
    [][ \A m \in Motors :
          /\ fired.fn = "checkEncoder" /\ fired.name = m /\ fired' = NoCallback
          /\ motor[m].velocity # 0 /\ motor'[m].velocity = 0
          /\ motor[m].sound /\ wheel[m].sound
          => wheel[m].turned >= motor[m].due ]_vars

(* The regulator of a motor does not wind up: however long the speed stays *)
(* away from what is asked, the sum of the errors stays within what one    *)
(* pass more may bring the output to.                                      *)
IntegralBounded ==
    \A m \in Motors :
        LET c == Motor[m].PID
            error == rpmToPercent(m, Motor[m].minRPM) + VelocityLimit + SpeedLimit
            most == 99 + Abs(c.Kp - c.Ki) * error + Abs(c.Kd) * 2 * SpeedLimit
        IN  c.on => c.Ki * regulator.sum[m] \in -most .. most

(* When the motors are told to stop they stop in the end, although         *)
(* commands are dropped by a full queue and lost on the bus: the next pass *)
(* sends them again.                                                       *)
StopsInTheEnd ==
    <>[](ToRun = {}) => <>[](\A m \in Motors : DutyOf(m) = 0)

(* asyncMOTOR.c, lines 222-227: checkDCmotorPower raises or lowers the     *)
(* speed of the motor until it reaches its set point; so a motor that is   *)
(* to run is driven again and again.                                       *)
MotorReachesSetpoint ==
    \A m \in Motors : <>[](motor[m].velocity > 0) => []<>(DutyOf(m) > 0)
==============================================================================
