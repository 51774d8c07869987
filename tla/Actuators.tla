------------------------------ MODULE Actuators ------------------------------
(***************************************************************************)
(* The actuator side of hwControl/hwManager.c: the setters the main loop   *)
(* and TimerTask call, the queue they put their commands in, and hwTask    *)
(* which takes one command after the other to the board.  A call of        *)
(* set_i2c_command_queue is one step here; what two overlapping calls do   *)
(* is the subject of module I2cQueue.                                      *)
(*                                                                         *)
(* Also what all actions on devices share: the timers and the callback     *)
(* TimerTask is in.                                                        *)
(***************************************************************************)
EXTENDS Board, TimerTable

CONSTANTS
    NBLED, NBPWM, NBSERVO   \* the outputs of the board (3, 10 and 2 in the code)

ASSUME OutputsAssumption ==
    NBLED \in 0 .. 3 /\ NBPWM \in 0 .. 10 /\ NBSERVO \in 0 .. NBPWM

Motors == DOMAIN MotorAddress
Leds == 0 .. NBLED - 1
Pwms == 0 .. NBPWM - 1
Servos == 0 .. NBSERVO - 1

VARIABLES
    hw,       \* board, queue and what was asked of the board
    faults,   \* bound: the transfers that may still fail
    timer,    \* myTimer
    fired     \* TimerTask: the expired timer it is calling back for

Outputs(kind) == IF kind = "led" THEN Leds ELSE Pwms

PwmRegisters ==
    LET firsts == {MotorAddress[m] : m \in Motors} \cup {LedAddress[d] : d \in Leds}
                      \cup {PwmAddress[d] : d \in Pwms}
    IN  firsts \cup {r + 1 : r \in firsts}

Command(fn, adr, cmd) == [fn |-> fn, adr |-> adr, cmd |-> cmd]

(* What a command sets: the commands for one channel replace each other.   *)
Channel(c) ==
    IF c.fn \in {"DCmotorSetSpeed", "setLedPower", "setServoPos"}
    THEN <<"duty", c.adr>> ELSE <<c.fn, c.adr>>

(* room: the entries of the queue that may be used (49 of 50 in the code). *)
(* asked and failed are history: the last command accepted for a channel,  *)
(* and the channels on which a transfer has failed since.                  *)
Started(room) ==
    [board |-> Configured(PwmRegisters), queue |-> <<>>, room |-> room,
     asked |-> <<>>, failed |-> {}]

------------------------------------------------------------------------------
(* set_i2c_command_queue, called for one command after the other: those    *)
(* that find no room are dropped.                                          *)
QueuedAll(h, commands) ==
    LET free == h.room - Len(h.queue)
        taken == IF Len(commands) <= free THEN commands ELSE SubSeq(commands, 1, free)
        LastOn(ch) == Max({n \in DOMAIN taken : Channel(taken[n]) = ch})
        channels == {Channel(taken[n]) : n \in DOMAIN taken}
    IN  [h EXCEPT !.queue = @ \o taken,
                  !.asked = Updated(@, [ch \in channels |-> taken[LastOn(ch)]])]

Queued(h, c) == QueuedAll(h, <<c>>)

Clamped(ratio) == IF ratio > 100 THEN 100 ELSE IF ratio < 0 THEN 0 ELSE ratio

SpeedCommand(m, ratio) == Command("DCmotorSetSpeed", MotorAddress[m], Clamped(ratio))
DirectionCommand(m, direction) ==
    Command("DCmotorSetRotation", MotorAddress[m], IF direction = "forward" THEN MCW ELSE MCCW)
PowerCommand(kind, d, power) == Command("setLedPower", AddressOf(kind, d), power)
ServoCommand(d, position) == Command("setServoPos", PwmAddress[d], position)

(* BUGGY_STOP changes nothing.                                             *)
setMotorDirection(h, m, direction) ==
    IF direction = "stop" THEN h ELSE Queued(h, DirectionCommand(m, direction))

setOutputPower(h, kind, d, power) == Queued(h, PowerCommand(kind, d, power))
setServoPosition(h, d, position) == Queued(h, ServoCommand(d, position))

setStepperSpeed(h, speed) ==
    LET s == IF speed > 100 THEN 100 ELSE IF speed < 0 THEN 1 ELSE speed
    IN  Queued(h, Command("StepperMotorPulseWidth", 0, 666 + (100 - s) * 75))

(* One step counts as no step.                                             *)
setStepperStepActionLoose(h, direction, steps) ==
    QueuedAll(h, <<Command("StepperMotorControl", 0, 0),
        Command("StepperMotorMode", 0, IF steps <= 1 THEN 0 ELSE 1),
        Command("StepperMotorSetStep", 0, steps),
        Command("StepperMotorControl", 0,
            CASE direction = "forward" -> Start [] direction = "back" -> Start + 1
              [] OTHER -> 32)>>)

(* Without a number of steps the driver is to turn until it is stopped.    *)
setStepperStepAction(h, direction, steps) ==
    QueuedAll(h, <<Command("StepperMotorControl", 0, 0),
        Command("StepperMotorMode", 0, IF steps <= 0 THEN 0 ELSE 1),
        Command("StepperMotorSetStep", 0, steps),
        Command("StepperMotorControl", 0,
            CASE direction = "forward" -> Start [] direction = "back" -> Start + 1
              [] OTHER -> 32)>>)

(* resetHardware: everything stops; the lights take their configured power.*)
Rest(m) == <<SpeedCommand(m, 0), DirectionCommand(m, "forward")>>
resetHardware(h, lights) ==
    QueuedAll(h, Rest(0) \o Rest(1)
        \o [n \in 1 .. NBSERVO |-> ServoCommand(n - 1, 0)]
        \o [n \in 1 .. NBLED |-> PowerCommand("led", n - 1, lights)]
        \o [n \in 1 .. NBPWM |-> PowerCommand("pwm", n - 1, 0)])

------------------------------------------------------------------------------
(* hwTask.                                                                 *)

(* processCommandQueue: the first command is run, the others move up.      *)
ProcessCommandQueue ==
    /\ hw.queue # <<>>
    /\ LET c == Head(hw.queue)
           n == 1 .. TransferCount(c)
       IN  \E bad \in {s \in SUBSET n : Cardinality(s) <= faults} :
              /\ hw' = [hw EXCEPT
                   !.board = Drive(@, c, [i \in n |-> i \notin bad]),
                   !.queue = Tail(@),
                   !.failed =
                     IF bad = {} THEN @ \ {Channel(c)}
                     ELSE IF c.fn = "DCmotorSetRotation" /\ 1 \in bad
                          THEN @ \cup {<<c.fn, adr>> : adr \in ToSet(<<8, 12>>)}
                          ELSE @ \cup {Channel(c)}]
              /\ faults' = faults - Cardinality(bad)

------------------------------------------------------------------------------
(* What the board shows.                                                   *)

DutyAt(b, adr) == b.pwm[adr] + 256 * b.pwm[adr + 1]
WordAt(b, regs) == b.step[regs[1]] + 256 * b.step[regs[2]]
Near(x, y, d) == x >= y - d /\ x <= y + d

(* The board does what the command says, to 3 % of the full duty.          *)
Shows(b, c) ==
    CASE c.fn \in {"DCmotorSetSpeed", "setLedPower"} ->
             Near(100 * DutyAt(b, c.adr), 4096 * AtMost100(c.cmd % 256), 3 * 4096)
      [] c.fn = "setServoPos" ->
             IF c.cmd < 0 THEN DutyAt(b, c.adr) = 0
             ELSE Near(100 * (DutyAt(b, c.adr) - 156), 272 * AtMost100(c.cmd), 100)
      [] c.fn = "DCmotorSetRotation" ->
             b.gpio.olat \cap DirectionBits(MotorAt(c.adr)) = Wanted(MotorAt(c.adr), c.cmd)
      [] c.fn = "StepperMotorMode" -> (b.step[PMA] = 0) = (c.cmd = 0)
      [] c.fn = "StepperMotorControl" -> b.step[MCNTL] % Start = c.cmd % Start
      [] c.fn = "StepperMotorSetStep" -> WordAt(b, StepCount) = c.cmd % 65536
      [] c.fn = "StepperMotorPulseWidth" -> WordAt(b, PulseWidth) = c.cmd % 65536

(* When the queue is empty, each device is where the last accepted command *)
(* put it, unless a transfer of that command has failed: no command goes   *)
(* to a device it was not meant for, and no older one comes after.         *)
BoardShowsOrders ==
    hw.queue = <<>> =>
        \A ch \in DOMAIN hw.asked \ hw.failed : Shows(hw.board, hw.asked[ch])

(* The two switches of an H-bridge are never closed together, whatever     *)
(* transfers fail in whatever order the motors are turned.                 *)
BridgeNeverShorted ==
    \A m \in Motors : ~(DirectionBits(m) \subseteq hw.board.gpio.olat)

(* A change of one motor's direction leaves the other motor and the enable *)
(* bit alone, unless the latch could not be read.                          *)
OthersUndisturbed ==
    [][ \A m \in Motors :
          \/ hw'.board.gpio.olat = hw.board.gpio.olat
          \/ hw'.board.gpio.olat \ DirectionBits(m) = hw.board.gpio.olat \ DirectionBits(m)
          \/ Head(hw.queue).adr # MotorAddress[m]
          \/ <<"DCmotorSetRotation", MotorAddress[1 - m]>> \in hw'.failed ]_hw
==============================================================================
