-------------------------------- MODULE Board --------------------------------
(***************************************************************************)
(* The chips the robot's actuators hang on, and the drivers that write     *)
(* their registers (hwControl/boardHWctrl.c over libs/i2c/onion-i2c.c).    *)
(*                                                                         *)
(* A driver function is the list of its transfers on the bus.  Any of them *)
(* may fail: a failed write leaves the register alone, a failed read gives *)
(* 0 because i2c_read has cleared its buffer; the actuator drivers look at *)
(* neither.  The chips keep what was written; the stepper driver alone     *)
(* also acts by itself (StepperArrives).                                   *)
(***************************************************************************)
EXTENDS Integers, Sequences, FiniteSets, SequencesExt

(* PCA9685: the first register of each output, by getOrganI2Cregister.     *)
MotorAddress == [d \in 0 .. 1 |-> <<8, 12>>[d + 1]]
LedAddress == [d \in 0 .. 2 |-> <<44, 56, 64>>[d + 1]]
PwmAddress == [d \in 0 .. 9 |-> <<16, 20, 28, 32, 68, 40, 36, 60, 48, 52>>[d + 1]]

AddressOf(kind, d) ==
    [motor |-> MotorAddress, led |-> LedAddress, pwm |-> PwmAddress][kind][d]

(* MCP23008: the bits that drive the H-bridges, by name.                   *)
CW == <<"cw0", "cw1">>
CCW == <<"ccw0", "ccw1">>
DirectionBits(m) == {CW[m + 1], CCW[m + 1]}
MCW == 0
MCCW == 1
BridgeBits == {"enable"} \cup DirectionBits(0) \cup DirectionBits(1)

(* PCA9629: mode, step counts and pulse widths for both directions, and    *)
(* control.                                                                *)
PMA == 15
StepCount == <<18, 19, 20, 21>>
PulseWidth == <<22, 23, 24, 25>>
MCNTL == 26
StepperRegisters == {PMA, MCNTL} \cup ToSet(StepCount) \cup ToSet(PulseWidth)
Start == 128      \* bit 7 of MCNTL: go, and going

(* The registers after buggyBoardInit, when the transfers succeed.         *)
Configured(pwmRegisters) ==
    [pwm  |-> [r \in pwmRegisters |-> 0],
     gpio |-> [olat |-> {"enable"}],
     step |-> [r \in StepperRegisters |->
                 CASE r = PMA -> 1
                   [] r \in ToSet(StepCount) -> 255
                   [] r \in {22, 24} -> 154
                   [] r \in {23, 25} -> 2
                   [] r = MCNTL -> 0]]

------------------------------------------------------------------------------
(* The bus.                                                                *)

Transfer(chip, reg, val) == [chip |-> chip, reg |-> reg, val |-> val]

Updated(f, new) == [x \in DOMAIN f \cup DOMAIN new |-> IF x \in DOMAIN new THEN new[x] ELSE f[x]]

(* i2c_write of each transfer; ok tells which of them the chip has taken.  *)
(* A register holds what was written to it last.                           *)
(* No driver makes more than four.                                         *)
Written(b, transfers, ok) ==
    LET Put(chips, n) ==
            LET t == transfers[n]
            IN  IF n \in DOMAIN transfers /\ ok[n]
                THEN [chips EXCEPT ![t.chip][t.reg] = t.val] ELSE chips
    IN  Put(Put(Put(Put(b, 1), 2), 3), 4)

(* i2c_readByte of the latch, which the drivers take as it is.             *)
ReadLatch(b, ok) == IF ok THEN b.gpio.olat ELSE {}

(* The high byte is not shifted down.                                      *)
DutyUnshifted(adr, value) ==
    <<Transfer("pwm", adr, value % 256), Transfer("pwm", adr + 1, value % 16)>>

(* A 12-bit duty goes to two registers, low byte first.                    *)
Duty(adr, value) ==
    <<Transfer("pwm", adr, value % 256), Transfer("pwm", adr + 1, (value \div 256) % 16)>>

(* A 16-bit number goes to a pair of registers for each direction.         *)
Words(regs, value) ==
    [n \in DOMAIN regs |-> Transfer("step", regs[n],
        IF n % 2 = 1 THEN value % 256 ELSE (value \div 256) % 256)]

------------------------------------------------------------------------------
(* The drivers: the transfers of each call, by the name of the function.   *)
(* A rotation reads the latch before, with ok[1].                          *)

AtMost100(p) == IF p > 100 THEN 100 ELSE p

(* char position: -1 releases the servo.                                   *)
ServoDuty(position) ==
    IF position >= 0 THEN 156 + (AtMost100(position) * 272) \div 100 ELSE 0

(* The motor of a PWM address, and the bit that turns it, if any.          *)
MotorAt(adr) == CHOOSE m \in DOMAIN MotorAddress : MotorAddress[m] = adr
Wanted(m, direction) ==
    CASE direction = MCW -> {CW[m + 1]} [] direction = MCCW -> {CCW[m + 1]} [] OTHER -> {}

Latches(first, second) ==
    <<Transfer("gpio", "olat", first), Transfer("gpio", "olat", second)>>

(* The masks exchanged: each motor clears the bits of the other.           *)
RotationOfOther(adr, direction, latch) ==
    LET m == MotorAt(adr)
        off == latch \ DirectionBits(1 - m)
    IN  Latches(off, off \cup Wanted(m, direction))

(* Nothing is cleared before the new direction is set.                     *)
RotationAdding(adr, direction, latch) ==
    Latches(latch, latch \cup Wanted(MotorAt(adr), direction))

(* MCP2308_DCmotorSetRotation: the bits of the motor are cleared, then the *)
(* wanted one is set.                                                      *)
Rotation(adr, direction, latch) ==
    LET m == MotorAt(adr)
        off == latch \ DirectionBits(m)
    IN  Latches(off, off \cup Wanted(m, direction))

Transfers(c, latch) ==
    CASE c.fn = "DCmotorSetSpeed" -> Duty(c.adr, (4095 * c.cmd) \div 100)
      [] c.fn = "setLedPower" -> Duty(c.adr, 40 * AtMost100(c.cmd % 256))
      [] c.fn = "setServoPos" -> Duty(c.adr, ServoDuty(c.cmd))
      [] c.fn = "DCmotorSetRotation" -> Rotation(c.adr, c.cmd, latch)
      [] c.fn = "StepperMotorControl" -> <<Transfer("step", MCNTL, c.cmd % 256)>>
      [] c.fn = "StepperMotorMode" -> <<Transfer("step", PMA, c.cmd % 256)>>
      [] c.fn = "StepperMotorSetStep" -> Words(StepCount, c.cmd)
      [] c.fn = "StepperMotorPulseWidth" -> Words(PulseWidth, c.cmd)

(* How many transfers a call makes.                                        *)
TransferCount(c) == Len(Transfers(c, {})) + (IF c.fn = "DCmotorSetRotation" THEN 1 ELSE 0)

(* A call whose transfers succeed as ok says.  A failed read of the latch  *)
(* is a latch of 0, and the other bits go with it.                         *)
Drive(b, c, ok) ==
    IF c.fn = "DCmotorSetRotation"
    THEN Written(b, Transfers(c, ReadLatch(b, ok[1])), Tail(ok))
    ELSE Written(b, Transfers(c, {}), ok)

(* The stepper driver has made its steps: it stops by itself in the mode   *)
(* of a single action, never in that of a continuous one.                  *)
Going(b) == b.step[MCNTL] >= Start
StepperDone(b) == [b EXCEPT !.step[MCNTL] = @ - Start]

==============================================================================
