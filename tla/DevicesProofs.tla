---------------------------- MODULE DevicesProofs ----------------------------
(***************************************************************************)
(* Proofs about the actuators, for any orders, any board and any transfers *)
(* that fail.  In this order:                                              *)
(*   the bus: what a driver leaves in the registers (DriveShows,           *)
(*     DriveFrame) and that the queue of commands is made of orders that   *)
(*     are safe one by one (IsAsked, IsHw);                                *)
(*   the types of the counters, motors, timers and outputs, which every    *)
(*     step keeps together with the queue (DevicesInv);                    *)
(*   the regulator of the motor speed and the bound of its sum (SumOK);    *)
(*   the timer of every motor that runs against the clock (IsTimed);       *)
(*   the distances: the wheel reading a poll compares is a reading of the  *)
(*     wheel, and the goal is the order's distance (IsRead, IsDue);        *)
(*   the blinks: one that is alone has the counter to itself (IsBlink).    *)
(***************************************************************************)
EXTENDS Devices, TLAPS, FiniteSetTheorems, WellFoundedInduction

LessOnNat == {p \in Nat \X Nat : p[1] < p[2]}

(* The naturals are well-founded.                                          *)
LEMMA LessOnNatWellFounded == IsWellFoundedOn(LessOnNat, Nat)
  BY NatLessThanWellFounded, Zenon DEF OpToRel, LessOnNat

(* Among the places of a list one is the last.                             *)
LEMMA MaxIsLast ==
  ASSUME NEW N \in Nat, NEW S \in SUBSET (1 .. N), S # {}
  PROVE  Max(S) \in S /\ \A n \in S : n <= Max(S)
<1> DEFINE T == {N - n : n \in S}
<1>1. T \subseteq Nat /\ T # {}
  <2>1. \A n \in S : N - n \in Nat
    OBVIOUS
  <2> QED
    BY <2>1
<1>2. PICK x \in T : \A y \in T : ~(<<y, x>> \in LessOnNat)
  BY <1>1, LessOnNatWellFounded, WFMin
<1>3. PICK n \in S : x = N - n
  BY <1>2
<1>4. \A m \in S : m <= n
  <2>1. TAKE m \in S
  <2>2. N - m \in T /\ N - m \in Nat /\ x \in Nat
    BY <1>1, <1>2
  <2>3. ~(N - m < x)
    BY <1>2, <2>2 DEF LessOnNat
  <2> QED
    BY <1>3, <2>2, <2>3
<1> QED
  BY <1>4 DEF Max

------------------------------------------------------------------------------
(* The bus.                                                                *)

(* The registers the model knows of.                                       *)
IsBoard(b) ==
    /\ DOMAIN b = {"pwm", "gpio", "step"}
    /\ PwmRegisters \subseteq DOMAIN b.pwm
    /\ "olat" \in DOMAIN b.gpio
    /\ StepperRegisters \subseteq DOMAIN b.step
    /\ b.step[MCNTL] \in Int

(* A register no transfer reaches keeps its value; one that is reached     *)
(* holds what was written last; the chips keep their registers.            *)
LEMMA WrittenAt ==
  ASSUME NEW b, NEW t, DOMAIN t \subseteq 1 .. 4, NEW ok,
         \A n \in DOMAIN t : t[n].chip \in DOMAIN b,
         NEW chip \in DOMAIN b, NEW reg \in DOMAIN b[chip]
  PROVE  /\ (\A n \in DOMAIN t : ~(ok[n] /\ t[n].chip = chip /\ t[n].reg = reg))
              => Written(b, t, ok)[chip][reg] = b[chip][reg]
         /\ \A n \in DOMAIN t :
              /\ ok[n] /\ t[n].chip = chip /\ t[n].reg = reg
              /\ \A k \in DOMAIN t : k > n => ~(ok[k] /\ t[k].chip = chip /\ t[k].reg = reg)
              => Written(b, t, ok)[chip][reg] = t[n].val
         /\ DOMAIN Written(b, t, ok) = DOMAIN b
         /\ DOMAIN Written(b, t, ok)[chip] = DOMAIN b[chip]
<1> DEFINE Put(c, n) == IF n \in DOMAIN t /\ ok[n]
                        THEN [c EXCEPT ![t[n].chip][t[n].reg] = t[n].val] ELSE c
           Same(c) == DOMAIN c = DOMAIN b /\ DOMAIN c[chip] = DOMAIN b[chip]
           Hit == {n \in DOMAIN t : ok[n] /\ t[n].chip = chip /\ t[n].reg = reg}
<1>1. ASSUME NEW c, Same(c), NEW n \in 1 .. 4
      PROVE  /\ Same(Put(c, n))
             /\ Put(c, n)[chip][reg] = IF n \in Hit THEN t[n].val ELSE c[chip][reg]
  <2>1. CASE n \notin DOMAIN t \/ ~ok[n]
    BY <1>1, <2>1
  <2>2. CASE n \in DOMAIN t /\ ok[n] /\ t[n].chip # chip
    BY <1>1, <2>2
  <2>3. CASE n \in DOMAIN t /\ ok[n] /\ t[n].chip = chip
    BY <1>1, <2>3
  <2> QED
    BY <2>1, <2>2, <2>3
<1> DEFINE w1 == Put(b, 1)  w2 == Put(w1, 2)  w3 == Put(w2, 3)  w4 == Put(w3, 4)
<1>2. Written(b, t, ok) = w4
  BY DEF Written
<1>3. Same(w1) /\ w1[chip][reg] = IF 1 \in Hit THEN t[1].val ELSE b[chip][reg]
  <2>1. Same(b)
    OBVIOUS
  <2> HIDE DEF Put
  <2> QED
    BY <1>1, <2>1
<1>4. Same(w2) /\ w2[chip][reg] = IF 2 \in Hit THEN t[2].val ELSE w1[chip][reg]
  <2> HIDE DEF Put, w1
  <2> QED
    BY <1>1, <1>3
<1>5. Same(w3) /\ w3[chip][reg] = IF 3 \in Hit THEN t[3].val ELSE w2[chip][reg]
  <2> HIDE DEF Put, w2
  <2> QED
    BY <1>1, <1>4
<1>6. Same(w4) /\ w4[chip][reg] = IF 4 \in Hit THEN t[4].val ELSE w3[chip][reg]
  <2> HIDE DEF Put, w3
  <2> QED
    BY <1>1, <1>5
<1> HIDE DEF w1, w2, w3, w4, Put
<1>7. Hit \subseteq 1 .. 4
  OBVIOUS
<1>8. Hit = {} => w4[chip][reg] = b[chip][reg]
  BY <1>3, <1>4, <1>5, <1>6
<1>9. ASSUME NEW n \in Hit, \A k \in Hit : k <= n
      PROVE  w4[chip][reg] = t[n].val
  <2>1. n \in {1, 2, 3, 4}
    BY <1>7
  <2>2. \A k \in 1 .. 4 : k > n => k \notin Hit
    BY <1>9, <2>1
  <2> QED
    BY <1>3, <1>4, <1>5, <1>6, <2>1, <2>2
<1>10. /\ (\A n \in DOMAIN t : ~(ok[n] /\ t[n].chip = chip /\ t[n].reg = reg)) => Hit = {}
       /\ \A n \in DOMAIN t :
              /\ ok[n] /\ t[n].chip = chip /\ t[n].reg = reg
              /\ \A k \in DOMAIN t : k > n => ~(ok[k] /\ t[k].chip = chip /\ t[k].reg = reg)
              => n \in Hit /\ \A k \in Hit : k <= n
  OBVIOUS
<1> HIDE DEF Hit
<1> QED
  BY <1>2, <1>6, <1>8, <1>9, <1>10

------------------------------------------------------------------------------
(* The drivers.                                                            *)

(* The first registers of the outputs there are.                           *)
DutyRegisters ==
    {MotorAddress[m] : m \in Motors} \cup {LedAddress[d] : d \in Leds}
        \cup {PwmAddress[d] : d \in Pwms}

DutyFns == {"DCmotorSetSpeed", "setLedPower", "setServoPos"}
StepperCalls == {"StepperMotorControl", "StepperMotorMode", "StepperMotorSetStep",
                 "StepperMotorPulseWidth"}

(* The commands the setters make.                                          *)
Commands ==
    [fn : {"DCmotorSetSpeed"}, adr : DutyRegisters, cmd : 0 .. 100]
        \cup [fn : {"setLedPower", "setServoPos"}, adr : DutyRegisters, cmd : Int]
        \cup [fn : {"DCmotorSetRotation"}, adr : {8, 12}, cmd : {MCW, MCCW}]
        \cup [fn : StepperCalls \ {"StepperMotorMode"}, adr : {0}, cmd : Int]
        \cup [fn : {"StepperMotorMode"}, adr : {0}, cmd : {0, 1}]

(* The duty of an output is in two registers of its own.                   *)
LEMMA Addresses ==
  /\ PwmRegisters = DutyRegisters \cup {a + 1 : a \in DutyRegisters}
  /\ DutyRegisters \subseteq Int
  /\ \A a \in DutyRegisters : a % 2 = 0
  /\ Motors = {0, 1} /\ MotorAddress[0] = 8 /\ MotorAddress[1] = 12
  /\ \A m \in Motors : MotorAddress[m] \in DutyRegisters
  /\ \A d \in Leds : LedAddress[d] \in DutyRegisters
  /\ \A d \in Pwms : PwmAddress[d] \in DutyRegisters
<1>1. Motors = {0, 1} /\ MotorAddress[0] = 8 /\ MotorAddress[1] = 12
  BY DEF Motors, MotorAddress
<1>2. \A d \in Leds : LedAddress[d] \in {44, 56, 64}
  <2>1. \A d \in 0 .. 2 : LedAddress[d] \in {44, 56, 64}
    BY DEF LedAddress
  <2> QED
    BY <2>1, OutputsAssumption DEF Leds
<1>3. \A d \in Pwms : PwmAddress[d] \in {16, 20, 28, 32, 68, 40, 36, 60, 48, 52}
  <2>1. \A d \in 0 .. 9 : PwmAddress[d] \in {16, 20, 28, 32, 68, 40, 36, 60, 48, 52}
    <3>1. TAKE d \in 0 .. 9
    <3>2. d + 1 \in 1 .. 10
      OBVIOUS
    <3> QED
      BY <3>2 DEF PwmAddress
  <2> QED
    BY <2>1, OutputsAssumption DEF Pwms
<1>4. PwmRegisters = DutyRegisters \cup {a + 1 : a \in DutyRegisters}
  BY DEF PwmRegisters, DutyRegisters
<1>5. \A a \in DutyRegisters :
        a \in {8, 12, 44, 56, 64, 16, 20, 28, 32, 68, 40, 36, 60, 48, 52}
  BY <1>1, <1>2, <1>3 DEF DutyRegisters
<1>6. /\ DutyRegisters \subseteq Int
      /\ \A a \in DutyRegisters : a % 2 = 0
  BY <1>5
<1>7. /\ \A m \in Motors : MotorAddress[m] \in DutyRegisters
      /\ \A d \in Leds : LedAddress[d] \in DutyRegisters
      /\ \A d \in Pwms : PwmAddress[d] \in DutyRegisters
  BY Zenon DEF DutyRegisters
<1> QED
  BY <1>1, <1>4, <1>6, <1>7, Zenon

(* Where a command writes.                                                 *)
ChipOf(c) ==
    IF c.fn \in DutyFns THEN "pwm" ELSE IF c.fn = "DCmotorSetRotation" THEN "gpio" ELSE "step"
RegistersOf(c) ==
    IF c.fn \in DutyFns THEN {c.adr, c.adr + 1}
    ELSE IF c.fn = "DCmotorSetRotation" THEN {"olat"}
    ELSE IF c.fn = "StepperMotorControl" THEN {MCNTL}
    ELSE IF c.fn = "StepperMotorMode" THEN {PMA}
    ELSE IF c.fn = "StepperMotorSetStep" THEN {18, 19, 20, 21}
    ELSE {22, 23, 24, 25}

(* What a command is: one of a driver, with the registers it has.          *)
LEMMA CommandCases ==
  ASSUME NEW c \in Commands
  PROVE  \/ c.fn = "DCmotorSetSpeed" /\ c.adr \in DutyRegisters /\ c.cmd \in 0 .. 100
         \/ c.fn \in {"setLedPower", "setServoPos"} /\ c.adr \in DutyRegisters /\ c.cmd \in Int
         \/ c.fn = "DCmotorSetRotation" /\ c.adr \in {8, 12} /\ c.cmd \in {MCW, MCCW}
         \/ /\ c.fn \in StepperCalls /\ c.adr = 0 /\ c.cmd \in Int
            /\ c.fn = "StepperMotorMode" => c.cmd \in {0, 1}
  BY DEF Commands, StepperCalls

(* A driver's transfers go to its own registers.                           *)
LEMMA TransfersOf ==
  ASSUME NEW c \in Commands, NEW latch, NEW b, IsBoard(b)
  PROVE  /\ ChipOf(c) \in DOMAIN b /\ RegistersOf(c) \subseteq DOMAIN b[ChipOf(c)]
         /\ DOMAIN Transfers(c, latch) \subseteq 1 .. 4
         /\ \A n \in DOMAIN Transfers(c, latch) :
              /\ Transfers(c, latch)[n].chip = ChipOf(c)
              /\ Transfers(c, latch)[n].reg \in RegistersOf(c)
<1>1. CASE c.fn \in DutyFns
  <2>1. c.adr \in DutyRegisters
    BY <1>1, CommandCases DEF DutyFns, StepperCalls
  <2>2. ChipOf(c) \in DOMAIN b /\ RegistersOf(c) \subseteq DOMAIN b[ChipOf(c)]
    BY <1>1, <2>1, Addresses DEF IsBoard, ChipOf, RegistersOf
  <2>3. PICK value : Transfers(c, latch) = Duty(c.adr, value)
    BY <1>1 DEF Transfers, DutyFns
  <2> QED
    BY <1>1, <2>2, <2>3 DEF Duty, Transfer, ChipOf, RegistersOf
<1>2. CASE c.fn = "DCmotorSetRotation"
  <2>1. PICK first, second : Transfers(c, latch) = Latches(first, second)
    BY <1>2 DEF Transfers, Rotation
  <2>2. ChipOf(c) = "gpio" /\ RegistersOf(c) = {"olat"}
    BY <1>2 DEF ChipOf, RegistersOf, DutyFns
  <2> QED
    BY <2>1, <2>2 DEF Latches, Transfer, IsBoard
<1>3. CASE c.fn \in StepperCalls
  <2>1. ChipOf(c) = "step"
    BY <1>3 DEF ChipOf, DutyFns, StepperCalls
  <2>2. StepperRegisters = {15, 26} \cup {18, 19, 20, 21} \cup {22, 23, 24, 25}
    BY DEF StepperRegisters, ToSet, StepCount, PulseWidth, PMA, MCNTL
  <2>3. RegistersOf(c) \subseteq StepperRegisters
    BY <1>3, <2>2 DEF RegistersOf, StepperCalls, DutyFns, PMA, MCNTL
  <2>4. CASE c.fn = "StepperMotorControl" \/ c.fn = "StepperMotorMode"
    <3>1. PICK reg, val : /\ Transfers(c, latch) = <<Transfer("step", reg, val)>>
                          /\ reg \in RegistersOf(c)
      BY <2>4 DEF Transfers, RegistersOf, DutyFns
    <3> QED
      BY <2>1, <2>3, <3>1 DEF Transfer, IsBoard
  <2>5. CASE c.fn = "StepperMotorSetStep"
    <3>1. Transfers(c, latch) = Words(StepCount, c.cmd) /\ RegistersOf(c) = {18, 19, 20, 21}
      BY <2>5 DEF Transfers, RegistersOf, DutyFns
    <3> QED
      BY <2>1, <2>3, <3>1 DEF Words, StepCount, Transfer, IsBoard
  <2>6. CASE c.fn = "StepperMotorPulseWidth"
    <3>1. Transfers(c, latch) = Words(PulseWidth, c.cmd) /\ RegistersOf(c) = {22, 23, 24, 25}
      BY <2>6 DEF Transfers, RegistersOf, DutyFns
    <3> QED
      BY <2>1, <2>3, <3>1 DEF Words, PulseWidth, Transfer, IsBoard
  <2> QED
    BY <1>3, <2>4, <2>5, <2>6 DEF StepperCalls
<1> QED
  BY <1>1, <1>2, <1>3, CommandCases DEF DutyFns

(* No other register changes; the chips keep theirs.                       *)
LEMMA DriveFrame ==
  ASSUME NEW c \in Commands, NEW b, IsBoard(b), NEW ok
  PROVE  /\ DOMAIN Drive(b, c, ok) = DOMAIN b
         /\ \A chip \in DOMAIN b : \A reg \in DOMAIN b[chip] :
              /\ DOMAIN Drive(b, c, ok)[chip] = DOMAIN b[chip]
              /\ chip # ChipOf(c) \/ reg \notin RegistersOf(c)
                   => Drive(b, c, ok)[chip][reg] = b[chip][reg]
<1>1. PICK latch, taken : Drive(b, c, ok) = Written(b, Transfers(c, latch), taken)
  BY DEF Drive
<1> DEFINE t == Transfers(c, latch)
<1>2. /\ DOMAIN t \subseteq 1 .. 4
      /\ \A n \in DOMAIN t : t[n].chip = ChipOf(c) /\ t[n].reg \in RegistersOf(c)
  BY TransfersOf
<1>3. ChipOf(c) \in DOMAIN b
  BY TransfersOf
<1> HIDE DEF t
<1>4. ASSUME NEW chip \in DOMAIN b, NEW reg \in DOMAIN b[chip]
      PROVE  /\ DOMAIN Written(b, t, taken) = DOMAIN b
             /\ DOMAIN Written(b, t, taken)[chip] = DOMAIN b[chip]
             /\ chip # ChipOf(c) \/ reg \notin RegistersOf(c)
                  => Written(b, t, taken)[chip][reg] = b[chip][reg]
  <2>1. \A n \in DOMAIN t : t[n].chip \in DOMAIN b
    BY <1>2, <1>3
  <2>2. chip # ChipOf(c) \/ reg \notin RegistersOf(c) =>
          \A n \in DOMAIN t : ~(taken[n] /\ t[n].chip = chip /\ t[n].reg = reg)
    BY <1>2
  <2> QED
    BY <1>2, <2>1, <2>2, WrittenAt
<1>5. "gpio" \in DOMAIN b /\ "olat" \in DOMAIN b["gpio"]
  BY DEF IsBoard
<1>6. DOMAIN Written(b, t, taken) = DOMAIN b
  BY <1>4, <1>5
<1> QED
  BY <1>1, <1>4, <1>6 DEF t

(* A duty that is written can be read.                                     *)
LEMMA DutyWritten ==
  ASSUME NEW b, IsBoard(b), NEW adr \in DutyRegisters, NEW value \in Nat, value <= 4095,
         NEW ok, ok[1], ok[2]
  PROVE  DutyAt(Written(b, Duty(adr, value), ok), adr) = value
<1> DEFINE t == Duty(adr, value)
           w == Written(b, t, ok)
<1>1. /\ DOMAIN t = 1 .. 2
      /\ t[1].chip = "pwm" /\ t[1].reg = adr /\ t[1].val = value % 256
      /\ t[2].chip = "pwm" /\ t[2].reg = adr + 1 /\ t[2].val = (value \div 256) % 16
  BY DEF Duty, Transfer
<1>2. /\ "pwm" \in DOMAIN b /\ adr \in DOMAIN b["pwm"] /\ adr + 1 \in DOMAIN b["pwm"]
      /\ adr \in Int
  BY Addresses DEF IsBoard
<1> HIDE DEF t
<1>3. \A n \in DOMAIN t : t[n].chip \in DOMAIN b
  BY <1>1, <1>2
<1>4. w["pwm"][adr] = value % 256
  BY <1>1, <1>2, <1>3, WrittenAt
<1>5. w["pwm"][adr + 1] = (value \div 256) % 16
  BY <1>1, <1>2, <1>3, WrittenAt
<1>6. (value % 256) + 256 * ((value \div 256) % 16) = value
  OBVIOUS
<1> HIDE DEF w
<1> QED
  BY <1>4, <1>5, <1>6 DEF DutyAt, w, t

(* The latch holds what was written last.                                  *)
LEMMA LatchesWritten ==
  ASSUME NEW b, IsBoard(b), NEW first, NEW second, NEW ok
  PROVE  /\ Written(b, Latches(first, second), ok).gpio.olat \in {b.gpio.olat, first, second}
         /\ ok[2] => Written(b, Latches(first, second), ok).gpio.olat = second
<1> DEFINE t == Latches(first, second)
           w == Written(b, t, ok)
<1>1. /\ DOMAIN t = 1 .. 2
      /\ t[1].chip = "gpio" /\ t[1].reg = "olat" /\ t[1].val = first
      /\ t[2].chip = "gpio" /\ t[2].reg = "olat" /\ t[2].val = second
  BY DEF Latches, Transfer
<1>2. "gpio" \in DOMAIN b /\ "olat" \in DOMAIN b["gpio"]
  BY DEF IsBoard
<1> HIDE DEF t
<1>3. \A n \in DOMAIN t : t[n].chip \in DOMAIN b
  BY <1>1, <1>2
<1>4. ok[2] => w["gpio"]["olat"] = second
  BY <1>1, <1>2, <1>3, WrittenAt
<1>5. ok[1] /\ ~ok[2] => w["gpio"]["olat"] = first
  BY <1>1, <1>2, <1>3, WrittenAt
<1>6. ~ok[1] /\ ~ok[2] => w["gpio"]["olat"] = b["gpio"]["olat"]
  BY <1>1, <1>2, <1>3, WrittenAt
<1> HIDE DEF w
<1> QED
  BY <1>4, <1>5, <1>6 DEF w, t

(* The two motors have bits of their own.                                  *)
LEMMA Bits ==
  /\ MotorAt(8) = 0 /\ MotorAt(12) = 1
  /\ DirectionBits(0) = {"cw0", "ccw0"} /\ DirectionBits(1) = {"cw1", "ccw1"}
  /\ \A direction \in {MCW, MCCW} :
       /\ Wanted(0, direction) \in {{"cw0"}, {"ccw0"}}
       /\ Wanted(1, direction) \in {{"cw1"}, {"ccw1"}}
<1>1. MotorAt(8) = 0 /\ MotorAt(12) = 1
  <2>1. DOMAIN MotorAddress = {0, 1} /\ MotorAddress[0] = 8 /\ MotorAddress[1] = 12
    BY Addresses DEF Motors
  <2>2. \A m \in DOMAIN MotorAddress : MotorAddress[m] = 8 <=> m = 0
    BY <2>1
  <2>3. \A m \in DOMAIN MotorAddress : MotorAddress[m] = 12 <=> m = 1
    BY <2>1
  <2> QED
    BY <2>1, <2>2, <2>3 DEF MotorAt
<1>2. DirectionBits(0) = {"cw0", "ccw0"} /\ DirectionBits(1) = {"cw1", "ccw1"}
  BY DEF DirectionBits, CW, CCW
<1>3. \A direction \in {MCW, MCCW} :
        /\ Wanted(0, direction) \in {{"cw0"}, {"ccw0"}}
        /\ Wanted(1, direction) \in {{"cw1"}, {"ccw1"}}
  BY DEF Wanted, CW, CCW, MCW, MCCW
<1> QED
  BY <1>1, <1>2, <1>3

(* What a rotation leaves in the latch, whichever transfers fail.          *)
LEMMA DriveRotation ==
  ASSUME NEW b, IsBoard(b), NEW c \in Commands, c.fn = "DCmotorSetRotation", NEW ok
  PROVE  LET m == MotorAt(c.adr)
             off == ReadLatch(b, ok[1]) \ DirectionBits(m)
         IN  Drive(b, c, ok).gpio.olat \in {b.gpio.olat, off, off \cup Wanted(m, c.cmd)}
<1> DEFINE m == MotorAt(c.adr)
           off == ReadLatch(b, ok[1]) \ DirectionBits(m)
<1>1. Drive(b, c, ok) = Written(b, Latches(off, off \cup Wanted(m, c.cmd)), Tail(ok))
  BY DEF Drive, Transfers, Rotation
<1> QED
  BY <1>1, LatchesWritten

(* A position of a servo is a pulse of 156 to 428 parts of 4096.           *)
LEMMA ServoDuties ==
  ASSUME NEW position \in Int
  PROVE  /\ ServoDuty(position) \in Nat /\ ServoDuty(position) <= 4095
         /\ position < 0 => ServoDuty(position) = 0
         /\ position >= 0 =>
              Near(100 * (ServoDuty(position) - 156), 272 * AtMost100(position), 100)
<1>1. CASE position < 0
  BY <1>1 DEF ServoDuty
<1>2. CASE position >= 0
  <2> DEFINE p == AtMost100(position)
  <2>1. p \in 0 .. 100
    BY <1>2 DEF AtMost100
  <2>2. ServoDuty(position) = 156 + (p * 272) \div 100
    BY <1>2 DEF ServoDuty
  <2> HIDE DEF p
  <2>3. (p * 272) \div 100 \in 0 .. 272 /\ Near(100 * ((p * 272) \div 100), 272 * p, 100)
    BY <2>1 DEF Near
  <2> QED
    BY <1>2, <2>2, <2>3 DEF Near, p
<1> QED
  BY <1>1, <1>2

(* The transfers of a call that does not read the latch.                   *)
Made(c) == Transfers(c, {})

LEMMA MadeOf ==
  ASSUME NEW c
  PROVE  /\ c.fn = "DCmotorSetSpeed" => Made(c) = Duty(c.adr, (4095 * c.cmd) \div 100)
         /\ c.fn = "setLedPower" => Made(c) = Duty(c.adr, 40 * AtMost100(c.cmd % 256))
         /\ c.fn = "setServoPos" => Made(c) = Duty(c.adr, ServoDuty(c.cmd))
         /\ c.fn = "DCmotorSetRotation" =>
              \E first, second : Made(c) = Latches(first, second)
         /\ c.fn = "StepperMotorControl" =>
              Made(c) = <<Transfer("step", MCNTL, c.cmd % 256)>>
         /\ c.fn = "StepperMotorMode" => Made(c) = <<Transfer("step", PMA, c.cmd % 256)>>
         /\ c.fn = "StepperMotorSetStep" => Made(c) = Words(StepCount, c.cmd)
         /\ c.fn = "StepperMotorPulseWidth" => Made(c) = Words(PulseWidth, c.cmd)
  BY DEF Made, Transfers, Rotation

(* How many transfers a call makes, and what they do to the board.         *)
LEMMA CallOf ==
  ASSUME NEW c, NEW b, NEW ok, c.fn # "DCmotorSetRotation"
  PROVE  Drive(b, c, ok) = Written(b, Made(c), ok)
  BY DEF Made, Drive

LEMMA CountOf ==
  ASSUME NEW c
  PROVE  TransferCount(c) = Len(Made(c)) + (IF c.fn = "DCmotorSetRotation" THEN 1 ELSE 0)
  BY DEF Made, TransferCount

LEMMA TransferCounts ==
  ASSUME NEW c \in Commands
  PROVE  TransferCount(c) =
           IF c.fn \in DutyFns THEN 2 ELSE IF c.fn = "DCmotorSetRotation" THEN 3
           ELSE IF c.fn \in {"StepperMotorControl", "StepperMotorMode"} THEN 1 ELSE 4
<1>0. TransferCount(c) = Len(Made(c)) + (IF c.fn = "DCmotorSetRotation" THEN 1 ELSE 0)
  BY CountOf, Zenon
<1>1. CASE c.fn \in DutyFns
  <2>1. PICK value : Made(c) = Duty(c.adr, value)
    BY <1>1, MadeOf DEF DutyFns
  <2>2. Len(Made(c)) = 2
    BY <2>1 DEF Duty
  <2> QED
    BY <1>0, <1>1, <2>2 DEF DutyFns
<1>2. CASE c.fn = "DCmotorSetRotation"
  <2>1. PICK first, second : Made(c) = Latches(first, second)
    BY <1>2, MadeOf
  <2>2. Len(Made(c)) = 2
    BY <2>1 DEF Latches
  <2> QED
    BY <1>0, <1>2, <2>2 DEF DutyFns
<1>3. CASE c.fn \in {"StepperMotorControl", "StepperMotorMode"}
  <2>1. PICK transfer : Made(c) = <<transfer>>
    BY <1>3, MadeOf
  <2>2. Len(Made(c)) = 1
    BY <2>1
  <2> QED
    BY <1>0, <1>3, <2>2 DEF DutyFns
<1>4. CASE c.fn \in {"StepperMotorSetStep", "StepperMotorPulseWidth"}
  <2>1. PICK regs \in {StepCount, PulseWidth} : Made(c) = Words(regs, c.cmd)
    BY <1>4, MadeOf
  <2>2. DOMAIN regs = 1 .. 4
    BY DEF StepCount, PulseWidth
  <2>3. Len(Words(regs, c.cmd)) = 4
    BY <2>2 DEF Words
  <2> QED
    BY <1>0, <1>4, <2>1, <2>3 DEF DutyFns
<1> QED
  BY <1>1, <1>2, <1>3, <1>4, CommandCases DEF DutyFns, StepperCalls

(* What a call leaves when its transfers succeed: a motor, a light, a      *)
(* PWM output or a servo.                                                  *)
LEMMA DutyShows ==
  ASSUME NEW b, IsBoard(b), NEW c \in Commands, c.fn \in DutyFns, NEW ok, ok[1], ok[2]
  PROVE  Shows(Drive(b, c, ok), c)
<1> DEFINE w == Drive(b, c, ok)
<1> SUFFICES Shows(w, c)
  OBVIOUS
<1>1. c.adr \in DutyRegisters /\ c.cmd \in Int /\ (c.fn = "DCmotorSetSpeed" => c.cmd \in 0 .. 100)
  BY CommandCases DEF StepperCalls, DutyFns
<1>2. ASSUME NEW value \in Nat, value <= 4095, Made(c) = Duty(c.adr, value)
      PROVE  DutyAt(w, c.adr) = value
  <2>1. w = Written(b, Duty(c.adr, value), ok)
    BY <1>2, CallOf DEF DutyFns
  <2>2. DutyAt(Written(b, Duty(c.adr, value), ok), c.adr) = value
    BY <1>1, <1>2, DutyWritten
  <2> QED
    BY <2>1, <2>2
<1> HIDE DEF w
<1>3. CASE c.fn = "DCmotorSetSpeed"
  <2>1. PICK duty \in Nat :
          /\ duty <= 4095 /\ duty = (4095 * c.cmd) \div 100
          /\ Near(100 * duty, 4096 * c.cmd, 3 * 4096)
    BY <1>1, <1>3 DEF Near
  <2>2. Made(c) = Duty(c.adr, duty)
    BY <1>3, <2>1, MadeOf
  <2>3. DutyAt(w, c.adr) = duty
    BY <1>2, <2>1, <2>2
  <2>4. AtMost100(c.cmd % 256) = c.cmd
    BY <1>1, <1>3 DEF AtMost100
  <2> QED
    BY <1>3, <2>1, <2>3, <2>4 DEF Shows
<1>4. CASE c.fn = "setLedPower"
  <2> DEFINE p == AtMost100(c.cmd % 256)
  <2>1. p \in 0 .. 100
    BY <1>1 DEF AtMost100
  <2>2. Made(c) = Duty(c.adr, 40 * p)
    BY <1>4, MadeOf
  <2> HIDE DEF p
  <2>3. DutyAt(w, c.adr) = 40 * p
    BY <1>2, <2>1, <2>2
  <2>4. Near(100 * DutyAt(w, c.adr), 4096 * p, 3 * 4096)
    BY <2>1, <2>3 DEF Near
  <2> QED
    BY <1>4, <2>4 DEF Shows, p
<1>5. CASE c.fn = "setServoPos"
  <2>1. /\ ServoDuty(c.cmd) \in Nat /\ ServoDuty(c.cmd) <= 4095
        /\ c.cmd < 0 => ServoDuty(c.cmd) = 0
        /\ c.cmd >= 0 => Near(100 * (ServoDuty(c.cmd) - 156), 272 * AtMost100(c.cmd), 100)
    BY <1>1, ServoDuties
  <2>2. PICK duty \in Nat : duty <= 4095 /\ duty = ServoDuty(c.cmd)
    BY <2>1
  <2>3. Made(c) = Duty(c.adr, duty)
    BY <1>5, <2>2, MadeOf
  <2>4. DutyAt(w, c.adr) = duty
    BY <1>2, <2>2, <2>3
  <2> QED
    BY <1>1, <1>5, <2>1, <2>2, <2>4 DEF Shows
<1> QED
  BY <1>3, <1>4, <1>5 DEF DutyFns

(* A motor's direction.                                                    *)
LEMMA RotationShows ==
  ASSUME NEW b, IsBoard(b), NEW c \in Commands, c.fn = "DCmotorSetRotation",
         NEW ok, ok[2]
  PROVE  Shows(Written(b, Rotation(c.adr, c.cmd, b.gpio.olat), ok), c)
<1> DEFINE m == MotorAt(c.adr)
           off == b.gpio.olat \ DirectionBits(m)
           all == off \cup Wanted(m, c.cmd)
           w == Written(b, Rotation(c.adr, c.cmd, b.gpio.olat), ok)
<1> SUFFICES Shows(w, c)
  OBVIOUS
<1>1. w = Written(b, Latches(off, all), ok)
  BY DEF Rotation
<1>2. c.adr \in {8, 12} /\ c.cmd \in {MCW, MCCW}
  BY CommandCases DEF StepperCalls
<1>3. Wanted(m, c.cmd) \subseteq DirectionBits(m)
  BY <1>2, Bits
<1> HIDE DEF w, off, all
<1>4. w.gpio.olat = all
  BY <1>1, LatchesWritten
<1>5. w.gpio.olat \cap DirectionBits(m) = Wanted(m, c.cmd)
  BY <1>3, <1>4 DEF all, off
<1> QED
  BY <1>5 DEF Shows

(* The two bytes of a 16-bit number.                                       *)
LEMMA TwoBytes ==
  ASSUME NEW x \in Int
  PROVE  (x % 256) + 256 * ((x \div 256) % 256) = x % 65536
<1>1. PICK d \in Int, r \in Int :
        0 <= r /\ r < 256 /\ x = 256 * d + r /\ x \div 256 = d /\ x % 256 = r
  OBVIOUS
<1>2. PICK e \in Int, s \in Int : 0 <= s /\ s < 256 /\ d = 256 * e + s /\ d % 256 = s
  OBVIOUS
<1>3. x = 65536 * e + (256 * s + r) /\ 0 <= 256 * s + r /\ 256 * s + r < 65536
  BY <1>1, <1>2
<1>4. x % 65536 = 256 * s + r
  BY <1>3
<1> QED
  BY <1>1, <1>2, <1>4

(* A number of steps or a pulse width that is written can be read.         *)
LEMMA WordsWritten ==
  ASSUME NEW b, IsBoard(b), NEW x \in Int, NEW regs, regs \in {StepCount, PulseWidth},
         NEW ok, ok[1], ok[2]
  PROVE  WordAt(Written(b, Words(regs, x), ok), regs) = x % 65536
<1> DEFINE t == Words(regs, x)
           w == Written(b, t, ok)
<1>1. /\ DOMAIN t = 1 .. 4
      /\ \A n \in 1 .. 4 : t[n].chip = "step"
      /\ t[1].reg = regs[1] /\ t[2].reg = regs[2] /\ t[3].reg = regs[3] /\ t[4].reg = regs[4]
      /\ t[1].val = x % 256 /\ t[2].val = (x \div 256) % 256
  BY DEF Words, Transfer, StepCount, PulseWidth
<1>2. "step" \in DOMAIN b /\ \A r \in {18, 19, 22, 23} : r \in DOMAIN b["step"]
  BY DEF IsBoard, StepperRegisters, ToSet, StepCount, PulseWidth, PMA, MCNTL
<1>3. PICK r, s : /\ r = regs[1] /\ s = regs[2] /\ r # s
                  /\ r \notin {regs[3], regs[4]} /\ s \notin {regs[3], regs[4]}
                  /\ r \in DOMAIN b["step"] /\ s \in DOMAIN b["step"]
  BY <1>2 DEF StepCount, PulseWidth
<1> HIDE DEF t
<1>4. \A n \in DOMAIN t : t[n].chip \in DOMAIN b
  BY <1>1, <1>2
<1>5. w["step"][r] = t[1].val
  BY <1>1, <1>2, <1>3, <1>4, WrittenAt
<1>6. w["step"][s] = t[2].val
  BY <1>1, <1>2, <1>3, <1>4, WrittenAt
<1> HIDE DEF w
<1> QED
  BY <1>1, <1>3, <1>5, <1>6, TwoBytes DEF WordAt, w, t

(* The stepper.                                                            *)
LEMMA StepperShows ==
  ASSUME NEW b, IsBoard(b), NEW c \in Commands, c.fn \in StepperCalls,
         NEW ok, ok[1], c.fn \in {"StepperMotorSetStep", "StepperMotorPulseWidth"} => ok[2]
  PROVE  Shows(Drive(b, c, ok), c)
<1> DEFINE w == Drive(b, c, ok)
           t == Made(c)
<1> SUFFICES Shows(w, c)
  OBVIOUS
<1>1. w = Written(b, t, ok) /\ c.cmd \in Int
  BY CallOf, CommandCases DEF StepperCalls
<1>2. "step" \in DOMAIN b /\ \A r \in {15, 26} : r \in DOMAIN b["step"]
  BY DEF IsBoard, StepperRegisters, ToSet, StepCount, PulseWidth, PMA, MCNTL
<1>3. ASSUME NEW reg, t = <<Transfer("step", reg, c.cmd % 256)>>, reg \in {15, 26}
      PROVE  w["step"][reg] = c.cmd % 256
  <2>1. /\ DOMAIN t = {1} /\ t[1].chip = "step" /\ t[1].reg = reg
        /\ t[1].val = c.cmd % 256
    BY <1>3 DEF Transfer
  <2> HIDE DEF w, t
  <2> QED
    BY <1>1, <1>2, <1>3, <2>1, WrittenAt
<1> HIDE DEF w
<1>4. CASE c.fn = "StepperMotorControl"
  <2>1. w["step"][26] = c.cmd % 256
    BY <1>3, <1>4, MadeOf DEF MCNTL
  <2>2. (c.cmd % 256) % 128 = c.cmd % 128
    BY <1>1
  <2> QED
    BY <1>4, <2>1, <2>2 DEF Shows, MCNTL, Start
<1>5. CASE c.fn = "StepperMotorMode"
  <2>1. w["step"][15] = c.cmd % 256
    BY <1>3, <1>5, MadeOf DEF PMA
  <2>2. c.cmd \in {0, 1}
    BY <1>5, CommandCases DEF StepperCalls
  <2> QED
    BY <1>5, <2>1, <2>2 DEF Shows, PMA
<1>6. CASE c.fn = "StepperMotorSetStep"
  <2>1. w = Written(b, Words(StepCount, c.cmd), ok) /\ ok[1] /\ ok[2]
    BY <1>1, <1>6, MadeOf
  <2>2. WordAt(w, StepCount) = c.cmd % 65536
    BY <1>1, <2>1, WordsWritten
  <2> QED
    BY <1>6, <2>2 DEF Shows
<1>7. CASE c.fn = "StepperMotorPulseWidth"
  <2>1. w = Written(b, Words(PulseWidth, c.cmd), ok) /\ ok[1] /\ ok[2]
    BY <1>1, <1>7, MadeOf
  <2>2. WordAt(w, PulseWidth) = c.cmd % 65536
    BY <1>1, <2>1, WordsWritten
  <2> QED
    BY <1>7, <2>2 DEF Shows
<1> QED
  BY <1>4, <1>5, <1>6, <1>7 DEF StepperCalls

(* A call whose transfers all succeed does what it says.                   *)
LEMMA DriveShows ==
  ASSUME NEW b, IsBoard(b), NEW c \in Commands,
         NEW ok, ok = [i \in 1 .. TransferCount(c) |-> TRUE]
  PROVE  Shows(Drive(b, c, ok), c)
<1>1. CASE c.fn \in DutyFns
  <2>1. ok[1] /\ ok[2]
    BY <1>1, TransferCounts
  <2> QED
    BY <1>1, <2>1, DutyShows
<1>2. CASE c.fn = "DCmotorSetRotation"
  <2>1. TransferCount(c) = 3
    BY <1>2, TransferCounts DEF DutyFns
  <2>2. ok[1] /\ Tail(ok)[2]
    BY <2>1
  <2>3. PICK taken : taken = Tail(ok)
    OBVIOUS
  <2>4. taken[2]
    BY <2>2, <2>3
  <2>5. Drive(b, c, ok) = Written(b, Rotation(c.adr, c.cmd, b.gpio.olat), taken)
    <3>1. Drive(b, c, ok) = Written(b, Transfers(c, ReadLatch(b, ok[1])), Tail(ok))
      BY <1>2 DEF Drive
    <3>2. ReadLatch(b, ok[1]) = b.gpio.olat
      BY <2>2 DEF ReadLatch
    <3>3. Transfers(c, b.gpio.olat) = Rotation(c.adr, c.cmd, b.gpio.olat)
      BY <1>2 DEF Transfers
    <3> QED
      BY <2>3, <3>1, <3>2, <3>3, Zenon
  <2> QED
    BY <1>2, <2>4, <2>5, RotationShows
<1>3. CASE c.fn \in StepperCalls
  <2>1. ok[1] /\ (c.fn \in {"StepperMotorSetStep", "StepperMotorPulseWidth"} => ok[2])
    BY <1>3, TransferCounts DEF DutyFns, StepperCalls
  <2> QED
    BY <1>3, <2>1, StepperShows
<1> QED
  BY <1>1, <1>2, <1>3, CommandCases DEF DutyFns

(* The registers a command is read back from.                              *)
LEMMA ShowsReads ==
  ASSUME NEW d \in Commands, NEW b, IsBoard(b), NEW w, DOMAIN w = DOMAIN b,
         \A reg \in RegistersOf(d) : w[ChipOf(d)][reg] = b[ChipOf(d)][reg],
         Shows(b, d)
  PROVE  Shows(w, d)
<1>1. CASE d.fn \in DutyFns
  <2>1. ChipOf(d) = "pwm" /\ RegistersOf(d) = {d.adr, d.adr + 1}
    BY <1>1 DEF ChipOf, RegistersOf
  <2>2. w["pwm"][d.adr] = b["pwm"][d.adr] /\ w["pwm"][d.adr + 1] = b["pwm"][d.adr + 1]
    BY <2>1
  <2>3. DutyAt(w, d.adr) = DutyAt(b, d.adr)
    BY <2>2 DEF DutyAt
  <2>4. PICK x : x = DutyAt(w, d.adr) /\ x = DutyAt(b, d.adr)
    BY <2>3
  <2>5. CASE d.fn = "DCmotorSetSpeed"
    BY <2>4, <2>5 DEF Shows
  <2>6. CASE d.fn = "setLedPower"
    BY <2>4, <2>6 DEF Shows
  <2>7. CASE d.fn = "setServoPos"
    BY <2>4, <2>7 DEF Shows
  <2> QED
    BY <1>1, <2>5, <2>6, <2>7 DEF DutyFns
<1>2. CASE d.fn = "DCmotorSetRotation"
  <2>1. ChipOf(d) = "gpio" /\ RegistersOf(d) = {"olat"}
    BY <1>2 DEF ChipOf, RegistersOf, DutyFns
  <2>2. w.gpio.olat = b.gpio.olat
    BY <2>1
  <2> QED
    BY <1>2, <2>2 DEF Shows
<1>3. CASE d.fn \in StepperCalls
  <2>1. ChipOf(d) = "step"
    BY <1>3 DEF ChipOf, DutyFns, StepperCalls
  <2>2. d.fn = "StepperMotorControl" => w.step[MCNTL] = b.step[MCNTL]
    BY <2>1 DEF RegistersOf, DutyFns
  <2>3. d.fn = "StepperMotorMode" => w.step[PMA] = b.step[PMA]
    BY <2>1 DEF RegistersOf, DutyFns
  <2>4. d.fn = "StepperMotorSetStep" => WordAt(w, StepCount) = WordAt(b, StepCount)
    BY <2>1 DEF RegistersOf, DutyFns, WordAt, StepCount
  <2>5. d.fn = "StepperMotorPulseWidth" => WordAt(w, PulseWidth) = WordAt(b, PulseWidth)
    BY <2>1 DEF RegistersOf, DutyFns, WordAt, PulseWidth
  <2>6. CASE d.fn = "StepperMotorControl"
    BY <2>2, <2>6 DEF Shows
  <2>7. CASE d.fn = "StepperMotorMode"
    BY <2>3, <2>7 DEF Shows
  <2>8. CASE d.fn = "StepperMotorSetStep"
    BY <2>4, <2>8 DEF Shows
  <2>9. CASE d.fn = "StepperMotorPulseWidth"
    BY <2>5, <2>9 DEF Shows
  <2> QED
    BY <1>3, <2>6, <2>7, <2>8, <2>9 DEF StepperCalls
<1> QED
  BY <1>1, <1>2, <1>3, CommandCases DEF DutyFns

(* Commands for different channels have registers of their own, but for    *)
(* the rotations, which share the latch.                                   *)
LEMMA RegistersApart ==
  ASSUME NEW c \in Commands, NEW d \in Commands, Channel(c) # Channel(d),
         c.fn # "DCmotorSetRotation" \/ d.fn # "DCmotorSetRotation"
  PROVE  ChipOf(c) # ChipOf(d) \/ RegistersOf(c) \cap RegistersOf(d) = {}
<1>1. CASE c.fn \in DutyFns /\ d.fn \in DutyFns
  <2>1. c.adr \in DutyRegisters /\ d.adr \in DutyRegisters
    BY <1>1, CommandCases DEF DutyFns, StepperCalls
  <2>2. c.adr # d.adr
    BY <1>1 DEF Channel, DutyFns
  <2> QED
    BY <1>1, <2>1, <2>2, Addresses DEF RegistersOf
<1>2. CASE c.fn \in StepperCalls /\ d.fn \in StepperCalls
  <2>1. c.fn # d.fn
    BY <1>2, CommandCases DEF Channel, StepperCalls, DutyFns
  <2> QED
    BY <1>2, <2>1 DEF RegistersOf, StepperCalls, DutyFns, MCNTL, PMA
<1> QED
  BY <1>1, <1>2, CommandCases DEF ChipOf, DutyFns, StepperCalls

(* What other channels show is kept, unless the latch could not be read.   *)
LEMMA ShowsKept ==
  ASSUME NEW b, IsBoard(b), NEW c \in Commands, NEW d \in Commands,
         Channel(c) # Channel(d), NEW ok,
         c.fn = "DCmotorSetRotation" /\ d.fn = "DCmotorSetRotation" => ok[1],
         Shows(b, d)
  PROVE  Shows(Drive(b, c, ok), d)
<1> DEFINE w == Drive(b, c, ok)
<1>1. CASE c.fn # "DCmotorSetRotation" \/ d.fn # "DCmotorSetRotation"
  <2>1. ChipOf(d) \in DOMAIN b /\ RegistersOf(d) \subseteq DOMAIN b[ChipOf(d)]
    BY TransfersOf
  <2>2. \A reg \in RegistersOf(d) : w[ChipOf(d)][reg] = b[ChipOf(d)][reg]
    BY <1>1, <2>1, RegistersApart, DriveFrame
  <2>3. DOMAIN w = DOMAIN b
    BY DriveFrame
  <2> HIDE DEF w
  <2>4. Shows(w, d)
    BY <2>2, <2>3, ShowsReads
  <2> QED
    BY <2>4 DEF w
<1>2. CASE c.fn = "DCmotorSetRotation" /\ d.fn = "DCmotorSetRotation"
  <2> DEFINE m == MotorAt(c.adr)
             k == MotorAt(d.adr)
             off == b.gpio.olat \ DirectionBits(m)
  <2>1. /\ c.adr \in {8, 12} /\ d.adr \in {8, 12} /\ c.adr # d.adr
        /\ c.cmd \in {MCW, MCCW}
    BY <1>2, CommandCases DEF Channel, StepperCalls
  <2>2. ReadLatch(b, ok[1]) = b.gpio.olat
    BY <1>2 DEF ReadLatch
  <2>3. w.gpio.olat \in {b.gpio.olat, off, off \cup Wanted(m, c.cmd)}
    BY <1>2, <2>2, DriveRotation
  <2>4. /\ DirectionBits(m) \cap DirectionBits(k) = {}
        /\ Wanted(m, c.cmd) \subseteq DirectionBits(m)
    BY <2>1, Bits
  <2>5. b.gpio.olat \cap DirectionBits(k) = Wanted(k, d.cmd)
    BY <1>2 DEF Shows
  <2> HIDE DEF w, m, k
  <2>6. w.gpio.olat \cap DirectionBits(k) = Wanted(k, d.cmd)
    BY <2>3, <2>4, <2>5
  <2>7. Shows(w, d)
    BY <1>2, <2>6 DEF Shows, k
  <2> QED
    BY <2>7 DEF w
<1> QED
  BY <1>1, <1>2

(* The chips stay what they are, and no bridge is shorted.                 *)
Bridges(b) == \A m \in Motors : ~(DirectionBits(m) \subseteq b.gpio.olat)

LEMMA DriveKeeps ==
  ASSUME NEW b, IsBoard(b), Bridges(b), NEW c \in Commands, NEW ok
  PROVE  IsBoard(Drive(b, c, ok)) /\ Bridges(Drive(b, c, ok))
<1> DEFINE w == Drive(b, c, ok)
<1>1. DOMAIN w = DOMAIN b
  BY DriveFrame
<1>2. \A chip \in DOMAIN b : DOMAIN b[chip] # {} => DOMAIN w[chip] = DOMAIN b[chip]
  BY DriveFrame
<1>3. 8 \in PwmRegisters /\ MCNTL \in StepperRegisters
  BY Addresses DEF StepperRegisters
<1>4. Bridges(w)
  <2>1. CASE c.fn # "DCmotorSetRotation"
    <3>1. ChipOf(c) # "gpio"
      BY <2>1 DEF ChipOf
    <3>2. w["gpio"]["olat"] = b["gpio"]["olat"]
      BY <3>1, DriveFrame DEF IsBoard
    <3> HIDE DEF w
    <3> QED
      BY <3>2 DEF Bridges
  <2>2. CASE c.fn = "DCmotorSetRotation"
    <3> DEFINE m == MotorAt(c.adr)
               off == ReadLatch(b, ok[1]) \ DirectionBits(m)
    <3>1. w.gpio.olat \in {b.gpio.olat, off, off \cup Wanted(m, c.cmd)}
      BY <2>2, DriveRotation
    <3>2. c.adr \in {8, 12} /\ c.cmd \in {MCW, MCCW}
      BY <2>2, CommandCases DEF StepperCalls
    <3>3. m \in {0, 1} /\ off \subseteq b.gpio.olat \ DirectionBits(m)
      BY <3>2, Bits DEF ReadLatch
    <3>4. \A k \in {0, 1} : ~(DirectionBits(k) \subseteq b.gpio.olat)
      BY Addresses DEF Bridges
    <3>5. Wanted(m, c.cmd) \subseteq DirectionBits(m) /\ ~(DirectionBits(m) \subseteq Wanted(m, c.cmd))
      BY <3>2, Bits
    <3>6. \A k \in {0, 1} : k # m => DirectionBits(k) \cap DirectionBits(m) = {}
      BY <3>3, Bits
    <3> HIDE DEF w, m, off
    <3>7. \A k \in {0, 1} : ~(DirectionBits(k) \subseteq w.gpio.olat)
      BY <3>1, <3>3, <3>4, <3>5, <3>6
    <3> QED
      BY <3>7, Addresses DEF Bridges
  <2> QED
    BY <2>1, <2>2
<1>5. w["step"][MCNTL] \in Int
  <2>1. CASE c.fn # "StepperMotorControl"
    <3>1. ChipOf(c) # "step" \/ MCNTL \notin RegistersOf(c)
      BY <2>1, CommandCases DEF ChipOf, RegistersOf, MCNTL, PMA, StepperCalls, DutyFns
    <3> QED
      BY <1>3, <3>1, DriveFrame DEF IsBoard
  <2>2. CASE c.fn = "StepperMotorControl"
    <3> DEFINE t == <<Transfer("step", MCNTL, c.cmd % 256)>>
    <3>1. w = Written(b, t, ok) /\ c.cmd \in Int
      BY <2>2, MadeOf, CallOf, CommandCases DEF StepperCalls
    <3>2. /\ DOMAIN t = {1} /\ t[1].chip = "step" /\ t[1].reg = MCNTL
          /\ t[1].val = c.cmd % 256
      BY DEF Transfer
    <3>3. "step" \in DOMAIN b /\ MCNTL \in DOMAIN b["step"] /\ b["step"][MCNTL] \in Int
      BY <1>3 DEF IsBoard
    <3> HIDE DEF w, t
    <3>4. w["step"][MCNTL] \in {c.cmd % 256, b["step"][MCNTL]}
      BY <3>1, <3>2, <3>3, WrittenAt
    <3> QED
      BY <3>1, <3>3, <3>4
  <2> QED
    BY <2>1, <2>2
<1> HIDE DEF w
<1>6. IsBoard(w)
  BY <1>1, <1>2, <1>3, <1>5 DEF IsBoard
<1> QED
  BY <1>4, <1>6 DEF w

(* The stepper driver clears a bit that no command is about.               *)
LEMMA DoneKeeps ==
  ASSUME NEW b, IsBoard(b), Bridges(b)
  PROVE  /\ IsBoard(StepperDone(b)) /\ Bridges(StepperDone(b))
         /\ \A d \in Commands : Shows(b, d) => Shows(StepperDone(b), d)
<1> DEFINE w == StepperDone(b)
<1>1. /\ DOMAIN w = DOMAIN b /\ w.pwm = b.pwm /\ w.gpio = b.gpio
      /\ DOMAIN w.step = DOMAIN b.step
      /\ w.step[MCNTL] = b.step[MCNTL] - 128
      /\ \A r \in DOMAIN b.step : r # MCNTL => w.step[r] = b.step[r]
  BY DEF StepperDone, IsBoard, Start, StepperRegisters
<1>2. MCNTL \in DOMAIN b.step /\ b.step[MCNTL] \in Int
  BY DEF IsBoard, StepperRegisters
<1> HIDE DEF w
<1>3. IsBoard(w)
  BY <1>1, <1>2 DEF IsBoard
<1>4. Bridges(w)
  BY <1>1 DEF Bridges
<1>5. ASSUME NEW d \in Commands, Shows(b, d)
      PROVE  Shows(w, d)
  <2>1. CASE d.fn = "StepperMotorControl"
    <3>1. w.step[MCNTL] % 128 = b.step[MCNTL] % 128
      BY <1>1, <1>2
    <3> QED
      BY <1>5, <2>1, <3>1 DEF Shows, Start
  <2>2. CASE d.fn # "StepperMotorControl"
    <3>1. ChipOf(d) \in DOMAIN b /\ RegistersOf(d) \subseteq DOMAIN b[ChipOf(d)]
      BY TransfersOf
    <3>2. ChipOf(d) # "step" \/ MCNTL \notin RegistersOf(d)
      BY <2>2, CommandCases DEF ChipOf, RegistersOf, MCNTL, PMA, StepperCalls, DutyFns
    <3>3. \A reg \in RegistersOf(d) : w[ChipOf(d)][reg] = b[ChipOf(d)][reg]
      BY <1>1, <3>1, <3>2 DEF ChipOf
    <3> QED
      BY <1>1, <1>5, <3>3, ShowsReads
  <2> QED
    BY <2>1, <2>2
<1> QED
  BY <1>3, <1>4, <1>5 DEF w

------------------------------------------------------------------------------
(* The queue.                                                              *)

(* What was asked of a channel waits in the queue, with nothing for that   *)
(* channel after it; or nothing waits, and the board shows it.             *)
IsAsked(h, ch) ==
    /\ h.asked[ch] \in Commands /\ Channel(h.asked[ch]) = ch
    /\ \/ \E n \in 1 .. Len(h.queue) :
             /\ h.queue[n] = h.asked[ch]
             /\ \A k \in 1 .. Len(h.queue) : k > n => Channel(h.queue[k]) # ch
       \/ /\ \A n \in 1 .. Len(h.queue) : Channel(h.queue[n]) # ch
          /\ ch \in h.failed \/ Shows(h.board, h.asked[ch])

IsHw(h) ==
    /\ DOMAIN h = {"board", "queue", "room", "asked", "failed"}
    /\ IsBoard(h.board) /\ Bridges(h.board)
    /\ h.room \in Nat /\ h.queue \in Seq(Commands) /\ Len(h.queue) <= h.room
    /\ \A ch \in DOMAIN h.asked : IsAsked(h, ch)

(* Commands are accepted as long as there is room.                         *)
LEMMA QueuedAllKeeps ==
  ASSUME NEW h, IsHw(h), NEW commands \in Seq(Commands)
  PROVE  /\ IsHw(QueuedAll(h, commands))
         /\ QueuedAll(h, commands).board = h.board
         /\ QueuedAll(h, commands).room = h.room
<1> DEFINE free == h.room - Len(h.queue)
           taken == IF Len(commands) <= free THEN commands ELSE SubSeq(commands, 1, free)
           LastOn(ch) == Max({n \in DOMAIN taken : Channel(taken[n]) = ch})
           channels == {Channel(taken[n]) : n \in DOMAIN taken}
           new == [ch \in channels |-> taken[LastOn(ch)]]
           g == QueuedAll(h, commands)
<1>1. free \in Nat /\ h.queue \in Seq(Commands) /\ Len(h.queue) \in Nat
  BY DEF IsHw
<1>2. taken \in Seq(Commands) /\ Len(taken) <= free
  <2>1. CASE Len(commands) <= free
    BY <2>1
  <2>2. CASE ~(Len(commands) <= free)
    <3>1. SubSeq(commands, 1, free) \in Seq(Commands) /\ Len(SubSeq(commands, 1, free)) = free
      BY <1>1, <2>2
    <3> QED
      BY <2>2, <3>1
  <2> QED
    BY <2>1, <2>2
<1>3. /\ DOMAIN g = DOMAIN h
      /\ g.board = h.board /\ g.room = h.room /\ g.failed = h.failed
      /\ g.queue = h.queue \o taken
      /\ g.asked = Updated(h.asked, new)
  BY DEF QueuedAll, IsHw
<1> HIDE DEF taken, free, g
<1>4. /\ g.queue \in Seq(Commands) /\ Len(g.queue) = Len(h.queue) + Len(taken)
      /\ \A n \in 1 .. Len(h.queue) : g.queue[n] = h.queue[n]
      /\ \A n \in 1 .. Len(taken) : g.queue[Len(h.queue) + n] = taken[n]
      /\ Len(taken) \in Nat /\ DOMAIN taken = 1 .. Len(taken)
  BY <1>1, <1>2, <1>3
<1>5. Len(g.queue) <= g.room
  BY <1>1, <1>2, <1>3, <1>4 DEF free, IsHw
<1>6. ASSUME NEW ch \in channels
      PROVE  /\ LastOn(ch) \in 1 .. Len(taken) /\ Channel(taken[LastOn(ch)]) = ch
             /\ \A n \in 1 .. Len(taken) : n > LastOn(ch) => Channel(taken[n]) # ch
  <2> DEFINE S == {n \in DOMAIN taken : Channel(taken[n]) = ch}
  <2>1. S \subseteq 1 .. Len(taken) /\ S # {}
    BY <1>4, <1>6
  <2>2. Max(S) \in S /\ \A n \in S : n <= Max(S)
    BY <1>4, <2>1, MaxIsLast
  <2>3. \A n \in 1 .. Len(taken) : n > Max(S) => n \notin S
    <3> HIDE DEF S
    <3>1. PICK x \in S : x = Max(S) /\ \A n \in S : n <= x
      BY <2>2
    <3>2. x \in Nat /\ \A n \in S : n \in Nat
      BY <1>4, <2>1
    <3> QED
      BY <3>1, <3>2
  <2> QED
    BY <1>4, <2>1, <2>2, <2>3
<1>7. ASSUME NEW ch \in channels
      PROVE  IsAsked(g, ch)
  <2> DEFINE last == LastOn(ch)
             place == Len(h.queue) + last
  <2>1. g.asked[ch] = taken[last]
    BY <1>3, <1>7 DEF Updated
  <2>2. last \in 1 .. Len(taken) /\ Channel(taken[last]) = ch
    BY <1>6, <1>7
  <2>3. taken[last] \in Commands
    BY <1>2, <1>4, <2>2
  <2>4. \A n \in 1 .. Len(taken) : n > last => Channel(taken[n]) # ch
    BY <1>6, <1>7
  <2> HIDE DEF last
  <2>5. place \in 1 .. Len(g.queue) /\ g.queue[place] = g.asked[ch]
    <3>1. PICK a, b \in Nat : a = Len(h.queue) /\ b = Len(taken) /\ Len(g.queue) = a + b
      BY <1>1, <1>4
    <3>2. last \in 1 .. b
      BY <2>2, <3>1
    <3>3. a + last \in 1 .. (a + b)
      BY <3>2
    <3>4. g.queue[Len(h.queue) + last] = taken[last]
      BY <1>4, <2>2
    <3> QED
      BY <2>1, <3>1, <3>3, <3>4
  <2>6. ASSUME NEW k \in 1 .. Len(g.queue), k > place
        PROVE  Channel(g.queue[k]) # ch
    <3>1. k - Len(h.queue) \in 1 .. Len(taken) /\ k - Len(h.queue) > last
      <4>1. PICK a, b \in Nat : a = Len(h.queue) /\ b = Len(taken) /\ Len(g.queue) = a + b
        BY <1>1, <1>4
      <4>2. k \in 1 .. (a + b) /\ k > a + last /\ last \in 1 .. b
        BY <2>2, <2>6, <4>1
      <4>3. k - a \in 1 .. b /\ k - a > last
        BY <4>2
      <4> QED
        BY <4>1, <4>3
    <3>2. g.queue[Len(h.queue) + (k - Len(h.queue))] = taken[k - Len(h.queue)]
      BY <1>4, <3>1
    <3>3. g.queue[k] = taken[k - Len(h.queue)]
      BY <1>1, <3>2
    <3> QED
      BY <2>4, <3>1, <3>3
  <2> HIDE DEF place
  <2> QED
    BY <2>1, <2>2, <2>3, <2>5, <2>6 DEF IsAsked
<1>8. ASSUME NEW ch \in DOMAIN h.asked, ch \notin channels
      PROVE  IsAsked(g, ch)
  <2>1. g.asked[ch] = h.asked[ch]
    BY <1>3, <1>8 DEF Updated
  <2>2. IsAsked(h, ch)
    BY <1>8 DEF IsHw
  <2>3. \A n \in 1 .. Len(taken) : Channel(taken[n]) # ch
    BY <1>4, <1>8
  <2>4. \A k \in 1 .. Len(g.queue) :
          \/ k \in 1 .. Len(h.queue) /\ g.queue[k] = h.queue[k]
          \/ Channel(g.queue[k]) # ch
    <3>1. TAKE k \in 1 .. Len(g.queue)
    <3>2. CASE k <= Len(h.queue)
      BY <1>1, <1>4, <3>2
    <3>3. CASE ~(k <= Len(h.queue))
      <4>1. k - Len(h.queue) \in 1 .. Len(taken)
        BY <1>1, <1>4, <3>3
      <4>2. g.queue[Len(h.queue) + (k - Len(h.queue))] = taken[k - Len(h.queue)]
        BY <1>4, <4>1
      <4>3. g.queue[k] = taken[k - Len(h.queue)]
        BY <1>1, <4>2
      <4> QED
        BY <2>3, <4>1, <4>3
    <3> QED
      BY <3>2, <3>3
  <2>5. \A n \in 1 .. Len(h.queue) : n \in 1 .. Len(g.queue) /\ g.queue[n] = h.queue[n]
    BY <1>1, <1>4
  <2> QED
    BY <1>3, <2>1, <2>2, <2>4, <2>5 DEF IsAsked
<1>9. DOMAIN g.asked = DOMAIN h.asked \cup channels
  BY <1>3 DEF Updated
<1> HIDE DEF channels
<1>10. \A ch \in DOMAIN g.asked : IsAsked(g, ch)
  BY <1>7, <1>8, <1>9
<1> QED
  BY <1>3, <1>4, <1>5, <1>10 DEF IsHw, g

(* hwTask takes a command to the board.                                    *)
LEMMA ProcessKeeps ==
  ASSUME IsHw(hw), ProcessCommandQueue
  PROVE  IsHw(hw')
<1> DEFINE q == hw.queue
           c == Head(q)
           N == 1 .. TransferCount(c)
<1>1. /\ q \in Seq(Commands) /\ q # <<>> /\ c = q[1] /\ c \in Commands
      /\ Len(q) \in Nat /\ Len(q) >= 1
      /\ Tail(q) \in Seq(Commands) /\ Len(Tail(q)) = Len(q) - 1
      /\ \A n \in 1 .. Len(q) - 1 : Tail(q)[n] = q[n + 1]
  BY DEF IsHw, ProcessCommandQueue
<1>2. PICK bad \in SUBSET N :
        hw' = [hw EXCEPT
                 !.board = Drive(@, c, [i \in N |-> i \notin bad]),
                 !.queue = Tail(@),
                 !.failed =
                   IF bad = {} THEN @ \ {Channel(c)}
                   ELSE IF c.fn = "DCmotorSetRotation" /\ 1 \in bad
                        THEN @ \cup {<<c.fn, adr>> : adr \in ToSet(<<8, 12>>)}
                        ELSE @ \cup {Channel(c)}]
  BY DEF ProcessCommandQueue
<1>3. PICK ok : ok = [i \in N |-> i \notin bad]
  OBVIOUS
<1>4. /\ DOMAIN hw' = DOMAIN hw
      /\ hw'.board = Drive(hw.board, c, ok) /\ hw'.queue = Tail(q)
      /\ hw'.room = hw.room /\ hw'.asked = hw.asked
      /\ hw'.failed =
           IF bad = {} THEN hw.failed \ {Channel(c)}
           ELSE IF c.fn = "DCmotorSetRotation" /\ 1 \in bad
                THEN hw.failed \cup {<<c.fn, adr>> : adr \in ToSet(<<8, 12>>)}
                ELSE hw.failed \cup {Channel(c)}
  BY <1>2, <1>3 DEF IsHw
<1>5. IsBoard(hw'.board) /\ Bridges(hw'.board)
  BY <1>1, <1>4, DriveKeeps DEF IsHw
<1>6. ASSUME NEW ch \in DOMAIN hw.asked
      PROVE  IsAsked(hw, ch)'
  <2> DEFINE a == hw.asked[ch]
  <2>1. a \in Commands /\ Channel(a) = ch /\ IsAsked(hw, ch) /\ hw'.asked[ch] = a
    BY <1>4, <1>6 DEF IsHw, IsAsked
  <2> HIDE DEF a, q, c, N
  <2>2. ASSUME NEW n \in 1 .. Len(q), n # 1, q[n] = a,
               \A k \in 1 .. Len(q) : k > n => Channel(q[k]) # ch
        PROVE  IsAsked(hw, ch)'
    <3>1. n - 1 \in 1 .. Len(hw'.queue) /\ hw'.queue[n - 1] = a
      BY <1>1, <1>4, <2>2
    <3>2. \A k \in 1 .. Len(hw'.queue) : k > n - 1 => Channel(hw'.queue[k]) # ch
      BY <1>1, <1>4, <2>2
    <3> QED
      BY <2>1, <3>1, <3>2 DEF IsAsked
  <2>3. ASSUME \A n \in 1 .. Len(q) : n # 1 => Channel(q[n]) # ch,
               ch \in hw'.failed \/ Shows(hw'.board, a)
        PROVE  IsAsked(hw, ch)'
    <3>1. \A n \in 1 .. Len(hw'.queue) : Channel(hw'.queue[n]) # ch
      BY <1>1, <1>4, <2>3
    <3> QED
      BY <2>1, <2>3, <3>1 DEF IsAsked
  <2>4. CASE Channel(c) = ch /\ \A k \in 1 .. Len(q) : k > 1 => Channel(q[k]) # ch
    <3>1. a = c
      BY <1>1, <2>1, <2>4 DEF IsAsked, a, q
    <3>2. CASE bad = {}
      <4>1. ok = [i \in 1 .. TransferCount(c) |-> TRUE]
        BY <1>3, <3>2 DEF N
      <4>2. Shows(hw'.board, a)
        BY <1>1, <1>4, <3>1, <4>1, DriveShows DEF IsHw
      <4> QED
        BY <1>1, <2>3, <2>4, <4>2
    <3>3. CASE bad # {}
      <4>1. ch \in hw'.failed
        <5>1. CASE c.fn = "DCmotorSetRotation" /\ 1 \in bad
          <6>1. c.adr \in {8, 12} /\ ch = <<c.fn, c.adr>>
            BY <1>1, <2>4, <5>1, CommandCases DEF StepperCalls, Channel
          <6>2. 8 \in ToSet(<<8, 12>>) /\ 12 \in ToSet(<<8, 12>>)
            BY DEF ToSet
          <6> QED
            BY <1>4, <3>3, <5>1, <6>1, <6>2
        <5>2. CASE ~(c.fn = "DCmotorSetRotation" /\ 1 \in bad)
          BY <1>4, <2>4, <3>3, <5>2
        <5> QED
          BY <5>1, <5>2
      <4> QED
        BY <1>1, <2>3, <2>4, <4>1
    <3> QED
      BY <3>2, <3>3
  <2>5. CASE Channel(c) # ch /\ \A k \in 1 .. Len(q) : k > 1 => Channel(q[k]) # ch
    <3>1. ch \in hw.failed \/ Shows(hw.board, a)
      <4>1. \A k \in 1 .. Len(q) : Channel(q[k]) # ch
        BY <1>1, <2>5
      <4> QED
        BY <2>1, <4>1 DEF IsAsked, a, q
    <3>2. CASE ch \in hw.failed
      <4>1. ch \in hw'.failed
        BY <1>4, <2>5, <3>2
      <4> QED
        BY <1>1, <2>3, <2>5, <4>1
    <3>3. CASE Shows(hw.board, a)
      <4>1. CASE c.fn = "DCmotorSetRotation" /\ a.fn = "DCmotorSetRotation" /\ ~ok[1]
        <5>1. 1 \in bad
          <6>1. 1 \in N
            BY <1>1, <4>1, TransferCounts DEF N, DutyFns
          <6> QED
            BY <1>3, <4>1, <6>1
        <5>2. a.adr \in {8, 12} /\ ch = <<a.fn, a.adr>>
          BY <2>1, <4>1, CommandCases DEF StepperCalls, Channel
        <5>3. 8 \in ToSet(<<8, 12>>) /\ 12 \in ToSet(<<8, 12>>)
          BY DEF ToSet
        <5>4. ch \in hw'.failed
          BY <1>4, <4>1, <5>1, <5>2, <5>3
        <5> QED
          BY <1>1, <2>3, <2>5, <5>4
      <4>2. CASE ~(c.fn = "DCmotorSetRotation" /\ a.fn = "DCmotorSetRotation" /\ ~ok[1])
        <5>1. Shows(hw'.board, a)
          BY <1>1, <1>4, <2>1, <2>5, <3>3, <4>2, ShowsKept DEF IsHw
        <5> QED
          BY <1>1, <2>3, <2>5, <5>1
      <4> QED
        BY <4>1, <4>2
    <3> QED
      BY <3>1, <3>2, <3>3
  <2>6. CASE \E k \in 1 .. Len(q) : k > 1 /\ Channel(q[k]) = ch
    <3>1. PICK n \in 1 .. Len(q) :
            q[n] = a /\ \A k \in 1 .. Len(q) : k > n => Channel(q[k]) # ch
      BY <2>1, <2>6 DEF IsAsked, a, q
    <3>2. n # 1
      BY <1>1, <2>6, <3>1
    <3> QED
      BY <2>2, <3>1, <3>2
  <2> QED
    BY <2>4, <2>5, <2>6
<1> HIDE DEF q, c, N
<1>7. hw'.queue \in Seq(Commands) /\ Len(hw'.queue) <= hw'.room
  BY <1>1, <1>4 DEF IsHw, q
<1> QED
  BY <1>4, <1>5, <1>6, <1>7 DEF IsHw

------------------------------------------------------------------------------
(* The main loop and the timers.                                           *)

GoodOrders == {o \in Orders : NamesEachOnce(o)}

MainOK ==
    /\ script \in ScriptSet /\ given \in Nat
    /\ \/ main = Idle
       \/ /\ DOMAIN main = {"pc", "order", "k"} /\ main.pc = "start"
          /\ main.order \in GoodOrders
          /\ main.k \in Nat /\ 1 <= main.k /\ main.k <= Len(main.order.entries)

Percentages == -VelocityLimit .. VelocityLimit

(* What an entry of an order may say.                                      *)
LEMMA EntryOf ==
  ASSUME NEW o \in GoodOrders, NEW k \in DOMAIN o.entries
  PROVE  /\ Len(o.entries) \in Nat /\ DOMAIN o.entries = 1 .. Len(o.entries)
         /\ Len(o.entries) >= 1 /\ o.kind \in {"motor", "led", "pwm", "stepper"}
         /\ \A j \in DOMAIN o.entries : o.entries[j].id = o.entries[k].id => j = k
         /\ o.kind = "motor" =>
              /\ o.entries[k].id \in Motors /\ o.entries[k].velocity \in Percentages
              /\ o.entries[k].cm \in Int /\ o.entries[k].time \in Int
         /\ o.kind = "led" =>
              /\ o.entries[k].id \in Leds /\ o.entries[k].power \in Int
              /\ o.entries[k].count \in Int /\ o.servo = FALSE
         /\ o.kind = "pwm" =>
              /\ o.entries[k].id \in Pwms /\ o.entries[k].power \in Int
              /\ o.entries[k].count \in Int /\ o.servo \in BOOLEAN
         /\ o.kind = "stepper" => o.entries[k].velocity \in Int /\ o.entries[k].value \in Nat
<1>1. o \in Orders /\ NamesEachOnce(o)
  BY DEF GoodOrders
<1>2. \A j \in DOMAIN o.entries : o.entries[j].id = o.entries[k].id => j = k
  BY <1>1 DEF NamesEachOnce
<1>3. Servos \subseteq Pwms
  BY OutputsAssumption DEF Servos, Pwms
<1>4. \E S : o.entries \in Seq(S)
  BY <1>1 DEF Orders
<1>5. /\ Len(o.entries) \in Nat /\ DOMAIN o.entries = 1 .. Len(o.entries)
      /\ Len(o.entries) >= 1
  BY <1>4
<1>6. ASSUME NEW S, o.entries \in Seq(S)
      PROVE  o.entries[k] \in S
  BY <1>6
<1>7. ASSUME o.kind = "motor"
      PROVE  /\ o.entries[k].id \in Motors /\ o.entries[k].velocity \in Percentages
             /\ o.entries[k].cm \in Int /\ o.entries[k].time \in Int
  <2>1. o.entries \in Seq([id : Motors, velocity : Percentages, cm : Int, time : Int])
    BY <1>1, <1>7 DEF Orders, Percentages
  <2>2. o.entries[k] \in [id : Motors, velocity : Percentages, cm : Int, time : Int]
    BY <1>6, <2>1
  <2> QED
    BY <2>2
<1>8. ASSUME o.kind = "led"
      PROVE  /\ o.entries[k].id \in Leds /\ o.entries[k].power \in Int
             /\ o.entries[k].count \in Int /\ o.servo = FALSE
  <2>1. /\ o.entries \in Seq([id : Leds, state : STRING, power : -1 .. 127, count : Int])
        /\ o.servo = FALSE
    BY <1>1, <1>8 DEF Orders
  <2>2. o.entries[k] \in [id : Leds, state : STRING, power : -1 .. 127, count : Int]
    BY <1>6, <2>1
  <2>3. o.entries[k].power \in -1 .. 127
    BY <2>2
  <2>4. o.entries[k].power \in Int
    BY <2>3
  <2>5. o.entries[k].id \in Leds /\ o.entries[k].count \in Int
    BY <2>2
  <2> QED
    BY <2>1, <2>4, <2>5
<1>9. ASSUME o.kind = "pwm"
      PROVE  /\ o.entries[k].id \in Pwms /\ o.entries[k].power \in Int
             /\ o.entries[k].count \in Int /\ o.servo \in BOOLEAN
  <2>1. PICK S \in {Pwms, Servos} :
          o.entries \in Seq([id : S, state : STRING, power : -1 .. 127, count : Int])
    BY <1>1, <1>9 DEF Orders
  <2>2. o.entries[k] \in [id : S, state : STRING, power : -1 .. 127, count : Int]
    BY <1>6, <2>1
  <2>3. o.servo \in BOOLEAN
    BY <1>1, <1>9 DEF Orders
  <2>4. o.entries[k].power \in -1 .. 127
    BY <2>2
  <2>5. o.entries[k].power \in Int
    BY <2>4
  <2>6. o.entries[k].id \in Pwms /\ o.entries[k].count \in Int
    BY <1>3, <2>1, <2>2
  <2> QED
    BY <2>3, <2>5, <2>6
<1>10. ASSUME o.kind = "stepper"
       PROVE  o.entries[k].velocity \in Int /\ o.entries[k].value \in Nat
  <2>1. o.entries \in Seq([id : {0}, velocity : Int, value : Nat,
                           unit : {"step", "angle", "rotation", "time", "none"}])
    BY <1>1, <1>10 DEF Orders
  <2>2. o.entries[k] \in [id : {0}, velocity : Int, value : Nat,
                          unit : {"step", "angle", "rotation", "time", "none"}]
    BY <1>6, <2>1
  <2> QED
    BY <2>2
<1>11. o.kind \in {"motor", "led", "pwm", "stepper"}
  BY <1>1 DEF Orders
<1> QED
  BY <1>2, <1>5, <1>7, <1>8, <1>9, <1>10, <1>11

LEMMA MainInit == Init => MainOK
  BY ScriptsAssumption DEF Init, MainOK

LEMMA MainStep ==
  ASSUME MainOK, [Next]_vars
  PROVE  MainOK'
<1>1. CASE UNCHANGED vars
  BY <1>1 DEF vars, MainOK
<1>2. CASE /\ given < Len(script.orders)
           /\ LET o == script.orders[given + 1] IN Take(o) \/ Reset(o)
  <2> DEFINE o == script.orders[given + 1]
  <2>1. script' = script /\ given' = given + 1 /\ main = Idle
    BY <1>2 DEF Take, Reset
  <2>2. \/ o.kind # "reset" /\ main' = [pc |-> "start", order |-> o, k |-> 1]
        \/ main' = main
    BY <1>2 DEF Take, Reset
  <2>3. script.orders \in Seq({[kind |-> "reset"]} \cup GoodOrders)
    BY DEF MainOK, ScriptSet, GoodOrders
  <2>4. given + 1 \in 1 .. Len(script.orders) /\ given \in Nat
    BY <1>2, <2>3 DEF MainOK
  <2>5. o = [kind |-> "reset"] \/ o \in GoodOrders
    BY <2>3, <2>4
  <2>6. ASSUME o \in GoodOrders
        PROVE  Len(o.entries) \in Nat /\ 1 <= Len(o.entries)
    <3>1. o.entries # <<>>
      BY <2>6 DEF GoodOrders, NamesEachOnce
    <3>2. o \in Orders
      BY <2>6 DEF GoodOrders
    <3>3. \E S : o.entries \in Seq(S)
      BY <3>2 DEF Orders
    <3> QED
      BY <3>1, <3>3
  <2> HIDE DEF o
  <2>7. CASE o.kind # "reset" /\ main' = [pc |-> "start", order |-> o, k |-> 1]
    <3>1. o \in GoodOrders
      BY <2>5, <2>7
    <3> QED
      BY <2>1, <2>4, <2>6, <2>7, <3>1 DEF MainOK
  <2>8. CASE main' = main
    BY <2>1, <2>4, <2>8 DEF MainOK
  <2> QED
    BY <2>2, <2>7, <2>8
<1>3. CASE StartEntry
  <2>1. script' = script /\ given' = given /\ main # Idle /\ Advance
    BY <1>3 DEF StartEntry
  <2>2. CASE main.k < Len(main.order.entries)
    <3>1. main' = [main EXCEPT !.k = @ + 1]
      BY <2>1, <2>2 DEF Advance
    <3>2. Len(main.order.entries) \in Nat
      BY <2>1, EntryOf DEF MainOK
    <3> QED
      BY <2>1, <2>2, <3>1, <3>2 DEF MainOK
  <2>3. CASE ~(main.k < Len(main.order.entries))
    BY <2>1, <2>3 DEF Advance, MainOK
  <2> QED
    BY <2>2, <2>3
<1>4. ASSUME UNCHANGED <<main, script, given>>
      PROVE  MainOK'
  BY <1>4 DEF MainOK
<1>5. CASE CheckPower \/ Measure \/ Callback
  BY <1>4, <1>5 DEF CheckPower, Measure, Callback
<1>6. CASE HwCommand \/ HwStepper \/ Arrive
  BY <1>4, <1>6 DEF HwCommand, HwStepper, Arrive, Unread
<1>7. CASE \E i \in TimerSlots : Fire(i)
  BY <1>4, <1>7 DEF Fire
<1>8. CASE \E m \in Motors : HwPulses(m) \/ Wheel(m)
  BY <1>4, <1>8 DEF HwPulses, Wheel, Unread
<1> QED
  BY <1>1, <1>2, <1>3, <1>5, <1>6, <1>7, <1>8 DEF Next

(* A timer that is armed or calling back: one of a device there is, with a *)
(* callback for devices of its kind.                                       *)
IsTimer(slot) ==
    /\ slot.id \in Nat /\ slot.id > 0
    /\ \/ slot.type = 0 /\ slot.name \in Motors /\ slot.fn \in MotorFns
       \/ slot.type = 1 /\ slot.fn \in StepperFns
       \/ slot.type = 2 /\ slot.name \in Pwms /\ slot.fn \in {"blinkPwm", "blinkServo"}
       \/ slot.type = 3 /\ slot.name \in Leds /\ slot.fn = "blinkLed"

Timer(id, name, type, fn) == [id |-> id, name |-> name, type |-> type, fn |-> fn]

IsTable(tab) ==
    /\ DOMAIN tab = TimerSlots
    /\ \A i \in TimerSlots : tab[i].id \in Int /\ (tab[i].id > 0 => IsTimer(tab[i]))

TimerOK == IsTable(timer) /\ (fired = NoCallback \/ IsTimer(fired))

(* Among some numbers one is the first.                                    *)
LEMMA MinIsFirst ==
  ASSUME NEW S \in SUBSET Nat, S # {}
  PROVE  Min(S) \in S
<1>1. PICK x \in S : \A y \in S : ~(<<y, x>> \in LessOnNat)
  BY LessOnNatWellFounded, WFMin
<1>2. \A y \in S : x <= y
  <2>1. TAKE y \in S
  <2>2. x \in Nat /\ y \in Nat
    OBVIOUS
  <2>3. ~(y < x)
    BY <1>1, <2>2 DEF LessOnNat
  <2> QED
    BY <2>2, <2>3
<1> QED
  BY <1>1, <1>2 DEF Min

(* setTimer takes one slot, free or the device's own, or none.             *)
LEMMA SetTimerDoes ==
  ASSUME NEW tab, NEW id, NEW name, NEW type, NEW fn, NEW set,
         set = SetTimer(tab, id, name, type, fn)
  PROVE  \/ set.result = 0 /\ set.table = tab
         \/ /\ set.result # 0
            /\ \E i \in TimerSlots :
                 /\ Matches(tab[i], name, type) \/ tab[i].id <= 0
                 /\ set.table = [tab EXCEPT ![i] = [id   |-> id,   name |-> name,
                                                    type |-> type, fn   |-> fn]]
<1> DEFINE stops == SetStops(tab, name, type)
           i == Min(stops)
<1>1. CASE stops = {}
  BY <1>1 DEF SetTimer
<1>2. CASE stops # {}
  <2>1. stops \subseteq TimerSlots /\ TimerSlots \subseteq Nat
    BY NTimerAssumption DEF SetStops, TimerSlots
  <2>2. i \in stops
    BY <1>2, <2>1, MinIsFirst
  <2>3. i \in TimerSlots /\ (Matches(tab[i], name, type) \/ tab[i].id <= 0)
    BY <2>2 DEF SetStops
  <2>4. /\ set.table = [tab EXCEPT ![i] = [id   |-> id,   name |-> name,
                                           type |-> type, fn   |-> fn]]
        /\ set.result = IF Matches(tab[i], name, type) /\ tab[i].id # 0 THEN tab[i].id ELSE 1
    BY <1>2 DEF SetTimer
  <2> HIDE DEF i
  <2>5. set.result # 0
    BY <2>4
  <2> QED
    BY <2>3, <2>4, <2>5
<1> QED
  BY <1>1, <1>2

(* The slot that is taken carries the new timer, the others keep theirs.   *)
LEMMA SetTimerKeeps ==
  ASSUME NEW tab, IsTable(tab), NEW id, NEW name, NEW type, NEW fn,
         IsTimer(Timer(id, name, type, fn)),
         NEW set, set = SetTimer(tab, id, name, type, fn)
  PROVE  /\ IsTable(set.table)
         /\ set.result = 0 \/ \E i \in TimerSlots : set.table[i] = Timer(id, name, type, fn)
         /\ \A i \in TimerSlots :
              tab[i].id > 0 /\ ~Matches(tab[i], name, type) => set.table[i] = tab[i]
<1>1. CASE set.result = 0 /\ set.table = tab
  BY <1>1
<1>2. CASE \E i \in TimerSlots :
             /\ Matches(tab[i], name, type) \/ tab[i].id <= 0
             /\ set.table = [tab EXCEPT ![i] = Timer(id, name, type, fn)]
  <2>1. PICK i \in TimerSlots :
             /\ Matches(tab[i], name, type) \/ tab[i].id <= 0
             /\ set.table = [tab EXCEPT ![i] = Timer(id, name, type, fn)]
    BY <1>2
  <2>2. Timer(id, name, type, fn).id \in Int
    BY DEF IsTimer
  <2>3. /\ DOMAIN set.table = TimerSlots /\ set.table[i] = Timer(id, name, type, fn)
        /\ \A j \in TimerSlots : j # i => set.table[j] = tab[j]
    BY <2>1 DEF IsTable
  <2>4. IsTable(set.table)
    BY <2>2, <2>3 DEF IsTable
  <2>5. tab[i].id \in Int
    BY DEF IsTable
  <2>6. \A j \in TimerSlots :
          tab[j].id > 0 /\ ~Matches(tab[j], name, type) => set.table[j] = tab[j]
    BY <2>1, <2>3, <2>5
  <2> QED
    BY <2>3, <2>4, <2>6
<1> QED
  BY <1>1, <1>2, SetTimerDoes DEF Timer

LEMMA TimerInit == Init => TimerOK
  BY DEF Init, TimerOK, EmptyTimerTable, ZeroSlot, IsTable

LEMMA StartSets ==
  ASSUME MainOK, DOMAIN output = {"led", "pwm"}, StartEntry
  PROVE  /\ fired' = fired
         /\ \/ timer' = timer
            \/ \E name, type, fn : /\ IsTimer(Timer(Task, name, type, fn))
                                   /\ timer' = SetTimer(timer, Task, name, type, fn).table
<1> DEFINE o == main.order
           e == o.entries[main.k]
<1>1. o \in GoodOrders /\ main.k \in Nat /\ 1 <= main.k /\ main.k <= Len(o.entries)
  BY DEF StartEntry, MainOK
<1>2. \E S : o.entries \in Seq(S)
  BY <1>1 DEF GoodOrders, Orders
<1>3. main.k \in DOMAIN o.entries
  BY <1>1, <1>2
<1>4. Task \in Nat /\ Task > 0
  BY DEF Task
<1>5. CASE o.kind = "motor" /\ StartMotor(e.id, e.time, Task)
  <2>1. e.id \in Motors
    BY <1>1, <1>3, <1>5, EntryOf
  <2>2. PICK fn \in MotorFns : timer' = SetTimer(timer, Task, e.id, 0, fn).table
    BY <1>5 DEF StartMotor, MotorFns
  <2>3. IsTimer(Timer(Task, e.id, 0, fn))
    BY <1>4, <2>1, <2>2 DEF IsTimer, Timer
  <2> QED
    BY <2>2, <2>3 DEF StartEntry
<1>6. CASE o.kind \in DOMAIN output /\ StartOutput(o.kind, o.servo, e.id, Task)
           /\ o.kind \in {"led", "pwm"}
  <2> DEFINE fn == IF o.servo THEN "blinkServo"
                   ELSE IF o.kind = "led" THEN "blinkLed" ELSE "blinkPwm"
  <2>1. \/ timer' = timer
        \/ timer' = SetTimer(timer, Task, e.id, TimerType(o.kind), fn).table
    BY <1>6 DEF StartOutput
  <2>2. /\ o.kind = "led" => e.id \in Leds /\ o.servo = FALSE
        /\ o.kind = "pwm" => e.id \in Pwms
    BY <1>1, <1>3, EntryOf
  <2>3. IsTimer(Timer(Task, e.id, TimerType(o.kind), fn))
    BY <1>4, <1>6, <2>2 DEF IsTimer, Timer, TimerType
  <2> QED
    BY <2>1, <2>3 DEF StartEntry
<1>7. CASE o.kind = "stepper" /\ StartStepper(e, Task)
  <2>1. PICK fn \in StepperFns : timer' = SetTimer(timer, Task, 0, 1, fn).table
    BY <1>7 DEF StartStepper, StepperFns
  <2>2. IsTimer(Timer(Task, 0, 1, fn))
    BY <1>4, <2>1 DEF IsTimer, Timer
  <2> QED
    BY <2>1, <2>2 DEF StartEntry
<1>8. o.kind \in {"motor", "led", "pwm", "stepper"}
  BY <1>1, <1>3, EntryOf
<1>9. \/ o.kind = "motor" /\ StartMotor(e.id, e.time, Task)
      \/ o.kind \in DOMAIN output /\ StartOutput(o.kind, o.servo, e.id, Task)
      \/ o.kind = "stepper" /\ StartStepper(e, Task)
  BY DEF StartEntry
<1> QED
  BY <1>5, <1>6, <1>7, <1>8, <1>9

(* The callback tells the kind of the timer.                               *)
LEMMA FiredIs ==
  ASSUME TimerOK, fired # NoCallback
  PROVE  /\ fired.id \in Nat /\ fired.id > 0
         /\ fired.fn \in MotorFns => fired.type = 0 /\ fired.name \in Motors
         /\ fired.fn \in StepperFns => fired.type = 1
         /\ fired.fn = "blinkLed" => fired.type = 3 /\ fired.name \in Leds
         /\ fired.fn \in {"blinkPwm", "blinkServo"} => fired.type = 2 /\ fired.name \in Pwms
         /\ fired.fn \in MotorFns \cup StepperFns \cup BlinkFns
  BY DEF TimerOK, IsTimer, MotorFns, StepperFns, BlinkFns

LEMMA CallbackSets ==
  ASSUME TimerOK, Callback
  PROVE  /\ fired' = NoCallback
         /\ \/ timer' = timer
            \/ \E name, type, fn :
                 /\ IsTimer(Timer(fired.id, name, type, fn))
                 /\ timer' = SetTimer(timer, fired.id, name, type, fn).table
<1>1. fired # NoCallback /\ fired' = NoCallback
  BY DEF Callback
<1>2. ASSUME NEW name, NEW type, NEW fn,
             \/ type = 0 /\ name \in Motors /\ fn \in MotorFns
             \/ type = 1 /\ fn \in StepperFns
             \/ type = 2 /\ name \in Pwms /\ fn \in {"blinkPwm", "blinkServo"}
             \/ type = 3 /\ name \in Leds /\ fn = "blinkLed"
      PROVE  IsTimer(Timer(fired.id, name, type, fn))
  BY <1>1, <1>2, FiredIs DEF IsTimer, Timer
<1>3. CASE fired.fn \in MotorFns /\ MotorCallback
  <2>1. \/ timer' = timer
        \/ \E fn \in MotorFns : timer' = SetTimer(timer, fired.id, fired.name, 0, fn).table
    BY <1>3 DEF MotorCallback, EndWheel, Again, MotorFns
  <2> QED
    BY <1>1, <1>2, <1>3, <2>1, FiredIs
<1>4. CASE fired.fn = "blinkLed" /\ BlinkCallback
  <2>1. \/ timer' = timer
        \/ timer' = SetTimer(timer, fired.id, fired.name, 3, "blinkLed").table
    BY <1>4 DEF BlinkCallback, CheckBlink, TimerType
  <2> QED
    BY <1>1, <1>2, <1>4, <2>1, FiredIs
<1>5. CASE fired.fn \in {"blinkPwm", "blinkServo"} /\ BlinkCallback
  <2>1. \/ timer' = timer
        \/ \E fn \in {"blinkPwm", "blinkServo"} :
             timer' = SetTimer(timer, fired.id, fired.name, 2, fn).table
    <3>1. CASE fired.fn = "blinkPwm"
      BY <1>5, <3>1 DEF BlinkCallback, CheckBlink, TimerType
    <3>2. CASE fired.fn = "blinkServo"
      BY <1>5, <3>2 DEF BlinkCallback, CheckServo
    <3> QED
      BY <1>5, <3>1, <3>2
  <2> QED
    BY <1>1, <1>2, <1>5, <2>1, FiredIs
<1>6. CASE fired.fn \in StepperFns /\ StepperCallback
  <2>1. \/ timer' = timer
        \/ timer' = SetTimer(timer, fired.id, 0, 1, fired.fn).table
    BY <1>6 DEF StepperCallback, EndStepper
  <2> QED
    BY <1>1, <1>2, <1>6, <2>1
<1> QED
  BY <1>3, <1>4, <1>5, <1>6 DEF Callback, BlinkFns

LEMMA TimerStep ==
  ASSUME MainOK, DOMAIN output = {"led", "pwm"}, TimerOK, [Next]_vars
  PROVE  TimerOK'
<1>1. ASSUME timer' = timer, fired' = fired
      PROVE  TimerOK'
  BY <1>1 DEF TimerOK
<1>2. ASSUME NEW id, NEW name, NEW type, NEW fn, IsTimer(Timer(id, name, type, fn)),
             timer' = SetTimer(timer, id, name, type, fn).table,
             fired' = fired \/ fired' = NoCallback
      PROVE  TimerOK'
  <2>1. PICK set : set = SetTimer(timer, id, name, type, fn)
    OBVIOUS
  <2>2. IsTable(set.table)
    BY <1>2, <2>1, SetTimerKeeps DEF TimerOK
  <2> QED
    BY <1>2, <2>1, <2>2 DEF TimerOK
<1>3. CASE StartEntry
  BY <1>1, <1>2, <1>3, StartSets
<1>4. CASE Callback
  <2>1. fired' = NoCallback
    BY <1>4, CallbackSets
  <2>2. CASE timer' = timer
    BY <2>1, <2>2 DEF TimerOK
  <2> QED
    BY <1>2, <1>4, <2>1, <2>2, CallbackSets
<1>5. ASSUME NEW i \in TimerSlots, Fire(i)
      PROVE  TimerOK'
  <2>1. fired' = timer[i] /\ timer[i].id > 0 /\ timer' = Expire(timer, i)
    BY <1>5 DEF Fire
  <2>2. IsTimer(fired')
    BY <2>1 DEF TimerOK, IsTable
  <2>3. IsTable(timer')
    BY <2>1 DEF TimerOK, IsTable, Expire
  <2> QED
    BY <2>2, <2>3 DEF TimerOK
<1>6. CASE UNCHANGED vars
  BY <1>1, <1>6 DEF vars
<1>7. CASE \E o : Take(o) \/ Reset(o)
  BY <1>1, <1>7 DEF Take, Reset
<1>8. CASE CheckPower \/ Measure \/ HwCommand \/ HwStepper \/ Arrive
  BY <1>1, <1>8 DEF CheckPower, Measure, HwCommand, HwStepper, Arrive, Unread
<1>9. CASE \E m \in Motors : HwPulses(m) \/ Wheel(m)
  BY <1>1, <1>9 DEF HwPulses, Wheel, Unread
<1> QED
  BY <1>3, <1>4, <1>5, <1>6, <1>7, <1>8, <1>9 DEF Next

------------------------------------------------------------------------------
(* The motors, their wheels and their regulators: what they hold.          *)

MotorFields == {"velocity", "direction", "cm", "stop", "rpm", "due", "sound", "missed"}
IsMotor(x) ==
    /\ DOMAIN x = MotorFields
    /\ x.velocity \in Int /\ -VelocityLimit <= x.velocity /\ x.velocity <= VelocityLimit
    /\ x.cm \in Int /\ x.stop \in Int /\ x.due \in Int
    /\ x.rpm \in Rpms \cup {0}
    /\ x.sound \in BOOLEAN /\ x.missed \in BOOLEAN
MotorOK == DOMAIN motor = Motors /\ \A m \in Motors : IsMotor(motor[m])

WheelFields == {"count", "turned", "low", "reading", "torn", "pulses", "at", "sound"}
IsWheel(x) ==
    /\ DOMAIN x = WheelFields
    /\ x.count \in Nat /\ x.turned \in Int /\ x.low \in Int /\ x.pulses \in Int /\ x.at \in Int
    /\ x.reading \in BOOLEAN /\ x.torn \in BOOLEAN /\ x.sound \in BOOLEAN
WheelOK == DOMAIN wheel = Motors /\ \A m \in Motors : IsWheel(wheel[m])

(* Where a motor is to stop is a number.                                   *)
LEMMA StopIsInt ==
  ASSUME NEW m, IsMotor(motor[m]), IsWheel(wheel[m])
  PROVE  StopAt(m) \in Int
<1>1. motor[m].cm \in Int
  BY DEF IsMotor
<1>2. wheel[m].pulses \in Int
  BY DEF IsWheel
<1> QED
  BY <1>1, <1>2 DEF StopAt

LEMMA MotorTypesInit == Init => MotorOK /\ WheelOK
<1> SUFFICES ASSUME Init PROVE MotorOK /\ WheelOK
  OBVIOUS
<1>1. IsMotor(RestingMotor)
  BY SpeedAssumption DEF IsMotor, RestingMotor, MotorFields
<1>2. IsWheel(RestingWheel)
  BY DEF IsWheel, RestingWheel, WheelFields
<1>3. MotorOK
  BY <1>1 DEF Init, MotorInit, MotorOK
<1>4. WheelOK
  BY <1>2 DEF Init, MotorInit, WheelOK
<1> QED
  BY <1>3, <1>4

(* An order's entries go to the motors they name.                          *)
LEMMA OrderedMotorsOK ==
  ASSUME MotorOK, NEW o \in GoodOrders, o.kind = "motor"
  PROVE  LET new == OrderedMotors(o.entries) IN
         /\ DOMAIN new = Motors
         /\ \A m \in Motors :
              \/ new[m] = motor[m] /\ \A k \in DOMAIN o.entries : o.entries[k].id # m
              \/ \E k \in DOMAIN o.entries :
                   /\ o.entries[k].id = m
                   /\ new[m] = [motor[m] EXCEPT !.velocity = o.entries[k].velocity,
                                                !.cm = o.entries[k].cm]
         /\ \A m \in Motors : IsMotor(new[m])
<1> DEFINE new == OrderedMotors(o.entries)
<1>1. DOMAIN new = Motors
  BY DEF OrderedMotors
<1>2. ASSUME NEW m \in Motors
      PROVE  \/ new[m] = motor[m] /\ \A k \in DOMAIN o.entries : o.entries[k].id # m
             \/ \E k \in DOMAIN o.entries :
                  /\ o.entries[k].id = m
                  /\ new[m] = [motor[m] EXCEPT !.velocity = o.entries[k].velocity,
                                               !.cm = o.entries[k].cm]
  <2> DEFINE named == {k \in DOMAIN o.entries : o.entries[k].id = m}
  <2>1. new[m] = IF named = {} THEN motor[m]
                 ELSE [motor[m] EXCEPT !.velocity = o.entries[Max(named)].velocity,
                                       !.cm = o.entries[Max(named)].cm]
    BY DEF OrderedMotors
  <2>2. CASE named = {}
    BY <2>1, <2>2
  <2>3. CASE named # {}
    <3>1. \E S : o.entries \in Seq(S)
      BY DEF GoodOrders, Orders
    <3>2. DOMAIN o.entries = 1 .. Len(o.entries) /\ Len(o.entries) \in Nat
      BY <3>1
    <3>3. named \subseteq 1 .. Len(o.entries)
      BY <3>2
    <3> HIDE DEF named
    <3>4. Max(named) \in named
      BY <2>3, <3>2, <3>3, MaxIsLast
    <3>5. Max(named) \in DOMAIN o.entries /\ o.entries[Max(named)].id = m
      BY <3>4 DEF named
    <3> QED
      BY <2>1, <2>3, <3>5
  <2> QED
    BY <2>2, <2>3
<1>3. ASSUME NEW m \in Motors
      PROVE  IsMotor(new[m])
  <2>1. IsMotor(motor[m])
    BY DEF MotorOK
  <2>2. ASSUME NEW k \in DOMAIN o.entries
        PROVE  /\ o.entries[k].velocity \in Int /\ o.entries[k].cm \in Int
               /\ -VelocityLimit <= o.entries[k].velocity
               /\ o.entries[k].velocity <= VelocityLimit
    <3>1. o.entries[k].velocity \in Percentages /\ o.entries[k].cm \in Int
      BY <2>2, EntryOf
    <3> QED
      BY <3>1, SpeedAssumption DEF Percentages
  <2> HIDE DEF new
  <2>3. ASSUME NEW k \in DOMAIN o.entries,
               new[m] = [motor[m] EXCEPT !.velocity = o.entries[k].velocity,
                                         !.cm = o.entries[k].cm]
        PROVE  IsMotor(new[m])
    <3>1. PICK v, cm : /\ new[m] = [motor[m] EXCEPT !.velocity = v, !.cm = cm]
                       /\ v \in Int /\ cm \in Int
                       /\ -VelocityLimit <= v /\ v <= VelocityLimit
      BY <2>2, <2>3
    <3> QED
      BY <2>1, <3>1 DEF IsMotor, MotorFields
  <2> QED
    BY <1>2, <2>1, <2>3
<1> QED
  BY <1>1, <1>2, <1>3

LEMMA MotorTypesStep ==
  ASSUME MainOK, MainOK', TimerOK, MotorOK, WheelOK, [Next]_vars
  PROVE  MotorOK' /\ WheelOK'
<1>1. ASSUME motor' = motor PROVE MotorOK'
  BY <1>1 DEF MotorOK
<1>2. ASSUME wheel' = wheel PROVE WheelOK'
  BY <1>2 DEF WheelOK
<1>3. ASSUME NEW m \in Motors, NEW x, IsMotor(x), motor' = [motor EXCEPT ![m] = x]
      PROVE  MotorOK'
  BY <1>3 DEF MotorOK
<1>4. ASSUME NEW m \in Motors, NEW x, IsWheel(x), wheel' = [wheel EXCEPT ![m] = x]
      PROVE  WheelOK'
  BY <1>4 DEF WheelOK
<1>5. ASSUME NEW o, Take(o)
      PROVE  MotorOK' /\ WheelOK'
  <2>1. wheel' = wheel
    BY <1>5 DEF Take
  <2>2. CASE o.kind = "motor"
    <3>1. motor' = OrderedMotors(o.entries) /\ main' = [pc |-> "start", order |-> o, k |-> 1]
      BY <1>5, <2>2 DEF Take
    <3>2. o \in GoodOrders
      BY <3>1 DEF MainOK, Idle
    <3> QED
      BY <1>2, <2>1, <2>2, <3>1, <3>2, OrderedMotorsOK DEF MotorOK
  <2>3. CASE o.kind # "motor"
    BY <1>1, <1>2, <1>5, <2>1, <2>3 DEF Take
  <2> QED
    BY <2>2, <2>3
<1>6. ASSUME NEW o, Reset(o)
      PROVE  MotorOK' /\ WheelOK'
  <2>1. ResetMotors
    BY <1>6 DEF Reset
  <2>2. MotorOK'
    <3>1. motor' = [m \in Motors |-> [motor[m] EXCEPT !.velocity = 0, !.cm = 0]]
      BY <2>1 DEF ResetMotors
    <3>2. ASSUME NEW x, IsMotor(x)
          PROVE  IsMotor([x EXCEPT !.velocity = 0, !.cm = 0])
      BY <3>2, SpeedAssumption DEF IsMotor, MotorFields
    <3> QED
      BY <3>1, <3>2 DEF MotorOK
  <2>3. WheelOK'
    BY <2>1 DEF ResetMotors, WheelOK, IsWheel, WheelFields
  <2> QED
    BY <2>2, <2>3
<1>7. CASE StartEntry
  <2> DEFINE e == main.order.entries[main.k]
  <2>1. CASE main.order.kind = "motor" /\ StartMotor(e.id, e.time, Task)
             /\ UNCHANGED <<regulator, wheel, output, stepper>>
    <3>1. e.id \in Motors
      <4>1. /\ main.order \in GoodOrders /\ main.k \in Nat /\ 1 <= main.k
            /\ main.k <= Len(main.order.entries)
        BY <1>7 DEF MainOK, StartEntry
      <4>2. \E S : main.order.entries \in Seq(S)
        BY <4>1 DEF GoodOrders, Orders
      <4>3. main.k \in DOMAIN main.order.entries
        BY <4>1, <4>2
      <4> QED
        BY <2>1, <4>1, <4>3, EntryOf
    <3> DEFINE m == e.id
    <3>2. IsMotor(motor[m]) /\ IsWheel(wheel[m]) /\ motor[m].cm \in Int
      BY <3>1 DEF MotorOK, WheelOK, IsMotor
    <3>4. StopAt(m) \in Int
      BY <3>2, StopIsInt
    <3> DEFINE far == motor[m].cm > 0
               x == [motor[m] EXCEPT
                        !.direction = DirectionOf(m, motor[m].velocity),
                        !.velocity = IF motor[m].velocity < 0 THEN -motor[m].velocity
                                     ELSE motor[m].velocity,
                        !.stop = IF far THEN StopAt(m) ELSE @,
                        !.due = IF far THEN wheel[m].at + motor[m].cm ELSE @,
                        !.sound = IF far THEN wheel[m].sound ELSE @,
                        !.missed = motor'[m].missed]
    <3>3. motor' = [motor EXCEPT ![m] = x] /\ motor'[m].missed \in BOOLEAN
      <4> DEFINE fn == IF far THEN "checkEncoder"
                       ELSE IF e.time > 0 THEN "endWheel" ELSE "dummyMotor"
                 r == SetTimer(timer, Task, m, 0, fn).result = 0
      <4>1. /\ motor' = [motor EXCEPT ![m] =
                [motor[m] EXCEPT
                        !.direction = DirectionOf(m, motor[m].velocity),
                        !.velocity = IF motor[m].velocity < 0 THEN -motor[m].velocity
                                     ELSE motor[m].velocity,
                        !.stop = IF far THEN StopAt(m) ELSE motor[m].stop,
                        !.due = IF far THEN wheel[m].at + motor[m].cm ELSE motor[m].due,
                        !.sound = IF far THEN wheel[m].sound ELSE motor[m].sound,
                        !.missed = r]]
            /\ r \in BOOLEAN
        BY <2>1, Zenon DEF StartMotor
      <4> HIDE DEF r
      <4>2. motor'[m].missed = r
        BY <3>1, <3>2, <4>1 DEF MotorOK, IsMotor, MotorFields
      <4> QED
        BY <4>1, <4>2
    <3>6. /\ DOMAIN x = DOMAIN motor[m]
          /\ x.velocity \in {motor[m].velocity, -motor[m].velocity}
          /\ x.cm = motor[m].cm /\ x.rpm = motor[m].rpm
          /\ x.stop \in {motor[m].stop, StopAt(m)}
          /\ x.due \in {motor[m].due, wheel[m].at + motor[m].cm}
          /\ x.sound \in {motor[m].sound, wheel[m].sound}
          /\ x.missed \in BOOLEAN
      BY <3>2, <3>3 DEF IsMotor, MotorFields
    <3> HIDE DEF m, x
    <3>5. IsMotor(x)
      BY <3>2, <3>4, <3>6, SpeedAssumption DEF IsMotor, IsWheel
    <3> QED
      BY <1>2, <1>3, <2>1, <3>1, <3>3, <3>5 DEF m
  <2>2. CASE UNCHANGED motorVars
    BY <1>1, <1>2, <2>2 DEF motorVars
  <2>3. CASE UNCHANGED <<motorVars, output>>
    BY <1>1, <1>2, <2>3 DEF motorVars
  <2> QED
    BY <1>7, <2>1, <2>2, <2>3 DEF StartEntry
<1>8. CASE Callback
  <2>1. wheel' = wheel
    BY <1>8 DEF Callback
  <2>2. CASE fired.fn \in MotorFns /\ MotorCallback
    <3> DEFINE m == fired.name
    <3>1. m \in Motors
      BY <1>8, <2>2, FiredIs DEF Callback
    <3>2. IsMotor(motor[m])
      BY <3>1 DEF MotorOK
    <3>3. \/ motor' = [motor EXCEPT ![m] = Stopped(m)]
          \/ \E x : x \in BOOLEAN /\ motor' = [motor EXCEPT ![m].missed = x]
      BY <2>2 DEF MotorCallback, EndWheel, Again, MotorFns
    <3> HIDE DEF m
    <3>4. IsMotor(Stopped(m))
      BY <3>2, SpeedAssumption DEF IsMotor, Stopped, MotorFields
    <3>5. ASSUME NEW x \in BOOLEAN, motor' = [motor EXCEPT ![m].missed = x]
          PROVE  MotorOK'
      <4>1. motor' = [motor EXCEPT ![m] = [motor[m] EXCEPT !.missed = x]]
        BY <3>5
      <4>2. IsMotor([motor[m] EXCEPT !.missed = x])
        BY <3>2, <3>5 DEF IsMotor, MotorFields
      <4> QED
        BY <1>3, <3>1, <4>1, <4>2
    <3> QED
      BY <1>2, <1>3, <2>1, <3>1, <3>3, <3>4, <3>5
  <2> QED
    BY <1>1, <1>2, <1>8, <2>1, <2>2 DEF Callback
<1>9. CASE CheckPower
  BY <1>1, <1>2, <1>9 DEF CheckPower, checkDCmotorPower
<1>10. CASE Measure
  <2>1. PICK rpm \in [Motors -> Rpms] :
            motor' = [m \in Motors |-> [motor[m] EXCEPT !.rpm = rpm[m]]]
    BY <1>10 DEF Measure, MeasureSpeed
  <2>2. wheel' = wheel
    BY <1>10 DEF Measure, MeasureSpeed
  <2>3. MotorOK'
    BY <2>1 DEF MotorOK, IsMotor, MotorFields
  <2> QED
    BY <1>2, <2>2, <2>3
<1>11. CASE HwCommand \/ HwStepper \/ Arrive
  BY <1>1, <1>2, <1>11 DEF HwCommand, HwStepper, Arrive, motorVars
<1>12. ASSUME NEW i \in TimerSlots, Fire(i)
       PROVE  MotorOK' /\ WheelOK'
  BY <1>1, <1>2, <1>12 DEF Fire, motorVars
<1>13. CASE UNCHANGED vars
  BY <1>1, <1>2, <1>13 DEF vars
<1>14. ASSUME NEW m \in Motors, HwPulses(m) \/ Wheel(m)
       PROVE  MotorOK' /\ WheelOK'
  <2>1. motor' = motor
    BY <1>14 DEF HwPulses, Wheel, ReadLow, ReadHigh, Turn
  <2>2. IsWheel(wheel[m]) /\ ByteLimit \in Nat \ {0} /\ CounterLimit \in Nat \ {0}
    BY CounterAssumption DEF WheelOK
  <2>3. CASE ReadLow(m)
    <3> DEFINE x == [wheel[m] EXCEPT !.low = wheel[m].count % ByteLimit, !.reading = TRUE,
                                     !.torn = FALSE]
    <3>1. wheel' = [wheel EXCEPT ![m] = x]
      BY <2>3 DEF ReadLow
    <3>2. wheel[m].count % ByteLimit \in Int
      BY <2>2 DEF IsWheel
    <3>3. IsWheel(x)
      BY <2>2, <3>2 DEF IsWheel, WheelFields
    <3> QED
      BY <1>1, <1>4, <2>1, <3>1, <3>3
  <2>4. CASE ReadHigh(m)
    <3>1. PICK pulses, sound :
            /\ wheel' = [wheel EXCEPT ![m] = Read(m, pulses, sound)]
            /\ pulses \in {(wheel[m].count \div ByteLimit) * ByteLimit + wheel[m].low, -1}
            /\ sound \in {~wheel[m].torn, FALSE}
      BY <2>4 DEF ReadHigh
    <3>2. /\ (wheel[m].count \div ByteLimit) * ByteLimit + wheel[m].low \in Int
          /\ wheel[m].turned - ((wheel[m].count % ByteLimit) - wheel[m].low) \in Int
      BY <2>2 DEF IsWheel
    <3>4. PICK at : at = wheel[m].turned - ((wheel[m].count % ByteLimit) - wheel[m].low)
      OBVIOUS
    <3>5. at \in Int /\ pulses \in Int /\ sound \in BOOLEAN
      <4>1. at \in Int
        BY <3>2, <3>4
      <4>2. pulses \in Int
        BY <3>1, <3>2
      <4>3. wheel[m].torn \in BOOLEAN
        BY <2>2 DEF IsWheel
      <4>4. sound \in BOOLEAN
        BY <3>1, <4>3
      <4> QED
        BY <4>1, <4>2, <4>4
    <3>6. Read(m, pulses, sound)
            = [wheel[m] EXCEPT !.pulses = pulses, !.sound = sound, !.at = at,
                               !.reading = FALSE, !.torn = FALSE, !.low = 0]
      BY <3>4 DEF Read
    <3>3. IsWheel(Read(m, pulses, sound))
      BY <2>2, <3>5, <3>6 DEF IsWheel, WheelFields
    <3> QED
      BY <1>1, <1>4, <2>1, <3>1, <3>3
  <2>5. CASE Turn(m)
    <3> DEFINE torn == wheel[m].reading
                         /\ (wheel[m].torn \/ (wheel[m].count + 1) % ByteLimit = 0)
               x == [wheel[m] EXCEPT !.turned = wheel[m].turned + 1,
                                     !.count = (wheel[m].count + 1) % CounterLimit,
                                     !.torn = torn]
    <3>1. wheel' = [wheel EXCEPT ![m] = x]
      BY <2>5 DEF Turn
    <3>2. (wheel[m].count + 1) % CounterLimit \in Nat /\ torn \in BOOLEAN
      BY <2>2 DEF IsWheel
    <3> HIDE DEF torn
    <3>3. IsWheel(x)
      BY <2>2, <3>2 DEF IsWheel, WheelFields
    <3> QED
      BY <1>1, <1>4, <2>1, <3>1, <3>3
  <2> QED
    BY <1>14, <2>3, <2>4, <2>5 DEF HwPulses, Wheel
<1> QED
  BY <1>5, <1>6, <1>7, <1>8, <1>9, <1>10, <1>11, <1>12, <1>13, <1>14 DEF Next

------------------------------------------------------------------------------
(* The outputs and the regulator: what they hold.                          *)

OutputFields == {"state", "power", "count", "toggled", "servoToggled", "shown", "alone"}
IsOutput(x) ==
    /\ DOMAIN x = OutputFields /\ x.state \in {"on", "off", "blink"}
    /\ x.power \in Int /\ x.count \in Int /\ x.shown \in Nat
OutputOK ==
    /\ DOMAIN output = {"led", "pwm"}
    /\ \A kind \in {"led", "pwm"} :
         /\ DOMAIN output[kind] = Outputs(kind)
         /\ \A d \in Outputs(kind) : IsOutput(output[kind][d])

LEMMA OutputInit == Init => OutputOK
<1>1. IsOutput(Dark)
  BY DEF IsOutput, Dark, OutputFields
<1> QED
  BY <1>1 DEF Init, BlinkInit, OutputOK

(* The settings of one output, as an order leaves them.                    *)
Ordered(o, d) ==
    LET kind == o.kind
        named == {k \in DOMAIN o.entries : o.entries[k].id = d}
        e == o.entries[Max(named)]
        old == output[kind][d]
    IN  IF named = {} THEN old
        ELSE [old EXCEPT
               !.state = IF e.state \in {"on", "off"} \/ (e.state = "blink" /\ ~o.servo)
                         THEN e.state ELSE @,
               !.power = IF e.power > 0 \/ (e.power = 0 /\ kind = "pwm") THEN e.power ELSE @,
               !.count = IF e.count > 0 /\ ~o.servo THEN e.count ELSE @,
               !.shown = 0,
               !.alone = ~Counting(kind, d)]

LEMMA OrderedOutputsAre ==
  ASSUME OutputOK, NEW o, o.kind \in {"led", "pwm"},
         output' = OrderedOutputs(o.kind, o.servo, o.entries)
  PROVE  /\ DOMAIN output' = DOMAIN output /\ DOMAIN output'[o.kind] = Outputs(o.kind)
         /\ \A k \in {"led", "pwm"} : k # o.kind => output'[k] = output[k]
         /\ \A d \in Outputs(o.kind) : output'[o.kind][d] = Ordered(o, d)
<1> DEFINE kind == o.kind
           new == output'[kind]
<1> DEFINE settings == [d \in Outputs(kind) |-> Ordered(o, d)]
<1>1. output' = [output EXCEPT ![kind] = settings]
  BY Zenon DEF OrderedOutputs, Ordered
<1>2. DOMAIN settings = Outputs(kind) /\ \A d \in Outputs(kind) : settings[d] = Ordered(o, d)
  OBVIOUS
<1> HIDE DEF settings
<1>3. DOMAIN output = {"led", "pwm"}
  BY DEF OutputOK
<1> QED
  BY <1>1, <1>2, <1>3

LEMMA OrderedOutputsOK ==
  ASSUME OutputOK, NEW o \in GoodOrders, o.kind \in {"led", "pwm"},
         output' = OrderedOutputs(o.kind, o.servo, o.entries)
  PROVE  OutputOK'
<1> DEFINE kind == o.kind
           new == output'[kind]
<1>1. /\ DOMAIN output' = DOMAIN output /\ DOMAIN new = Outputs(kind)
      /\ \A k \in {"led", "pwm"} : k # kind => output'[k] = output[k]
  BY OrderedOutputsAre
<1>2. ASSUME NEW d \in Outputs(kind)
      PROVE  IsOutput(new[d])
  <2> DEFINE named == {k \in DOMAIN o.entries : o.entries[k].id = d}
             e == o.entries[Max(named)]
             old == output[kind][d]
  <2>1. IsOutput(old)
    BY DEF OutputOK
  <2>2. new[d] = IF named = {} THEN old
                 ELSE [old EXCEPT
                        !.state = IF e.state \in {"on", "off"} \/ (e.state = "blink" /\ ~o.servo)
                                  THEN e.state ELSE @,
                        !.power = IF e.power > 0 \/ (e.power = 0 /\ kind = "pwm")
                                  THEN e.power ELSE @,
                        !.count = IF e.count > 0 /\ ~o.servo THEN e.count ELSE @,
                        !.shown = 0,
                        !.alone = ~Counting(kind, d)]
    <3>1. new[d] = Ordered(o, d)
      BY OrderedOutputsAre
    <3> QED
      BY <3>1, Zenon DEF Ordered
  <2>3. CASE named = {}
    BY <2>1, <2>2, <2>3
  <2>4. CASE named # {}
    <3>1. \E S : o.entries \in Seq(S)
      BY DEF GoodOrders, Orders
    <3>2. DOMAIN o.entries = 1 .. Len(o.entries) /\ Len(o.entries) \in Nat
      BY <3>1
    <3>3. named \subseteq 1 .. Len(o.entries)
      BY <3>2
    <3>4. Max(named) \in named
      BY <2>4, <3>2, <3>3, MaxIsLast
    <3>5. e.power \in Int /\ e.count \in Int
      BY <3>4, EntryOf
    <3> DEFINE state == IF e.state \in {"on", "off"} \/ (e.state = "blink" /\ ~o.servo)
                        THEN e.state ELSE old.state
               power == IF e.power > 0 \/ (e.power = 0 /\ kind = "pwm")
                        THEN e.power ELSE old.power
               count == IF e.count > 0 /\ ~o.servo THEN e.count ELSE old.count
               alone == ~Counting(kind, d)
    <3>6. new[d] = [old EXCEPT !.state = state, !.power = power, !.count = count,
                               !.shown = 0, !.alone = alone]
      BY <2>2, <2>4
    <3>7. state \in {"on", "off", "blink"} /\ power \in Int /\ count \in Int
      BY <2>1, <3>5 DEF IsOutput
    <3> HIDE DEF e, old, new, state, power, count, alone
    <3> QED
      BY <2>1, <3>6, <3>7 DEF IsOutput, OutputFields
  <2> QED
    BY <2>3, <2>4
<1> HIDE DEF kind
<1> QED
  BY <1>1, <1>2 DEF OutputOK, kind

(* An output that is started takes itself and the others that count out of *)
(* those that are alone, if there are such others or a count.              *)
Met(kind, d, met) ==
    /\ output' = [output EXCEPT ![kind] = [e \in Outputs(kind) |->
                    IF e \in met THEN [output[kind][e] EXCEPT !.alone = FALSE]
                    ELSE output[kind][e]]]
    /\ \A e \in Outputs(kind) \ {d} : Counting(kind, e) => d \in met /\ e \in met
    /\ counter[kind] # 0 => d \in met

LEMMA StartOutputDoes ==
  ASSUME NEW kind, NEW servo, NEW d, NEW id, StartOutput(kind, servo, d, id)
  PROVE  \/ UNCHANGED <<timer, output>>
         \/ /\ \E fn : timer' = SetTimer(timer, id, d, TimerType(kind), fn).table
            /\ \E met : Met(kind, d, met)
<1> DEFINE others == {e \in Outputs(kind) \ {d} : Counting(kind, e)}
           met == IF others = {} /\ counter[kind] = 0 THEN {} ELSE others \cup {d}
<1>1. CASE servo /\ output[kind][d].state = "blink"
  BY <1>1 DEF StartOutput
<1>2. CASE ~(servo /\ output[kind][d].state = "blink")
  <2>1. \E fn : timer' = SetTimer(timer, id, d, TimerType(kind), fn).table
    BY <1>2 DEF StartOutput
  <2>2. output' = [output EXCEPT ![kind] = [e \in Outputs(kind) |->
                    IF e \in met THEN [output[kind][e] EXCEPT !.alone = FALSE]
                    ELSE output[kind][e]]]
    BY <1>2, Zenon DEF StartOutput
  <2>3. /\ \A e \in Outputs(kind) \ {d} : Counting(kind, e) => d \in met /\ e \in met
        /\ counter[kind] # 0 => d \in met
    OBVIOUS
  <2> HIDE DEF met
  <2>4. Met(kind, d, met)
    BY <2>2, <2>3 DEF Met
  <2> QED
    BY <2>1, <2>4
<1> QED
  BY <1>1, <1>2

LEMMA OutputStep ==
  ASSUME MainOK, MainOK', TimerOK, OutputOK, [Next]_vars
  PROVE  OutputOK'
<1>1. ASSUME output' = output PROVE OutputOK'
  BY <1>1 DEF OutputOK
<1>2. ASSUME NEW kind \in {"led", "pwm"}, NEW d \in Outputs(kind), NEW x, IsOutput(x),
             output' = [output EXCEPT ![kind][d] = x]
      PROVE  OutputOK'
  BY <1>2 DEF OutputOK
<1>3. ASSUME NEW o, Take(o)
      PROVE  OutputOK'
  <2>1. CASE o.kind \in DOMAIN output
    <3>1. /\ output' = OrderedOutputs(o.kind, o.servo, o.entries)
          /\ main' = [pc |-> "start", order |-> o, k |-> 1]
      BY <1>3, <2>1 DEF Take
    <3>2. o \in GoodOrders /\ o.kind \in {"led", "pwm"}
      BY <2>1, <3>1 DEF MainOK, Idle, OutputOK
    <3> QED
      BY <3>1, <3>2, OrderedOutputsOK
  <2>2. CASE o.kind \notin DOMAIN output
    BY <1>1, <1>3, <2>2 DEF Take
  <2> QED
    BY <2>1, <2>2
<1>4. CASE StartEntry
  <2>1. CASE output' = output
    BY <1>1, <2>1
  <2>2. ASSUME NEW kind \in {"led", "pwm"}, NEW d, NEW met, Met(kind, d, met)
        PROVE  OutputOK'
    <3>1. ASSUME NEW x, IsOutput(x)
          PROVE  IsOutput([x EXCEPT !.alone = FALSE])
      BY <3>1 DEF IsOutput, OutputFields
    <3> QED
      BY <2>2, <3>1 DEF OutputOK, Met
  <2>3. \/ output' = output
        \/ \E kind \in {"led", "pwm"} : \E d, met : Met(kind, d, met)
    <3>1. CASE main.order.kind \in DOMAIN output
      <4>1. StartOutput(main.order.kind, main.order.servo, main.order.entries[main.k].id, Task)
            \/ output' = output
        BY <1>4, <3>1 DEF StartEntry
      <4> QED
        BY <3>1, <4>1, StartOutputDoes DEF OutputOK
    <3>2. CASE main.order.kind \notin DOMAIN output
      BY <1>4, <3>2 DEF StartEntry
    <3> QED
      BY <3>1, <3>2
  <2> QED
    BY <2>1, <2>2, <2>3
<1>5. CASE Callback
  <2>1. CASE fired.fn \in BlinkFns /\ BlinkCallback
    <3> DEFINE d == fired.name
    <3>1. ASSUME NEW kind \in {"led", "pwm"}, d \in Outputs(kind), CheckBlink(kind)
          PROVE  OutputOK'
      <4> DEFINE o == output[kind][d]
                 next == [o EXCEPT !.toggled = ~@, !.shown = @ + 1]
      <4>1. IsOutput(o)
        BY <3>1 DEF OutputOK
      <4>2. \/ output' = output
            \/ output' = [output EXCEPT ![kind][d] = next]
            \/ \E s \in {"on", "off"} :
                 output' = [output EXCEPT ![kind][d] = [next EXCEPT !.state = s]]
        BY <3>1 DEF CheckBlink
      <4>3. IsOutput(next)
        BY <4>1 DEF IsOutput, OutputFields
      <4> HIDE DEF d, next
      <4>4. \A s \in {"on", "off"} : IsOutput([next EXCEPT !.state = s])
        BY <4>3 DEF IsOutput, OutputFields
      <4> QED
        BY <1>1, <1>2, <3>1, <4>2, <4>3, <4>4
    <3>2. ASSUME d \in Pwms, CheckServo
          PROVE  OutputOK'
      <4>1. \/ output' = output
            \/ output' = [output EXCEPT !.pwm[d].servoToggled = ~@, !.pwm[d].alone = FALSE]
        BY <3>2, Zenon DEF CheckServo
      <4>3. CASE output' = [output EXCEPT !.pwm[d].servoToggled = ~@, !.pwm[d].alone = FALSE]
        <5>2. /\ DOMAIN output = {"led", "pwm"} /\ d \in DOMAIN output["pwm"]
              /\ DOMAIN output["pwm"][d] = OutputFields
          BY <3>2 DEF OutputOK, IsOutput, Outputs
        <5> HIDE DEF d
        <5>3. /\ DOMAIN output' = DOMAIN output /\ output'["led"] = output["led"]
              /\ DOMAIN output'["pwm"] = DOMAIN output["pwm"]
              /\ \A e \in DOMAIN output["pwm"] : e # d => output'["pwm"][e] = output["pwm"][e]
          BY <4>3, <5>2
        <5>4. output'["pwm"][d] =
                [output["pwm"][d] EXCEPT !.servoToggled = ~@, !.alone = FALSE]
          BY <4>3, <5>2
        <5>5. /\ DOMAIN output'["pwm"][d] = DOMAIN output["pwm"][d]
              /\ output'["pwm"][d].state = output["pwm"][d].state
              /\ output'["pwm"][d].power = output["pwm"][d].power
              /\ output'["pwm"][d].count = output["pwm"][d].count
              /\ output'["pwm"][d].shown = output["pwm"][d].shown
          BY <5>2, <5>4 DEF OutputFields
        <5> QED
          BY <3>2, <5>3, <5>5 DEF OutputOK, IsOutput, Outputs
      <4> QED
        BY <1>1, <4>1, <4>3
    <3>3. CASE fired.fn = "blinkLed"
      BY <1>5, <2>1, <3>1, <3>3, FiredIs DEF Callback, BlinkCallback, Outputs
    <3>4. CASE fired.fn = "blinkPwm"
      BY <1>5, <2>1, <3>1, <3>4, FiredIs DEF Callback, BlinkCallback, Outputs
    <3>5. CASE fired.fn = "blinkServo"
      BY <1>5, <2>1, <3>2, <3>5, FiredIs DEF Callback, BlinkCallback, Outputs
    <3> QED
      BY <2>1, <3>3, <3>4, <3>5 DEF BlinkFns
  <2> QED
    BY <1>1, <1>5, <2>1 DEF Callback
<1>6. ASSUME NEW o, Reset(o) PROVE OutputOK'
  BY <1>1, <1>6 DEF Reset, blinkVars
<1>7. CASE CheckPower \/ Measure \/ HwCommand \/ HwStepper \/ Arrive
  BY <1>1, <1>7 DEF CheckPower, Measure, HwCommand, HwStepper, Arrive, Unread, blinkVars
<1>8. CASE \E i \in TimerSlots : Fire(i)
  BY <1>1, <1>8 DEF Fire, blinkVars
<1>9. CASE \E m \in Motors : HwPulses(m) \/ Wheel(m)
  BY <1>1, <1>9 DEF HwPulses, Wheel, Unread, blinkVars
<1>10. CASE UNCHANGED vars
  BY <1>1, <1>10 DEF vars
<1> QED
  BY <1>3, <1>4, <1>5, <1>6, <1>7, <1>8, <1>9, <1>10 DEF Next

------------------------------------------------------------------------------
(* What is asked of the board.                                             *)

(* A setter puts commands in the queue and leaves the board to hwTask.     *)
Asks(h, g) == IsHw(g) /\ g.board = h.board /\ g.room = h.room

LEMMA AsksAll ==
  ASSUME NEW h, IsHw(h), NEW commands \in Seq(Commands)
  PROVE  Asks(h, QueuedAll(h, commands))
  BY QueuedAllKeeps DEF Asks

LEMMA AsksOne ==
  ASSUME NEW h, IsHw(h), NEW c \in Commands
  PROVE  Asks(h, Queued(h, c))
<1>1. <<c>> \in Seq(Commands)
  OBVIOUS
<1> QED
  BY <1>1, AsksAll DEF Queued

(* The commands of the setters.                                            *)
LEMMA SetterCommands ==
  /\ \A m \in Motors, ratio \in Int : SpeedCommand(m, ratio) \in Commands
  /\ \A m \in Motors : \A direction : DirectionCommand(m, direction) \in Commands
  /\ \A d \in Leds, power \in Int : PowerCommand("led", d, power) \in Commands
  /\ \A d \in Pwms, power \in Int :
       PowerCommand("pwm", d, power) \in Commands /\ ServoCommand(d, power) \in Commands
<1>1. ASSUME NEW m \in Motors, NEW ratio \in Int
      PROVE  SpeedCommand(m, ratio) \in Commands
  <2>1. MotorAddress[m] \in DutyRegisters
    BY Addresses
  <2>2. Clamped(ratio) \in 0 .. 100
    BY DEF Clamped
  <2> QED
    BY <2>1, <2>2 DEF SpeedCommand, Command, Commands
<1>2. ASSUME NEW m \in Motors, NEW direction
      PROVE  DirectionCommand(m, direction) \in Commands
  <2>1. MotorAddress[m] \in {8, 12}
    BY Addresses
  <2> QED
    BY <2>1 DEF DirectionCommand, Command, Commands
<1>3. ASSUME NEW d \in Leds, NEW power \in Int
      PROVE  PowerCommand("led", d, power) \in Commands
  <2>1. AddressOf("led", d) \in DutyRegisters
    BY Addresses DEF AddressOf
  <2> QED
    BY <2>1 DEF PowerCommand, Command, Commands
<1>4. ASSUME NEW d \in Pwms, NEW power \in Int
      PROVE  PowerCommand("pwm", d, power) \in Commands /\ ServoCommand(d, power) \in Commands
  <2>1. AddressOf("pwm", d) \in DutyRegisters /\ PwmAddress[d] \in DutyRegisters
    BY Addresses DEF AddressOf
  <2> QED
    BY <2>1 DEF PowerCommand, ServoCommand, Command, Commands
<1> QED
  BY <1>1, <1>2, <1>3, <1>4

LEMMA SettersAsk ==
  ASSUME NEW h, IsHw(h)
  PROVE  /\ \A m \in Motors : \A direction : Asks(h, setMotorDirection(h, m, direction))
         /\ \A kind \in {"led", "pwm"} : \A d \in Outputs(kind), power \in Int :
              Asks(h, setOutputPower(h, kind, d, power))
         /\ \A d \in Pwms, position \in Int : Asks(h, setServoPosition(h, d, position))
         /\ \A direction : \A steps \in Int : Asks(h, setStepperStepAction(h, direction, steps))
         /\ \A speed \in Int : Asks(h, setStepperSpeed(h, speed))
<1>1. ASSUME NEW m \in Motors, NEW direction
      PROVE  Asks(h, setMotorDirection(h, m, direction))
  BY AsksOne, SetterCommands DEF setMotorDirection, Asks
<1>2. ASSUME NEW kind \in {"led", "pwm"}, NEW d \in Outputs(kind), NEW power \in Int
      PROVE  Asks(h, setOutputPower(h, kind, d, power))
  BY AsksOne, SetterCommands DEF setOutputPower, Outputs
<1>3. ASSUME NEW d \in Pwms, NEW position \in Int
      PROVE  Asks(h, setServoPosition(h, d, position))
  BY AsksOne, SetterCommands DEF setServoPosition
<1>4. ASSUME NEW direction, NEW steps \in Int
      PROVE  Asks(h, setStepperStepAction(h, direction, steps))
  <2> DEFINE mode == IF steps <= 0 THEN 0 ELSE 1
             go == CASE direction = "forward" -> Start [] direction = "back" -> Start + 1
                     [] OTHER -> 32
             commands == <<Command("StepperMotorControl", 0, 0),
                           Command("StepperMotorMode", 0, mode),
                           Command("StepperMotorSetStep", 0, steps),
                           Command("StepperMotorControl", 0, go)>>
  <2>1. mode \in {0, 1} /\ go \in Int
    BY DEF Start
  <2> HIDE DEF mode, go
  <2>2. /\ Command("StepperMotorControl", 0, 0) \in Commands
        /\ Command("StepperMotorMode", 0, mode) \in Commands
        /\ Command("StepperMotorSetStep", 0, steps) \in Commands
        /\ Command("StepperMotorControl", 0, go) \in Commands
    BY <2>1 DEF Command, Commands, StepperCalls
  <2>3. commands \in Seq(Commands)
    BY <2>2
  <2>4. setStepperStepAction(h, direction, steps) = QueuedAll(h, commands)
    BY Zenon DEF setStepperStepAction, mode, go
  <2> HIDE DEF commands
  <2> QED
    BY <2>3, <2>4, AsksAll
<1>5. ASSUME NEW speed \in Int
      PROVE  Asks(h, setStepperSpeed(h, speed))
  <2> DEFINE s == IF speed > 100 THEN 100 ELSE IF speed < 0 THEN 1 ELSE speed
             width == 666 + (100 - s) * 75
  <2>1. width \in Int
    OBVIOUS
  <2>2. setStepperSpeed(h, speed) = Queued(h, Command("StepperMotorPulseWidth", 0, width))
    BY Zenon DEF setStepperSpeed
  <2> HIDE DEF width
  <2>3. Command("StepperMotorPulseWidth", 0, width) \in Commands
    BY <2>1 DEF Command, Commands, StepperCalls
  <2> QED
    BY <2>2, <2>3, AsksOne
<1> QED
  BY <1>1, <1>2, <1>3, <1>4, <1>5

LEMMA ResetAsks ==
  ASSUME NEW h, IsHw(h)
  PROVE  Asks(h, resetHardware(h, 0))
<1> DEFINE servos == [n \in 1 .. NBSERVO |-> ServoCommand(n - 1, 0)]
           leds == [n \in 1 .. NBLED |-> PowerCommand("led", n - 1, 0)]
           pwms == [n \in 1 .. NBPWM |-> PowerCommand("pwm", n - 1, 0)]
<1>1. Rest(0) \in Seq(Commands) /\ Rest(1) \in Seq(Commands)
  <2>1. \A m \in {0, 1} : /\ SpeedCommand(m, 0) \in Commands
                          /\ DirectionCommand(m, "forward") \in Commands
    BY Addresses, SetterCommands
  <2> QED
    BY <2>1 DEF Rest
<1>2. NBSERVO \in Nat /\ NBLED \in Nat /\ NBPWM \in Nat /\ NBSERVO <= NBPWM
  BY OutputsAssumption
<1>3. servos \in Seq(Commands)
  <2>1. \A n \in 1 .. NBSERVO : ServoCommand(n - 1, 0) \in Commands
    <3>1. TAKE n \in 1 .. NBSERVO
    <3>2. n - 1 \in Pwms
      BY <1>2 DEF Pwms
    <3> QED
      BY <3>2, SetterCommands
  <2> QED
    BY <1>2, <2>1
<1>4. leds \in Seq(Commands)
  <2>1. \A n \in 1 .. NBLED : PowerCommand("led", n - 1, 0) \in Commands
    <3>1. TAKE n \in 1 .. NBLED
    <3>2. n - 1 \in Leds
      BY <1>2 DEF Leds
    <3> QED
      BY <3>2, SetterCommands
  <2> QED
    BY <1>2, <2>1
<1>5. pwms \in Seq(Commands)
  <2>1. \A n \in 1 .. NBPWM : PowerCommand("pwm", n - 1, 0) \in Commands
    <3>1. TAKE n \in 1 .. NBPWM
    <3>2. n - 1 \in Pwms
      BY <1>2 DEF Pwms
    <3> QED
      BY <3>2, SetterCommands
  <2> QED
    BY <1>2, <2>1
<1> DEFINE commands == Rest(0) \o Rest(1) \o servos \o leds \o pwms
<1>6. resetHardware(h, 0) = QueuedAll(h, commands)
  BY Zenon DEF resetHardware
<1> HIDE DEF servos, leds, pwms
<1>7. commands \in Seq(Commands)
  BY <1>1, <1>3, <1>4, <1>5
<1> HIDE DEF commands
<1> QED
  BY <1>6, <1>7, AsksAll

------------------------------------------------------------------------------
(* The regulator.                                                          *)

RegulatorOK ==
    /\ DOMAIN regulator.sum = Motors /\ DOMAIN regulator.last = Motors
    /\ \A m \in Motors :
         /\ regulator.sum[m] \in Int /\ regulator.last[m] \in Int
         /\ -SpeedLimit <= regulator.last[m] /\ regulator.last[m] <= SpeedLimit

(* The configuration of a motor.                                           *)
LEMMA MotorConfigured ==
  ASSUME NEW m \in Motors
  PROVE  /\ Motor[m].minPWM \in Int /\ Motor[m].minRPM \in Nat
         /\ Motor[m].maxRPM \in Nat /\ Motor[m].maxRPM > 0
         /\ Motor[m].PID.Kp \in Int /\ Motor[m].PID.Ki \in Int /\ Motor[m].PID.Kd \in Int
<1>1. Motor[m].minPWM \in 0 .. 100
  BY MotorAssumption
<1>2. Motor[m].minPWM \in Int
  BY <1>1
<1>3. Motor[m].PID \in [on : BOOLEAN, Kp : Int, Ki : Int, Kd : Int]
  BY MotorAssumption
<1> QED
  BY <1>2, <1>3, MotorAssumption

LEMMA Percents ==
  ASSUME NEW m \in Motors, NEW rpm \in Int
  PROVE  /\ rpmToPercent(m, rpm) \in Int
         /\ rpm >= 0 => rpmToPercent(m, rpm) >= 0
<1>1. PICK max \in Nat : max = Motor[m].maxRPM /\ max > 0
  BY MotorConfigured
<1>2. (rpm * 100) \div max \in Int /\ (rpm >= 0 => (rpm * 100) \div max >= 0)
  <2>1. PICK x \in Int : x = rpm * 100 /\ (rpm >= 0 => x >= 0)
    OBVIOUS
  <2>2. x \div max \in Int /\ (x >= 0 => x \div max >= 0)
    <3>1. x \div max \in Int
      BY <1>1
    <3>2. x >= 0 => x \div max >= 0
      BY <1>1
    <3> QED
      BY <3>1, <3>2
  <2> QED
    BY <2>1, <2>2
<1> QED
  BY <1>1, <1>2 DEF rpmToPercent

(* No motor turns faster than the limit.                                   *)
LEMMA CurrentOK ==
  ASSUME MotorOK, NEW m \in Motors
  PROVE  /\ Current(m) \in Int /\ motor[m].rpm \in Int
         /\ -SpeedLimit <= Current(m) /\ Current(m) <= SpeedLimit
<1>1. motor[m].rpm \in Rpms \cup {0} /\ SpeedLimit \in Nat /\ Rpms \subseteq Int
  BY SpeedAssumption DEF MotorOK, IsMotor
<1>2. CASE motor[m].rpm \in Rpms
  <2>1. PICK c : c = Current(m) /\ c \in (-SpeedLimit) .. SpeedLimit
    BY <1>2, SpeedAssumption DEF Current
  <2>2. c \in Int /\ -SpeedLimit <= c /\ c <= SpeedLimit
    BY <1>1, <2>1
  <2> QED
    BY <1>1, <1>2, <2>1, <2>2
<1>3. CASE motor[m].rpm = 0
  <2>1. PICK max \in Nat : max = Motor[m].maxRPM /\ max > 0
    BY MotorConfigured
  <2>2. (0 * 100) \div max = 0
    BY <2>1
  <2>3. Current(m) = 0
    BY <1>3, <2>1, <2>2 DEF Current, rpmToPercent
  <2> QED
    BY <1>1, <1>3, <2>3
<1> QED
  BY <1>1, <1>2, <1>3

LEMMA TargetOK ==
  ASSUME MotorOK, NEW m \in Motors
  PROVE  /\ PIDtarget(m) \in Int
         /\ PIDtarget(m) = rpmToPercent(m, Motor[m].minRPM) + motor[m].velocity
<1>1. rpmToPercent(m, Motor[m].minRPM) \in Int
  BY MotorConfigured, Percents
<1> QED
  BY <1>1 DEF PIDtarget, MotorOK, IsMotor

LEMMA SpeedOK ==
  ASSUME MotorOK, RegulatorOK, NEW m \in Motors
  PROVE  Speed(m) \in Int
<1>1. \A x \in Int : Trunc(x) \in Int
  BY DEF Trunc
<1>2. \A x, y \in Int : AtLeast(x, y) \in Int
  BY DEF AtLeast
<1>3. Kick(m) \in Int
  BY MotorConfigured DEF Kick
<1>4. Clamped(PIDoutput(m, Current(m), PIDtarget(m))) \in Int
  <2>1. \A kp, ki, kd, e, s, d \in Int : kp * e + ki * s + kd * d \in Int
    OBVIOUS
  <2>2. /\ PIDtarget(m) - Current(m) \in Int /\ regulator.sum[m] \in Int
        /\ regulator.last[m] - Current(m) \in Int
    BY CurrentOK, TargetOK DEF RegulatorOK
  <2>3. PIDoutput(m, Current(m), PIDtarget(m)) \in Int
    BY <2>1, <2>2, MotorConfigured, Zenon DEF PIDoutput
  <2> QED
    BY <2>3 DEF Clamped
<1>5. FixedSetpoint(m) \in Int
  <2>1. PICK min \in Int : min = Motor[m].minPWM
    BY MotorConfigured
  <2>2. PICK v \in Int : v = motor[m].velocity
    BY DEF MotorOK, IsMotor
  <2>3. PICK asked \in Int : asked = Trunc(100 * min + (100 - min) * v)
    <3>1. 100 * min + (100 - min) * v \in Int
      OBVIOUS
    <3> QED
      BY <1>1, <3>1
  <2>4. Trunc(100 * asked + 30 * min) \in Int
    BY <1>1
  <2> HIDE <1>1
  <2>5. FixedSetpoint(m) = AtLeast(IF Current(m) < Motor[m].minRPM
                                   THEN Trunc(100 * asked + 30 * min) ELSE asked, min)
    BY <2>1, <2>2, <2>3 DEF FixedSetpoint
  <2> QED
    BY <1>2, <2>4, <2>5
<1>6. NewSetpoint(m) \in Int
  <2>1. PICK x \in Int :
          x = IF Motor[m].PID.on
              THEN AtLeast(Clamped(PIDoutput(m, Current(m), PIDtarget(m))), Motor[m].minPWM)
              ELSE FixedSetpoint(m)
    BY <1>2, <1>4, <1>5, MotorConfigured
  <2> QED
    BY <1>3, <2>1 DEF NewSetpoint
<1> QED
  BY <1>1, <1>6 DEF Speed

LEMMA RegulatorInit == Init => RegulatorOK
  BY SpeedAssumption DEF Init, MotorInit, RegulatorOK

(* The sum of the errors changes where the output is within its limits.    *)
LEMMA RegulatorMoves ==
  ASSUME MotorOK, RegulatorOK, CheckPower
  PROVE  /\ RegulatorOK'
         /\ \A m \in Motors :
              \/ regulator'.sum[m] = regulator.sum[m]
              \/ /\ PIDoutput(m, Current(m), PIDtarget(m)) \in 1 .. 99
                 /\ regulator'.sum[m] = regulator.sum[m] + PIDtarget(m) - Current(m)
<1>1. /\ DOMAIN regulator'.sum = Motors /\ DOMAIN regulator'.last = Motors
      /\ \A m \in Motors :
           /\ regulator'.sum[m] \in {regulator.sum[m], PIDsum(m, Current(m), PIDtarget(m))}
           /\ regulator'.last[m] \in {regulator.last[m], Current(m)}
  BY DEF CheckPower, checkDCmotorPower
<1>2. ASSUME NEW m \in Motors
      PROVE  \/ regulator'.sum[m] = regulator.sum[m]
             \/ /\ PIDoutput(m, Current(m), PIDtarget(m)) \in 1 .. 99
                /\ regulator'.sum[m] = regulator.sum[m] + PIDtarget(m) - Current(m)
  BY <1>1 DEF PIDsum
<1>3. ASSUME NEW m \in Motors
      PROVE  /\ regulator'.sum[m] \in Int /\ regulator'.last[m] \in Int
             /\ -SpeedLimit <= regulator'.last[m] /\ regulator'.last[m] <= SpeedLimit
  <2>1. /\ regulator.sum[m] \in Int /\ regulator.last[m] \in Int
        /\ -SpeedLimit <= regulator.last[m] /\ regulator.last[m] <= SpeedLimit
    BY DEF RegulatorOK
  <2>2. /\ Current(m) \in Int /\ PIDtarget(m) \in Int
        /\ -SpeedLimit <= Current(m) /\ Current(m) <= SpeedLimit
    BY CurrentOK, TargetOK
  <2> QED
    BY <1>1, <1>2, <2>1, <2>2
<1> QED
  BY <1>1, <1>2, <1>3 DEF RegulatorOK

(* Nothing else moves the regulator.                                       *)
LEMMA RegulatorKept ==
  ASSUME [Next]_vars, ~CheckPower
  PROVE  regulator' = regulator
  BY DEF Next, vars, Take, Reset, StartEntry, Measure, MeasureSpeed, Fire, Callback, HwCommand,
         HwStepper, HwPulses, ReadLow, ReadHigh, Wheel, Turn, Arrive, motorVars

LEMMA RegulatorStep ==
  ASSUME MotorOK, RegulatorOK, [Next]_vars
  PROVE  RegulatorOK'
  BY RegulatorMoves, RegulatorKept DEF RegulatorOK

------------------------------------------------------------------------------
(* The queue and the board, in a behaviour.                                *)

LEMMA HwInit == Init => IsHw(hw)
<1> SUFFICES ASSUME Init PROVE IsHw(hw)
  OBVIOUS
<1>1. PICK b : b = Configured(PwmRegisters)
  OBVIOUS
<1>2. /\ DOMAIN b = {"pwm", "gpio", "step"} /\ DOMAIN b.pwm = PwmRegisters
      /\ DOMAIN b.gpio = {"olat"} /\ b.gpio.olat = {"enable"}
      /\ DOMAIN b.step = StepperRegisters
  BY <1>1 DEF Configured
<1>3. b.step[MCNTL] = 0
  BY <1>1 DEF Configured, MCNTL, PMA, StepperRegisters, StepCount, ToSet
<1>4. IsBoard(b)
  BY <1>2, <1>3 DEF IsBoard
<1>5. Bridges(b)
  BY <1>2, Bits, Addresses DEF Bridges
<1>6. hw = [board |-> b, queue |-> <<>>, room |-> script.room, asked |-> <<>>, failed |-> {}]
  BY <1>1 DEF Init, Started
<1>7. script.room \in Nat
  BY ScriptsAssumption DEF Init, ScriptSet
<1>8. DOMAIN <<>> = {} /\ <<>> \in Seq(Commands) /\ Len(<<>>) = 0
  OBVIOUS
<1> QED
  BY <1>4, <1>5, <1>6, <1>7, <1>8 DEF IsHw

LEMMA StartAsks ==
  ASSUME MainOK, MotorOK, OutputOK, IsHw(hw), StartEntry
  PROVE  hw' = hw \/ Asks(hw, hw')
<1> DEFINE o == main.order
           e == o.entries[main.k]
<1>1. o \in GoodOrders /\ main.k \in Nat /\ 1 <= main.k /\ main.k <= Len(o.entries)
  BY DEF StartEntry, MainOK
<1>2. \E S : o.entries \in Seq(S)
  BY <1>1 DEF GoodOrders, Orders
<1>3. main.k \in DOMAIN o.entries
  BY <1>1, <1>2
<1>4. CASE o.kind = "motor" /\ StartMotor(e.id, e.time, Task)
  <2>1. e.id \in Motors
    BY <1>1, <1>3, <1>4, EntryOf
  <2>2. hw' = hw \/ \E direction : hw' = setMotorDirection(hw, e.id, direction)
    BY <1>4, Zenon DEF StartMotor
  <2> QED
    BY <2>1, <2>2, SettersAsk
<1>5. CASE o.kind \in DOMAIN output /\ StartOutput(o.kind, o.servo, e.id, Task)
  <2>1. o.kind \in {"led", "pwm"}
    BY <1>5 DEF OutputOK
  <2>2. /\ o.kind = "led" => e.id \in Leds /\ o.servo = FALSE
        /\ o.kind = "pwm" => e.id \in Pwms
    BY <1>1, <1>3, EntryOf
  <2>3. e.id \in Outputs(o.kind) /\ (o.servo => e.id \in Pwms)
    BY <2>1, <2>2 DEF Outputs
  <2>4. PICK power : power = output[o.kind][e.id].power
    OBVIOUS
  <2>5. /\ power \in Int
        /\ output[o.kind][e.id].state \in {"on", "off", "blink"}
    BY <2>1, <2>3, <2>4 DEF OutputOK, IsOutput
  <2>6. \/ hw' = hw
        \/ o.servo /\ hw' = setServoPosition(hw, e.id, power)
        \/ o.servo /\ hw' = setServoPosition(hw, e.id, -1)
        \/ hw' = setOutputPower(hw, o.kind, e.id, power)
        \/ hw' = setOutputPower(hw, o.kind, e.id, 0)
    BY <1>5, <2>4, <2>5 DEF StartOutput
  <2>9. 0 \in Int /\ -1 \in Int
    OBVIOUS
  <2> HIDE DEF o, e
  <2>7. /\ Asks(hw, setOutputPower(hw, o.kind, e.id, power))
        /\ Asks(hw, setOutputPower(hw, o.kind, e.id, 0))
    BY <2>1, <2>3, <2>5, <2>9, SettersAsk, Zenon
  <2>8. o.servo => /\ Asks(hw, setServoPosition(hw, e.id, power))
                   /\ Asks(hw, setServoPosition(hw, e.id, -1))
    BY <2>3, <2>5, <2>9, SettersAsk, Zenon
  <2> QED
    BY <2>6, <2>7, <2>8
<1>6. CASE o.kind = "stepper" /\ StartStepper(e, Task)
  <2>1. e.velocity \in Int /\ e.value \in Nat
    BY <1>1, <1>3, <1>6, EntryOf
  <2>2. StepsFor(e) \in Int
    <3>1. PICK n \in Nat : n = StepsPerTurn
      BY StepsAssumption
    <3>2. PICK v \in Nat : v = e.value
      BY <2>1
    <3>3. (v * n) \div 360 \in Int /\ v * n \in Int
      OBVIOUS
    <3> QED
      BY <3>1, <3>2, <3>3 DEF StepsFor
  <2>3. PICK speed \in Int : speed = IF e.velocity < 0 THEN -e.velocity ELSE e.velocity
    BY <2>1
  <2>4. \/ hw' = hw
        \/ \E direction : hw' = setStepperStepAction(setStepperSpeed(hw, speed), direction,
                                                     StepsFor(e))
    BY <1>6, <2>3, Zenon DEF StartStepper
  <2>5. PICK g : g = setStepperSpeed(hw, speed)
    OBVIOUS
  <2>6. Asks(hw, g)
    BY <2>5, SettersAsk
  <2>7. \A direction : Asks(g, setStepperStepAction(g, direction, StepsFor(e)))
    BY <2>2, <2>6, SettersAsk DEF Asks
  <2> QED
    BY <2>4, <2>5, <2>6, <2>7 DEF Asks
<1>7. \/ o.kind = "motor" /\ StartMotor(e.id, e.time, Task)
      \/ o.kind \in DOMAIN output /\ StartOutput(o.kind, o.servo, e.id, Task)
      \/ o.kind = "stepper" /\ StartStepper(e, Task)
  BY DEF StartEntry
<1> QED
  BY <1>4, <1>5, <1>6, <1>7

LEMMA CallbackAsks ==
  ASSUME TimerOK, OutputOK, IsHw(hw), Callback
  PROVE  hw' = hw \/ Asks(hw, hw')
<1>1. fired # NoCallback
  BY DEF Callback
<1>2. ASSUME NEW kind \in {"led", "pwm"}, NEW d \in Outputs(kind), NEW on,
             hw' = setOutputPower(hw, kind, d, IF on THEN 0 ELSE output[kind][d].power)
      PROVE  Asks(hw, hw')
  <2>1. PICK power \in Int : power = IF on THEN 0 ELSE output[kind][d].power
    BY DEF OutputOK, IsOutput
  <2> QED
    BY <1>2, <2>1, SettersAsk
<1>3. CASE fired.fn = "blinkLed" /\ BlinkCallback
  <2>1. fired.name \in Outputs("led")
    BY <1>1, <1>3, FiredIs DEF Outputs
  <2>2. CheckBlink("led")
    BY <1>3 DEF BlinkCallback
  <2> QED
    BY <1>2, <2>1, <2>2, Zenon DEF CheckBlink, Toggle
<1>4. CASE fired.fn = "blinkPwm" /\ BlinkCallback
  <2>1. fired.name \in Outputs("pwm")
    BY <1>1, <1>4, FiredIs DEF Outputs
  <2>2. CheckBlink("pwm")
    BY <1>4 DEF BlinkCallback
  <2> QED
    BY <1>2, <2>1, <2>2, Zenon DEF CheckBlink, Toggle
<1>5. CASE fired.fn = "blinkServo" /\ BlinkCallback
  <2>1. fired.name \in Outputs("pwm")
    BY <1>1, <1>5, FiredIs DEF Outputs
  <2>2. CheckServo
    BY <1>5 DEF BlinkCallback
  <2>3. \/ hw' = hw
        \/ \E on : hw' = setOutputPower(hw, "pwm", fired.name,
                                        IF on THEN 0 ELSE output["pwm"][fired.name].power)
    BY <2>2, Zenon DEF CheckServo
  <2> QED
    BY <1>2, <2>1, <2>3
<1>6. CASE fired.fn \in MotorFns
  BY <1>6 DEF Callback, MotorFns, BlinkFns, StepperFns
<1>7. CASE fired.fn \in StepperFns /\ StepperCallback
  <2>1. hw' = hw \/ hw' = setStepperStepAction(hw, "stop", 0)
    BY <1>7 DEF StepperCallback, EndStepper
  <2> QED
    BY <2>1, SettersAsk
<1> QED
  BY <1>3, <1>4, <1>5, <1>6, <1>7 DEF Callback, BlinkFns

LEMMA PowerAsks ==
  ASSUME MotorOK, RegulatorOK, IsHw(hw), CheckPower
  PROVE  Asks(hw, hw')
<1>1. \A m \in {0, 1} : Sending(m) \in Seq(Commands)
  <2>1. TAKE m \in {0, 1}
  <2>2. SpeedCommand(m, Speed(m)) \in Commands
    BY Addresses, SetterCommands, SpeedOK
  <2> QED
    BY <2>2 DEF Sending
<1>2. PICK commands : /\ commands = Sending(0) \o Sending(1)
                      /\ hw' = QueuedAll(hw, commands)
  BY DEF CheckPower, checkDCmotorPower
<1>3. commands \in Seq(Commands)
  BY <1>1, <1>2
<1> QED
  BY <1>2, <1>3, AsksAll

(* What moves the queue and the board.                                     *)
LEMMA HwMoves ==
  ASSUME MainOK, TimerOK, MotorOK, OutputOK, RegulatorOK, IsHw(hw), [Next]_vars
  PROVE  hw' = hw \/ Asks(hw, hw') \/ ProcessCommandQueue \/ StepperArrives
<1>1. CASE StartEntry
  BY <1>1, StartAsks
<1>2. CASE Callback
  BY <1>2, CallbackAsks
<1>3. CASE CheckPower
  BY <1>3, PowerAsks
<1>4. ASSUME NEW o, Take(o) \/ Reset(o)
      PROVE  hw' = hw \/ Asks(hw, hw')
  <2>1. CASE Take(o)
    BY <2>1 DEF Take
  <2>2. CASE Reset(o)
    BY <2>2, ResetAsks DEF Reset
  <2> QED
    BY <1>4, <2>1, <2>2
<1>5. CASE HwCommand \/ Arrive
  BY <1>5 DEF HwCommand, Arrive
<1>6. CASE Measure \/ HwStepper
  BY <1>6 DEF Measure, MeasureSpeed, HwStepper, ReadMotorState
<1>7. CASE \E i \in TimerSlots : Fire(i)
  BY <1>7 DEF Fire
<1>8. CASE \E m \in Motors : HwPulses(m) \/ Wheel(m)
  BY <1>8 DEF HwPulses, Wheel, ReadLow, ReadHigh, Turn
<1>9. CASE UNCHANGED vars
  BY <1>9 DEF vars
<1> QED
  BY <1>1, <1>2, <1>3, <1>4, <1>5, <1>6, <1>7, <1>8, <1>9 DEF Next

(* The stepper driver stops while commands wait.                           *)
LEMMA ArrivesKeeps ==
  ASSUME IsHw(hw), StepperArrives
  PROVE  IsHw(hw') /\ hw'.board.gpio = hw.board.gpio
<1> DEFINE w == StepperDone(hw.board)
<1>1. /\ DOMAIN hw' = DOMAIN hw /\ hw'.board = w /\ hw'.queue = hw.queue
      /\ hw'.room = hw.room /\ hw'.asked = hw.asked /\ hw'.failed = hw.failed
  BY DEF StepperArrives, IsHw
<1>2. w.gpio = hw.board.gpio
  BY DEF StepperDone, IsHw, IsBoard
<1>3. /\ IsBoard(w) /\ Bridges(w)
      /\ \A d \in Commands : Shows(hw.board, d) => Shows(w, d)
  BY DoneKeeps DEF IsHw
<1> HIDE DEF w
<1>4. ASSUME NEW ch \in DOMAIN hw.asked
      PROVE  IsAsked(hw, ch)'
  <2>1. IsAsked(hw, ch)
    BY <1>4 DEF IsHw
  <2> QED
    BY <1>1, <1>3, <2>1 DEF IsAsked
<1> QED
  BY <1>1, <1>2, <1>3, <1>4 DEF IsHw

LEMMA HwStep ==
  ASSUME MainOK, TimerOK, MotorOK, OutputOK, RegulatorOK, IsHw(hw), [Next]_vars
  PROVE  IsHw(hw')
  BY HwMoves, ProcessKeeps, ArrivesKeeps DEF Asks

(* The inductive invariant of the devices.                                 *)
DevicesInv ==
    /\ MainOK /\ TimerOK /\ MotorOK /\ WheelOK /\ OutputOK /\ RegulatorOK
    /\ IsHw(hw)

(* Every device, timer, order and command is one of those there are.       *)
THEOREM DevicesTyped == Spec => []DevicesInv
<1>1. Init => DevicesInv
  BY MainInit, TimerInit, MotorTypesInit, OutputInit, RegulatorInit, HwInit DEF DevicesInv
<1>2. DevicesInv /\ [Next]_vars => DevicesInv'
  <2> SUFFICES ASSUME DevicesInv, [Next]_vars PROVE DevicesInv'
    OBVIOUS
  <2>1. /\ MainOK /\ TimerOK /\ MotorOK /\ WheelOK /\ OutputOK /\ RegulatorOK /\ IsHw(hw)
        /\ DOMAIN output = {"led", "pwm"}
    BY DEF DevicesInv, OutputOK
  <2>2. MainOK'
    BY <2>1, MainStep
  <2>3. TimerOK'
    BY <2>1, TimerStep
  <2>4. MotorOK' /\ WheelOK'
    BY <2>1, <2>2, MotorTypesStep
  <2>5. OutputOK'
    BY <2>1, <2>2, OutputStep
  <2>6. RegulatorOK'
    BY <2>1, RegulatorStep
  <2>7. IsHw(hw)'
    BY <2>1, HwStep
  <2> QED
    BY <2>2, <2>3, <2>4, <2>5, <2>6, <2>7 DEF DevicesInv
<1> QED
  BY <1>1, <1>2, PTL DEF Spec

(* The two switches of an H-bridge are never closed together (BridgeNever- *)
(* Shorted): whichever transfers of MCP2308_DCmotorSetRotation fail, for   *)
(* any orders of the host.                                                 *)
THEOREM BridgesNeverShorted == Spec => []BridgeNeverShorted
<1>1. DevicesInv => BridgeNeverShorted
  BY DEF DevicesInv, IsHw, Bridges, BridgeNeverShorted
<1> QED
  BY <1>1, DevicesTyped, PTL

(* When hwTask has emptied the queue, each device is where the last        *)
(* accepted command put it (BoardShowsOrders).                             *)
THEOREM BoardFollowsOrders == Spec => []BoardShowsOrders
<1>1. DevicesInv => BoardShowsOrders
  <2> SUFFICES ASSUME DevicesInv, hw.queue = <<>>, NEW ch \in DOMAIN hw.asked \ hw.failed
               PROVE  Shows(hw.board, hw.asked[ch])
    BY DEF BoardShowsOrders
  <2>1. IsAsked(hw, ch)
    BY DEF DevicesInv, IsHw
  <2>2. 1 .. Len(hw.queue) = {}
    OBVIOUS
  <2> QED
    BY <2>1, <2>2 DEF IsAsked
<1> QED
  BY <1>1, DevicesTyped, PTL

(* A rotation leaves the other motor and the enable bit alone, unless the  *)
(* latch could not be read.                                                *)
LEMMA RotationDisturbs ==
  ASSUME IsHw(hw), ProcessCommandQueue, NEW m \in Motors
  PROVE  \/ hw'.board.gpio.olat = hw.board.gpio.olat
         \/ hw'.board.gpio.olat \ DirectionBits(m) = hw.board.gpio.olat \ DirectionBits(m)
         \/ Head(hw.queue).adr # MotorAddress[m]
         \/ <<"DCmotorSetRotation", MotorAddress[1 - m]>> \in hw'.failed
<1> DEFINE c == Head(hw.queue)
           N == 1 .. TransferCount(c)
<1>1. c \in Commands /\ IsBoard(hw.board)
  BY DEF IsHw, ProcessCommandQueue
<1>2. PICK bad \in SUBSET N :
        hw' = [hw EXCEPT
                 !.board = Drive(@, c, [i \in N |-> i \notin bad]),
                 !.queue = Tail(@),
                 !.failed =
                   IF bad = {} THEN @ \ {Channel(c)}
                   ELSE IF c.fn = "DCmotorSetRotation" /\ 1 \in bad
                        THEN @ \cup {<<c.fn, adr>> : adr \in ToSet(<<8, 12>>)}
                        ELSE @ \cup {Channel(c)}]
  BY DEF ProcessCommandQueue
<1>3. PICK ok : ok = [i \in N |-> i \notin bad]
  OBVIOUS
<1>4. /\ hw'.board = Drive(hw.board, c, ok)
      /\ c.fn = "DCmotorSetRotation" /\ 1 \in bad =>
           hw'.failed = hw.failed \cup {<<c.fn, adr>> : adr \in ToSet(<<8, 12>>)}
  BY <1>2, <1>3 DEF IsHw
<1>5. CASE c.fn # "DCmotorSetRotation"
  <2>1. ChipOf(c) # "gpio"
    BY <1>5 DEF ChipOf
  <2>2. PICK b, w : b = hw.board /\ w = Drive(b, c, ok)
    OBVIOUS
  <2>3. c \in Commands /\ IsBoard(b)
    BY <1>1, <2>2
  <2> HIDE DEF c
  <2>4. "gpio" \in DOMAIN b /\ "olat" \in DOMAIN b["gpio"]
    BY <2>3 DEF IsBoard
  <2>5. Drive(b, c, ok)["gpio"]["olat"] = b["gpio"]["olat"]
    BY <2>1, <2>3, <2>4, DriveFrame
  <2> QED
    BY <1>4, <2>2, <2>5
<1>6. CASE c.fn = "DCmotorSetRotation" /\ c.adr = MotorAddress[m]
  <2>1. 1 \in N
    BY <1>1, <1>6, TransferCounts DEF DutyFns
  <2>2. CASE 1 \in bad
    <3>1. MotorAddress[1 - m] \in {8, 12} /\ ToSet(<<8, 12>>) = {8, 12}
      BY Addresses DEF ToSet
    <3> QED
      BY <1>4, <1>6, <2>2, <3>1
  <2>3. CASE 1 \notin bad
    <3> DEFINE off == ReadLatch(hw.board, ok[1]) \ DirectionBits(m)
    <3>1. MotorAt(c.adr) = m /\ c.cmd \in {MCW, MCCW}
      BY <1>1, <1>6, Addresses, Bits, CommandCases DEF StepperCalls
    <3>2. hw'.board.gpio.olat \in {hw.board.gpio.olat, off, off \cup Wanted(m, c.cmd)}
      BY <1>1, <1>4, <1>6, <3>1, DriveRotation
    <3>3. off = hw.board.gpio.olat \ DirectionBits(m)
      BY <1>3, <2>1, <2>3 DEF ReadLatch
    <3>4. Wanted(m, c.cmd) \subseteq DirectionBits(m)
      BY <3>1, Addresses, Bits
    <3> HIDE DEF off
    <3> QED
      BY <3>2, <3>3, <3>4
  <2> QED
    BY <2>2, <2>3
<1> QED
  BY <1>5, <1>6

(* Turning one motor leaves the other motor and the enable bit of the      *)
(* bridges alone, unless the latch could not be read (OthersUndisturbed).  *)
THEOREM OthersStayUndisturbed == Spec => OthersUndisturbed
<1> DEFINE A == \A m \in Motors :
                  \/ hw'.board.gpio.olat = hw.board.gpio.olat
                  \/ hw'.board.gpio.olat \ DirectionBits(m)
                       = hw.board.gpio.olat \ DirectionBits(m)
                  \/ Head(hw.queue).adr # MotorAddress[m]
                  \/ <<"DCmotorSetRotation", MotorAddress[1 - m]>> \in hw'.failed
<1>1. DevicesInv /\ [Next]_vars => [A]_hw
  <2> SUFFICES ASSUME DevicesInv, [Next]_vars PROVE A \/ hw' = hw
    OBVIOUS
  <2>1. hw' = hw \/ Asks(hw, hw') \/ ProcessCommandQueue \/ StepperArrives
    BY HwMoves DEF DevicesInv
  <2>2. IsHw(hw)
    BY DEF DevicesInv
  <2>3. CASE Asks(hw, hw')
    BY <2>3 DEF Asks
  <2>4. CASE ProcessCommandQueue
    BY <2>2, <2>4, RotationDisturbs
  <2>5. CASE StepperArrives
    BY <2>2, <2>5, ArrivesKeeps
  <2> QED
    BY <2>1, <2>3, <2>4, <2>5
<1> QED
  BY <1>1, DevicesTyped, PTL DEF Spec, OthersUndisturbed

------------------------------------------------------------------------------
(* The regulator does not wind up.                                         *)

(* A gain times an error that is bounded.                                  *)
LEMMA GainBounded ==
  ASSUME NEW k \in Int, NEW x \in Int, NEW B \in Nat, -B <= x, x <= B
  PROVE  /\ Abs(k) \in Nat /\ Abs(k) * B \in Nat /\ k * x \in Int
         /\ -(Abs(k) * B) <= k * x /\ k * x <= Abs(k) * B
<1>1. ASSUME NEW a \in Nat
      PROVE  a * B \in Nat /\ -(a * B) <= a * x /\ a * x <= a * B
  OBVIOUS
<1>2. CASE k >= 0
  <2>1. Abs(k) = k /\ k \in Nat
    BY <1>2 DEF Abs
  <2> QED
    BY <1>1, <2>1
<1>3. CASE k < 0
  <2>1. Abs(k) = -k /\ -k \in Nat
    BY <1>3 DEF Abs
  <2>2. (-k) * B \in Nat /\ -((-k) * B) <= (-k) * x /\ (-k) * x <= (-k) * B
    BY <1>1, <2>1
  <2>3. (-k) * x = -(k * x) /\ k * x \in Int
    OBVIOUS
  <2> QED
    BY <2>1, <2>2, <2>3
<1> QED
  BY <1>2, <1>3

(* The bound of IntegralBounded.                                           *)
Error(m) == rpmToPercent(m, Motor[m].minRPM) + VelocityLimit + SpeedLimit
Most(m) ==
    99 + Abs(Motor[m].PID.Kp - Motor[m].PID.Ki) * Error(m) + Abs(Motor[m].PID.Kd) * (2 * SpeedLimit)
SumOK ==
    \A m \in Motors : /\ -Most(m) <= Motor[m].PID.Ki * regulator.sum[m]
                      /\ Motor[m].PID.Ki * regulator.sum[m] <= Most(m)

LEMMA BoundsOK ==
  ASSUME NEW m \in Motors
  PROVE  Error(m) \in Nat /\ Most(m) \in Nat
<1>1. rpmToPercent(m, Motor[m].minRPM) \in Nat
  BY MotorConfigured, Percents
<1>2. VelocityLimit \in Nat /\ SpeedLimit \in Nat
  BY SpeedAssumption
<1>3. Error(m) \in Nat
  BY <1>1, <1>2 DEF Error
<1>4. \A k \in Int : Abs(k) \in Nat
  BY DEF Abs
<1>5. PICK P \in Nat : P = Abs(Motor[m].PID.Kp - Motor[m].PID.Ki)
  BY <1>4, MotorConfigured
<1>6. PICK Q \in Nat : Q = Abs(Motor[m].PID.Kd)
  BY <1>4, MotorConfigured
<1>7. \A a, b, c, d \in Nat : 99 + a * b + c * (2 * d) \in Nat
  OBVIOUS
<1>8. 99 + P * Error(m) + Q * (2 * SpeedLimit) \in Nat
  BY <1>2, <1>3, <1>7
<1> QED
  BY <1>3, <1>5, <1>6, <1>8 DEF Most

LEMMA SumStep ==
  ASSUME MotorOK, RegulatorOK, SumOK, [Next]_vars
  PROVE  SumOK'
<1>1. CASE regulator' = regulator
  BY <1>1 DEF SumOK
<1>2. ASSUME CheckPower, NEW m \in Motors,
             PIDoutput(m, Current(m), PIDtarget(m)) \in 1 .. 99,
             regulator'.sum[m] = regulator.sum[m] + PIDtarget(m) - Current(m)
      PROVE  /\ -Most(m) <= Motor[m].PID.Ki * regulator'.sum[m]
             /\ Motor[m].PID.Ki * regulator'.sum[m] <= Most(m)
  <2>1. PICK kp, ki, kd \in Int :
          kp = Motor[m].PID.Kp /\ ki = Motor[m].PID.Ki /\ kd = Motor[m].PID.Kd
    BY MotorConfigured
  <2>2. PICK cur \in Int : cur = Current(m) /\ -SpeedLimit <= cur /\ cur <= SpeedLimit
    BY CurrentOK
  <2>3. PICK target \in Int : target = PIDtarget(m)
    BY TargetOK
  <2>4. PICK sum, last \in Int : /\ sum = regulator.sum[m] /\ last = regulator.last[m]
                                 /\ -SpeedLimit <= last /\ last <= SpeedLimit
    BY DEF RegulatorOK
  <2>5. SpeedLimit \in Nat /\ VelocityLimit \in Nat
    BY SpeedAssumption
  <2>6. PICK e \in Int, d \in Int : e = target - cur /\ d = last - cur
    OBVIOUS
  <2>7. PICK out \in Int : out = kp * e + ki * sum + kd * d /\ 1 <= out /\ out <= 99
    <3>1. PIDoutput(m, Current(m), PIDtarget(m)) = kp * e + ki * sum + kd * d
      BY <2>1, <2>2, <2>3, <2>4, <2>6, Zenon DEF PIDoutput
    <3> QED
      BY <1>2, <3>1
  <2>8. PICK rest \in Int, v \in Int : /\ rest = rpmToPercent(m, Motor[m].minRPM)
                                       /\ v = motor[m].velocity /\ target = rest + v
                                       /\ -VelocityLimit <= v /\ v <= VelocityLimit
                                       /\ rest >= 0
    <3>1. /\ rpmToPercent(m, Motor[m].minRPM) \in Int /\ motor[m].velocity \in Int
          /\ rpmToPercent(m, Motor[m].minRPM) >= 0
      BY MotorConfigured, Percents DEF MotorOK, IsMotor
    <3>2. -VelocityLimit <= motor[m].velocity /\ motor[m].velocity <= VelocityLimit
      BY DEF MotorOK, IsMotor
    <3> QED
      BY <2>3, <3>1, <3>2, TargetOK
  <2>9. Error(m) \in Nat /\ Error(m) = rest + VelocityLimit + SpeedLimit
    BY <2>8, BoundsOK DEF Error
  <2>10. -Error(m) <= e /\ e <= Error(m)
    BY <2>2, <2>5, <2>6, <2>8, <2>9
  <2>11. 2 * SpeedLimit \in Nat /\ -(2 * SpeedLimit) <= d /\ d <= 2 * SpeedLimit
    BY <2>2, <2>4, <2>5, <2>6
  <2>12. Most(m) = 99 + Abs(kp - ki) * Error(m) + Abs(kd) * (2 * SpeedLimit)
    BY <2>1 DEF Most
  <2>13. -Most(m) <= ki * (sum + e) /\ ki * (sum + e) <= Most(m)
    <3> DEFINE E == Error(m)  D == 2 * SpeedLimit  most == Most(m)
    <3>1. /\ E \in Nat /\ -E <= e /\ e <= E /\ D \in Nat /\ -D <= d /\ d <= D
          /\ most = 99 + Abs(kp - ki) * E + Abs(kd) * D
      BY <2>9, <2>10, <2>11, <2>12, Zenon
    <3> HIDE DEF E, D, most
    <3>3. PICK k \in Int : k = kp - ki
      OBVIOUS
    <3>4. /\ Abs(k) * E \in Nat /\ k * e \in Int
          /\ -(Abs(k) * E) <= k * e /\ k * e <= Abs(k) * E
      BY <3>1, GainBounded, Zenon
    <3>5. /\ Abs(kd) * D \in Nat /\ kd * d \in Int
          /\ -(Abs(kd) * D) <= kd * d /\ kd * d <= Abs(kd) * D
      BY <3>1, GainBounded, Zenon
    <3>6. PICK p \in Int, P \in Nat : p = k * e /\ P = Abs(k) * E /\ -P <= p /\ p <= P
      BY <3>4, Zenon
    <3>7. PICK q \in Int, Q \in Nat : q = kd * d /\ Q = Abs(kd) * D /\ -Q <= q /\ q <= Q
      BY <3>5, Zenon
    \* The sum after a pass is what the output was, without the other terms.
    <3>8. ki * (sum + e) = out - (kp - ki) * e - kd * d
      BY <2>7
    <3>9. ki * (sum + e) = out - p - q
      BY <3>3, <3>6, <3>7, <3>8, Zenon
    <3>10. most = 99 + P + Q
      BY <3>1, <3>3, <3>6, <3>7, Zenon
    <3>11. -most <= ki * (sum + e) /\ ki * (sum + e) <= most
      <4>1. PICK x : x = ki * (sum + e)
        OBVIOUS
      <4> QED
        BY <2>7, <3>6, <3>7, <3>9, <3>10, <4>1
    <3> QED
      BY <3>11 DEF most
  <2>14. regulator'.sum[m] = sum + e
    BY <1>2, <2>2, <2>3, <2>4, <2>6
  <2> QED
    BY <2>1, <2>13, <2>14
<1>3. CASE CheckPower
  <2> SUFFICES ASSUME NEW m \in Motors
               PROVE  /\ -Most(m) <= Motor[m].PID.Ki * regulator'.sum[m]
                      /\ Motor[m].PID.Ki * regulator'.sum[m] <= Most(m)
    BY DEF SumOK, Most, Error, rpmToPercent
  <2>1. CASE regulator'.sum[m] = regulator.sum[m]
    BY <2>1 DEF SumOK
  <2> QED
    BY <1>2, <1>3, <2>1, RegulatorMoves
<1> QED
  BY <1>1, <1>3, RegulatorKept

(* The integral of the PID stays within what one more pass may bring the   *)
(* output to, for any gains, limits and speeds (IntegralBounded).          *)
THEOREM RegulatorNeverWindsUp == Spec => []IntegralBounded
<1>1. Init => SumOK
  <2> SUFFICES ASSUME Init, NEW m \in Motors
               PROVE  /\ -Most(m) <= Motor[m].PID.Ki * regulator.sum[m]
                      /\ Motor[m].PID.Ki * regulator.sum[m] <= Most(m)
    BY DEF SumOK
  <2>1. regulator.sum[m] = 0
    BY DEF Init, MotorInit
  <2>2. Motor[m].PID.Ki * 0 = 0
    BY MotorConfigured
  <2> QED
    BY <2>1, <2>2, BoundsOK
<1>2. DevicesInv /\ SumOK /\ [Next]_vars => SumOK'
  BY SumStep DEF DevicesInv
<1>3. DevicesInv /\ SumOK => IntegralBounded
  <2> SUFFICES ASSUME DevicesInv, SumOK, NEW m \in Motors
               PROVE  Motor[m].PID.Ki * regulator.sum[m] \in (-Most(m)) .. Most(m)
    <3>1. \A k \in Motors : Most(k) = LET c == Motor[k].PID IN
            99 + Abs(c.Kp - c.Ki) * Error(k) + Abs(c.Kd) * 2 * SpeedLimit
      <4>1. TAKE k \in Motors
      <4>2. PICK Q \in Int : Q = Abs(Motor[k].PID.Kd)
        BY MotorConfigured DEF Abs
      <4>3. Q * (2 * SpeedLimit) = Q * 2 * SpeedLimit
        BY SpeedAssumption
      <4> QED
        BY <4>2, <4>3 DEF Most
    <3> QED
      BY <3>1, Zenon DEF IntegralBounded, Error
  <2>1. Motor[m].PID.Ki * regulator.sum[m] \in Int
    <3>1. Motor[m].PID.Ki \in Int /\ regulator.sum[m] \in Int
      BY MotorConfigured DEF DevicesInv, RegulatorOK
    <3>2. \A x, y \in Int : x * y \in Int
      OBVIOUS
    <3> QED
      BY <3>1, <3>2
  <2> QED
    BY <2>1, BoundsOK DEF SumOK
<1> QED
  BY <1>1, <1>2, <1>3, DevicesTyped, PTL DEF Spec

------------------------------------------------------------------------------
(* A running motor has a timer.                                            *)

Armed(m) == \E i \in TimerSlots : timer[i].id > 0 /\ Matches(timer[i], m, 0)
Called(m) == fired.fn \in MotorFns /\ fired.name = m
Waiting(m) ==
    /\ main # Idle /\ main.order.kind = "motor"
    /\ \E k \in main.k .. Len(main.order.entries) : main.order.entries[k].id = m
Running(m) == motor[m].velocity # 0 /\ ~motor[m].missed
IsTimed(m) == Running(m) => Armed(m) \/ Called(m) \/ Waiting(m)

(* The device that sets its timer has one, if there was a slot.            *)
LEMMA SetArms ==
  ASSUME IsTable(timer), NEW id, NEW m \in Motors, NEW fn \in MotorFns,
         id \in Nat, id > 0,
         NEW set, set = SetTimer(timer, id, m, 0, fn), timer' = set.table, set.result # 0
  PROVE  Armed(m)'
<1>1. IsTimer(Timer(id, m, 0, fn))
  BY DEF IsTimer, Timer
<1>2. \E i \in TimerSlots : timer'[i] = Timer(id, m, 0, fn)
  BY <1>1, SetTimerKeeps
<1> QED
  BY <1>2 DEF Armed, Timer, Matches

(* A device does not lose its timer to another.                            *)
LEMMA ArmedKept ==
  ASSUME IsTable(timer), NEW m \in Motors, Armed(m),
         \/ timer' = timer
         \/ \E id, name, type, fn : /\ IsTimer(Timer(id, name, type, fn))
                                    /\ timer' = SetTimer(timer, id, name, type, fn).table
  PROVE  Armed(m)'
<1>1. CASE timer' = timer
  BY <1>1 DEF Armed
<1>2. ASSUME NEW id, NEW name, NEW type, NEW fn, IsTimer(Timer(id, name, type, fn)),
             timer' = SetTimer(timer, id, name, type, fn).table
      PROVE  Armed(m)'
  <2>1. PICK set : set = SetTimer(timer, id, name, type, fn)
    OBVIOUS
  <2>2. PICK i \in TimerSlots : timer[i].id > 0 /\ Matches(timer[i], m, 0)
    BY DEF Armed
  <2>3. CASE ~Matches(timer[i], name, type)
    <3>1. timer'[i] = timer[i]
      BY <1>2, <2>1, <2>2, <2>3, SetTimerKeeps
    <3> QED
      BY <2>2, <3>1 DEF Armed
  <2>4. CASE Matches(timer[i], name, type)
    <3>1. name = m /\ type = 0
      BY <2>2, <2>4 DEF Matches
    <3>2. CASE set.result = 0
      <4>1. set.table = timer
        BY <2>1, <3>2, SetTimerDoes
      <4> QED
        BY <1>1, <1>2, <2>1, <4>1
    <3>3. CASE set.result # 0
      <4>1. \E j \in TimerSlots : set.table[j] = Timer(id, name, type, fn)
        BY <1>2, <2>1, <3>3, SetTimerKeeps
      <4>2. id \in Nat /\ id > 0
        BY <1>2 DEF IsTimer, Timer
      <4> QED
        BY <1>2, <2>1, <3>1, <4>1, <4>2 DEF Armed, Timer, Matches
    <3> QED
      BY <3>2, <3>3
  <2> QED
    BY <2>3, <2>4
<1> QED
  BY <1>1, <1>2

LEMMA TimedKept ==
  ASSUME NEW m \in Motors, IsTimed(m), Running(m)' => Running(m),
         Armed(m) => Armed(m)', Called(m) => Called(m)' \/ Armed(m)', Waiting(m) => Waiting(m)'
  PROVE  IsTimed(m)'
  BY DEF IsTimed

LEMMA TimedStart ==
  ASSUME DevicesInv, StartEntry, NEW m \in Motors, IsTimed(m)
  PROVE  IsTimed(m)'
<1> DEFINE o == main.order
           e == o.entries[main.k]
<1>1. o \in GoodOrders /\ main.k \in Nat /\ 1 <= main.k /\ main.k <= Len(o.entries)
  BY DEF StartEntry, DevicesInv, MainOK
<1>2. \E S : o.entries \in Seq(S)
  BY <1>1 DEF GoodOrders, Orders
<1>3. main.k \in DOMAIN o.entries /\ Len(o.entries) \in Nat
  BY <1>1, <1>2
<1>4. IsTable(timer) /\ MotorOK /\ MainOK /\ DOMAIN output = {"led", "pwm"}
  BY DEF DevicesInv, TimerOK, OutputOK
<1>5. Armed(m) => Armed(m)'
  BY <1>4, ArmedKept, StartSets
<1>6. Called(m) => Called(m)'
  BY DEF Called, StartEntry
<1>7. CASE o.kind = "motor" /\ StartMotor(e.id, e.time, Task)
  <2>1. PICK set, fn : /\ set = SetTimer(timer, Task, e.id, 0, fn) /\ fn \in MotorFns
                       /\ timer' = set.table
                       /\ \E x : motor' = [motor EXCEPT ![e.id] =
                            [motor[e.id] EXCEPT !.direction = x[1], !.velocity = x[2],
                               !.stop = x[3], !.due = x[4], !.sound = x[5],
                               !.missed = set.result = 0]]
    <3> DEFINE far == motor[e.id].cm > 0
               fn == IF far THEN "checkEncoder"
                     ELSE IF e.time > 0 THEN "endWheel" ELSE "dummyMotor"
               set == SetTimer(timer, Task, e.id, 0, fn)
               x == <<DirectionOf(e.id, motor[e.id].velocity),
                      IF motor[e.id].velocity < 0 THEN -motor[e.id].velocity
                      ELSE motor[e.id].velocity,
                      IF far THEN StopAt(e.id) ELSE motor[e.id].stop,
                      IF far THEN wheel[e.id].at + motor[e.id].cm ELSE motor[e.id].due,
                      IF far THEN wheel[e.id].sound ELSE motor[e.id].sound>>
    <3>1. timer' = set.table /\ fn \in MotorFns
      BY <1>7, Zenon DEF StartMotor, MotorFns
    <3>2. motor' = [motor EXCEPT ![e.id] =
             [motor[e.id] EXCEPT
                        !.direction = DirectionOf(e.id, motor[e.id].velocity),
                        !.velocity = IF motor[e.id].velocity < 0 THEN -motor[e.id].velocity
                                     ELSE motor[e.id].velocity,
                        !.stop = IF far THEN StopAt(e.id) ELSE motor[e.id].stop,
                        !.due = IF far THEN wheel[e.id].at + motor[e.id].cm
                                ELSE motor[e.id].due,
                        !.sound = IF far THEN wheel[e.id].sound ELSE motor[e.id].sound,
                        !.missed = set.result = 0]]
      BY <1>7, Zenon DEF StartMotor
    <3> HIDE DEF fn, set
    <3>3. motor' = [motor EXCEPT ![e.id] =
             [motor[e.id] EXCEPT !.direction = x[1], !.velocity = x[2], !.stop = x[3],
                                 !.due = x[4], !.sound = x[5], !.missed = set.result = 0]]
      BY <3>2
    <3> HIDE DEF x
    <3> QED
      BY <3>1, <3>3, Zenon DEF set
  <2>2. e.id \in Motors
    BY <1>1, <1>3, <1>7, EntryOf
  <2>3. CASE m = e.id
    <3>1. CASE set.result = 0
      <4>1. motor'[m].missed
        <5>1. DOMAIN motor = Motors /\ DOMAIN motor[m] = MotorFields
          BY <1>4 DEF MotorOK, IsMotor
        <5> DEFINE missed == set.result = 0
        <5>2. PICK x : motor' = [motor EXCEPT ![m] =
                         [motor[m] EXCEPT !.direction = x[1], !.velocity = x[2], !.stop = x[3],
                                          !.due = x[4], !.sound = x[5], !.missed = missed]]
          BY <2>1, <2>3, Zenon
        <5> HIDE DEF missed
        <5>3. motor'[m].missed = missed
          BY <5>1, <5>2 DEF MotorFields
        <5> QED
          BY <3>1, <5>3 DEF missed
      <4> QED
        BY <4>1 DEF IsTimed, Running
    <3>2. CASE set.result # 0
      <4>1. Task \in Nat /\ Task > 0
        BY DEF Task
      <4>2. Armed(m)'
        <5>1. PICK id \in Nat : id = Task /\ id > 0
          BY <4>1
        <5>2. set = SetTimer(timer, id, m, 0, fn)
          BY <2>1, <2>3, <5>1
        <5>3. timer' = set.table /\ fn \in MotorFns
          BY <2>1
        <5> QED
          BY <1>4, <3>2, <5>1, <5>2, <5>3, SetArms
      <4> QED
        BY <4>2 DEF IsTimed
    <3> QED
      BY <3>1, <3>2
  <2>4. CASE m # e.id
    <3>1. motor'[m] = motor[m]
      BY <1>4, <2>1, <2>2, <2>4 DEF MotorOK
    <3>2. ASSUME Waiting(m) PROVE Waiting(m)'
      <4>1. PICK k \in main.k .. Len(o.entries) : o.entries[k].id = m
        BY <3>2 DEF Waiting
      <4>2. k # main.k /\ k \in Nat
        BY <1>1, <1>3, <2>4, <4>1
      <4>3. main.k < Len(o.entries) /\ main.k + 1 <= k /\ k <= Len(o.entries)
        BY <1>1, <1>3, <4>1, <4>2
      <4>4. main' = [main EXCEPT !.k = @ + 1]
        BY <4>3 DEF StartEntry, Advance
      <4>5. main'.order = o /\ main'.k = main.k + 1 /\ main' # Idle
        BY <1>4, <4>4 DEF MainOK, Idle, StartEntry
      <4> QED
        BY <1>1, <1>3, <1>7, <4>1, <4>2, <4>3, <4>5 DEF Waiting
    <3> QED
      BY <1>5, <1>6, <3>1, <3>2, TimedKept DEF Running
  <2> QED
    BY <2>3, <2>4
<1>8. CASE o.kind # "motor"
  <2>1. motor' = motor
    BY <1>8 DEF StartEntry, motorVars
  <2> QED
    BY <1>5, <1>6, <1>8, <2>1, TimedKept DEF Running, Waiting
<1> QED
  BY <1>4, <1>7, <1>8 DEF StartEntry

LEMMA TimedCallback ==
  ASSUME DevicesInv, Callback, NEW m \in Motors, IsTimed(m)
  PROVE  IsTimed(m)'
<1>1. IsTable(timer) /\ MotorOK /\ TimerOK /\ fired # NoCallback /\ main' = main
  BY DEF DevicesInv, TimerOK, Callback
<1>2. Armed(m) => Armed(m)'
  BY <1>1, ArmedKept, CallbackSets
<1>3. Waiting(m) => Waiting(m)'
  BY <1>1 DEF Waiting
<1>4. fired.id \in Nat /\ fired.id > 0
  BY <1>1, FiredIs
<1>5. CASE fired.fn \in MotorFns /\ MotorCallback
  <2> DEFINE d == fired.name
  <2>1. d \in Motors
    BY <1>1, <1>5, FiredIs
  <2>2. \/ motor' = [motor EXCEPT ![d] = Stopped(d)]
        \/ \E fn \in MotorFns :
             /\ timer' = SetTimer(timer, fired.id, d, 0, fn).table
             /\ motor' = [motor EXCEPT ![d].missed
                            = SetTimer(timer, fired.id, d, 0, fn).result = 0]
    BY <1>5 DEF MotorCallback, EndWheel, Again, MotorFns
  <2>3. CASE motor' = [motor EXCEPT ![d] = Stopped(d)]
    <3>1. CASE m = d
      <4>1. motor'[m].velocity = 0
        BY <1>1, <2>3, <3>1 DEF Stopped, MotorOK, IsMotor, MotorFields
      <4> QED
        BY <4>1 DEF IsTimed, Running
    <3>2. CASE m # d
      <4>1. motor'[m] = motor[m]
        BY <1>1, <2>3, <3>2 DEF MotorOK
      <4> QED
        BY <1>2, <1>3, <3>2, <4>1, TimedKept DEF Running, Called
    <3> QED
      BY <3>1, <3>2
  <2>4. ASSUME NEW fn \in MotorFns,
               timer' = SetTimer(timer, fired.id, d, 0, fn).table,
               motor' = [motor EXCEPT ![d].missed
                            = SetTimer(timer, fired.id, d, 0, fn).result = 0]
        PROVE  IsTimed(m)'
    <3>1. PICK set : set = SetTimer(timer, fired.id, d, 0, fn)
      OBVIOUS
    <3>2. CASE m = d
      <4>1. CASE set.result = 0
        <5>1. motor'[m].missed
          BY <1>1, <2>4, <3>1, <3>2, <4>1 DEF MotorOK, IsMotor, MotorFields
        <5> QED
          BY <5>1 DEF IsTimed, Running
      <4>2. CASE set.result # 0
        <5>1. Armed(m)'
          BY <1>1, <1>4, <2>4, <3>1, <3>2, <4>2, SetArms
        <5> QED
          BY <5>1 DEF IsTimed
      <4> QED
        BY <4>1, <4>2
    <3>3. CASE m # d
      <4>1. motor'[m] = motor[m]
        BY <1>1, <2>4, <3>3 DEF MotorOK
      <4> QED
        BY <1>2, <1>3, <3>3, <4>1, TimedKept DEF Running, Called
    <3> QED
      BY <3>2, <3>3
  <2> QED
    BY <2>2, <2>3, <2>4
<1>6. CASE fired.fn \notin MotorFns
  <2>1. motor' = motor
    BY <1>6 DEF Callback
  <2> QED
    BY <1>2, <1>3, <1>6, <2>1, TimedKept DEF Running, Called
<1>7. fired.fn \in MotorFns => MotorCallback
  BY DEF Callback, MotorFns, BlinkFns, StepperFns
<1> QED
  BY <1>5, <1>6, <1>7

LEMMA TimedStep ==
  ASSUME DevicesInv, DevicesInv', [Next]_vars, NEW m \in Motors, IsTimed(m)
  PROVE  IsTimed(m)'
<1>1. ASSUME UNCHANGED <<timer, fired, main>>, Running(m)' => Running(m)
      PROVE  IsTimed(m)'
  BY <1>1, TimedKept DEF Armed, Called, Waiting
<1>2. ASSUME NEW o, Take(o)
      PROVE  IsTimed(m)'
  <2>1. UNCHANGED <<timer, fired>> /\ main = Idle /\ main' = [pc |-> "start", order |-> o, k |-> 1]
    BY <1>2 DEF Take
  <2>2. ~Waiting(m) /\ (Armed(m) => Armed(m)') /\ (Called(m) => Called(m)')
    BY <2>1 DEF Waiting, Armed, Called
  <2>3. CASE motor'[m] = motor[m]
    BY <2>2, <2>3, TimedKept DEF Running
  <2>4. CASE motor'[m] # motor[m]
    <3>1. o.kind = "motor" /\ motor' = OrderedMotors(o.entries)
      BY <1>2, <2>4 DEF Take
    <3>2. o \in GoodOrders
      BY <2>1 DEF DevicesInv, MainOK, Idle
    <3>3. PICK k \in DOMAIN o.entries : o.entries[k].id = m
      <4> SUFFICES ASSUME {k \in DOMAIN o.entries : o.entries[k].id = m} = {}
                   PROVE  motor'[m] = motor[m]
        BY <2>4
      <4> QED
        BY <3>1 DEF OrderedMotors
    <3>4. k \in 1 .. Len(o.entries)
      BY <3>2, EntryOf
    <3>5. Waiting(m)'
      BY <2>1, <3>1, <3>3, <3>4 DEF Waiting, Idle
    <3> QED
      BY <3>5 DEF IsTimed
  <2> QED
    BY <2>3, <2>4
<1>3. ASSUME NEW o, Reset(o)
      PROVE  IsTimed(m)'
  <2>1. motor'[m].velocity = 0
    <3>1. motor' = [j \in Motors |-> [motor[j] EXCEPT !.velocity = 0, !.cm = 0]]
      BY <1>3 DEF Reset, ResetMotors
    <3> QED
      BY <3>1 DEF DevicesInv, MotorOK, IsMotor, MotorFields
  <2> QED
    BY <2>1 DEF IsTimed, Running
<1>4. CASE Measure
  <2>1. UNCHANGED <<timer, fired, main>>
    BY <1>4 DEF Measure
  <2>2. PICK rpm : motor' = [j \in Motors |-> [motor[j] EXCEPT !.rpm = rpm[j]]]
    BY <1>4 DEF Measure, MeasureSpeed
  <2>3. motor'[m].velocity = motor[m].velocity /\ motor'[m].missed = motor[m].missed
    BY <2>2 DEF DevicesInv, MotorOK, IsMotor, MotorFields
  <2> QED
    BY <1>1, <2>1, <2>3 DEF Running
<1>5. ASSUME NEW i \in TimerSlots, Fire(i)
      PROVE  IsTimed(m)'
  <2>1. /\ fired = NoCallback /\ fired' = timer[i] /\ timer[i].id > 0
        /\ timer' = Expire(timer, i) /\ motor' = motor /\ main' = main
    BY <1>5 DEF Fire, motorVars
  <2>2. IsTable(timer)
    BY DEF DevicesInv, TimerOK
  <2>3. ASSUME NEW j \in TimerSlots, timer[j].id > 0, Matches(timer[j], m, 0)
        PROVE  Armed(m)' \/ Called(m)'
    <3>1. CASE j = i
      <4>1. timer[i].fn \in MotorFns /\ timer[i].name = m
        BY <2>1, <2>2, <2>3, <3>1 DEF IsTable, IsTimer, Matches
      <4> QED
        BY <2>1, <4>1 DEF Called
    <3>2. CASE j # i
      <4>1. timer'[j] = timer[j]
        BY <2>1, <2>2, <3>2 DEF IsTable, Expire
      <4> QED
        BY <2>3, <4>1 DEF Armed
    <3> QED
      BY <3>1, <3>2
  <2>4. ~Called(m)
    BY <2>1 DEF Called, NoCallback, MotorFns
  <2>5. Running(m)' => Running(m)
    BY <2>1 DEF Running
  <2>6. Waiting(m) => Waiting(m)'
    BY <2>1 DEF Waiting
  <2>7. Armed(m) => Armed(m)' \/ Called(m)'
    BY <2>3 DEF Armed
  <2> QED
    BY <2>4, <2>5, <2>6, <2>7 DEF IsTimed
<1>6. CASE CheckPower \/ HwCommand \/ HwStepper \/ Arrive
  BY <1>1, <1>6 DEF CheckPower, checkDCmotorPower, HwCommand, HwStepper, Arrive, Unread,
                    motorVars, Running
<1>7. CASE \E j \in Motors : HwPulses(j) \/ Wheel(j)
  BY <1>1, <1>7 DEF HwPulses, Wheel, ReadLow, ReadHigh, Turn, Unread, Running
<1>8. CASE UNCHANGED vars
  BY <1>1, <1>8 DEF vars, Running
<1> QED
  BY <1>2, <1>3, <1>4, <1>5, <1>6, <1>7, <1>8, TimedStart, TimedCallback DEF Next

(* A motor with a velocity has a timer that will end its action or look    *)
(* after it, or is about to get one (RunningMotorIsTimed), for any orders  *)
(* and any number of slots; only a full table makes an exception.          *)
THEOREM RunningMotorsAreTimed == Spec => []RunningMotorIsTimed
<1> DEFINE I == \A m \in Motors : IsTimed(m)
<1>1. Init => I
  BY DEF Init, MotorInit, RestingMotor, IsTimed, Running
<1>2. DevicesInv /\ DevicesInv' /\ I /\ [Next]_vars => I'
  <2> SUFFICES ASSUME DevicesInv, DevicesInv', I, [Next]_vars, NEW m \in Motors
               PROVE  IsTimed(m)'
    BY DEF Motors
  <2> QED
    BY TimedStep
<1>3. I => RunningMotorIsTimed
  BY DEF RunningMotorIsTimed, IsTimed, Running, Armed, Called, Waiting
<1> QED
  BY <1>1, <1>2, <1>3, DevicesTyped, PTL DEF Spec

------------------------------------------------------------------------------
(* No motor stops before its distance.                                     *)

LEMMA AtLeastOnce == ASSUME NEW B \in Nat, NEW j \in Int, j >= 1 PROVE B * j >= B
  OBVIOUS

(* A number has one remainder.                                             *)
LEMMA ModIs ==
  ASSUME NEW B \in Nat, B > 0, NEW k \in Int, NEW s \in Nat, s < B, NEW x \in Int, x = B * k + s
  PROVE  x % B = s
<1>1. PICK d \in Int, r \in Int : x = B * d + r /\ 0 <= r /\ r < B /\ r = x % B
  <2>1. PICK d \in Int : d = x \div B
    OBVIOUS
  <2>2. PICK r \in Int : r = x % B
    OBVIOUS
  <2>3. x = B * d + r /\ 0 <= r /\ r < B
    BY <2>1, <2>2
  <2> QED
    BY <2>1, <2>2, <2>3
<1>2. PICK j \in Int : j = k - d
  OBVIOUS
<1>3. B * j = r - s
  BY <1>1, <1>2
<1>4. ~(j >= 1)
  <2> SUFFICES ASSUME j >= 1 PROVE FALSE
    OBVIOUS
  <2>1. B * j >= B
    BY AtLeastOnce
  <2> QED
    BY <1>1, <1>3, <2>1
<1>5. ~(j <= -1)
  <2> SUFFICES ASSUME j <= -1 PROVE FALSE
    OBVIOUS
  <2>1. PICK i \in Int : i = -j /\ i >= 1
    OBVIOUS
  <2>2. B * i >= B
    BY <2>1, AtLeastOnce
  <2>3. B * i = -(B * j)
    BY <2>1
  <2> QED
    BY <1>1, <1>3, <2>2, <2>3
<1>6. j = 0
  BY <1>4, <1>5
<1>7. B * j = 0
  BY <1>6
<1>8. r = s
  BY <1>3, <1>7
<1> QED
  BY <1>1, <1>8

(* A counter that starts again at a multiple of 256 keeps its low byte.    *)
LEMMA ModOfMod ==
  ASSUME NEW B \in Nat, B > 0, NEW L \in Nat, L > 0, L % B = 0, NEW x \in Nat
  PROVE  (x % L) % B = x % B
<1>1. PICK q \in Int : L = B * q
  <2>1. L = B * (L \div B) + (L % B) /\ L \div B \in Int
    OBVIOUS
  <2> QED
    BY <2>1
<1>2. PICK d \in Int, r \in Nat : x = L * d + r /\ r = x % L
  <2>1. x = L * (x \div L) + (x % L) /\ x \div L \in Int /\ x % L \in Nat
    OBVIOUS
  <2> QED
    BY <2>1
<1>3. PICK e \in Int, s \in Nat : r = B * e + s /\ s < B /\ s = r % B
  <2>1. r = B * (r \div B) + (r % B) /\ r \div B \in Int /\ r % B \in Nat /\ r % B < B
    OBVIOUS
  <2> QED
    BY <2>1
<1>4. PICK k \in Int : k = q * d + e
  OBVIOUS
<1>5. x = B * k + s
  <2>1. L * d = B * (q * d)
    BY <1>1
  <2>2. B * k = B * (q * d) + B * e
    BY <1>4
  <2>3. x = B * (q * d) + (B * e + s)
    BY <1>2, <1>3, <2>1
  <2>4. PICK a, b \in Int : a = B * (q * d) /\ b = B * e
    OBVIOUS
  <2> QED
    BY <2>2, <2>3, <2>4
<1>6. x % B = s
  BY <1>3, <1>5, ModIs
<1> QED
  BY <1>2, <1>3, <1>6

LEMMA ModNext ==
  ASSUME NEW B \in Nat, B > 0, NEW x \in Nat, (x + 1) % B # 0
  PROVE  (x + 1) % B = (x % B) + 1
<1>1. PICK d \in Int, r \in Nat : x = B * d + r /\ r = x % B /\ r < B
  <2>1. x = B * (x \div B) + (x % B) /\ x \div B \in Int /\ x % B \in Nat /\ x % B < B
    OBVIOUS
  <2> QED
    BY <2>1
<1>2. CASE r + 1 < B
  BY <1>1, <1>2, ModIs
<1>3. CASE r + 1 = B
  <2>1. PICK k \in Int : k = d + 1
    OBVIOUS
  <2>2. x + 1 = B * k + 0
    BY <1>1, <1>3, <2>1
  <2>3. PICK y \in Int : y = x + 1
    OBVIOUS
  <2>4. 0 \in Nat /\ 0 < B /\ y = B * k + 0
    BY <2>2, <2>3
  <2>5. y % B = 0
    BY <2>4, ModIs, Zenon
  <2> QED
    BY <2>3, <2>5
<1> QED
  BY <1>1, <1>2, <1>3

(* The wheel has turned by `turned - count' more than its counter tells;   *)
(* that grows where the counter is cleared or starts again, and never      *)
(* shrinks.  A sound reading is of one moment.                             *)
IsRead(m) ==
    LET w == wheel[m] IN
    /\ w.reading /\ ~w.torn => w.low <= w.count % ByteLimit
    /\ w.sound => w.at <= w.turned /\ w.at - w.pulses <= w.turned - w.count

(* So does the place where the motor is to stop.                           *)
IsDue(m) ==
    LET w == wheel[m] IN
    motor[m].sound =>
        /\ motor[m].due - motor[m].stop <= w.turned - w.count
        /\ w.sound => motor[m].due - motor[m].stop <= w.at - w.pulses

LEMMA WheelFacts ==
  ASSUME DevicesInv, NEW m \in Motors
  PROVE  /\ IsWheel(wheel[m]) /\ IsMotor(motor[m])
         /\ wheel[m].count \in Nat /\ wheel[m].turned \in Int /\ wheel[m].low \in Int
         /\ wheel[m].pulses \in Int /\ wheel[m].at \in Int
         /\ wheel[m].reading \in BOOLEAN /\ wheel[m].torn \in BOOLEAN
         /\ wheel[m].sound \in BOOLEAN /\ motor[m].sound \in BOOLEAN
         /\ motor[m].due \in Int /\ motor[m].stop \in Int /\ motor[m].cm \in Int
  BY DEF DevicesInv, MotorOK, WheelOK, IsMotor, IsWheel

(* The motor does not move its goal.                                       *)
LEMMA DistanceKept ==
  ASSUME NEW m \in Motors, IsRead(m), IsDue(m), wheel'[m] = wheel[m],
         motor'[m].sound = motor[m].sound, motor'[m].due = motor[m].due,
         motor'[m].stop = motor[m].stop
  PROVE  IsRead(m)' /\ IsDue(m)'
  BY DEF IsRead, IsDue

LEMMA DistanceTurn ==
  ASSUME DevicesInv, NEW m \in Motors, IsRead(m), IsDue(m), motor' = motor,
         NEW turned \in Int, NEW count \in Nat, NEW torn,
         wheel'[m] = [wheel[m] EXCEPT !.turned = turned, !.count = count, !.torn = torn],
         wheel[m].turned <= turned, wheel[m].turned - wheel[m].count <= turned - count,
         wheel[m].reading /\ ~torn =>
             ~wheel[m].torn /\ wheel[m].count % ByteLimit <= count % ByteLimit
  PROVE  IsRead(m)' /\ IsDue(m)'
<1>1. PICK w, v : w = wheel[m] /\ v = wheel'[m]
  OBVIOUS
<1>2. /\ v.turned = turned /\ v.count = count /\ v.torn = torn /\ v.reading = w.reading
      /\ v.low = w.low /\ v.at = w.at /\ v.pulses = w.pulses /\ v.sound = w.sound
  BY <1>1, WheelFacts DEF IsWheel, WheelFields
<1>3. /\ w.count \in Nat /\ w.turned \in Int /\ w.low \in Int /\ w.pulses \in Int /\ w.at \in Int
      /\ motor[m].due \in Int /\ motor[m].stop \in Int
  BY <1>1, WheelFacts
<1>4. w.count % ByteLimit \in Int /\ count % ByteLimit \in Int
  BY <1>3, CounterAssumption
<1>5. w.turned <= turned /\ w.turned - w.count <= turned - count
  BY <1>1
<1>6. v.reading /\ ~v.torn => v.low <= v.count % ByteLimit
  BY <1>1, <1>2, <1>3, <1>4 DEF IsRead
<1>7. v.sound => v.at <= v.turned /\ v.at - v.pulses <= v.turned - v.count
  BY <1>1, <1>2, <1>3, <1>5 DEF IsRead
<1>8. motor[m].sound => /\ motor[m].due - motor[m].stop <= v.turned - v.count
                        /\ v.sound => motor[m].due - motor[m].stop <= v.at - v.pulses
  BY <1>1, <1>2, <1>3, <1>5 DEF IsDue
<1> QED
  BY <1>1, <1>6, <1>7, <1>8 DEF IsRead, IsDue

LEMMA DistanceWheel ==
  ASSUME DevicesInv, NEW m \in Motors, Turn(m), IsRead(m), IsDue(m)
  PROVE  IsRead(m)' /\ IsDue(m)'
<1>1. PICK count, L, B \in Nat : count = wheel[m].count /\ L = CounterLimit /\ B = ByteLimit
                                  /\ L > 0 /\ B > 0 /\ L % B = 0
  BY WheelFacts, CounterAssumption
<1>2. PICK turned \in Int : turned = wheel[m].turned
  BY WheelFacts
<1>3. PICK next \in Nat : next = (count + 1) % L
  BY <1>1
<1>4. next <= count + 1 /\ next % B = (count + 1) % B
  <2>1. PICK x \in Nat : x = count + 1
    OBVIOUS
  <2>2. x % L <= x
    <3>1. x = L * (x \div L) + (x % L) /\ x \div L \in Nat
      BY <1>1
    <3>2. PICK d \in Nat : d = x \div L
      BY <3>1
    <3>3. L * d \in Nat
      OBVIOUS
    <3> QED
      BY <3>1, <3>2, <3>3, <1>1
  <2>3. (x % L) % B = x % B
    <3>1. L > 0 /\ B > 0 /\ L % B = 0
      BY <1>1
    <3> QED
      BY <3>1, ModOfMod
  <2> QED
    BY <1>3, <2>1, <2>2, <2>3
<1> DEFINE torn == wheel[m].reading
                     /\ (wheel[m].torn \/ (wheel[m].count + 1) % ByteLimit = 0)
<1>5. wheel'[m] = [wheel[m] EXCEPT !.turned = turned + 1, !.count = next, !.torn = torn]
  BY <1>1, <1>2, <1>3 DEF Turn, DevicesInv, WheelOK
<1>6. wheel[m].reading /\ ~torn =>
        ~wheel[m].torn /\ wheel[m].count % ByteLimit <= next % ByteLimit
  <2> SUFFICES ASSUME wheel[m].reading, ~torn
               PROVE  ~wheel[m].torn /\ count % B <= next % B
    BY <1>1
  <2>1. ~wheel[m].torn /\ (count + 1) % B # 0
    BY <1>1
  <2>2. (count + 1) % B = (count % B) + 1
    BY <1>1, <2>1, ModNext
  <2>3. count % B \in Int
    BY <1>1
  <2> QED
    BY <1>4, <2>1, <2>2, <2>3
<1> HIDE DEF torn
<1>7. motor' = motor
  BY DEF Turn
<1>8. wheel[m].turned <= turned + 1 /\ wheel[m].turned - wheel[m].count <= (turned + 1) - next
  BY <1>1, <1>2, <1>4
<1>9. turned + 1 \in Int
  OBVIOUS
<1> QED
  BY <1>5, <1>6, <1>7, <1>8, <1>9, DistanceTurn

LEMMA DistanceRead ==
  ASSUME DevicesInv, NEW m \in Motors, ReadLow(m) \/ ReadHigh(m), IsRead(m), IsDue(m)
  PROVE  IsRead(m)' /\ IsDue(m)'
<1>0. motor' = motor
  BY DEF ReadLow, ReadHigh
<1>1. PICK w, v : w = wheel[m] /\ v = wheel'[m]
  OBVIOUS
<1>2. /\ w.count \in Nat /\ w.turned \in Int /\ w.low \in Int /\ w.pulses \in Int /\ w.at \in Int
      /\ motor[m].due \in Int /\ motor[m].stop \in Int /\ w.torn \in BOOLEAN
  BY <1>1, WheelFacts
<1>3. PICK byte \in Int : byte = w.count % ByteLimit
  BY <1>2, CounterAssumption
<1>4. CASE ReadLow(m)
  <2>1. v = [w EXCEPT !.low = byte, !.reading = TRUE, !.torn = FALSE]
    BY <1>1, <1>3, <1>4 DEF ReadLow, DevicesInv, WheelOK
  <2>2. /\ v.turned = w.turned /\ v.count = w.count /\ v.low = byte
        /\ v.at = w.at /\ v.pulses = w.pulses /\ v.sound = w.sound
    BY <1>1, <2>1, WheelFacts DEF IsWheel, WheelFields
  <2> QED
    BY <1>0, <1>1, <1>3, <2>2 DEF IsRead, IsDue
<1>5. CASE ReadHigh(m)
  <2>1. PICK pulses, sound :
          /\ v = Read(m, pulses, sound)
          /\ \/ /\ pulses = (w.count \div ByteLimit) * ByteLimit + w.low
                /\ sound = ~w.torn
             \/ sound = FALSE
          /\ w.reading
    BY <1>1, <1>5 DEF ReadHigh, DevicesInv, WheelOK
  <2>2. /\ v.turned = w.turned /\ v.count = w.count /\ v.reading = FALSE
        /\ v.at = w.turned - (byte - w.low) /\ v.pulses = pulses /\ v.sound = sound
    BY <1>1, <1>3, <2>1, WheelFacts DEF Read, IsWheel, WheelFields
  <2>3. CASE sound = FALSE
    BY <1>0, <1>1, <2>2, <2>3 DEF IsRead, IsDue
  <2>4. CASE pulses = (w.count \div ByteLimit) * ByteLimit + w.low /\ sound = ~w.torn
    <3>1. PICK high \in Int : high = (w.count \div ByteLimit) * ByteLimit /\ w.count = high + byte
      <4>1. PICK B \in Nat : B = ByteLimit /\ B > 0
        BY CounterAssumption
      <4>2. PICK count \in Nat : count = w.count
        BY <1>2
      <4>3. count = B * (count \div B) + (count % B) /\ count \div B \in Int
        BY <4>1
      <4>4. PICK d \in Int : d = count \div B
        BY <4>3
      <4>5. d * B = B * d /\ d * B \in Int
        OBVIOUS
      <4> QED
        BY <1>3, <4>1, <4>2, <4>3, <4>4, <4>5
    <3>2. pulses = high + w.low
      BY <2>4, <3>1
    <3>3. v.at - v.pulses = v.turned - v.count
      <4>1. PICK turned \in Int : turned = w.turned
        BY <1>2
      <4>2. PICK low \in Int : low = w.low
        BY <1>2
      <4>3. /\ v.at = turned - (byte - low) /\ v.turned = turned /\ v.count = high + byte
            /\ v.pulses = high + low
        BY <2>2, <3>1, <3>2, <4>1, <4>2
      <4>4. (turned - (byte - low)) - (high + low) = turned - (high + byte)
        OBVIOUS
      <4> QED
        BY <4>3, <4>4
    <3>4. v.sound => v.at <= v.turned
      <4>1. v.sound => w.low <= byte
        BY <1>1, <1>3, <2>1, <2>2, <2>4 DEF IsRead
      <4> QED
        BY <1>2, <2>2, <4>1
    <3>5. v.turned - v.count \in Int
      BY <1>2, <2>2
    <3>6. motor[m].sound => motor[m].due - motor[m].stop <= v.turned - v.count
      BY <1>1, <2>2 DEF IsDue
    <3> QED
      BY <1>0, <1>1, <2>2, <3>3, <3>4, <3>5, <3>6 DEF IsRead, IsDue
  <2> QED
    BY <2>1, <2>3, <2>4
<1> QED
  BY <1>4, <1>5

(* A motor that is started for a distance is due where it is to stop.      *)
LEMMA StartSetsDistance ==
  ASSUME MotorOK, NEW m \in Motors, NEW time, NEW id, StartMotor(m, time, id)
  PROVE  /\ motor'[m].stop = IF motor[m].cm > 0 THEN StopAt(m) ELSE motor[m].stop
         /\ motor'[m].due = IF motor[m].cm > 0 THEN wheel[m].at + motor[m].cm
                           ELSE motor[m].due
         /\ motor'[m].sound = IF motor[m].cm > 0 THEN wheel[m].sound ELSE motor[m].sound
<1> DEFINE far == motor[m].cm > 0
           stop == IF far THEN StopAt(m) ELSE motor[m].stop
           due == IF far THEN wheel[m].at + motor[m].cm ELSE motor[m].due
           sound == IF far THEN wheel[m].sound ELSE motor[m].sound
           direction == DirectionOf(m, motor[m].velocity)
           velocity == IF motor[m].velocity < 0 THEN -motor[m].velocity ELSE motor[m].velocity
           fn == IF far THEN "checkEncoder" ELSE IF time > 0 THEN "endWheel" ELSE "dummyMotor"
           missed == SetTimer(timer, id, m, 0, fn).result = 0
<1>1. motor' = [motor EXCEPT ![m] =
                  [motor[m] EXCEPT !.direction = direction, !.velocity = velocity, !.stop = stop,
                                   !.due = due, !.sound = sound, !.missed = missed]]
  BY Zenon DEF StartMotor
<1> HIDE DEF stop, due, sound, direction, velocity, missed
<1>2. DOMAIN motor = Motors /\ DOMAIN motor[m] = MotorFields
  BY DEF MotorOK, IsMotor
<1>3. motor'[m].stop = stop /\ motor'[m].due = due /\ motor'[m].sound = sound
  BY <1>1, <1>2 DEF MotorFields
<1> QED
  BY <1>3 DEF stop, due, sound

LEMMA DistanceStart ==
  ASSUME DevicesInv, StartEntry, NEW m \in Motors, IsRead(m), IsDue(m)
  PROVE  IsRead(m)' /\ IsDue(m)'
<1>1. wheel' = wheel
  BY DEF StartEntry, motorVars
<1>2. CASE motor'[m] = motor[m]
  BY <1>1, <1>2, DistanceKept
<1>3. CASE motor'[m] # motor[m]
  <2> DEFINE e == main.order.entries[main.k]
  <2>1. StartMotor(e.id, e.time, Task)
    BY <1>3 DEF StartEntry, motorVars
  <2>2. MotorOK
    BY DEF DevicesInv
  <2>3. m = e.id
    BY <1>3, <2>1, <2>2 DEF StartMotor, MotorOK
  <2>6. StartMotor(m, e.time, Task)
    BY <2>1, <2>3
  <2>4. CASE ~(motor[m].cm > 0)
    <3>1. /\ motor'[m].sound = motor[m].sound /\ motor'[m].due = motor[m].due
          /\ motor'[m].stop = motor[m].stop
      BY <2>2, <2>4, <2>6, StartSetsDistance
    <3> QED
      BY <1>1, <3>1, DistanceKept
  <2>5. CASE motor[m].cm > 0
    <3>1. /\ motor'[m].sound = wheel[m].sound /\ motor'[m].due = wheel[m].at + motor[m].cm
          /\ motor'[m].stop = wheel[m].pulses + motor[m].cm
      BY <2>2, <2>5, <2>6, StartSetsDistance DEF StopAt
    <3>2. motor'[m].due - motor'[m].stop = wheel[m].at - wheel[m].pulses
      <4>1. PICK at, pulses, cm \in Int :
              at = wheel[m].at /\ pulses = wheel[m].pulses /\ cm = motor[m].cm
        BY WheelFacts
      <4> QED
        BY <3>1, <4>1
    <3>3. PICK d \in Int : d = wheel[m].at - wheel[m].pulses
      BY WheelFacts
    <3>4. wheel[m].sound => wheel[m].at - wheel[m].pulses <= wheel[m].turned - wheel[m].count
      BY DEF IsRead
    <3> QED
      BY <1>1, <3>1, <3>2, <3>3, <3>4 DEF IsRead, IsDue
  <2> QED
    BY <2>4, <2>5
<1> QED
  BY <1>2, <1>3

LEMMA DistanceStep ==
  ASSUME DevicesInv, [Next]_vars, NEW m \in Motors, IsRead(m), IsDue(m)
  PROVE  IsRead(m)' /\ IsDue(m)'
<1>1. MotorOK /\ WheelOK
  BY DEF DevicesInv
<1>2. ASSUME wheel'[m] = wheel[m], NEW velocity, NEW cm, NEW direction, NEW rpm, NEW missed,
             motor'[m] = [motor[m] EXCEPT !.velocity = velocity, !.cm = cm,
                             !.direction = direction, !.rpm = rpm, !.missed = missed]
      PROVE  IsRead(m)' /\ IsDue(m)'
  <2>1. /\ motor'[m].sound = motor[m].sound /\ motor'[m].due = motor[m].due
        /\ motor'[m].stop = motor[m].stop
    BY <1>1, <1>2 DEF MotorOK, IsMotor, MotorFields
  <2> QED
    BY <1>2, <2>1, DistanceKept
<1>3. ASSUME motor'[m] = motor[m], wheel'[m] = wheel[m]
      PROVE  IsRead(m)' /\ IsDue(m)'
  BY <1>3, DistanceKept
<1>4. ASSUME NEW o, Take(o)
      PROVE  IsRead(m)' /\ IsDue(m)'
  <2>1. wheel' = wheel /\ motor' \in {motor, OrderedMotors(o.entries)}
    BY <1>4 DEF Take
  <2>2. ASSUME motor' = OrderedMotors(o.entries)
        PROVE  \/ motor'[m] = motor[m]
               \/ \E v, cm : motor'[m] = [motor[m] EXCEPT !.velocity = v, !.cm = cm]
    BY <2>2 DEF OrderedMotors
  <2>3. ASSUME NEW v, NEW cm, motor'[m] = [motor[m] EXCEPT !.velocity = v, !.cm = cm]
        PROVE  IsRead(m)' /\ IsDue(m)'
    <3>1. /\ motor'[m].sound = motor[m].sound /\ motor'[m].due = motor[m].due
          /\ motor'[m].stop = motor[m].stop
      BY <1>1, <2>3 DEF MotorOK, IsMotor, MotorFields
    <3> QED
      BY <2>1, <3>1, DistanceKept
  <2> QED
    BY <1>3, <2>1, <2>2, <2>3
<1>5. ASSUME NEW o, Reset(o)
      PROVE  IsRead(m)' /\ IsDue(m)'
  <2>1. ResetMotors
    BY <1>5 DEF Reset
  <2>2. motor'[m] = [motor[m] EXCEPT !.velocity = 0, !.cm = 0]
    BY <2>1 DEF ResetMotors
  <2>3. wheel'[m] = [wheel[m] EXCEPT !.count = 0, !.torn = wheel[m].reading]
    BY <2>1 DEF ResetMotors
  <2>4. PICK w, v : w = wheel[m] /\ v = wheel'[m]
    OBVIOUS
  <2>5. /\ v.turned = w.turned /\ v.count = 0 /\ v.torn = w.reading /\ v.reading = w.reading
        /\ v.low = w.low /\ v.at = w.at /\ v.pulses = w.pulses /\ v.sound = w.sound
    BY <2>3, <2>4, WheelFacts DEF IsWheel, WheelFields
  <2>6. /\ motor'[m].sound = motor[m].sound /\ motor'[m].due = motor[m].due
        /\ motor'[m].stop = motor[m].stop
    BY <1>1, <2>2 DEF MotorOK, IsMotor, MotorFields
  <2>7. /\ w.count \in Nat /\ w.turned \in Int /\ w.pulses \in Int /\ w.at \in Int
        /\ motor[m].due \in Int /\ motor[m].stop \in Int
    BY <2>4, WheelFacts
  <2>8. v.sound => v.at <= v.turned /\ v.at - v.pulses <= v.turned - v.count
    BY <2>4, <2>5, <2>7 DEF IsRead
  <2>9. motor[m].sound => /\ motor[m].due - motor[m].stop <= v.turned - v.count
                          /\ v.sound => motor[m].due - motor[m].stop <= v.at - v.pulses
    BY <2>4, <2>5, <2>7 DEF IsDue
  <2> QED
    BY <2>4, <2>5, <2>6, <2>8, <2>9 DEF IsRead, IsDue
<1>6. CASE Measure
  <2>1. wheel' = wheel /\ \E rpm : motor'[m] = [motor[m] EXCEPT !.rpm = rpm]
    BY <1>6 DEF Measure, MeasureSpeed
  <2>2. /\ motor'[m].sound = motor[m].sound /\ motor'[m].due = motor[m].due
        /\ motor'[m].stop = motor[m].stop
    BY <1>1, <2>1 DEF MotorOK, IsMotor, MotorFields
  <2> QED
    BY <2>1, <2>2, DistanceKept
<1>7. CASE Callback
  <2>1. wheel' = wheel
    BY <1>7 DEF Callback
  <2>2. CASE motor' = motor
    BY <1>3, <2>1, <2>2
  <2>3. CASE motor' # motor
    <3> DEFINE d == fired.name
    <3>1. MotorCallback /\ fired.fn \in MotorFns
      BY <1>7, <2>3 DEF Callback
    <3>2. \/ motor' = [motor EXCEPT ![d] = Stopped(d)]
          \/ \E x : motor' = [motor EXCEPT ![d].missed = x]
      BY <3>1 DEF MotorCallback, EndWheel, Again, MotorFns
    <3>3. /\ motor'[m].sound = motor[m].sound /\ motor'[m].due = motor[m].due
          /\ motor'[m].stop = motor[m].stop
      <4>1. CASE motor' = [motor EXCEPT ![d] = Stopped(d)]
        BY <1>1, <4>1 DEF Stopped, MotorOK, IsMotor, MotorFields
      <4>2. CASE \E x : motor' = [motor EXCEPT ![d].missed = x]
        BY <1>1, <4>2 DEF MotorOK, IsMotor, MotorFields
      <4> QED
        BY <3>2, <4>1, <4>2
    <3> QED
      BY <2>1, <3>3, DistanceKept
  <2> QED
    BY <2>2, <2>3
<1>8. ASSUME NEW j \in Motors, HwPulses(j) \/ Wheel(j)
      PROVE  IsRead(m)' /\ IsDue(m)'
  <2>1. CASE j = m
    BY <1>8, <2>1, DistanceRead, DistanceWheel DEF HwPulses, Wheel
  <2>2. CASE j # m
    <3>1. motor' = motor
      BY <1>8 DEF HwPulses, Wheel, ReadLow, ReadHigh, Turn
    <3>2. wheel'[m] = wheel[m]
      BY <1>1, <1>8, <2>2 DEF HwPulses, Wheel, ReadLow, ReadHigh, Turn, WheelOK
    <3> QED
      BY <1>3, <3>1, <3>2
  <2> QED
    BY <2>1, <2>2
<1>9. CASE StartEntry
  BY <1>9, DistanceStart
<1>10. CASE CheckPower \/ HwCommand \/ HwStepper \/ Arrive
  BY <1>3, <1>10 DEF CheckPower, checkDCmotorPower, HwCommand, HwStepper, Arrive, motorVars
<1>11. CASE \E i \in TimerSlots : Fire(i)
  BY <1>3, <1>11 DEF Fire, motorVars
<1>12. CASE UNCHANGED vars
  BY <1>3, <1>12 DEF vars
<1> QED
  BY <1>4, <1>5, <1>6, <1>7, <1>8, <1>9, <1>10, <1>11, <1>12 DEF Next

(* A motor that stops at its distance has made it.                         *)
LEMMA StopsAtDistance ==
  ASSUME DevicesInv, [Next]_vars, NEW m \in Motors, IsRead(m), IsDue(m),
         fired.fn = "checkEncoder", fired.name = m, fired' = NoCallback,
         motor[m].velocity # 0, motor'[m].velocity = 0, motor[m].sound, wheel[m].sound
  PROVE  wheel[m].turned >= motor[m].due
<1>1. fired # fired'
  BY DEF NoCallback
<1>2. Callback
  BY <1>1 DEF Next, vars, Take, Reset, StartEntry, CheckPower, Measure, Fire, NoCallback,
              HwCommand, HwStepper, HwPulses, Wheel, Arrive, Unread
<1>3. MotorCallback
  BY <1>2 DEF Callback, BlinkFns, StepperFns
<1>4. wheel[m].pulses >= motor[m].stop
  <2>1. MotorOK
    BY DEF DevicesInv
  <2>2. ASSUME NEW x, motor' = [motor EXCEPT ![m].missed = x]
        PROVE  FALSE
    BY <2>1, <2>2 DEF MotorOK, IsMotor, MotorFields
  <2> QED
    BY <1>3, <2>2 DEF MotorCallback, Again
<1>5. /\ wheel[m].turned \in Int /\ wheel[m].pulses \in Int /\ wheel[m].at \in Int
      /\ motor[m].due \in Int /\ motor[m].stop \in Int
  BY WheelFacts
<1>6. /\ wheel[m].at <= wheel[m].turned
      /\ motor[m].due - motor[m].stop <= wheel[m].at - wheel[m].pulses
  BY DEF IsRead, IsDue
<1> QED
  BY <1>4, <1>5, <1>6

(* A motor that was sent some distance does not stop before it has made it *)
(* (NotBeforeDistance), for any widths of the counter and any moments at   *)
(* which it is read, cleared or starts again.                              *)
THEOREM DistancesAreMade == Spec => NotBeforeDistance
<1> DEFINE I == \A m \in Motors : IsRead(m) /\ IsDue(m)
           A == \A m \in Motors :
                  /\ fired.fn = "checkEncoder" /\ fired.name = m /\ fired' = NoCallback
                  /\ motor[m].velocity # 0 /\ motor'[m].velocity = 0
                  /\ motor[m].sound /\ wheel[m].sound
                  => wheel[m].turned >= motor[m].due
<1>1. Init => I
  BY DEF Init, MotorInit, RestingMotor, RestingWheel, IsRead, IsDue
<1>2. DevicesInv /\ I /\ [Next]_vars => I'
  <2> SUFFICES ASSUME DevicesInv, I, [Next]_vars, NEW m \in Motors
               PROVE  IsRead(m)' /\ IsDue(m)'
    BY DEF Motors
  <2> QED
    BY DistanceStep
<1>3. DevicesInv /\ I /\ [Next]_vars => [A]_vars
  <2> SUFFICES ASSUME DevicesInv, I, [Next]_vars
               PROVE  A
    OBVIOUS
  <2> QED
    BY StopsAtDistance
<1> QED
  BY <1>1, <1>2, <1>3, DevicesTyped, PTL DEF Spec, NotBeforeDistance

------------------------------------------------------------------------------
(* A blink toggles as often as it was asked to.                            *)

(* The main loop is about to start output d.                               *)
Announced(kind, d) ==
    /\ main # Idle /\ main.order.kind = kind
    /\ \E k \in main.k .. Len(main.order.entries) : main.order.entries[k].id = d

(* A blink that is alone has the counter to itself; one that is not        *)
(* started yet has not toggled.                                            *)
IsBlink(kind, d) ==
    LET o == output[kind][d] IN
    o.alone =>
        /\ Counting(kind, d) /\ o.state = "blink" =>
             /\ counter[kind] = o.shown /\ o.shown < Times(o)
             /\ \A e \in Outputs(kind) \ {d} : ~Counting(kind, e)
        /\ Announced(kind, d) => o.shown = 0 /\ ~Counting(kind, d)
CounterOK ==
    /\ DOMAIN counter = {"led", "pwm", "servo"}
    /\ \A kind \in {"led", "pwm", "servo"} : counter[kind] \in Nat
Blinks ==
    /\ CounterOK
    /\ \A kind \in {"led", "pwm"} : \A d \in Outputs(kind) : IsBlink(kind, d)

(* Setting a timer starts no count but that of its device.                 *)
LEMMA SetCounts ==
  ASSUME IsTable(timer), NEW id, NEW name, NEW type, NEW fn, NEW kind, NEW e,
         timer' = SetTimer(timer, id, name, type, fn).table \/ timer' = timer,
         name # e \/ type # TimerType(kind),
         fired' = fired \/ fired' = NoCallback, Counting(kind, e)'
  PROVE  Counting(kind, e)
<1>1. TimerType(kind)' = TimerType(kind) /\ NoCallback.fn \notin BlinkFns
  BY DEF TimerType, NoCallback, BlinkFns
<1>2. CASE /\ fired'.fn \in BlinkFns /\ fired'.name = e /\ fired'.type = TimerType(kind)
  BY <1>1, <1>2 DEF Counting
<1>3. ASSUME NEW i \in TimerSlots, timer'[i].id > 0, timer'[i].name = e,
             timer'[i].type = TimerType(kind), timer'[i].fn \in BlinkFns
      PROVE  Counting(kind, e)
  <2>1. CASE timer' = timer
    BY <1>3, <2>1 DEF Counting, Matches
  <2>2. CASE timer' = SetTimer(timer, id, name, type, fn).table
    <3>1. PICK set : set = SetTimer(timer, id, name, type, fn)
      OBVIOUS
    <3>2. CASE set.result = 0 /\ set.table = timer
      BY <2>1, <2>2, <3>1, <3>2
    <3>3. CASE \E j \in TimerSlots :
                 timer' = [timer EXCEPT ![j] = [id   |-> id,   name |-> name,
                                                type |-> type, fn   |-> fn]]
      <4>1. PICK j \in TimerSlots :
                 timer' = [timer EXCEPT ![j] = [id   |-> id,   name |-> name,
                                                type |-> type, fn   |-> fn]]
        BY <3>3
      <4>2. i # j
        BY <1>3, <4>1 DEF IsTable
      <4>3. timer'[i] = timer[i]
        BY <4>1, <4>2 DEF IsTable
      <4> QED
        BY <1>3, <4>3 DEF Counting, Matches
    <3> QED
      BY <2>2, <3>1, <3>2, <3>3, SetTimerDoes
  <2> QED
    BY <1>3, <2>1, <2>2
<1> QED
  BY <1>1, <1>2, <1>3 DEF Counting, Matches

(* A device that does not begin to count, and keeps its output and its     *)
(* counter, keeps IsBlink.                                                 *)
LEMMA BlinkKept ==
  ASSUME NEW kind \in {"led", "pwm"}, NEW d \in Outputs(kind), IsBlink(kind, d),
         output'[kind][d].alone =>
           /\ output'[kind][d] = output[kind][d]
           /\ Counting(kind, d)' => counter'[kind] = counter[kind],
         \A e \in Outputs(kind) : Counting(kind, e)' => Counting(kind, e),
         Announced(kind, d)' => Announced(kind, d)
  PROVE  IsBlink(kind, d)'
<1>1. Outputs(kind)' = Outputs(kind)
  BY DEF Outputs, Leds, Pwms
<1> SUFFICES ASSUME output'[kind][d].alone
             PROVE  IsBlink(kind, d)'
  BY DEF IsBlink
<1>2. output'[kind][d] = output[kind][d] /\ output[kind][d].alone
  OBVIOUS
<1> QED
  BY <1>1, <1>2 DEF IsBlink, Times

(* What is started is not announced any more.                              *)
LEMMA AnnouncedKept ==
  ASSUME MainOK, NEW kind \in {"led", "pwm"}, NEW d, StartEntry, Announced(kind, d)'
  PROVE  /\ Announced(kind, d) /\ main.order \in GoodOrders /\ main.k \in DOMAIN main.order.entries
         /\ main.order.kind = kind /\ main.order.entries[main.k].id # d
<1> DEFINE o == main.order
<1>1. /\ o \in GoodOrders /\ main.k \in Nat /\ 1 <= main.k /\ main.k <= Len(o.entries)
      /\ main # Idle /\ main' # Idle
  BY DEF StartEntry, MainOK, Announced
<1>2. \E S : o.entries \in Seq(S)
  BY <1>1 DEF GoodOrders, Orders
<1>3. main.k \in DOMAIN o.entries /\ Len(o.entries) \in Nat /\ DOMAIN o.entries = 1 .. Len(o.entries)
  BY <1>1, <1>2
<1>4. main' = [main EXCEPT !.k = @ + 1]
  BY <1>1 DEF StartEntry, Advance
<1>5. main'.order = o /\ main'.k = main.k + 1
  BY <1>1, <1>4 DEF MainOK
<1>6. PICK k \in main.k + 1 .. Len(o.entries) : o.entries[k].id = d
  BY <1>5 DEF Announced
<1>7. o.kind = kind
  BY <1>5 DEF Announced
<1>8. k \in main.k .. Len(o.entries) /\ k \in DOMAIN o.entries /\ k # main.k
  BY <1>1, <1>3, <1>6
<1>9. o.entries[main.k].id # d
  BY <1>1, <1>3, <1>6, <1>8, EntryOf
<1> QED
  BY <1>1, <1>3, <1>6, <1>7, <1>8, <1>9 DEF Announced

(* Taking an order; no other blink is cut short by it.                     *)
LEMMA BlinkTake ==
  ASSUME DevicesInv, DevicesInv', NEW o, Take(o),
         NEW kind \in {"led", "pwm"}, NEW d \in Outputs(kind), IsBlink(kind, d)
  PROVE  /\ IsBlink(kind, d)'
         /\ output'[kind][d].state = output[kind][d].state \/ output'[kind][d].shown = 0
<1>1. /\ UNCHANGED <<timer, fired, counter>> /\ main = Idle
      /\ main' = [pc |-> "start", order |-> o, k |-> 1]
  BY DEF Take
<1>2. o \in GoodOrders
  BY <1>1 DEF DevicesInv, MainOK, Idle
<1>3. \A e : Counting(kind, e)' <=> Counting(kind, e)
  BY <1>1 DEF Counting, TimerType
<1> DEFINE named == {k \in DOMAIN o.entries : o.entries[k].id = d}
           e == o.entries[Max(named)]
           old == output[kind][d]
<1>6. OutputOK /\ output' = IF o.kind \in DOMAIN output
                           THEN OrderedOutputs(o.kind, o.servo, o.entries) ELSE output
  BY DEF Take, DevicesInv
<1>7. ASSUME o.kind = kind
      PROVE  output'[kind][d] = Ordered(o, d)
  <2>1. output' = OrderedOutputs(o.kind, o.servo, o.entries)
    BY <1>6, <1>7 DEF OutputOK
  <2> QED
    BY <1>6, <1>7, <2>1, OrderedOutputsAre
<1>8. ASSUME o.kind # kind
      PROVE  output'[kind][d] = output[kind][d]
  <2>1. CASE o.kind \in {"led", "pwm"}
    <3>1. output' = OrderedOutputs(o.kind, o.servo, o.entries)
      BY <1>6, <2>1 DEF OutputOK
    <3> QED
      BY <1>6, <1>8, <2>1, <3>1, OrderedOutputsAre
  <2>2. CASE o.kind \notin {"led", "pwm"}
    BY <1>6, <2>2 DEF OutputOK
  <2> QED
    BY <2>1, <2>2
<1>4. CASE o.kind = kind /\ named # {}
  <2> DEFINE state == IF e.state \in {"on", "off"} \/ (e.state = "blink" /\ ~o.servo)
                      THEN e.state ELSE old.state
             power == IF e.power > 0 \/ (e.power = 0 /\ kind = "pwm") THEN e.power ELSE old.power
             count == IF e.count > 0 /\ ~o.servo THEN e.count ELSE old.count
             alone == ~Counting(kind, d)
  <2>2. output'[kind][d] = [old EXCEPT !.state = state, !.power = power, !.count = count,
                                       !.shown = 0, !.alone = alone]
    BY <1>4, <1>7, Zenon DEF Ordered
  <2>3. DOMAIN old = OutputFields
    BY <1>6 DEF OutputOK, IsOutput
  <2> HIDE DEF old, state, power, count, alone
  <2>4. output'[kind][d].shown = 0 /\ output'[kind][d].alone = alone
    BY <2>2, <2>3 DEF OutputFields
  <2>5. alone = ~Counting(kind, d)
    BY DEF alone
  <2> QED
    BY <1>3, <2>4, <2>5 DEF IsBlink
<1>5. CASE o.kind # kind \/ named = {}
  <2>1. output'[kind][d] = output[kind][d]
    <3>2. CASE o.kind # kind
      BY <1>8, <3>2
    <3>3. CASE o.kind = kind /\ named = {}
      BY <1>7, <3>3 DEF Ordered
    <3> QED
      BY <1>5, <3>2, <3>3
  <2>2. ~Announced(kind, d)'
    <3> SUFFICES ASSUME Announced(kind, d)'
                 PROVE  FALSE
      OBVIOUS
    <3>1. o.kind = kind /\ \E k \in 1 .. Len(o.entries) : o.entries[k].id = d
      BY <1>1 DEF Announced, Idle
    <3>2. PICK k \in 1 .. Len(o.entries) : o.entries[k].id = d
      BY <3>1
    <3>3. \E S : o.entries \in Seq(S)
      BY <1>2 DEF GoodOrders, Orders
    <3>4. k \in DOMAIN o.entries
      BY <3>2, <3>3
    <3> QED
      BY <1>5, <3>1, <3>2, <3>4
  <2> QED
    BY <1>1, <1>3, <2>1, <2>2, BlinkKept
<1> QED
  BY <1>4, <1>5

(* Starting an entry.                                                      *)
LEMMA BlinkStart ==
  ASSUME DevicesInv, StartEntry, Blinks,
         NEW kind \in {"led", "pwm"}, NEW d \in Outputs(kind)
  PROVE  IsBlink(kind, d)' /\ output'[kind][d].state = output[kind][d].state
<1> DEFINE o == main.order
           x == o.entries[main.k].id
<1>1. /\ o \in GoodOrders /\ main.k \in Nat /\ 1 <= main.k /\ main.k <= Len(o.entries)
      /\ main # Idle /\ UNCHANGED <<fired, counter>>
  BY DEF StartEntry, DevicesInv, MainOK
<1>2. /\ MainOK /\ IsTable(timer) /\ IsBlink(kind, d)
      /\ DOMAIN output = {"led", "pwm"} /\ DOMAIN output[kind] = Outputs(kind)
      /\ DOMAIN output[kind][d] = OutputFields
      /\ output[kind][d].shown \in Nat /\ output[kind][d].count \in Int
  BY DEF DevicesInv, TimerOK, OutputOK, IsOutput, Blinks
<1>3. Announced(kind, d)' => Announced(kind, d) /\ ~(o.kind = kind /\ x = d)
  BY <1>2, AnnouncedKept
<1>4. CASE output'[kind][d] = output[kind][d]
           /\ \A e \in Outputs(kind) : Counting(kind, e)' => Counting(kind, e)
  BY <1>1, <1>2, <1>3, <1>4, BlinkKept
<1>5. ASSUME NEW name, NEW type, NEW fn, type # TimerType(kind), output' = output,
             timer' = SetTimer(timer, Task, name, type, fn).table \/ timer' = timer
      PROVE  IsBlink(kind, d)' /\ output'[kind][d].state = output[kind][d].state
  <2>1. \A e \in Outputs(kind) : Counting(kind, e)' => Counting(kind, e)
    <3> SUFFICES ASSUME NEW e, Counting(kind, e)' PROVE Counting(kind, e)
      OBVIOUS
    <3>1. IsTable(timer) /\ fired' = fired
      BY <1>1, <1>2
    <3> QED
      BY <1>5, <3>1, SetCounts
  <2> QED
    BY <1>4, <1>5, <2>1
<1>6. TimerType(kind) \in {2, 3} /\ TimerType("led") # TimerType("pwm")
  BY DEF TimerType
<1>7. CASE o.kind = "motor" /\ StartMotor(x, o.entries[main.k].time, Task)
  <2> DEFINE far == motor[x].cm > 0
             time == o.entries[main.k].time
             fn == IF far THEN "checkEncoder" ELSE IF time > 0 THEN "endWheel" ELSE "dummyMotor"
  <2>1. timer' = SetTimer(timer, Task, x, 0, fn).table
    BY <1>7, Zenon DEF StartMotor
  <2> HIDE DEF fn
  <2>2. output' = output
    BY <1>2, <1>7 DEF StartEntry
  <2> QED
    BY <1>5, <1>6, <2>1, <2>2
<1>8. CASE o.kind = "stepper" /\ StartStepper(o.entries[main.k], Task)
  <2>1. \E fn : timer' = SetTimer(timer, Task, 0, 1, fn).table
    BY <1>8 DEF StartStepper
  <2>2. output' = output
    BY <1>2, <1>8 DEF StartEntry
  <2> QED
    BY <1>5, <1>6, <2>1, <2>2
<1>9. CASE o.kind \in DOMAIN output /\ StartOutput(o.kind, o.servo, x, Task)
  <2>1. o.kind \in {"led", "pwm"}
    BY <1>2, <1>9
  <2>2. CASE UNCHANGED <<timer, output>>
    BY <1>5, <1>6, <2>2
  <2>3. ASSUME NEW fn, timer' = SetTimer(timer, Task, x, TimerType(o.kind), fn).table,
               NEW met, Met(o.kind, x, met)
        PROVE  IsBlink(kind, d)' /\ output'[kind][d].state = output[kind][d].state
    <3>1. CASE kind # o.kind
      <4>1. output'[kind] = output[kind]
        BY <1>2, <2>3, <3>1 DEF Met
      <4>2. TimerType(o.kind) # TimerType(kind)
        BY <1>6, <2>1, <3>1
      <4>3. \A e \in Outputs(kind) : Counting(kind, e)' => Counting(kind, e)
        <5> SUFFICES ASSUME NEW e, Counting(kind, e)' PROVE Counting(kind, e)
          OBVIOUS
        <5>1. IsTable(timer) /\ fired' = fired
          BY <1>1, <1>2
        <5>2. timer' = SetTimer(timer, Task, x, TimerType(o.kind), fn).table
          BY <2>3
        <5> QED
          BY <4>2, <5>1, <5>2, SetCounts
      <4> QED
        BY <1>4, <4>1, <4>3
    <3>2. CASE kind = o.kind
      <4>1. output'[kind][d] = IF d \in met THEN [output[kind][d] EXCEPT !.alone = FALSE]
                               ELSE output[kind][d]
        BY <1>2, <2>3, <3>2 DEF Met
      <4>2. CASE d \in met
        <5>1. ~output'[kind][d].alone /\ output'[kind][d].state = output[kind][d].state
          BY <1>2, <4>1, <4>2 DEF OutputFields
        <5> QED
          BY <5>1 DEF IsBlink
      <4>3. CASE d \notin met
        <5>1. output'[kind][d] = output[kind][d]
          BY <4>1, <4>3
        <5>2. \A e \in Outputs(kind) \ {x} : Counting(kind, e)' => Counting(kind, e)
          <6> SUFFICES ASSUME NEW e \in Outputs(kind) \ {x}, Counting(kind, e)'
                       PROVE  Counting(kind, e)
            OBVIOUS
          <6>1. IsTable(timer) /\ fired' = fired /\ x # e
            BY <1>1, <1>2
          <6>2. timer' = SetTimer(timer, Task, x, TimerType(o.kind), fn).table
            BY <2>3
          <6> QED
            BY <6>1, <6>2, SetCounts
        <5>3. CASE d = x
          <6>1. \A e \in Outputs(kind) \ {d} : ~Counting(kind, e)'
            BY <2>3, <3>2, <4>3, <5>2, <5>3 DEF Met
          <6>2. counter'[kind] = 0
            BY <1>1, <2>3, <3>2, <4>3, <5>3 DEF Met
          <6>3. Announced(kind, d)
            BY <1>1, <3>2, <5>3 DEF Announced
          <6>4. ~Announced(kind, d)'
            BY <1>3, <3>2, <5>3
          <6>5. output[kind][d].alone => output[kind][d].shown = 0
            BY <1>2, <6>3 DEF IsBlink
          <6>6. 0 < Times(output[kind][d])
            BY <1>2 DEF Times
          <6>7. Outputs(kind)' = Outputs(kind)
            BY DEF Outputs, Leds, Pwms
          <6> QED
            BY <5>1, <6>1, <6>2, <6>4, <6>5, <6>6, <6>7 DEF IsBlink, Times
        <5>4. CASE d # x
          <6>1. ~Counting(kind, d) /\ ~Counting(kind, d)'
            BY <2>3, <3>2, <4>3, <5>2, <5>4 DEF Met
          <6>2. Announced(kind, d)' => Announced(kind, d)
            BY <1>3
          <6> QED
            BY <1>2, <5>1, <6>1, <6>2 DEF IsBlink
        <5> QED
          BY <5>3, <5>4
      <4> QED
        BY <4>2, <4>3
    <3> QED
      BY <3>1, <3>2
  <2>4. \/ UNCHANGED <<timer, output>>
        \/ /\ \E fn : timer' = SetTimer(timer, Task, x, TimerType(o.kind), fn).table
           /\ \E met : Met(o.kind, x, met)
    BY <1>9, StartOutputDoes, Zenon
  <2> QED
    BY <2>2, <2>3, <2>4, Zenon
<1> QED
  BY <1>7, <1>8, <1>9 DEF StartEntry

(* A callback starts no count.                                             *)
LEMMA CalledCounts ==
  ASSUME DevicesInv, Callback, NEW kind \in {"led", "pwm"}, NEW e, Counting(kind, e)'
  PROVE  Counting(kind, e)
<1>1. /\ IsTable(timer) /\ TimerOK /\ fired # NoCallback /\ fired' = NoCallback
  BY DEF DevicesInv, TimerOK, Callback
<1>2. TimerType("led") = 3 /\ TimerType("pwm") = 2
  BY DEF TimerType
<1>3. ASSUME NEW name, NEW type, NEW fn, name # e \/ type # TimerType(kind),
             timer' = SetTimer(timer, fired.id, name, type, fn).table \/ timer' = timer
      PROVE  Counting(kind, e)
  BY <1>1, <1>3, SetCounts
<1>4. CASE fired.fn \in MotorFns /\ MotorCallback
  <2>1. \/ timer' = timer
        \/ \E fn \in MotorFns : timer' = SetTimer(timer, fired.id, fired.name, 0, fn).table
    BY <1>4 DEF MotorCallback, EndWheel, Again, MotorFns
  <2> QED
    BY <1>2, <1>3, <2>1
<1>5. CASE fired.fn \in StepperFns /\ StepperCallback
  <2>1. \/ timer' = timer
        \/ timer' = SetTimer(timer, fired.id, 0, 1, fired.fn).table
    BY <1>5 DEF StepperCallback, EndStepper
  <2> QED
    BY <1>2, <1>3, <2>1
<1>6. CASE fired.fn \in BlinkFns /\ BlinkCallback
  <2>1. \/ timer' = timer
        \/ \E fn : timer' = SetTimer(timer, fired.id, fired.name, fired.type, fn).table
    <3>1. CASE fired.fn = "blinkLed"
      <4>1. CheckBlink("led") /\ fired.type = 3
        BY <1>1, <1>6, <3>1, FiredIs DEF BlinkCallback
      <4> QED
        BY <1>2, <4>1 DEF CheckBlink
    <3>2. CASE fired.fn = "blinkPwm"
      <4>1. CheckBlink("pwm") /\ fired.type = 2
        BY <1>1, <1>6, <3>2, FiredIs DEF BlinkCallback
      <4> QED
        BY <1>2, <4>1 DEF CheckBlink
    <3>3. CASE fired.fn = "blinkServo"
      <4>1. CheckServo /\ fired.type = 2
        BY <1>1, <1>6, <3>3, FiredIs DEF BlinkCallback
      <4> QED
        BY <4>1 DEF CheckServo
    <3> QED
      BY <1>6, <3>1, <3>2, <3>3 DEF BlinkFns
  <2>2. CASE fired.name = e /\ fired.type = TimerType(kind)
    BY <1>6, <2>2 DEF Counting
  <2>3. CASE ~(fired.name = e /\ fired.type = TimerType(kind))
    BY <1>3, <2>1, <2>3
  <2> QED
    BY <2>2, <2>3
<1> QED
  BY <1>4, <1>5, <1>6 DEF Callback

(* The callback of a blink: no other than the last toggle ends it.         *)
LEMMA BlinkCounted ==
  ASSUME DevicesInv, DevicesInv', Callback, NEW kind \in {"led", "pwm"},
         NEW d \in Outputs(kind), Blinks, CheckBlink(kind),
         fired.fn \in BlinkFns, fired.type = TimerType(kind), fired.name \in Outputs(kind)
  PROVE  /\ IsBlink(kind, d)'
         /\ LET old == output[kind][d]  new == output'[kind][d]
            IN  old.state = "blink" /\ new.state # "blink" /\ old.alone
                  => new.shown = Times(old)
<1> DEFINE x == fired.name
           old == output[kind][d]
           new == output'[kind][d]
<1>1. /\ IsBlink(kind, d) /\ OutputOK /\ IsOutput(old) /\ counter[kind] \in Int
      /\ DOMAIN counter = {"led", "pwm", "servo"} /\ fired' = NoCallback /\ main' = main
  BY DEF DevicesInv, OutputOK, Blinks, CounterOK, Callback
<1>2. Counting(kind, x)
  BY DEF Counting
<1>3. Announced(kind, d)' => Announced(kind, d)
  BY <1>1 DEF Announced
<1>4. \A e \in Outputs(kind) : Counting(kind, e)' => Counting(kind, e)
  BY CalledCounts
<1>5. CASE d # x
  <2>1. new = old
    BY <1>1, <1>5 DEF CheckBlink, OutputOK
  <2> QED
    BY <1>1, <1>2, <1>3, <1>4, <1>5, <2>1 DEF IsBlink
<1>6. CASE d = x
  <2>1. CASE old.state # "blink"
    <3>1. new = old
      BY <1>6, <2>1 DEF CheckBlink
    <3> QED
      BY <1>1, <1>2, <1>3, <1>6, <2>1, <3>1 DEF IsBlink
  <2>2. CASE old.state = "blink"
    <3>1. old.alone => /\ counter[kind] = old.shown /\ old.shown < Times(old)
                       /\ \A e \in Outputs(kind) \ {d} : ~Counting(kind, e)
                       /\ ~Announced(kind, d)
      BY <1>1, <1>2, <1>6, <2>2 DEF IsBlink
    <3> DEFINE next == [old EXCEPT !.toggled = ~old.toggled, !.shown = old.shown + 1]
    <3>2. /\ DOMAIN next = OutputFields /\ next.state = old.state /\ next.count = old.count
          /\ next.alone = old.alone /\ next.shown = old.shown + 1
      BY <1>1 DEF IsOutput, OutputFields
    <3>3. CASE LastBlink(kind, d)
      <4>1. output' = [output EXCEPT ![kind][d] =
                         [next EXCEPT !.state = IF old.toggled THEN "off" ELSE "on"]]
        BY <1>6, <2>2, <3>3, Zenon DEF CheckBlink
      <4> HIDE DEF next
      <4>2. new = [next EXCEPT !.state = IF old.toggled THEN "off" ELSE "on"]
        BY <1>1, <4>1 DEF OutputOK
      <4>3. new.alone = old.alone /\ new.shown = old.shown + 1 /\ new.state # "blink"
        BY <3>2, <4>2 DEF OutputFields
      <4>4. old.alone => old.shown + 1 = Times(old)
        BY <1>1, <3>1, <3>3 DEF LastBlink, IsOutput, Times
      <4>5. IsBlink(kind, d)'
        BY <1>3, <3>1, <4>3 DEF IsBlink
      <4> QED
        BY <4>3, <4>4, <4>5
    <3>4. CASE ~LastBlink(kind, d)
      <4>1. /\ output' = [output EXCEPT ![kind][d] = next]
            /\ counter' = [counter EXCEPT ![kind] = counter[kind] + 1]
        BY <1>6, <2>2, <3>4, Zenon DEF CheckBlink
      <4> HIDE DEF next
      <4>2. new = next
        BY <1>1, <4>1 DEF OutputOK
      <4>3. counter'[kind] = counter[kind] + 1
        BY <1>1, <4>1
      <4>4. old.alone => old.shown + 1 < Times(old)
        BY <1>1, <3>1, <3>4 DEF LastBlink, IsOutput, Times
      <4>5. Times(new) = Times(old)
        BY <3>2, <4>2 DEF Times
      <4>6. Outputs(kind)' = Outputs(kind) /\ (Times(output[kind][d]))' = Times(new)
        BY DEF Outputs, Leds, Pwms, Times
      <4>7. IsBlink(kind, d)'
        BY <1>1, <1>3, <1>4, <3>1, <3>2, <4>2, <4>3, <4>4, <4>5, <4>6 DEF IsBlink
      <4> QED
        BY <2>2, <3>2, <4>2, <4>7
    <3> QED
      BY <3>3, <3>4
  <2> QED
    BY <2>1, <2>2
<1> QED
  BY <1>5, <1>6

(* A callback of any device.                                               *)
LEMMA BlinkCalled ==
  ASSUME DevicesInv, DevicesInv', Callback, NEW kind \in {"led", "pwm"},
         NEW d \in Outputs(kind), Blinks
  PROVE  /\ IsBlink(kind, d)'
         /\ LET old == output[kind][d]  new == output'[kind][d]
            IN  old.state = "blink" /\ new.state # "blink" /\ old.alone
                  => new.shown = Times(old)
<1> DEFINE old == output[kind][d]
           new == output'[kind][d]
<1>1. /\ TimerOK /\ fired # NoCallback /\ main' = main /\ IsBlink(kind, d)
  BY DEF DevicesInv, Callback, Blinks
<1>2. /\ OutputOK /\ DOMAIN output = {"led", "pwm"} /\ DOMAIN output[kind] = Outputs(kind)
      /\ IsOutput(old) /\ DOMAIN counter = {"led", "pwm", "servo"}
  BY DEF DevicesInv, OutputOK, Blinks, CounterOK
<1>3. Announced(kind, d)' => Announced(kind, d)
  BY <1>1 DEF Announced
<1>4. \A e \in Outputs(kind) : Counting(kind, e)' => Counting(kind, e)
  BY CalledCounts
<1>5. ASSUME new.alone => new = old /\ counter'[kind] = counter[kind],
             new.state = old.state
      PROVE  /\ IsBlink(kind, d)'
             /\ ~(old.state = "blink" /\ new.state # "blink")
  BY <1>1, <1>3, <1>4, <1>5, BlinkKept
<1>6. CASE fired.fn \notin BlinkFns
  <2>1. output' = output /\ counter' = counter
    BY <1>6 DEF Callback
  <2> QED
    BY <1>5, <2>1
<1>7. CASE fired.fn = "blinkServo"
  <2>1. CheckServo /\ fired.name \in Pwms
    BY <1>1, <1>7, FiredIs DEF Callback, MotorFns, StepperFns, BlinkFns, BlinkCallback
  <2>2. counter'[kind] = counter[kind]
    BY <1>2, <2>1 DEF CheckServo
  <2>3. CASE output' = output
    BY <1>5, <2>2, <2>3
  <2>4. CASE output' # output
    <3> DEFINE x == fired.name
    <3>1. output' = [output EXCEPT !.pwm[x].servoToggled = ~@, !.pwm[x].alone = FALSE]
      BY <2>1, <2>4, Zenon DEF CheckServo
    <3>2. CASE kind = "pwm" /\ d = x
      <4>1. ~new.alone /\ new.state = old.state
        BY <1>2, <3>1, <3>2 DEF IsOutput, OutputFields
      <4> QED
        BY <1>5, <4>1
    <3>3. CASE ~(kind = "pwm" /\ d = x)
      <4>1. new = old
        BY <1>2, <3>1, <3>3
      <4> QED
        BY <1>5, <2>2, <4>1
    <3> QED
      BY <3>2, <3>3
  <2> QED
    BY <2>3, <2>4
<1>8. ASSUME NEW k \in {"led", "pwm"}, CheckBlink(k), fired.fn \in BlinkFns,
             fired.type = TimerType(k), fired.name \in Outputs(k)
      PROVE  /\ IsBlink(kind, d)'
             /\ old.state = "blink" /\ new.state # "blink" /\ old.alone
                  => new.shown = Times(old)
  <2>1. CASE k = kind
    BY <1>8, <2>1, BlinkCounted
  <2>2. CASE k # kind
    <3>1. new = old /\ counter'[kind] = counter[kind]
      BY <1>2, <1>8, <2>2 DEF CheckBlink
    <3> QED
      BY <1>5, <3>1
  <2> QED
    BY <2>1, <2>2
<1>9. CASE fired.fn = "blinkLed"
  <2>1. CheckBlink("led") /\ fired.name \in Outputs("led") /\ fired.type = TimerType("led")
    BY <1>1, <1>9, FiredIs
       DEF Callback, MotorFns, StepperFns, BlinkFns, BlinkCallback, Outputs, TimerType
  <2> QED
    BY <1>8, <1>9, <2>1 DEF BlinkFns
<1>10. CASE fired.fn = "blinkPwm"
  <2>1. CheckBlink("pwm") /\ fired.name \in Outputs("pwm") /\ fired.type = TimerType("pwm")
    BY <1>1, <1>10, FiredIs
       DEF Callback, MotorFns, StepperFns, BlinkFns, BlinkCallback, Outputs, TimerType
  <2> QED
    BY <1>8, <1>10, <2>1 DEF BlinkFns
<1> QED
  BY <1>6, <1>7, <1>9, <1>10 DEF BlinkFns

LEMMA CounterStep ==
  ASSUME CounterOK, [Next]_vars
  PROVE  CounterOK'
<1>1. CASE counter' = counter
  BY <1>1 DEF CounterOK
<1>2. ASSUME NEW kind \in {"led", "pwm"}, CheckBlink(kind)
      PROVE  CounterOK'
  <2>1. counter' = [counter EXCEPT ![kind] = 0] \/ counter' = [counter EXCEPT ![kind] = @ + 1]
    BY <1>2 DEF CheckBlink
  <2> QED
    BY <2>1 DEF CounterOK
<1>3. CASE CheckServo
  <2>1. \/ counter' = counter
        \/ counter' = [counter EXCEPT !.servo = 1] \/ counter' = [counter EXCEPT !.servo = @ + 1]
    BY <1>3 DEF CheckServo
  <2> QED
    BY <2>1 DEF CounterOK
<1>4. CASE Callback
  <2>1. counter' = counter \/ (fired.fn \in BlinkFns /\ BlinkCallback)
    BY <1>4 DEF Callback
  <2> QED
    BY <1>1, <1>2, <1>3, <2>1 DEF BlinkCallback, BlinkFns
<1>5. CASE UNCHANGED vars
  BY <1>1, <1>5 DEF vars
<1> QED
  BY <1>1, <1>4, <1>5
     DEF Next, Take, Reset, StartEntry, CheckPower, Measure, Fire, HwCommand, HwStepper, Arrive,
         HwPulses, Wheel, Unread, blinkVars

(* Every step.                                                             *)
LEMMA BlinkStep ==
  ASSUME DevicesInv, DevicesInv', [Next]_vars, Blinks, NEW kind \in {"led", "pwm"},
         NEW d \in Outputs(kind)
  PROVE  /\ IsBlink(kind, d)'
         /\ LET old == output[kind][d]  new == output'[kind][d]
            IN  old.state = "blink" /\ new.state # "blink" /\ new.shown > 0 /\ old.alone
                  => new.shown = Times(old)
<1> DEFINE old == output[kind][d]
           new == output'[kind][d]
<1>1. IsBlink(kind, d)
  BY DEF Blinks
<1>2. ASSUME UNCHANGED <<output, counter, main>>,
             \A e \in Outputs(kind) : Counting(kind, e)' => Counting(kind, e)
      PROVE  IsBlink(kind, d)' /\ new = old
  <2>1. Announced(kind, d)' => Announced(kind, d)
    BY <1>2 DEF Announced
  <2> QED
    BY <1>1, <1>2, <2>1, BlinkKept
<1>3. ASSUME UNCHANGED <<timer, fired, output, counter, main>>
      PROVE  IsBlink(kind, d)' /\ new = old
  <2>1. \A e \in Outputs(kind) : Counting(kind, e)' => Counting(kind, e)
    BY <1>3 DEF Counting, TimerType
  <2> QED
    BY <1>2, <1>3, <2>1
<1>4. ASSUME NEW i \in TimerSlots, Fire(i)
      PROVE  IsBlink(kind, d)' /\ new = old
  <2>1. /\ UNCHANGED <<output, counter, main>> /\ timer[i].id > 0
        /\ fired' = timer[i] /\ timer' = Expire(timer, i) /\ IsTable(timer)
    BY <1>4 DEF Fire, blinkVars, DevicesInv, TimerOK
  <2>2. ASSUME NEW e \in Outputs(kind), Counting(kind, e)'
        PROVE  Counting(kind, e)
    <3>1. CASE fired'.fn \in BlinkFns /\ fired'.name = e /\ fired'.type = TimerType(kind)
      BY <2>1, <3>1 DEF Counting, Matches
    <3>2. ASSUME NEW j \in TimerSlots, timer'[j].id > 0, Matches(timer'[j], e, TimerType(kind)),
                 timer'[j].fn \in BlinkFns
          PROVE  Counting(kind, e)
      <4>1. j # i
        BY <2>1, <3>2 DEF Expire, IsTable
      <4>2. timer'[j] = timer[j]
        BY <2>1, <4>1 DEF Expire, IsTable
      <4> QED
        BY <3>2, <4>2 DEF Counting
    <3> QED
      BY <2>2, <3>1, <3>2 DEF Counting, TimerType, Matches
  <2> QED
    BY <1>2, <2>1, <2>2
<1>5. ASSUME NEW o, Take(o)
      PROVE  IsBlink(kind, d)' /\ (new.state = old.state \/ new.shown = 0)
  BY <1>1, <1>5, BlinkTake
<1>6. ASSUME NEW o, Reset(o)
      PROVE  IsBlink(kind, d)' /\ new = old
  BY <1>3, <1>6 DEF Reset, blinkVars
<1>7. CASE CheckPower \/ Measure \/ HwCommand \/ HwStepper \/ Arrive
  BY <1>3, <1>7 DEF CheckPower, Measure, HwCommand, HwStepper, Arrive, Unread, blinkVars
<1>8. CASE \E m \in Motors : HwPulses(m) \/ Wheel(m)
  BY <1>3, <1>8 DEF HwPulses, Wheel, Unread, blinkVars
<1>9. CASE UNCHANGED vars
  BY <1>3, <1>9 DEF vars
<1>10. CASE StartEntry
  BY <1>10, BlinkStart
<1>11. CASE Callback
  BY <1>11, BlinkCalled
<1> QED
  BY <1>4, <1>5, <1>6, <1>7, <1>8, <1>9, <1>10, <1>11 DEF Next

(* A blink that meets no other action of its callback, and no count that   *)
(* one left behind, toggles its output exactly as often as it was asked to *)
(* (BlinksAsOrdered), for any orders and numbers and however timers of     *)
(* other devices come in between.                                          *)
THEOREM BlinksAlwaysAsOrdered == Spec => BlinksAsOrdered
<1> DEFINE A == \A kind \in {"led", "pwm"} : \A d \in Outputs(kind) :
                  LET o == output[kind][d]  n == output'[kind][d]
                  IN  o.state = "blink" /\ n.state # "blink" /\ n.shown > 0 /\ o.alone
                        => n.shown = Times(o)
<1>1. Init => Blinks
  BY DEF Init, BlinkInit, Dark, Blinks, CounterOK, IsBlink, Announced, Idle, Counting, NoCallback,
         BlinkFns, EmptyTimerTable
<1>2. DevicesInv /\ DevicesInv' /\ Blinks /\ [Next]_vars => Blinks'
  <2>1. ASSUME DevicesInv, DevicesInv', Blinks, [Next]_vars, NEW kind \in {"led", "pwm"},
               NEW d \in Outputs(kind)
        PROVE  IsBlink(kind, d)'
    BY <2>1, BlinkStep
  <2>2. ASSUME Blinks, [Next]_vars
        PROVE  CounterOK'
    BY <2>2, CounterStep DEF Blinks
  <2> QED
    BY <2>1, <2>2 DEF Blinks, Outputs, Leds, Pwms
<1>3. DevicesInv /\ DevicesInv' /\ Blinks /\ [Next]_vars => [A]_output
  BY BlinkStep
<1> QED
  BY <1>1, <1>2, <1>3, DevicesTyped, PTL DEF Spec, BlinksAsOrdered
==============================================================================
