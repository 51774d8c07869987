----------------------------- MODULE StepperDrive ----------------------------
(***************************************************************************)
(* The stepper motor: the driver chip makes the steps by itself, a timer   *)
(* polls whether it still does (asyncTools/asyncSTEPPER.c).                *)
(***************************************************************************)
EXTENDS Actuators

CONSTANTS
    StepsPerTurn,      \* ratio * stepPerRot
    StepperInverted    \* sysConfig.stepper.inverted

ASSUME StepsAssumption == StepsPerTurn \in Nat \ {0}

VARIABLE
    stepper    \* robot.stepper, what hwTask has read of it, the order under way

(* alone is history: no callback of an older order was running when the    *)
(* order was started.                                                      *)
StepperInit ==
    stepper = [direction |-> 0, running |-> FALSE, steps |-> 0, alone |-> TRUE]

(* An angle in degrees is rounded down to steps.                           *)
StepsFor(o) ==
    CASE o.unit = "step" -> o.value
      [] o.unit = "angle" -> (o.value * StepsPerTurn) \div 360
      [] o.unit = "rotation" -> o.value * StepsPerTurn
      [] OTHER -> -1

(* setAsyncStepperAction: negative velocities turn forward.                *)
StartStepper(o, id) ==
    LET forward == (o.velocity < 0) # StepperInverted
        direction == CASE o.velocity = 0 -> "stop" [] forward -> "forward" [] OTHER -> "back"
        speed == IF o.velocity < 0 THEN -o.velocity ELSE o.velocity
        fn == CASE o.unit = "time" -> "endStepper" [] o.unit = "none" -> "dummyStepper"
                [] OTHER -> "checkStepper"
        set == SetTimer(timer, id, 0, 1, fn)
    IN  /\ timer' = set.table
        /\ hw' = IF set.result = 0 THEN hw ELSE setStepperStepAction(setStepperSpeed(hw, speed), direction, StepsFor(o))
        /\ stepper' = [stepper EXCEPT
              !.direction = IF o.velocity < 0 THEN -1 ELSE IF o.velocity > 0 THEN 1 ELSE 0,
              !.steps = StepsFor(o), !.alone = fired.fn = "none" \/ fired.type # 1]

(* endStepperAction.                                                       *)
EndStepper ==
    /\ hw' = setStepperStepAction(hw, "stop", 0)
    /\ stepper' = [stepper EXCEPT !.direction = 0]
    /\ UNCHANGED timer

StepperCallback ==
    IF fired.fn = "endStepper" \/ (fired.fn = "checkStepper" /\ ~stepper.running)
    THEN EndStepper
    ELSE timer' = SetTimer(timer, fired.id, 0, 1, fired.fn).table /\ UNCHANGED <<hw, stepper>>

(* hwTask reads bit 7 of the control register; a failed read, -1, has it.  *)
ReadMotorState ==
    /\ \/ stepper' = [stepper EXCEPT !.running = Going(hw.board)] /\ UNCHANGED faults
       \/ /\ faults > 0
          /\ stepper' = [stepper EXCEPT !.running = TRUE]
          /\ faults' = faults - 1
    /\ UNCHANGED hw

(* The chip has made its steps.                                            *)
StepperArrives ==
    /\ Going(hw.board)
    /\ hw.board.step[PMA] # 0
    /\ hw' = [hw EXCEPT !.board = StepperDone(@)]
    /\ UNCHANGED <<stepper, faults>>

StepperBusy ==
    \/ \E i \in TimerSlots : timer[i].id > 0 /\ timer[i].type = 1
    \/ fired.fn # "none" /\ fired.type = 1

(* An order to make some steps ends, however often the motor was restarted *)
(* and turned without a number of steps before: the chip stops by itself   *)
(* and a poll sees it; unless a callback of an older order, which was      *)
(* running when this one was started, has set its timer over it.           *)
StepperOrderEnds ==
    (StepperBusy /\ stepper.steps > 0 /\ stepper.alone)
        ~> (~StepperBusy \/ stepper.steps <= 0 \/ ~stepper.alone)
==============================================================================
