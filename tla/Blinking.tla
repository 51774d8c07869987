------------------------------- MODULE Blinking ------------------------------
(***************************************************************************)
(* LEDs, PWM outputs and servos: on, off, or blinking a number of times,   *)
(* counted by one static counter for each of the three callbacks           *)
(* (asyncTools/asnycLED.c, asyncPWM.c, asyncSERVO.c).                      *)
(***************************************************************************)
EXTENDS Actuators

VARIABLES
    output,    \* robot.led and robot.pwm, and the toggle state of the callbacks
    counter    \* blinkCount, the static counter of each callback

(* kind of output -> its TYPE in a timer slot.                             *)
TimerType(kind) == IF kind = "led" THEN 3 ELSE 2

(* toggled: the static toggle state, of LEDs and PWMs on the one hand and  *)
(* of the servo callback on the other.  shown and alone are history: how   *)
(* often the blink in progress has toggled, and that no other action of    *)
(* the same callback has met it or left a count behind.                    *)
Dark == [state |-> "off", power |-> 0, count |-> 0, toggled |-> FALSE,
         servoToggled |-> FALSE, shown |-> 0, alone |-> TRUE]

BlinkInit ==
    /\ output = [kind \in {"led", "pwm"} |-> [d \in Outputs(kind) |-> Dark]]
    /\ counter = [led |-> 0, pwm |-> 0, servo |-> 0]

(* A timer of output d, armed or calling back, will meet the counter.      *)
BlinkFns == {"blinkLed", "blinkPwm", "blinkServo"}
Counting(kind, d) ==
    \/ \E i \in TimerSlots : /\ timer[i].id > 0
                             /\ Matches(timer[i], d, TimerType(kind))
                             /\ timer[i].fn \in BlinkFns
    \/ fired.fn \in BlinkFns /\ fired.name = d /\ fired.type = TimerType(kind)

------------------------------------------------------------------------------
(* Orders.                                                                 *)

(* runLedAction and runPwmAction copy the orders before anything is        *)
(* started.  A state that is none of the three leaves the old one, as does *)
(* "blink" in servo mode; an LED takes a power only above 0.               *)
OrderedOutputs(kind, servo, orders) ==
    [output EXCEPT ![kind] = [d \in Outputs(kind) |->
        LET named == {k \in DOMAIN orders : orders[k].id = d}
            o == orders[Max(named)]
            old == output[kind][d]
        IN  IF named = {} THEN old
            ELSE [old EXCEPT
                !.state = IF o.state \in {"on", "off"} \/ (o.state = "blink" /\ ~servo)
                          THEN o.state ELSE @,
                !.power = IF o.power > 0 \/ (o.power = 0 /\ kind = "pwm") THEN o.power ELSE @,
                !.count = IF o.count > 0 /\ ~servo THEN o.count ELSE @,
                !.shown = 0,
                !.alone = ~Counting(kind, d)]]]

(* setAsyncLedAction, setAsyncPwmAction, setAsyncServoAction.  A servo     *)
(* order for an output that blinks starts nothing.                         *)
StartOutput(kind, servo, d, id) ==
    LET o == output[kind][d]
        fn == IF servo THEN "blinkServo" ELSE IF kind = "led" THEN "blinkLed" ELSE "blinkPwm"
        others == {e \in Outputs(kind) \ {d} : Counting(kind, e)}
        met == IF others = {} /\ counter[kind] = 0 THEN {} ELSE others \cup {d}
    IN  IF servo /\ o.state = "blink" THEN UNCHANGED <<timer, output, hw>>
        ELSE /\ timer' = SetTimer(timer, id, d, TimerType(kind), fn).table
             /\ hw' = CASE o.state = "blink" -> hw
                        [] o.state = "on" ->
                             IF servo THEN setServoPosition(hw, d, o.power)
                             ELSE setOutputPower(hw, kind, d, o.power)
                        [] o.state = "off" ->
                             IF servo THEN setServoPosition(hw, d, -1)
                             ELSE setOutputPower(hw, kind, d, 0)
             /\ output' = [output EXCEPT ![kind] = [e \in Outputs(kind) |->
                   IF e \in met THEN [@[e] EXCEPT !.alone = FALSE] ELSE @[e]]]

------------------------------------------------------------------------------
(* The callbacks of TimerTask.                                             *)

Toggle(kind, d) ==
    hw' = setOutputPower(hw, kind, d,
            IF output[kind][d].toggled THEN 0 ELSE output[kind][d].power)

(* The counter is compared with the number itself.                         *)
LastBlinkLate(kind, d) == counter[kind] >= output[kind][d].count

LastBlink(kind, d) == counter[kind] >= output[kind][d].count - 1

(* checkBlinkLedCount and checkBlinkPwmCount: toggle, then end or go on;   *)
(* at the end the state is what the output shows.                          *)
CheckBlink(kind) ==
    LET d == fired.name
        o == output[kind][d]
        next == [o EXCEPT !.toggled = ~@, !.shown = @ + 1]
    IN  IF o.state # "blink"
        THEN /\ counter' = [counter EXCEPT ![kind] = 0]
             /\ UNCHANGED <<timer, output, hw>>
        ELSE /\ Toggle(kind, d)
             /\ IF LastBlink(kind, d)
                THEN /\ counter' = [counter EXCEPT ![kind] = 0]
                     /\ output' = [output EXCEPT ![kind][d] =
                           [next EXCEPT !.state = IF o.toggled THEN "off" ELSE "on"]]
                     /\ UNCHANGED timer
                ELSE /\ counter' = [counter EXCEPT ![kind] = @ + 1]
                     /\ output' = [output EXCEPT ![kind][d] = next]
                     /\ timer' = SetTimer(timer, fired.id, d, TimerType(kind), fired.fn).table

(* checkBlinkServoCount, which meets a blinking output when a PWM order    *)
(* has come between a servo order and its callback: it counts after the    *)
(* end, and leaves the state.                                              *)
CheckServo ==
    LET d == fired.name
        o == output.pwm[d]
        over == counter.servo >= o.count
    IN  IF o.state # "blink" THEN UNCHANGED <<timer, output, counter, hw>>
        ELSE /\ hw' = setOutputPower(hw, "pwm", d, IF o.servoToggled THEN 0 ELSE o.power)
             /\ output' = [output EXCEPT !.pwm[d].servoToggled = ~@, !.pwm[d].alone = FALSE]
             /\ counter' = [counter EXCEPT !.servo = IF over THEN 1 ELSE @ + 1]
             /\ IF over THEN UNCHANGED timer
                ELSE timer' = SetTimer(timer, fired.id, d, 2, "blinkServo").table

BlinkCallback ==
    CASE fired.fn = "blinkLed" -> CheckBlink("led")
      [] fired.fn = "blinkPwm" -> CheckBlink("pwm")
      [] fired.fn = "blinkServo" -> CheckServo

------------------------------------------------------------------------------
(* A blink that meets no other action of its callback, and none that left  *)
(* a count behind, toggles its output exactly as often as it was asked to  *)
(* (and once if that is less), whatever was switched on and off in between.*)
Times(o) == IF o.count < 1 THEN 1 ELSE o.count
BlinksAsOrdered ==
    [][ \A kind \in {"led", "pwm"} : \A d \in Outputs(kind) :
          LET o == output[kind][d]  n == output'[kind][d]
          IN  o.state = "blink" /\ n.state # "blink" /\ n.shown > 0 /\ o.alone
                => n.shown = Times(o) ]_output
==============================================================================
