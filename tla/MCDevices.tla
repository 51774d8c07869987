------------------------------ MODULE MCDevices ------------------------------
(***************************************************************************)
(* Devices for TLC: two motors of which one has the regulator, two lights, *)
(* a servo; a script for each thing that may go wrong.                     *)
(***************************************************************************)
EXTENDS Devices

Gains(on) == [on |-> on, Kp |-> 1, Ki |-> 1, Kd |-> 1]
OneMotor(min, inverted, on) ==
    [minPWM |-> min, minRPM |-> 20, maxRPM |-> 100, inverted |-> inverted, PID |-> Gains(on)]
MCMotors == [m \in 0 .. 1 |-> IF m = 0 THEN OneMotor(10, FALSE, FALSE) ELSE OneMotor(10, TRUE, TRUE)]
MCTwins == [m \in 0 .. 1 |-> OneMotor(0, FALSE, FALSE)]

Run(id, velocity, cm, time) == [id |-> id, velocity |-> velocity, cm |-> cm, time |-> time]
Go(entries) == [kind |-> "motor", entries |-> entries]
Lit(id, state, count) == [id |-> id, state |-> state, power |-> 50, count |-> count]
Show(kind, servo, entries) == [kind |-> kind, servo |-> servo, entries |-> entries]
Steps(velocity, unit, value) ==
    [kind |-> "stepper", entries |->
        <<[id |-> 0, velocity |-> velocity, unit |-> unit, value |-> value]>>]

Script(orders, failing, room, jobs) ==
    [orders |-> orders, faults |-> failing, room |-> room, jobs |-> jobs]

Distance == Script(<<Go(<<Run(0, 50, 1, 0)>>), Go(<<Run(0, 50, 1, 0)>>)>>, 0, 9, {"power", "wheels"})
Cleared == Script(<<Go(<<Run(0, 50, 1, 0)>>), [kind |-> "reset"]>>, 0, 9, {"power", "wheels"})
Both == Script(<<Go(<<Run(0, 100, 0, 5), Run(1, 100, 0, 0)>>), Go(<<Run(1, -30, 0, 5)>>)>>,
               0, 3, {"power"})
Faulty == Script(<<Go(<<Run(1, 100, 0, 5)>>), Go(<<Run(1, -30, 0, 5)>>)>>, 1, 3, {"power"})
Misread == Script(<<Go(<<Run(0, 50, 1, 0)>>)>>, 1, 3, {"power", "wheels"})
Regulated == Script(<<Go(<<Run(1, 60, 0, 0)>>)>>, 0, 6, {"power", "speeds"})
Lights == Script(<<Show("led", FALSE, <<Lit(0, "blink", 2), Lit(1, "on", 0)>>),
                   Show("led", FALSE, <<Lit(0, "off", 0)>>),
                   Show("led", FALSE, <<Lit(0, "blink", 3)>>)>>, 0, 6, {"stepper"})
PwmOutputs == Script(<<Show("pwm", FALSE, <<Lit(0, "on", 2)>>), Show("pwm", TRUE, <<Lit(0, "on", 0)>>),
                    Show("pwm", FALSE, <<Lit(0, "blink", 2)>>),
                    Show("pwm", TRUE, <<Lit(0, "blink", 0)>>)>>, 0, 6, {"stepper"})
Endless == Script(<<Steps(20, "none", 0), Steps(-20, "angle", 90)>>, 0, 24, {"stepper"})
Timed == Script(<<Steps(10, "time", 5), Steps(-20, "step", 1)>>, 0, 24, {"stepper"})
Turns == Script(<<Steps(10, "rotation", 2)>>, 1, 24, {"stepper"})
MCScripts == {Distance, Cleared, Both, Faulty, Misread, Regulated, Lights, PwmOutputs, Endless, Timed, Turns}

Twins == Script(<<Go(<<Run(0, 50, 0, 0), Run(1, 50, 0, 0)>>)>>, 0, 6, {"power", "speeds"})
MCTwinScripts == {Twins}
==============================================================================
