----------------------------- MODULE MCRobotLoop -----------------------------
(***************************************************************************)
(* RobotLoop for TLC: a small board, and for each kind of sensor, for the  *)
(* configuration and for the SYSTEM command a dialogue of its own.         *)
(***************************************************************************)
EXTENDS RobotLoop

(* Readings in which one kind of sensor takes the given values.            *)
Resting == [k \in SensorKinds |-> [d \in Sensors(k) |->
               [c \in Channels(k) |-> IF k = "distance" THEN 50 ELSE 0]]]
Reading(k, values) ==
    {[Resting EXCEPT ![k] = f] : f \in [Sensors(k) -> [Channels(k) -> values]]}
Red(values) ==
    {[Resting EXCEPT !["rgb"] = [d \in Sensors("rgb") |->
        [c \in Channels("rgb") |-> IF c = "red" THEN v ELSE 5]]] : v \in values}

Ask(k, entries) == [type |-> "request", param |-> k, entries |-> entries]
Entry(k, id, event, low, high) ==
    [id |-> id, event |-> event, low |-> [c \in Limits(k) |-> low],
     high |-> [c \in Limits(k) |-> high]]
Set(state, onEvent, time) == [state |-> state, onEvent |-> onEvent, time |-> time]
Config(stream, list, save, reset) ==
    [type |-> "config", stream |-> stream, list |-> list, save |-> save, reset |-> reset]
Follow == Config(Set("off", "on", -1), <<>>, "", "")

Inputs(k) ==
    [messages |-> {Ask(k, <<>>), Ask(k, <<Entry(k, 0, "off", 0, 0)>>),
                   Ask(k, <<Entry(k, 7, "", 0, 0), Entry(k, 0, "on", 0, 0)>>),
                   Ask("status", <<>>), Follow},
     readings |-> Reading(k, IF k = "button" THEN {-1, 0, 1} ELSE {0, 1}), power |-> FALSE]

Ranges(k, readings) ==
    [messages |-> {Ask(k, <<>>), Ask(k, <<Entry(k, 0, "off", 0, 60)>>),
                   Ask(k, <<Entry(k, 0, "on", 20, 90)>>), Ask("motor", <<>>), Follow},
     readings |-> readings, power |-> FALSE]

Motor(id, inverted) ==
    [id |-> id, inverted |-> inverted, minPWM |-> 1, minRPM |-> 30, maxRPM |-> 90,
     PIDstate |-> "on", gains |-> 2]
Lists ==
    [motor |-> <<Motor(0, "on"), Motor(7, "on")>>,
     wheel |-> <<[id |-> 0, diameter |-> 3, pulsePerRot |-> 4]>>,
     stepper |-> <<[id |-> 0, inverted |-> "on", ratio |-> 2, stepPerRot |-> 4]>>,
     led |-> <<[id |-> 0, state |-> "on", power |-> 5]>>]
Settle(power) ==
    [messages |->
       {Config(Set("on", "", 1), Lists, "", ""),
        Config(Set("", "", 0), [k \in {"motor"} |-> <<Motor(0, "off")>>], "true", ""),
        Config(Set("", "off", 3), [k \in {"led"} |-> <<[id |-> 0, state |-> "?", power |-> 6]>>],
               "true", "true"),
        Config(NoStream, <<>>, "", "true")},
     readings |-> {Resting}, power |-> power]

Manage ==
    [messages |-> {[type |-> "system", application |-> a] :
                       a \in {"check", "update", "restart", "other"}},
     readings |-> {Resting}, power |-> FALSE]

MCColourOrder == <<"red", "green", "blue">>
MCDialogues ==
    {Inputs("din"), Inputs("button"),
     Ranges("distance", Reading("distance", {-1, 16, 50, 95})),
     Ranges("battery", Reading("battery", {0, 20, 21, 95})),
     Ranges("rgb", Red({0, 20, 95})),
     Settle(FALSE), Settle(TRUE), Manage}
==============================================================================
