----------------------------- MODULE SensorEvents ----------------------------
(***************************************************************************)
(* The five ...EventCheck functions of algobot_main.c, which the main loop *)
(* calls every 100 ms: each reads its sensors and reports what has changed *)
(* or has left or entered the range the host asked for.                    *)
(***************************************************************************)
EXTENDS SensorRequests

CONSTANT ColourOrder    \* the order in which colours are looked at

ASSUME ColourOrderAssumption ==
    Len(ColourOrder) = 3 /\ {ColourOrder[n] : n \in 1 .. 3} = Channels("rgb")

VARIABLES
    hw,        \* the readings hwTask has left for the getters of hwManager
    warned     \* ...WarningSended, the static flags of the checks

(* The members of a set of numbers, in the order of a loop over it.        *)
Ascending(numbers) ==
    [n \in 1 .. Cardinality(numbers) |->
        CHOOSE x \in numbers : Cardinality({y \in numbers : y < x}) = n - 1]

(* Neither battery nor colours are ever given a hysteresis.                *)
Hysteresis == 0

NothingWarned ==
    [k \in Ranged |-> [d \in Sensors(k) |-> [c \in Channels(k) |-> FALSE]]]

------------------------------------------------------------------------------
(* Inputs.                                                                 *)

(* The sensors of kind k with the values just read.                        *)
Updated(k) == [d \in Sensors(k) |-> [robot[k][d] EXCEPT !.value = hw[k][d]]]

(* Only inputs that go on are reported.                                    *)
ChangedUp(k, d) == robot[k][d].on /\ robot[k][d].value["value"] < hw[k][d]["value"]

(* The old state is kept in an unsigned char for the comparison: an input  *)
(* that cannot be read (-1, kept as 255) has changed at every check.       *)
Changed(k, d) == robot[k][d].on /\ robot[k][d].value["value"] % 256 # hw[k][d]["value"]

(* If the stream is to follow events, a status goes with each event.       *)
WithStatus(messages, r, onEvent) ==
    IF messages = <<>> \/ onEvent # 1 THEN messages
    ELSE Append(messages, Status("dataflow", r))

(* One message with all the inputs that have changed; the state is updated *)
(* whether or not events are on.                                           *)
InputCheck(k, onEvent) ==
    LET r == [robot EXCEPT ![k] = Updated(k)]
        events == Ascending({d \in Sensors(k) : Changed(k, d)})
    IN  /\ robot' = r
        /\ Say(WithStatus(
             IF events = <<>> THEN <<>>
             ELSE <<Message("event", k, [n \in DOMAIN events |->
                                Shown(k, events[n], r[k][events[n]])])>>, r, onEvent))

DINEventCheck(onEvent) == InputCheck("din", onEvent) /\ UNCHANGED warned
BUTTONEventCheck(onEvent) == InputCheck("button", onEvent) /\ UNCHANGED warned

------------------------------------------------------------------------------
(* Ranges.                                                                 *)

(* A limit below 0 is no limit.                                            *)
OutOfRange(s, c) ==
    \/ s.value[c] < s.low[c] /\ s.low[c] >= 0
    \/ s.value[c] > s.high[c] /\ s.high[c] >= 0

(* What the flag of a channel is after the check of a sensor: distance is  *)
(* back as soon as it is in range, the others when the value is above the  *)
(* lower limit and the hysteresis.                                         *)
Back(k, s, c) ==
    /\ ~OutOfRange(s, c)
    /\ k # "distance" => s.value[c] > s.low[c] + Hysteresis

(* A value that is too high is not noticed.                                *)
FlagAfterLow(k, s, c, flag) ==
    IF ~s.on THEN flag
    ELSE IF s.value[c] < s.low[c] THEN TRUE
    ELSE IF Back(k, s, c) THEN FALSE ELSE flag

FlagAfter(k, s, c, flag) ==
    IF ~s.on THEN flag
    ELSE IF OutOfRange(s, c) THEN TRUE
    ELSE IF Back(k, s, c) THEN FALSE ELSE flag

Flags(k, r) ==
    [warned EXCEPT ![k] = [d \in Sensors(k) |->
        [c \in Channels(k) |-> FlagAfter(k, r[k][d], c, warned[k][d][c])]]]

(* Sensors and channels whose flag is changed, in the order of the loops.  *)
Crossings(k, r) ==
    LET channels == IF k = "rgb" THEN ColourOrder ELSE <<"value">>
        place(n) == [id |-> n \div Len(channels), channel |-> channels[1 + (n % Len(channels))]]
        flips(p) == Flags(k, r)[k][p.id][p.channel] # warned[k][p.id][p.channel]
        crossed == Ascending({n \in 0 .. SensorCount(k) * Len(channels) - 1 : flips(place(n))})
    IN  [n \in DOMAIN crossed |-> place(crossed[n])]

(* The entry of such an event: the settings it also shows are those of an  *)
(* earlier answer and left out.                                            *)
Measured(k, id, s) ==
    IF s.value["value"] < 0 THEN Refused(id)
    ELSE [id |-> id, error |-> FALSE, value |-> s.value]

(* distanceEventCheck and batteryEventCheck: an event per crossing.  (The  *)
(* program has one sonar and one battery.)                                 *)
RangeCheck(k, onEvent) ==
    LET r == [robot EXCEPT ![k] = Updated(k)]
        messages == [n \in DOMAIN Crossings(k, r) |->
                       LET d == Crossings(k, r)[n].id
                       IN  Message("event", k, <<Measured(k, d, r[k][d])>>)]
    IN  /\ robot' = r
        /\ warned' = Flags(k, r)
        /\ Say(WithStatus(messages, r, onEvent))

distanceEventCheck(onEvent) == RangeCheck("distance", onEvent)
batteryEventCheck(onEvent) == RangeCheck("battery", onEvent)

(* COLOREventCheck: one event for all crossings; a status that follows     *)
(* events is sent at once for each crossing, and once more after the event.*)
(* An entry has one fresh colour; the others it shows are left out.        *)
COLOREventCheck(onEvent) ==
    LET crossed == Crossings("rgb", robot)
        entry(p) == [id |-> p.id, error |-> FALSE, channel |-> p.channel,
                     value |-> robot["rgb"][p.id].value[p.channel]]
        statuses == IF onEvent = 1
                    THEN [n \in DOMAIN crossed |-> Status("dataflow", robot)] ELSE <<>>
    IN  /\ warned' = Flags("rgb", robot)
        /\ UNCHANGED robot
        /\ Say(IF crossed = <<>> THEN <<>>
               ELSE statuses \o WithStatus(
                  <<Message("event", "rgb", [n \in DOMAIN crossed |-> entry(crossed[n])])>>,
                  robot, onEvent))

(* The colours are read at the beginning of the 100 ms block.              *)
ReadColours == [robot EXCEPT !["rgb"] = Updated("rgb")]
==============================================================================
