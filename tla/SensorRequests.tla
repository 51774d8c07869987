---------------------------- MODULE SensorRequests ---------------------------
(***************************************************************************)
(* The sensors as the main loop knows them (the structure robot of         *)
(* algobot_main.c), the requests that read them and set what is reported   *)
(* of them, and the status message.                                        *)
(*                                                                         *)
(* The five make...Request functions have one shape; what tells them apart *)
(* is stated by Limits, LimitsAfter and AllCount.  A sensor has one value  *)
(* per channel, and limits where the program compares it with any.  What   *)
(* requests do to the sender table is part of BuggyTasks.  A request names *)
(* devices from 0 up to one that does not exist: an entry without an id is *)
(* read as -1, which no handler refuses and which is left out.             *)
(***************************************************************************)
EXTENDS ConfigStore

CONSTANTS
    NBDIN, NBBTN, NBSONAR, NBRGBC, NBAIN,   \* sensors (4, 2, 1, 2 and 1)
    NENTRY       \* entries of a request's arrays that are kept (20)

(* The arrays have room for every device.                                  *)
ASSUME SensorNumbers ==
    /\ NENTRY \in Nat \ {0}
    /\ {NBDIN, NBBTN, NBSONAR, NBRGBC, NBAIN, NBMOTOR} \subseteq 0 .. NENTRY

SensorKinds == {"din", "button", "distance", "rgb", "battery"}
Ranged == {"distance", "rgb", "battery"}
SensorCount(k) ==
    [din |-> NBDIN, button |-> NBBTN, distance |-> NBSONAR, rgb |-> NBRGBC,
     battery |-> NBAIN][k]
Sensors(k) == 0 .. SensorCount(k) - 1
Channels(k) == IF k = "rgb" THEN {"red", "green", "blue"} ELSE {"value"}
Limits(k) == IF k \in Ranged THEN Channels(k) ELSE {}

VARIABLES
    robot,     \* by kind and sensor: values, limits, whether events are on
    asked,     \* the request arrays of AlgoidCommand, by kind and place
    out,       \* the messages the last step has sent
    told       \* history: the last state of each input a message has told

sensorVars == <<robot, asked, out, told>>

Unknown == -2      \* no reading of an input
NoEntry(k) ==
    [id |-> 0, event |-> "", low |-> [c \in Limits(k) |-> 0],
     high |-> [c \in Limits(k) |-> 0]]
NothingAsked == [k \in SensorKinds |-> [n \in 1 .. NENTRY |-> NoEntry(k)]]

(* resetConfig: every event is switched on, the limits are the widest (for *)
(* a distance, 15 to 100), and the values of distance and colour are -1.   *)
DefaultSensor(k, s) ==
    [on |-> TRUE,
     value |-> IF k \in {"distance", "rgb"} THEN [c \in Channels(k) |-> -1] ELSE s.value,
     low |-> [c \in Limits(k) |-> IF k = "distance" THEN 15 ELSE 0],
     high |-> [c \in Limits(k) |-> IF k = "distance" THEN 100 ELSE 65535]]
DefaultRobot(r) ==
    [k \in SensorKinds |-> [d \in Sensors(k) |-> DefaultSensor(k, r[k][d])]]
ZeroRobot ==
    [k \in SensorKinds |-> [d \in Sensors(k) |-> [value |-> [c \in Channels(k) |-> 0]]]]

------------------------------------------------------------------------------
(* Messages.                                                               *)

(* ackToJSON: an entry of a message about sensors of kind k.  A value that *)
(* is below 0 is shown as an error, but for colours.                       *)
Shown(k, id, s) ==
    IF k # "rgb" /\ s.value["value"] < 0 THEN [id |-> id, error |-> TRUE]
    ELSE [id |-> id, error |-> FALSE, value |-> s.value, on |-> s.on,
          low |-> s.low, high |-> s.high]
Refused(id) == [id |-> id, error |-> TRUE]

Message(type, k, entries) == [type |-> type, param |-> k, entries |-> entries]

InputKinds == {"din", "button"}
KnowsNothing == [k \in InputKinds |-> [d \in Sensors(k) |-> Unknown]]

(* The host's knowledge of the inputs after it has heard messages, in the  *)
(* order they are sent: of each input, what the last entry about it says.  *)
EntriesOn(k, m) ==
    CASE m.param = "status" -> m.entries[k]
      [] m.param = k -> m.entries
      [] OTHER -> <<>>
PlacesOn(k, d, m) ==
    {n \in DOMAIN EntriesOn(k, m) : ~EntriesOn(k, m)[n].error /\ EntriesOn(k, m)[n].id = d}
Heard(t, messages) ==
    [k \in InputKinds |-> [d \in Sensors(k) |->
        LET said(m) == EntriesOn(k, m)[LastPlace(PlacesOn(k, d, m))].value["value"]
        IN  Latest({n \in DOMAIN messages : PlacesOn(k, d, messages[n]) # {}},
                   [n \in DOMAIN messages |-> said(messages[n])], t[k][d])]]

Say(messages) == /\ out' = messages
                 /\ told' = Heard(told, out')

------------------------------------------------------------------------------
(* The status message.                                                     *)

(* The groups of the status message and how many places each takes.        *)
GroupSize(g) == IF g = "motor" THEN NBMOTOR ELSE SensorCount(g)

(* makeStatusRequest fills AlgoidResponse place by place, from place 1 on: *)
(* each place with the kind and the number of a device.                    *)
Group(g) == [n \in 1 .. GroupSize(g) |-> [kind |-> g, id |-> n - 1]]
StatusPlaces ==
    Group("din") \o Group("button") \o Group("motor") \o Group("distance") \o Group("rgb")

(* ackToJSON walks the same places group by group: the group at place i is *)
(* printed when i lies in it, and i is moved past it.                      *)
GroupStart(g) ==
    CASE g = "din" -> 1
      [] g = "button" -> 1 + NBDIN
      [] g = "motor" -> 1 + NBDIN + NBBTN
      [] g = "distance" -> 1 + NBDIN + NBBTN + NBMOTOR
      [] g = "rgb" -> 1 + NBDIN + NBBTN + NBMOTOR + NBSONAR
LiesIn(g, i) == i >= GroupStart(g) /\ i < GroupStart(g) + GroupSize(g)
Past(g, i) == IF LiesIn(g, i) THEN i + GroupSize(g) ELSE i
Reached ==
    LET button == Past("din", 1)
        motor == Past("button", button)
        distance == Past("motor", motor)
    IN  [din |-> 1, button |-> button, distance |-> distance,
         rgb |-> Past("distance", distance)]
PrintedPlaces ==
    [g \in SensorKinds \ {"battery"} |->
        IF LiesIn(g, Reached[g]) THEN [j \in 1 .. GroupSize(g) |-> Reached[g] + j - 1]
        ELSE <<>>]

(* What the message shows of kind k: the n-th object printed is read as    *)
(* the n-th sensor, whatever the place holds.                              *)
StatusShown(r, k) ==
    [n \in DOMAIN PrintedPlaces[k] |->
        LET p == StatusPlaces[PrintedPlaces[k][n]]
        IN  [id |-> n - 1, error |-> FALSE, value |-> r[p.kind][p.id].value,
             on |-> r[p.kind][p.id].on]]
Status(type, r) == Message(type, "status", [k \in SensorKinds \ {"battery"} |-> StatusShown(r, k)])

------------------------------------------------------------------------------
(* Requests.                                                               *)

(* GetAlgoidMsg: the entries of a request replace the first places of its  *)
(* array; the other places keep those of earlier requests.                 *)
AskedAfter(k, entries) ==
    [asked EXCEPT ![k] = [n \in 1 .. NENTRY |->
                            IF n <= Len(entries) THEN entries[n] ELSE @[n]]]

(* A sensor after the entries at the given places.  A limit of 0 leaves    *)
(* the limit as it is; the lower limit of the battery is taken with the    *)
(* higher one.                                                             *)
LimitsAfter(k, s, entries, places) ==
    [s EXCEPT
       !.high = [c \in Limits(k) |->
                   Latest({i \in places : entries[i].high[c] # 0},
                          [i \in places |-> entries[i].high[c]], @[c])],
       !.low = [c \in Limits(k) |->
                   Latest({i \in places :
                             (IF k = "battery" THEN entries[i].high[c]
                              ELSE entries[i].low[c]) # 0},
                          [i \in places |-> entries[i].low[c]], @[c])]]
EventsAfter(s, entries, places) ==
    [s EXCEPT !.on = Latest({i \in places : entries[i].event \in {"on", "off"}},
                            [i \in places |-> entries[i].event = "on"], @)]

(* The first loop of a request, over n entries, for the sensors that exist.*)
Settings(k, n, entries) ==
    [robot EXCEPT ![k] = [d \in Sensors(k) |->
        LET named == {i \in 1 .. n : entries[i].id = d}
        IN  LimitsAfter(k, EventsAfter(robot[k][d], entries, named), entries, named)]]

(* With no entries all sensors are meant; the battery handler answers one. *)
AllCount(k) == IF k = "battery" THEN 1 ELSE SensorCount(k)

(* The second loop without its test: an unknown sensor reads as the first. *)
AnswersUnchecked(k, n, entries, r) ==
    [i \in 1 .. (IF n = 0 THEN AllCount(k) ELSE n) |->
        LET id == IF n = 0 THEN i - 1 ELSE entries[i].id
        IN  Shown(k, id, r[k][IF id \in Sensors(k) THEN id ELSE 0])]

(* The second loop: the test looks at the request's array, which in a      *)
(* request without entries still holds those of an earlier one.            *)
Answers(k, n, entries, r) ==
    [i \in 1 .. (IF n = 0 THEN AllCount(k) ELSE n) |->
        LET id == IF n = 0 THEN i - 1 ELSE entries[i].id
        IN  IF entries[i].id < SensorCount(k) THEN Shown(k, id, r[k][id])
            ELSE Refused(id)]

(* The answer shows the settings as they were.                             *)
MakeRequestEarly(k, n, arrays) ==
    /\ robot' = Settings(k, n, arrays[k])
    /\ asked' = arrays
    /\ Say(<<Message("response", k, Answers(k, n, arrays[k], robot))>>)

MakeRequest(k, n, arrays) ==
    LET r == Settings(k, n, arrays[k])
    IN  /\ robot' = r
        /\ asked' = arrays
        /\ Say(<<Message("response", k, Answers(k, n, arrays[k], r))>>)

makeSensorsRequest(n, arrays) == MakeRequest("din", n, arrays)
makeButtonRequest(n, arrays) == MakeRequest("button", n, arrays)
makeDistanceRequest(n, arrays) == MakeRequest("distance", n, arrays)
makeRgbRequest(n, arrays) == MakeRequest("rgb", n, arrays)
makeBatteryRequest(n, arrays) == MakeRequest("battery", n, arrays)

(* A request for motors falls through into the one for colours, with the   *)
(* number of entries it has left and with the colour entries of an earlier *)
(* request.  (Its own answer, the velocities, is left out.)                *)
makeMotorRequest(n, arrays) == makeRgbRequest(IF n = 0 THEN NBMOTOR ELSE n, arrays)

(* processAlgoidRequest, for a request with the given entries.             *)
processAlgoidRequest(m) ==
    LET n == Len(m.entries)
        arrays == IF m.param \in SensorKinds THEN AskedAfter(m.param, m.entries) ELSE asked
    IN  \/ m.param = "din" /\ makeSensorsRequest(n, arrays)
        \/ m.param = "button" /\ makeButtonRequest(n, arrays)
        \/ m.param = "distance" /\ makeDistanceRequest(n, arrays)
        \/ m.param = "battery" /\ makeBatteryRequest(n, arrays)
        \/ m.param = "rgb" /\ makeRgbRequest(n, arrays)
        \/ m.param = "motor" /\ makeMotorRequest(n, arrays)
        \/ /\ m.param = "status"
           /\ Say(<<Status("response", robot)>>)
           /\ UNCHANGED <<robot, asked>>
==============================================================================
