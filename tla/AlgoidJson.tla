----------------------------- MODULE AlgoidJson ------------------------------
(***************************************************************************)
(* Messages as text (AlgoidCom/linux_JSON.c, and sendResponse of           *)
(* messagesManager.c): MessageRead is what GetAlgoidMsg finds in a text,   *)
(* ackToJSON writes an answer from the array AlgoidResponse.               *)
(***************************************************************************)
EXTENDS Integers, Sequences, JsonWrite, AlgoidMessage

CONSTANT
    NumberOf       \* the devices of each group in the STATUS answer
                   \* (NBDIN, NBBTN, NBMOTOR, NBSONAR, NBRGBC, NBLED, NBPWM)

------------------------------------------------------------------------------
(* GetAlgoidMsg.                                                           *)

Colours == {"red", "green", "blue", "clear"}
One(names) == {<<n>> : n \in names}

(* The fields that are read of each entry of MsgValue, as paths of keys.   *)
NumberFields(param) ==
    CASE param = "motor" -> One({"motor", "velocity", "time", "cm", "accel", "decel"})
      [] param = "stepper" -> One({"motor", "velocity", "angle", "step", "rotation", "time"})
      [] param \in {"din"} -> One({"din"})
      [] param = "button" -> One({"btn"})
      [] param = "distance" -> One({"sonar", "angle", "event_lower", "event_higher"})
      [] param = "rgb" -> One({"rgb"}) \cup (Colours \X {"event_lower", "event_higher"})
      [] param = "battery" -> One({"battery", "event_lower", "event_higher"})
      [] param = "led" -> One({"led", "power", "time", "count"})
      [] param = "pwm" -> One({"pwm", "power", "time", "count"})
      [] param = "servo" -> One({"pwm", "position"})
      [] param = "config" -> {<<"stream", "time">>}
      [] OTHER -> {}
StringFields(param) ==
    CASE param \in {"din", "button", "distance", "rgb", "battery"} -> One({"event"})
      [] param \in {"led", "pwm", "servo"} -> One({"state"})
      [] param = "config" -> ({"stream"} \X {"state", "onEvent"})
                             \cup ({"config"} \X {"reset", "save"})
      [] param = "system" -> One({"firmware", "application"})
      [] OTHER -> {}

(* What is read of the entries of the lists of a CONFIG message.           *)
ListNumbers(list) ==
    CASE list = "motor" -> {"motor", "rpmMin", "rpmMax", "pwmMin"}
      [] list = "wheel" -> {"wheel", "diameter", "pulses"}
      [] list = "stepper" -> {"motor", "ratio", "steps"}
      [] list = "led" -> {"led", "power"}

MsgData == <<Key("MsgData")>>
MsgValue == MsgData \o <<Key("MsgValue")>>
EntryPath(i, f) == MsgValue \o <<Index(i)>> \o Keys(f)

(* One entry.  Fields that are missing are -1 or the empty string.         *)
EntryRead(text, param, i) ==
    [numbers |-> [f \in NumberFields(param) |-> Long(text, EntryPath(i, f))],
     strings |-> [f \in StringFields(param) |-> String(text, EntryPath(i, f))]]

(* The lists of a CONFIG message: always those of the first entry.         *)
ListRead(text, list, elements) ==
    [i \in 1 .. elements |->
        [k \in ListNumbers(list) |->
            Long(text, EntryPath(0, <<list>>) \o <<Index(i - 1), Key(k)>>)]]
ListsRead(text) ==
    LET e(list) == Found(text, EntryPath(0, <<list>>))
    IN  [l \in {l \in Lists : e(l).type = "["} |-> ListRead(text, l, e(l).elements)]

(* What a text gives: the header, the names that are known, and the        *)
(* entries, if MsgValue is a list.                                         *)
MessageRead(text) ==
    LET type == String(text, MsgData \o <<Key("MsgType")>>)
        named == String(text, MsgData \o <<Key("MsgParam")>>)
        param == IF named \in Params THEN named ELSE "error param"
        e == Found(text, MsgValue)
        count == IF e.type = "[" THEN e.elements ELSE 0
    IN  [to |-> String(text, <<Key("MsgTo")>>),
         from |-> String(text, <<Key("MsgFrom")>>),
         id |-> Long(text, <<Key("MsgID")>>),
         type |-> IF type \in Types THEN type ELSE "error",
         param |-> param,
         values |-> [i \in 1 .. count |-> EntryRead(text, param, i - 1)],
         lists |-> IF param = "config" /\ count > 0 THEN ListsRead(text) ELSE <<>>]

------------------------------------------------------------------------------
(* ackToJSON.  An entry of AlgoidResponse has a kind (responseType), an id,*)
(* a value, an event state, limits, and lists of ids in a CONFIG answer.   *)
(* The numbers of an entry that no property tells apart are its value.     *)

Named(key, e) == IF e.id >= 0 THEN Int_(key, e.id) ELSE Text_(key, "unknown")

(* Either what happened to an action, or what was asked for.               *)
Acted(e, kinds, std) ==
    CASE e.kind = "std" -> std
      [] e.kind \in kinds -> <<Text_("action", e.kind)>>
      [] OTHER -> <<Text_("error", "unknown")>>
Happened == {"error", "end", "begin", "abort"}

Limits(e) == <<Text_("event", e.event), Int_("event_lower", e.low), Int_("event_higher", e.high)>>

(* An object of an answer that holds numbers.                              *)
Nested(key, names, value) ==
    <<Object(key)>> \o [n \in DOMAIN names |-> Int_(names[n], value)] \o <<Ended>>
ColourNames == <<"red", "green", "blue", "clear">>
Limited(colour, e) ==
    <<Object(colour), Int_("event_lower", e.low), Int_("event_higher", e.high), Ended>>

(* DISTANCE, BATTERY, DINPUT, BUTTON: a negative value is an error.  That  *)
(* of a battery is left out, and a value that is none is followed by the   *)
(* same key.                                                               *)
SensorCalls(param, e) ==
    CASE param = "distance" ->
            <<Int_("sonar", e.id)>> \o
            (IF e.value >= 0 THEN <<Int_("cm", e.value)>> \o Limits(e) ELSE <<Text_("cm", "error")>>)
      [] param = "battery" ->
            <<Int_("battery", e.id)>> \o
            (IF e.value < 0 THEN <<>>
             ELSE <<Int_("mV", e.value), Int_("capacity", e.value)>> \o Limits(e)
                  \o <<Text_("mV", "error")>>)
      [] param \in {"din", "button"} ->
            <<Int_(IF param = "din" THEN "din" ELSE "btn", e.id)>> \o
            (IF e.value >= 0 THEN <<Int_("state", e.value), Text_("event", e.event)>>
             ELSE <<Text_("state", "error")>>)
      [] param = "rgb" ->
            <<Int_("rgb", e.id), Text_("event", e.event)>> \o Nested("color", ColourNames, e.value)
            \o Limited("red", e) \o Limited("green", e) \o Limited("blue", e) \o Limited("clear", e)

ActuatorCalls(param, e) ==
    CASE param = "motor" ->
            Acted(e, Happened \cup {"run"},
                  <<Named("motor", e), Int_("cm", e.value), Int_("time", e.value),
                    Int_("velocity", e.value)>>)
      [] param = "stepper" ->
            Acted(e, Happened \cup {"run"},
                  <<Named("motor", e), Int_("step", e.value), Int_("rotation", e.value),
                    Int_("velocity", e.value)>>)
      [] param = "pwm" ->
            Acted(e, Happened \cup {"run"},
                  <<Named("pwm", e), Text_("state", e.event), Int_("power", e.value),
                    Int_("time", e.value)>>)
      [] param = "led" ->
            Acted(e, Happened \cup {"run"},
                  <<Named("led", e), Text_("state", e.event), Int_("power", e.value),
                    Int_("time", e.value), Int_("count", e.value)>>)
      [] param = "servo" ->
            Acted(e, Happened,
                  <<Named("pwm", e), Text_("state", e.event), Int_("position", e.value)>>)

(* A list of a CONFIG answer, with its first n entries.  Beyond the list   *)
(* the array holds zeros.                                                  *)
RECURSIVE ListItems(_, _, _)
ListItems(keys, ids, n) ==
    IF n = 0 THEN <<>>
    ELSE ListItems(keys, ids, n - 1)
         \o <<NextObject, Int_(keys[1], IF n \in DOMAIN ids THEN ids[n] ELSE 0)>>
         \o [k \in 1 .. Len(keys) - 1 |-> Int_(keys[k + 1], 0)] \o <<Ended>>
ListCalls(list, keys, e, n) ==
    IF e.lists[list] = <<>> THEN <<>>
    ELSE <<Array(list)>> \o ListItems(keys, e.lists[list], n) \o <<Ended>>

(* CONFIG.  The steppers are counted by the number of wheels.              *)
ConfigCalls(e) ==
    Acted(e, Happened,
        <<Object("config"), Text_("reset", e.event), Text_("save", e.event), Ended,
          Object("stream"), Text_("state", e.event), Int_("time", e.value),
          Text_("onEvent", e.event), Ended>>
        \o ListCalls("motor", <<"motor", "inverted", "rpmMin", "rpmMax">>, e, Len(e.lists.motor))
        \o ListCalls("wheel", <<"wheel", "diameter", "pulses">>, e, Len(e.lists.wheel))
        \o ListCalls("stepper", <<"motor", "inverted", "ratio", "steps">>, e, Len(e.lists.wheel))
        \o ListCalls("led", <<"led", "state", "power">>, e, Len(e.lists.led)))

SystemCalls(e) == Acted(e, Happened, <<Text_("application", e.event)>>)

(* STATUS: the groups one after the other, each from its place on, while   *)
(* the counter of the entries is moved through them.                       *)
Groups == <<"din", "btn", "motor", "sonar", "rgb", "led", "pwm">>
GroupStart[g \in 1 .. Len(Groups) + 1] ==
    IF g = 1 THEN 1 ELSE GroupStart[g - 1] + NumberOf[Groups[g - 1]]

GroupItem(group, e) ==
    <<NextObject>> \o
    (CASE group \in {"din", "btn"} -> <<Int_("state", e.value), Text_("event", e.event)>>
       [] group = "motor" -> <<Value("cm", Double(e.value)), Int_("speed", e.value),
                               Int_("setpoint", e.value)>>
       [] group = "sonar" -> <<Int_("cm", e.value), Text_("event", e.event)>>
       [] group = "rgb" -> <<Text_("event", e.event)>>
                           \o [n \in 1 .. 4 |-> Int_(ColourNames[n], e.value)]
       [] group \in {"led", "pwm"} -> <<Int_("state", e.value), Int_("power", e.value)>>)
    \o <<Ended>>

RECURSIVE GroupItems(_, _, _, _), GroupsFrom(_, _, _), StatusCalls(_, _, _)
GroupItems(group, entries, i, n) ==
    IF n = 0 THEN <<>>
    ELSE GroupItem(group, entries[i + 1]) \o GroupItems(group, entries, i + 1, n - 1)

(* From group g on, with the counter at i: the calls, and the counter.     *)
GroupsFrom(entries, i, g) ==
    IF g > Len(Groups) THEN [calls |-> <<>>, i |-> i]
    ELSE IF i \in GroupStart[g] .. GroupStart[g + 1] - 1
         THEN LET n == NumberOf[Groups[g]]
                  rest == GroupsFrom(entries, i + n, g + 1)
              IN  [rest EXCEPT !.calls = <<Array(Groups[g])>>
                       \o GroupItems(Groups[g], entries, i, n) \o <<Ended>> \o @]
         ELSE GroupsFrom(entries, i, g + 1)

System(e) ==
    <<Text_("name", e.event), Value("upTime", Double(e.value)),
      Text_("firmwareVersion", e.event), Text_("mcuVersion", e.event), Text_("boardRev", e.event),
      Value("battery_mv", Double(e.value)), Value("battery_capacity", Double(e.value)),
      Text_("internet", IF e.value # 0 THEN "online" ELSE "offline"),
      Value("messageTX", Double(e.value)), Value("messageRX", Double(e.value))>>

StatusCalls(entries, i, count) ==
    IF i >= count THEN <<>>
    ELSE LET groups == GroupsFrom(entries, i, 1)
         IN  (IF i = 0 THEN System(entries[1]) ELSE <<>>) \o groups.calls
             \o StatusCalls(entries, groups.i + 1, count)

(* The entries of MsgValue.                                                *)
EntryCalls(param, e) ==
    <<NextObject>> \o
    (CASE param \in {"motor", "stepper", "pwm", "led", "servo"} -> ActuatorCalls(param, e)
       [] param \in {"distance", "battery", "din", "button", "rgb"} -> SensorCalls(param, e)
       [] param = "config" -> ConfigCalls(e)
       [] param = "system" -> SystemCalls(e)
       [] OTHER -> <<>>)
    \o <<Ended>>
RECURSIVE ValueCalls(_, _, _)
ValueCalls(param, entries, n) ==
    IF n = 0 THEN <<>> ELSE ValueCalls(param, entries, n - 1) \o EntryCalls(param, entries[n])

(* ackToJSON: an answer r has an addressee, an id, a type, a parameter and *)
(* count entries, which are read from AlgoidResponse.                      *)
AckToJSON(r) ==
    Written(<<Text_("MsgTo", r.to), Text_("MsgFrom", ClientID), Int_("MsgID", r.id),
              Object("MsgData"), Text_("MsgType", r.type), Text_("MsgParam", r.param)>>
            \o (CASE r.count = 0 -> <<>>
                  [] r.count > 0 /\ r.param = "status" ->
                       <<Object("MsgMap")>> \o StatusCalls(r.entries, 0, r.count) \o <<Ended>>
                  [] OTHER ->
                       <<Array("MsgValue")>> \o ValueCalls(r.param, r.entries, r.count) \o <<Ended>>)
            \o <<Ended>>)

(* sendResponse: where an answer goes to and under which name.  For an     *)
(* answer to a malformed message the topic is whatever the stack held.     *)
Topic(type) ==
    CASE type \in {"command", "request"} -> "Command"
      [] type = "ack" -> "Ack"
      [] type = "response" -> "Response"
      [] type = "event" -> "Event"
      [] type = "dataflow" -> "Stream"
      [] OTHER -> "(not initialised)"
Sent(r) ==
    [topic |-> Topic(r.type),
     json |-> AckToJSON([r EXCEPT !.type = IF @ = "dataflow" THEN "event" ELSE @])]
==============================================================================
