---------------------------- MODULE AlgoidMessage ----------------------------
(***************************************************************************)
(* The structure of a message, ALGOID in AlgoidCom/linux_json.h, as it is  *)
(* left in AlgoidMessageRX by GetAlgoidMsg (AlgoidCom/linux_JSON.c).       *)
(***************************************************************************)
EXTENDS Integers

CONSTANTS
    ClientID,      \* the name of this robot
    Robots         \* the names that begin with the same five characters
ASSUME NamesAssumption == ClientID \in Robots

(* The names a message may have in MsgType and MsgParam.                   *)
Types == {"command", "request", "ack", "response", "event"}
Params == {"stop", "motor", "pwm", "led", "servo", "button", "distance", "battery",
           "din", "status", "rgb", "config", "system", "stepper"}

(* The lists of a CONFIG message.                                          *)
Lists == {"motor", "wheel", "stepper", "led"}

NoLists == [l \in Lists |-> <<>>]
NoMessage == [to |-> "", from |-> "", id |-> -1, type |-> "error", param |-> "error param",
              values |-> <<>>, lists |-> NoLists]

(* GetAlgoidMsg, read being what the text gives: a list that is missing is *)
(* the one of an earlier message, but a CONFIG message first takes the     *)
(* names off the first four motors.                                        *)
Unnamed(motors) ==
    [i \in DOMAIN motors |->
        IF i <= 4 THEN [motors[i] EXCEPT !["motor"] = -1] ELSE motors[i]]
GetAlgoidMsg(rx, read) ==
    LET anew == read.param = "config" /\ read.values # <<>>
        kept == IF anew THEN [rx.lists EXCEPT !.motor = Unnamed(@)] ELSE rx.lists
    IN  [read EXCEPT !.lists = [l \in Lists |-> IF l \in DOMAIN @ THEN @[l] ELSE kept[l]]]

(* ... its result, and MessagerTask's look at the addressee: a name that   *)
(* does not begin like a robot's is a broadcast.                           *)
Known(m) == m.type # "error" /\ m.param # "error param"
ForMe(m) == m.to = ClientID \/ m.to \notin Robots
==============================================================================
