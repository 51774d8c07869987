------------------------------- MODULE RobotLoop -----------------------------
(***************************************************************************)
(* The loop of main (algobot_main.c): reset, status stream, one message,   *)
(* and every 100 ms the sensors; around it the configuration with its file *)
(* and loss of power.  Three threads: the loop (its place is pc), hwTask,  *)
(* which refreshes the readings, and TimerTask, which raises t100msFlag.   *)
(*                                                                         *)
(* Messages reach the loop one at a time here (the stack they come from is *)
(* MessageStack); those that move something are the subject of BuggyTasks, *)
(* the speed control is MotorDrive.  A behaviour's host keeps to one       *)
(* dialogue: what it sends, what the sensors read meanwhile, and whether   *)
(* power is ever lost.                                                     *)
(***************************************************************************)
EXTENDS SensorEvents

CONSTANT
    Dialogues    \* records of messages, readings and power, see below

(* The entries of a request are those kept; an input reads 0 or 1, or -1   *)
(* when its chip does not answer.                                          *)
IsRequest(m) ==
    /\ Len(m.entries) \in 0 .. NENTRY
    /\ DOMAIN m.entries = 1 .. Len(m.entries)
    /\ \A i \in DOMAIN m.entries : m.entries[i].id \in Nat
IsConfig(m) ==
    \A k \in DOMAIN m.list :
        /\ DOMAIN m.list[k] = 1 .. Len(m.list[k])
        /\ \A n \in DOMAIN m.list[k] : "id" \in DOMAIN m.list[k][n]
IsReading(h) ==
    \A k \in InputKinds : \A d \in Sensors(k) : h[k][d]["value"] \in -1 .. 1

ASSUME DialoguesAssumption ==
    \A d \in Dialogues :
        /\ DOMAIN d = {"messages", "readings", "power"} /\ d.power \in BOOLEAN
        /\ \A m \in d.messages : (m.type = "request" => IsRequest(m))
                                /\ (m.type = "config" => IsConfig(m))
        /\ \A h \in d.readings : IsReading(h)

VARIABLES
    dialogue,   \* the dialogue of this behaviour
    pc,         \* where the main loop is
    counter,    \* systemDataStreamCounter
    t100ms      \* t100msFlag

vars == <<configVars, sensorVars, hw, warned, dialogue, pc, counter, t100ms>>

(* resetConfig before anything was read: what main starts with.            *)
StartSensors ==
    /\ robot' = DefaultRobot(ZeroRobot)
    /\ asked' = NothingAsked
    /\ out' = <<>>
    /\ told' = KnowsNothing
    /\ warned' = NothingWarned

Init ==
    /\ dialogue \in Dialogues
    /\ ConfigInit
    /\ robot = DefaultRobot(ZeroRobot)
    /\ asked = NothingAsked
    /\ out = <<>>
    /\ told = KnowsNothing
    /\ hw \in dialogue.readings
    /\ warned = NothingWarned
    /\ pc = "reset"
    /\ counter = 0
    /\ t100ms = FALSE

Goto(from, to) == pc = from /\ pc' = to
Report == [type |-> "report", param |-> "system", entries |-> <<>>]

------------------------------------------------------------------------------
(* The main loop.                                                          *)

(* A reset the user has asked for; runCloudTestCommand reports.  A host    *)
(* that is not told what the inputs are knows nothing of them.             *)
Reset ==
    /\ Goto("reset", "stream")
    /\ cfg.reset > 0
    /\ ResetConfig
    /\ robot' = DefaultRobot(robot)
    /\ out' = <<Report>>
    /\ told' = KnowsNothing
    /\ counter' = 0
    /\ UNCHANGED <<asked, hw, warned, dialogue, t100ms>>

NoReset ==
    /\ Goto("reset", "stream")
    /\ cfg.reset = 0
    /\ Say(<<>>)
    /\ UNCHANGED <<configVars, robot, asked, hw, warned, dialogue, counter, t100ms>>

(* The status stream: a message every time_ms passes of the loop.          *)
Stream ==
    /\ Goto("stream", "pull")
    /\ IF cfg.stream.state # 1
       THEN Say(<<>>) /\ UNCHANGED counter
       ELSE IF counter >= cfg.stream.time
       THEN Say(<<Status("dataflow", robot)>>) /\ counter' = 0
       ELSE Say(<<>>) /\ counter' = counter + 1
    /\ UNCHANGED <<configVars, robot, asked, hw, warned, dialogue, t100ms>>

(* A message is taken, or there is none.                                   *)
PullNone ==
    /\ Goto("pull", "flag")
    /\ Say(<<>>)
    /\ UNCHANGED <<configVars, robot, asked, hw, warned, dialogue, counter, t100ms>>

PullRequest(m) ==
    /\ m.type = "request"
    /\ Goto("pull", "flag")
    /\ processAlgoidRequest(m)
    /\ UNCHANGED <<configVars, hw, warned, dialogue, counter, t100ms>>

(* The period of the stream begins again.                                  *)
PullConfigRestarting(m) ==
    /\ m.type = "config"
    /\ Goto("pull", "flag")
    /\ Configure(m)
    /\ Say(<<[type |-> "response", param |-> "config", entries |-> <<ConfigReply(m)>>]>>)
    /\ counter' = 0
    /\ UNCHANGED <<robot, asked, hw, warned, dialogue, t100ms>>

PullConfig(m) ==
    /\ m.type = "config"
    /\ Goto("pull", "flag")
    /\ Configure(m)
    /\ Say(<<[type |-> "response", param |-> "config", entries |-> <<ConfigReply(m)>>]>>)
    /\ UNCHANGED <<robot, asked, hw, warned, dialogue, counter, t100ms>>

(* The SYSTEM command: the script of the manager is run, and reported.  An *)
(* update or a restart stops the process, which is PowerLoss.              *)
PullSystem(m) ==
    LET answer == [type |-> "response", param |-> "system", entries |-> <<m.application>>]
    IN  /\ m.type = "system"
        /\ Goto("pull", "flag")
        /\ Say(CASE m.application = "check" -> <<Report, answer>>
                 [] m.application = "update" ->
                      <<answer, [answer EXCEPT !.type = "event"], Report, Report>>
                 [] m.application = "restart" -> <<answer, Report>>
                 [] OTHER -> <<>>)
        /\ UNCHANGED <<configVars, robot, asked, hw, warned, dialogue, counter, t100ms>>

(* The 100 ms block.                                                       *)
NotYet ==
    /\ Goto("flag", "reset")
    /\ ~t100ms
    /\ Say(<<>>)
    /\ UNCHANGED <<configVars, robot, asked, hw, warned, dialogue, counter, t100ms>>

PollColours ==
    /\ Goto("flag", "din")
    /\ t100ms
    /\ robot' = ReadColours
    /\ Say(<<>>)
    /\ UNCHANGED <<configVars, asked, hw, warned, dialogue, counter, t100ms>>

(* The checks, one after the other.                                        *)
Checked == UNCHANGED <<configVars, asked, hw, dialogue, counter, t100ms>>
Poll ==
    \/ Goto("din", "button") /\ DINEventCheck(cfg.stream.onEvent) /\ Checked
    \/ Goto("button", "rgb") /\ BUTTONEventCheck(cfg.stream.onEvent) /\ Checked
    \/ Goto("rgb", "distance") /\ COLOREventCheck(cfg.stream.onEvent) /\ Checked
    \/ Goto("distance", "battery") /\ distanceEventCheck(cfg.stream.onEvent) /\ Checked
    \/ Goto("battery", "quit") /\ batteryEventCheck(cfg.stream.onEvent) /\ Checked

(* The flag is lowered last: raised again meanwhile, it is lost.           *)
Quit ==
    /\ Goto("quit", "reset")
    /\ t100ms' = FALSE
    /\ Say(<<>>)
    /\ UNCHANGED <<configVars, robot, asked, hw, warned, dialogue, counter>>

------------------------------------------------------------------------------
(* The others.                                                             *)

(* TimerTask raises the flag every 100 ms.                                 *)
Tick ==
    /\ ~t100ms
    /\ t100ms' = TRUE
    /\ UNCHANGED <<configVars, sensorVars, hw, warned, dialogue, pc, counter>>

HwTask ==
    /\ hw' \in dialogue.readings
    /\ UNCHANGED <<configVars, sensorVars, warned, dialogue, pc, counter, t100ms>>

Restarted ==
    /\ StartSensors
    /\ pc' = "reset"
    /\ counter' = 0
    /\ t100ms' = FALSE
    /\ UNCHANGED <<hw, dialogue>>

PowerLoss ==
    /\ dialogue.power
    /\ Boot
    /\ Restarted

PowerLossInSave(m) ==
    /\ dialogue.power
    /\ m.type = "config"
    /\ pc = "pull"
    /\ CutSave(m)
    /\ Restarted

------------------------------------------------------------------------------
MainLoop ==
    \/ Reset \/ NoReset \/ Stream \/ PullNone
    \/ \E m \in dialogue.messages : PullRequest(m) \/ PullConfig(m) \/ PullSystem(m)
    \/ NotYet \/ PollColours \/ Poll \/ Quit

Next ==
    \/ MainLoop \/ Tick \/ HwTask \/ PowerLoss
    \/ \E m \in dialogue.messages : PowerLossInSave(m)

Spec == Init /\ [][Next]_vars

(* Both threads run for ever; hosts need not send, sensors need not change.*)
FairSpec == Spec /\ WF_vars(MainLoop) /\ WF_vars(Tick)
------------------------------------------------------------------------------
(* A host that listens is never wrong about an input whose events are on:  *)
(* what the last message about it said is what the robot holds, unless the *)
(* input cannot be read.  (Answers tell it when events are switched on,    *)
(* events and the stream after that.)                                      *)
HostKnowsInputs ==
    \A k \in InputKinds : \A d \in Sensors(k) :
        robot[k][d].on /\ robot[k][d].value["value"] >= 0 /\ told[k][d] # Unknown
            => told[k][d] = robot[k][d].value["value"]

(* Whatever is said of a sensor is true: an entry that is no error names a *)
(* sensor of the board and shows its present values, in answers, in events *)
(* and in the status message, where names and values are found by counting *)
(* places twice, once as they are filled and once as they are printed.     *)
AnswersAreCurrent ==
    LET True(k, e) ==
            \/ e.error
            \/ /\ e.id \in Sensors(k)
               /\ IF "channel" \in DOMAIN e
                  THEN e.value = robot[k][e.id].value[e.channel]
                  ELSE e.value = robot[k][e.id].value
    IN  \A n \in DOMAIN out :
            /\ out[n].param \in SensorKinds =>
                 \A i \in DOMAIN out[n].entries : True(out[n].param, out[n].entries[i])
            /\ out[n].param = "status" =>
                 \A k \in DOMAIN out[n].entries :
                    /\ Len(out[n].entries[k]) = SensorCount(k)
                    /\ \A i \in DOMAIN out[n].entries[k] : True(k, out[n].entries[k][i])

(* A setting of a sensor never changes behind the host's back: the step of *)
(* the loop that changes it answers with the new settings, also when a     *)
(* request for the motors has set a colour sensor.  (A sensor that cannot  *)
(* be read answers an error.)                                              *)
ChangesAreAnswered ==
    [][pc = "pull" /\ pc' = "flag" =>
         \A k \in SensorKinds : \A d \in Sensors(k) :
           LET old == robot[k][d]
               new == robot'[k][d]
           IN  \/ <<old.on, old.low, old.high>> = <<new.on, new.low, new.high>>
               \/ (k # "rgb" /\ new.value["value"] < 0)
               \/ \E n \in DOMAIN out' :
                    /\ out'[n].type = "response" /\ out'[n].param = k
                    /\ \E i \in DOMAIN out'[n].entries :
                         LET e == out'[n].entries[i]
                         IN  /\ e.id = d /\ ~e.error
                             /\ <<e.on, e.low, e.high>> = <<new.on, new.low, new.high>>]_vars

(* A sensor that stays below or above its limits is reported: when the     *)
(* loop and the timer run, its flag goes up.                               *)
OutOfRangeIsTold ==
    \A k \in Ranged : \A d \in Sensors(k) : \A c \in Channels(k) :
        \/ []<>~( /\ robot[k][d].on
                  /\ \/ (hw[k][d][c] < robot[k][d].low[c] /\ robot[k][d].low[c] >= 0)
                     \/ (hw[k][d][c] > robot[k][d].high[c] /\ robot[k][d].high[c] >= 0))
        \/ []<>warned[k][d][c]

(* The status stream does not dry up while it is on, whatever the host     *)
(* does to its period, unless it keeps asking for a reset.                 *)
StreamFlows ==
    \/ dialogue.power
    \/ []<>(cfg.stream.state # 1)
    \/ []<>(cfg.reset = 1)
    \/ []<>(pc = "pull" /\ \E n \in DOMAIN out : out[n].type = "dataflow")

(* A configuration survives: after a reset or a restart, what would be     *)
(* saved is what was saved, unless a save was cut short.                   *)
LoadGivesBack ==
    [][pc' \in {"reset", "stream"} /\ cfg' # cfg /\ file' # NoFile /\ ~torn'
         => Written(cfg') = file']_vars

(* As long as no save was cut short every switch is on or off and the      *)
(* stream has a period, whatever lists the host has sent and the robot has *)
(* kept, saved and read again.                                             *)
SoundUnlessTorn ==
    ~torn => /\ cfg.stream.time > 0
             /\ {cfg.stream.state, cfg.stream.onEvent} \subseteq {0, 1}
             /\ \A i \in Devices("motor") :
                  {cfg.motor[i].inverted, cfg.motor[i].PIDstate} \subseteq {0, 1}
             /\ \A i \in Devices("stepper") : cfg.stepper[i].inverted \in {0, 1}
             /\ \A i \in Devices("led") : cfg.led[i].state \in {0, 1}

(* A CONFIG message that has no list of motors leaves the motors alone,    *)
(* although the list of an earlier message is still in the arrays (unless  *)
(* that list was longer than GetAlgoidMsg clears).                         *)
UnnamedMotorsKept ==
    [][\A m \in dialogue.messages :
         /\ m.type = "config" /\ PullConfig(m)
         /\ "motor" \notin DOMAIN m.list
         /\ DOMAIN rxLists["motor"] \subseteq 1 .. IdsCleared
         => cfg'.motor = cfg.motor]_vars
==============================================================================
