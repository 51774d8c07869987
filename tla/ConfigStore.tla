----------------------------- MODULE ConfigStore -----------------------------
(***************************************************************************)
(* The configuration of the robot: sysConfig, the file kehops.cfg, the     *)
(* CONFIG and SYSTEM commands (algobot_main.c, configManager.c) and the    *)
(* part of AlgoidMessageRX they are read from (linux_JSON.c).              *)
(*                                                                         *)
(* A document stands for a JSON text, a message's or the file's: a key     *)
(* that is missing reads as "" when a text is asked for and as -1 when a   *)
(* number is (jRead_string, jRead_long).  Its lists are a function whose   *)
(* domain holds the lists that are present.  A CONFIG message has one      *)
(* entry in MsgValue: the lists are read from the first entry only, and a  *)
(* second one repeats the same assignments.                                *)
(* The three gains of the regulator are one number, which the six decimals *)
(* of jwObj_double keep; _MMPP, which follows from the wheel, is left out. *)
(***************************************************************************)
EXTENDS Integers, FiniteSets, Sequences

CONSTANTS
    NBMOTOR, NBSTEPPER, NBLED,    \* devices of the board (2, 1 and 3)
    DefaultPeriod                 \* the stream period of resetConfig (500)

ASSUME ConfigDevices == NBMOTOR \in Nat /\ NBSTEPPER \in Nat /\ NBLED \in Nat
ASSUME DefaultPeriodAssumption == DefaultPeriod \in Nat \ {0}

Kinds == {"motor", "wheel", "stepper", "led"}
NumberOf(kind) ==
    [motor |-> NBMOTOR, wheel |-> NBMOTOR, stepper |-> NBSTEPPER, led |-> NBLED][kind]
Devices(kind) == 0 .. NumberOf(kind) - 1

VARIABLES
    cfg,       \* sysConfig: stream, reset, and the settings by kind and device
    file,      \* the content of kehops.cfg, NoFile when there is none
    rxLists,   \* the device lists of AlgoidMessageRX.Config
    torn       \* history: a save has been cut short by a loss of power

configVars == <<cfg, file, rxLists, torn>>

NoFile == [present |-> FALSE]
Missing == -1
NoStream == [state |-> "", onEvent |-> "", time |-> Missing]
EmptyDocument == [stream |-> NoStream, list |-> <<>>]

------------------------------------------------------------------------------
(* Settings are 1 for "on" and 0 for "off"; any other text changes nothing.*)
Switched(text, old) == CASE text = "on" -> 1 [] text = "off" -> 0 [] OTHER -> old

(* The loops over the entries of a list assign entry after entry.  What    *)
(* they leave in a variable is the value of the last place that assigns    *)
(* it, and the old value if there is no such place.                        *)
LastPlace(places) == CHOOSE n \in places : \A m \in places : m <= n
Latest(places, values, old) == IF places = {} THEN old ELSE values[LastPlace(places)]

SwitchedBy(texts, old) ==
    Latest({n \in DOMAIN texts : texts[n] \in {"on", "off"}},
           [n \in DOMAIN texts |-> Switched(texts[n], old)], old)

(* The setting of a device after the entries that name it: a function from *)
(* their places in the list.                                               *)
FromEntries(kind, old, entries) ==
    LET e == entries[LastPlace(DOMAIN entries)]
        switch(key) == SwitchedBy([n \in DOMAIN entries |-> entries[n][key]], old[key])
    IN  CASE kind = "motor" ->
               [inverted |-> switch("inverted"), minPWM |-> e.minPWM,
                minRPM |-> e.minRPM, maxRPM |-> e.maxRPM,
                PIDstate |-> switch("PIDstate"), gains |-> e.gains]
          [] kind = "wheel" -> [diameter |-> e.diameter, pulsePerRot |-> e.pulsePerRot]
          [] kind = "stepper" ->
               [inverted |-> switch("inverted"), ratio |-> e.ratio,
                stepPerRot |-> e.stepPerRot]
          [] kind = "led" -> [state |-> switch("state"), power |-> e.power]

(* A list applied to the settings; an id that is no device is refused.     *)
Applied(kind, settings, list) ==
    [i \in Devices(kind) |->
        LET named == {n \in DOMAIN list : list[n].id = i}
        IN  IF named = {} THEN settings[i]
            ELSE FromEntries(kind, settings[i], [n \in named |-> list[n]])]

(* The entry of a device in the text SaveConfig writes: a switch that is   *)
(* neither 0 nor 1 leaves its key out.                                     *)
Text(switch) == CASE switch = 1 -> "on" [] switch = 0 -> "off" [] OTHER -> ""
ToEntry(kind, i, s) ==
    CASE kind = "motor" ->
           [id |-> i, inverted |-> Text(s.inverted), minPWM |-> s.minPWM,
            minRPM |-> s.minRPM, maxRPM |-> s.maxRPM,
            PIDstate |-> Text(s.PIDstate), gains |-> s.gains]
      [] kind = "wheel" ->
           [id |-> i, diameter |-> s.diameter, pulsePerRot |-> s.pulsePerRot]
      [] kind = "stepper" ->
           [id |-> i, inverted |-> Text(s.inverted), ratio |-> s.ratio,
            stepPerRot |-> s.stepPerRot]
      [] kind = "led" -> [id |-> i, state |-> Text(s.state), power |-> s.power]

(* SaveConfig: what it writes for the settings c.                          *)
Written(c) ==
    [stream |-> [state |-> Text(c.stream.state), onEvent |-> Text(c.stream.onEvent),
                 time |-> c.stream.time],
     list |-> [k \in Kinds |->
                 [n \in 1 .. NumberOf(k) |-> ToEntry(k, n - 1, c[k][n - 1])]]]

------------------------------------------------------------------------------
(* LoadConfig.                                                             *)

(* Before a list is read, the settings it is to fill are put to -1 ...     *)
Cleared(kind, s) ==
    CASE kind = "motor" ->
           [s EXCEPT !.inverted = Missing, !.minRPM = 0, !.maxRPM = 200]
      [] kind = "wheel" -> [diameter |-> Missing, pulsePerRot |-> Missing]
      [] kind = "stepper" ->
           [inverted |-> Missing, ratio |-> Missing, stepPerRot |-> Missing]
      [] kind = "led" -> [state |-> Missing, power |-> Missing]

(* ... and the file is read over them.                                     *)
LoadedList(doc, kind, settings) ==
    LET cleared == [i \in Devices(kind) |-> Cleared(kind, settings[i])]
    IN  IF kind \in DOMAIN doc.list THEN Applied(kind, cleared, doc.list[kind])
        ELSE cleared

(* The period of the stream is not read.                                   *)
LoadConfigButPeriod(c, doc) ==
    IF doc = NoFile THEN c
    ELSE [c EXCEPT !.stream.state = Switched(doc.stream.state, @),
                   !.stream.onEvent = Switched(doc.stream.onEvent, @),
                   !.motor = LoadedList(doc, "motor", @),
                   !.wheel = LoadedList(doc, "wheel", @),
                   !.stepper = LoadedList(doc, "stepper", @),
                   !.led = LoadedList(doc, "led", @)]

LoadConfig(c, doc) ==
    IF doc = NoFile THEN c
    ELSE [c EXCEPT !.stream.state = Switched(doc.stream.state, @),
                   !.stream.onEvent = Switched(doc.stream.onEvent, @),
                   !.stream.time = doc.stream.time,
                   !.motor = LoadedList(doc, "motor", @),
                   !.wheel = LoadedList(doc, "wheel", @),
                   !.stepper = LoadedList(doc, "stepper", @),
                   !.led = LoadedList(doc, "led", @)]

(* The part of resetConfig that concerns sysConfig, before it loads the    *)
(* file; onEvent, minPWM, wheels and LEDs keep their settings.             *)
DefaultConfig(c) ==
    [c EXCEPT !.stream.state = 1, !.stream.time = DefaultPeriod, !.reset = 0,
              !.motor = [i \in Devices("motor") |->
                  [inverted |-> 0, minPWM |-> c.motor[i].minPWM, minRPM |-> 20,
                   maxRPM |-> 200, PIDstate |-> 0, gains |-> 0]],
              !.stepper = [i \in Devices("stepper") |->
                  [inverted |-> 0, ratio |-> 64, stepPerRot |-> 32]]]

(* sysConfig before main has run: a static structure, all zero.            *)
ZeroConfig ==
    [stream |-> [state |-> 0, onEvent |-> 0, time |-> 0], reset |-> 0,
     motor |-> [i \in Devices("motor") |->
         [inverted |-> 0, minPWM |-> 0, minRPM |-> 0, maxRPM |-> 0,
          PIDstate |-> 0, gains |-> 0]],
     wheel |-> [i \in Devices("wheel") |-> [diameter |-> 0, pulsePerRot |-> 0]],
     stepper |-> [i \in Devices("stepper") |->
         [inverted |-> 0, ratio |-> 0, stepPerRot |-> 0]],
     led |-> [i \in Devices("led") |-> [state |-> 0, power |-> 0]]]

NoLists == [k \in Kinds |-> <<>>]

ConfigInit ==
    /\ file = NoFile
    /\ cfg = DefaultConfig(ZeroConfig)
    /\ rxLists = NoLists
    /\ torn = FALSE

------------------------------------------------------------------------------
(* The CONFIG command.                                                     *)

(* Lists of an earlier message are all kept.                               *)
ReceivedKeepingAll(list) ==
    [k \in Kinds |-> IF k \in DOMAIN list THEN list[k] ELSE rxLists[k]]

(* GetAlgoidMsg: a list that the message does not have stays as an earlier *)
(* message left it, but for the ids of the first motors, which are cleared *)
(* (the array has ten places).                                             *)
IdsCleared == 4
Received(list) ==
    [k \in Kinds |->
        CASE k \in DOMAIN list -> list[k]
          [] k \notin DOMAIN list /\ k = "motor" ->
               [n \in DOMAIN rxLists[k] |->
                   IF n <= IdsCleared THEN [rxLists[k][n] EXCEPT !.id = Missing]
                   ELSE rxLists[k][n]]
          [] OTHER -> rxLists[k]]

(* A period of any sign is taken.                                          *)
StreamAfterUnchecked(s) ==
    [state |-> Switched(s.state, cfg.stream.state),
     onEvent |-> Switched(s.onEvent, cfg.stream.onEvent),
     time |-> s.time]

StreamAfter(s) ==
    [state |-> Switched(s.state, cfg.stream.state),
     onEvent |-> Switched(s.onEvent, cfg.stream.onEvent),
     time |-> IF s.time > 0 THEN s.time ELSE cfg.stream.time]

(* The settings after a CONFIG message m; a save in the same message still *)
(* writes the file before the reset it may also ask for.                   *)
ConfigAfter(m) ==
    LET lists == Received(m.list)
    IN  [stream |-> StreamAfter(m.stream), reset |-> cfg.reset,
         motor |-> Applied("motor", cfg.motor, lists.motor),
         wheel |-> Applied("wheel", cfg.wheel, lists.wheel),
         stepper |-> Applied("stepper", cfg.stepper, lists.stepper),
         led |-> Applied("led", cfg.led, lists.led)]

Configure(m) ==
    /\ rxLists' = Received(m.list)
    /\ cfg' = [ConfigAfter(m) EXCEPT !.reset = IF m.reset = "true" THEN 1 ELSE @]
    /\ file' = IF m.save = "true" THEN Written(ConfigAfter(m)) ELSE file
    /\ UNCHANGED torn

(* The answer: the stream as it now is, and of each list the ids that were *)
(* accepted, -1 for the others.                                            *)
ConfigReply(m) ==
    [stream |-> [state |-> Text(cfg'.stream.state), onEvent |-> Text(cfg'.stream.onEvent),
                 time |-> cfg'.stream.time],
     reset |-> IF cfg'.reset = 1 THEN "true" ELSE "---",
     save |-> IF m.save = "true" THEN "true" ELSE "---",
     ids |-> [k \in Kinds |->
        [n \in DOMAIN rxLists'[k] |->
            IF rxLists'[k][n].id \in Devices(k) THEN rxLists'[k][n].id ELSE Missing]]]

(* The reset the main loop makes when it finds the flag set.               *)
ResetConfig ==
    /\ cfg' = LoadConfig(DefaultConfig(cfg), file)
    /\ UNCHANGED <<file, rxLists, torn>>

(* The process starts anew: after a loss of power or by a SYSTEM command.  *)
Boot ==
    /\ cfg' = LoadConfig(DefaultConfig(ZeroConfig), file)
    /\ rxLists' = NoLists
    /\ UNCHANGED <<file, torn>>

(* Power is lost after SaveConfig has opened the file, which empties it,   *)
(* and before the text is written; the robot then starts with that file.   *)
CutSave(m) ==
    /\ m.save = "true"
    /\ file' = EmptyDocument
    /\ cfg' = LoadConfig(DefaultConfig(ZeroConfig), EmptyDocument)
    /\ rxLists' = NoLists
    /\ torn' = TRUE
==============================================================================
