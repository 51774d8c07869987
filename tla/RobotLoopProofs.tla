--------------------------- MODULE RobotLoopProofs ---------------------------
(***************************************************************************)
(* Proofs about the loop of main, for boards with any number of devices    *)
(* and any dialogues.                                                      *)
(*                                                                         *)
(* The configuration: unless a save was cut short, the settings are sound  *)
(* and the file is what SaveConfig writes of some sound settings; reading  *)
(* such a text gives of every device what was saved (ConfigInv).           *)
(*                                                                         *)
(* The sensors: whatever a step says is true of the sensors after it, and  *)
(* an input that goes on and is not told has not changed, so what the host *)
(* last heard of it still holds (Truthful, SensorInv).                     *)
(***************************************************************************)
EXTENDS RobotLoop, TLAPS, FiniteSetTheorems, WellFoundedInduction

------------------------------------------------------------------------------
(* What loops leave.                                                       *)

LessOnNat == {p \in Nat \X Nat : p[1] < p[2]}

(* The naturals are well-founded.                                          *)
LEMMA LessOnNatWellFounded == IsWellFoundedOn(LessOnNat, Nat)
  BY NatLessThanWellFounded, Zenon DEF OpToRel, LessOnNat

(* Among places of a list one is the last.                                 *)
LEMMA LastPlaceIn ==
  ASSUME NEW N \in Nat, NEW S \in SUBSET (1 .. N), S # {}
  PROVE  LastPlace(S) \in S
<1> DEFINE T == {N - n : n \in S}
<1>1. T \subseteq Nat /\ T # {}
  <2>1. \A n \in S : N - n \in Nat
    OBVIOUS
  <2> QED
    BY <2>1
<1>2. PICK x \in T : \A y \in T : ~(<<y, x>> \in LessOnNat)
  BY <1>1, LessOnNatWellFounded, WFMin
<1>3. PICK n \in S : x = N - n
  BY <1>2
<1>4. \A m \in S : m <= n
  <2>1. TAKE m \in S
  <2>2. N - m \in T /\ N - m \in Nat /\ x \in Nat
    BY <1>1, <1>2
  <2>3. ~(N - m < x)
    BY <2>2, <1>2 DEF LessOnNat
  <2> QED
    BY <2>2, <2>3, <1>3
<1> QED
  BY <1>4 DEF LastPlace

(* A single place is the last one.                                         *)
LEMMA LastOfOne ==
  ASSUME NEW n \in Nat
  PROVE  LastPlace({n}) = n
  BY DEF LastPlace

(* What Ascending lists are the members of the set, all of them.           *)
LEMMA AscendingLists ==
  ASSUME NEW S \in SUBSET Nat, IsFiniteSet(S)
  PROVE  /\ Cardinality(S) \in Nat
         /\ \A n \in 1 .. Cardinality(S) : Ascending(S)[n] \in S
         /\ \A x \in S : \E n \in 1 .. Cardinality(S) : Ascending(S)[n] = x
<1> DEFINE below(x) == {y \in S : y < x}
           count == [x \in S |-> Cardinality(below(x)) + 1]
           c == Cardinality(S)
<1>1. c \in Nat
  BY FS_CardinalityType
<1>2. ASSUME NEW x \in S
      PROVE  IsFiniteSet(below(x)) /\ Cardinality(below(x)) \in 0 .. c - 1
  <2>1. below(x) \in SUBSET S /\ below(x) # S
    OBVIOUS
  <2>2. IsFiniteSet(below(x)) /\ Cardinality(below(x)) <= c /\ Cardinality(below(x)) # c
    BY <2>1, FS_Subset
  <2>3. Cardinality(below(x)) \in Nat
    BY <2>2, FS_CardinalityType
  <2> QED
    BY <2>2, <2>3, <1>1
<1>3. count \in [S -> 1 .. c]
  BY <1>2, <1>1
<1>4. ASSUME NEW x \in S, NEW z \in S, x < z
      PROVE  Cardinality(below(x)) < Cardinality(below(z))
  <2>0. S \subseteq Nat
    OBVIOUS
  <2>1. below(x) \in SUBSET below(z) /\ below(x) # below(z)
    <3>1. \A y \in below(x) : y \in below(z)
      BY <1>4, <2>0
    <3>2. x \in below(z) /\ x \notin below(x)
      BY <1>4, <2>0
    <3> QED
      BY <3>1, <3>2
  <2>2. Cardinality(below(x)) <= Cardinality(below(z)) /\ Cardinality(below(x)) # Cardinality(below(z))
    BY <2>1, <1>2, FS_Subset
  <2>3. Cardinality(below(x)) \in Int /\ Cardinality(below(z)) \in Int
    BY <1>2, <1>1
  <2> QED
    BY ONLY <2>2, <2>3
<1>5. \A x, z \in S : count[x] = count[z] => x = z
  <2> TAKE x, z \in S
  <2> SUFFICES ASSUME count[x] = count[z] PROVE x = z
    OBVIOUS
  <2>1. Cardinality(below(x)) = Cardinality(below(z)) /\ Cardinality(below(x)) \in Int
    BY <1>2, <1>1
  <2> HIDE DEF below, count
  <2>2. ~(x < z)
    BY <2>1, <1>4
  <2>3. ~(z < x)
    BY <2>1, <1>4
  <2>4. x \in Nat /\ z \in Nat
    OBVIOUS
  <2> QED
    BY <2>2, <2>3, <2>4
<1>6. count \in Injection(S, 1 .. c)
  BY <1>3, <1>5 DEF Injection, IsInjective
<1>7. IsFiniteSet(1 .. c) /\ Cardinality(1 .. c) = c
  BY <1>1, FS_Interval
<1>8. count \in Surjection(S, 1 .. c)
  BY <1>6, <1>7, FS_Injection
<1>9. \A n \in 1 .. c : \E x \in S : count[x] = n
  BY <1>8 DEF Surjection
<1>10. \A n \in 1 .. c : Ascending(S)[n] = CHOOSE x \in S : Cardinality(below(x)) = n - 1
  BY DEF Ascending
<1>11. \A n \in 1 .. c : Ascending(S)[n] \in S /\ count[Ascending(S)[n]] = n
  <2>1. TAKE n \in 1 .. c
  <2>2. PICK x \in S : count[x] = n
    BY <1>9
  <2>3. Cardinality(below(x)) = n - 1
    BY <2>2, <1>2, <1>1
  <2>4. Ascending(S)[n] \in S /\ Cardinality(below(Ascending(S)[n])) = n - 1
    BY <2>3, <1>10
  <2> QED
    BY <2>4, <1>1
<1>12. ASSUME NEW x \in S
       PROVE  \E n \in 1 .. c : Ascending(S)[n] = x
  <2>1. count[x] \in 1 .. c
    BY <1>3
  <2>2. Ascending(S)[count[x]] = x
    BY <2>1, <1>11, <1>5
  <2> QED
    BY <2>1, <2>2
<1> QED
  BY <1>1, <1>11, <1>12

------------------------------------------------------------------------------
(* The configuration.                                                      *)

(* Every switch is on or off and the stream has a period.                  *)
SoundConfig(c) ==
    /\ c.stream.time > 0
    /\ {c.stream.state, c.stream.onEvent} \subseteq {0, 1}
    /\ \A i \in Devices("motor") :
         {c.motor[i].inverted, c.motor[i].PIDstate} \subseteq {0, 1}
    /\ \A i \in Devices("stepper") : c.stepper[i].inverted \in {0, 1}
    /\ \A i \in Devices("led") : c.led[i].state \in {0, 1}

(* The fields of sysConfig; the motors are those of the board.             *)
ConfigFields(c) ==
    /\ DOMAIN c = {"stream", "reset", "motor", "wheel", "stepper", "led"}
    /\ DOMAIN c.stream = {"state", "onEvent", "time"}
    /\ c.motor = [i \in Devices("motor") |-> c.motor[i]]

(* Lists have places from 1 on, and their entries an id.                   *)
IsLists(lists) ==
    /\ DOMAIN lists \subseteq Kinds
    /\ \A k \in DOMAIN lists :
         /\ \E N \in Nat : DOMAIN lists[k] = 1 .. N
         /\ \A n \in DOMAIN lists[k] : "id" \in DOMAIN lists[k][n]

ConfigInv ==
    /\ ConfigFields(cfg)
    /\ ~torn => SoundConfig(cfg)
    /\ ~torn /\ file # NoFile => \E c : SoundConfig(c) /\ file = Written(c)
    /\ DOMAIN rxLists = Kinds /\ IsLists(rxLists)
    /\ dialogue \in Dialogues

(* Devices are counted from 0.                                             *)
LEMMA DevicesOf ==
  \A k \in Kinds : NumberOf(k) \in Nat /\ Devices(k) = 0 .. NumberOf(k) - 1
  BY ConfigDevices DEF Kinds, NumberOf, Devices

(* A list of texts leaves a switch on or off ...                           *)
LEMMA SwitchKept ==
  ASSUME NEW N \in Nat, NEW texts, DOMAIN texts \subseteq 1 .. N, NEW old \in {0, 1}
  PROVE  SwitchedBy(texts, old) \in {0, 1}
<1> DEFINE S == {n \in DOMAIN texts : texts[n] \in {"on", "off"}}
           values == [n \in DOMAIN texts |-> Switched(texts[n], old)]
<1>1. CASE S = {}
  BY <1>1 DEF SwitchedBy, Latest
<1>2. CASE S # {}
  <2>1. LastPlace(S) \in S
    BY <1>2, LastPlaceIn
  <2>2. SwitchedBy(texts, old) = values[LastPlace(S)]
    BY <1>2 DEF SwitchedBy, Latest
  <2>3. values[LastPlace(S)] = Switched(texts[LastPlace(S)], old)
    BY <2>1
  <2> QED
    BY <2>1, <2>2, <2>3 DEF Switched
<1> QED
  BY <1>1, <1>2

(* ... and the text that was saved for it gives it back.                   *)
LEMMA SwitchSaved ==
  ASSUME NEW n \in Nat, NEW texts, DOMAIN texts = {n}, NEW v \in {0, 1},
         texts[n] = Text(v), NEW old
  PROVE  SwitchedBy(texts, old) = v
<1>1. texts[n] \in {"on", "off"}
  BY DEF Text
<1>2. {k \in DOMAIN texts : texts[k] \in {"on", "off"}} = {n}
  BY <1>1
<1>3. SwitchedBy(texts, old) = [k \in DOMAIN texts |-> Switched(texts[k], old)][LastPlace({n})]
  BY <1>2 DEF SwitchedBy, Latest
<1>4. SwitchedBy(texts, old) = Switched(texts[n], old)
  BY <1>3, LastOfOne
<1> QED
  BY <1>4 DEF Switched, Text

(* An applied list leaves the switches of every device on or off.          *)
LEMMA AppliedSound ==
  ASSUME NEW N \in Nat, NEW list, DOMAIN list = 1 .. N, NEW s
  PROVE  /\ (\A i \in Devices("motor") : {s[i].inverted, s[i].PIDstate} \subseteq {0, 1})
              => \A i \in Devices("motor") :
                   {Applied("motor", s, list)[i].inverted,
                    Applied("motor", s, list)[i].PIDstate} \subseteq {0, 1}
         /\ (\A i \in Devices("stepper") : s[i].inverted \in {0, 1})
              => \A i \in Devices("stepper") :
                   Applied("stepper", s, list)[i].inverted \in {0, 1}
         /\ (\A i \in Devices("led") : s[i].state \in {0, 1})
              => \A i \in Devices("led") : Applied("led", s, list)[i].state \in {0, 1}
<1> DEFINE named(i) == {n \in DOMAIN list : list[n].id = i}
           es(i) == [n \in named(i) |-> list[n]]
           texts(i, key) == [n \in DOMAIN es(i) |-> es(i)[n][key]]
<1>1. ASSUME NEW k, NEW i \in Devices(k)
      PROVE  Applied(k, s, list)[i] =
               IF named(i) = {} THEN s[i] ELSE FromEntries(k, s[i], es(i))
  BY DEF Applied
<1>2. ASSUME NEW i, NEW key, NEW old \in {0, 1}
      PROVE  SwitchedBy(texts(i, key), old) \in {0, 1}
  <2>1. DOMAIN texts(i, key) \subseteq 1 .. N
    OBVIOUS
  <2> HIDE DEF texts
  <2> QED
    BY <2>1, SwitchKept
<1>3. ASSUME NEW i
      PROVE  /\ FromEntries("motor", s[i], es(i)).inverted =
                  SwitchedBy(texts(i, "inverted"), s[i].inverted)
             /\ FromEntries("motor", s[i], es(i)).PIDstate =
                  SwitchedBy(texts(i, "PIDstate"), s[i].PIDstate)
             /\ FromEntries("stepper", s[i], es(i)).inverted =
                  SwitchedBy(texts(i, "inverted"), s[i].inverted)
             /\ FromEntries("led", s[i], es(i)).state =
                  SwitchedBy(texts(i, "state"), s[i].state)
  BY DEF FromEntries
<1> HIDE DEF named, es, texts
<1>4. ASSUME \A i \in Devices("motor") : {s[i].inverted, s[i].PIDstate} \subseteq {0, 1},
             NEW i \in Devices("motor")
      PROVE  {Applied("motor", s, list)[i].inverted,
              Applied("motor", s, list)[i].PIDstate} \subseteq {0, 1}
  <2>1. s[i].inverted \in {0, 1} /\ s[i].PIDstate \in {0, 1}
    BY <1>4
  <2> QED
    BY <2>1, <1>1, <1>2, <1>3
<1>5. ASSUME \A i \in Devices("stepper") : s[i].inverted \in {0, 1},
             NEW i \in Devices("stepper")
      PROVE  Applied("stepper", s, list)[i].inverted \in {0, 1}
  BY <1>1, <1>2, <1>3, <1>5
<1>6. ASSUME \A i \in Devices("led") : s[i].state \in {0, 1}, NEW i \in Devices("led")
      PROVE  Applied("led", s, list)[i].state \in {0, 1}
  BY <1>1, <1>2, <1>3, <1>6
<1> QED
  BY <1>4, <1>5, <1>6

(* What a saved file is read as: of every device what was saved of it.     *)
LEMMA LoadWritten ==
  ASSUME NEW c, SoundConfig(c), NEW k \in Kinds, NEW settings, NEW i \in Devices(k)
  PROVE  LET new == LoadedList(Written(c), k, settings)[i]
         IN  /\ ToEntry(k, i, new) = ToEntry(k, i, c[k][i])
             /\ k = "motor" => /\ new.inverted = c.motor[i].inverted
                               /\ new.PIDstate = c.motor[i].PIDstate
             /\ k = "stepper" => new.inverted = c.stepper[i].inverted
             /\ k = "led" => new.state = c.led[i].state
<1> DEFINE N == NumberOf(k)
           saved == ToEntry(k, i, c[k][i])
           list == [n \in 1 .. N |-> ToEntry(k, n - 1, c[k][n - 1])]
           cleared == [d \in Devices(k) |-> Cleared(k, settings[d])]
           named == {n \in DOMAIN list : list[n].id = i}
           es == [n \in named |-> list[n]]
           texts(key) == [n \in DOMAIN es |-> es[n][key]]
           new == LoadedList(Written(c), k, settings)[i]
<1>1. N \in Nat /\ i \in 0 .. N - 1
  BY DevicesOf
<1>2. \A n \in 1 .. N : list[n].id = n - 1
  BY DEF ToEntry, Kinds
<1>3. named = {i + 1} /\ i + 1 \in Nat /\ list[i + 1] = saved
  <2>1. i + 1 \in 1 .. N /\ i + 1 - 1 = i
    BY <1>1
  <2>2. \A n \in 1 .. N : n - 1 = i <=> n = i + 1
    BY <1>1
  <2>3. named = {i + 1}
    <3> HIDE DEF list
    <3>1. DOMAIN list = 1 .. N
      BY DEF list
    <3> QED
      BY <2>1, <2>2, <1>2, <3>1
  <2>4. list[i + 1] = ToEntry(k, (i + 1) - 1, c[k][(i + 1) - 1])
    BY <2>1
  <2>5. list[i + 1] = saved
    <3> DEFINE j == (i + 1) - 1
    <3>1. j = i
      BY ONLY <1>1
    <3>2. list[i + 1] = ToEntry(k, j, c[k][j])
      BY <2>4
    <3> HIDE DEF j, list
    <3> QED
      BY <3>1, <3>2
  <2>6. i + 1 \in Nat
    BY <1>1
  <2> QED
    BY <2>3, <2>5, <2>6, Zenon
<1>4. Written(c).list[k] = list /\ k \in DOMAIN Written(c).list
  BY DEF Written
<1>5. new = Applied(k, cleared, list)[i]
  BY <1>4 DEF LoadedList
<1>6. new = FromEntries(k, cleared[i], es)
  BY <1>5, <1>3 DEF Applied
<1>7. DOMAIN es = {i + 1} /\ es[i + 1] = saved /\ LastPlace(DOMAIN es) = i + 1
  BY <1>3, LastOfOne
<1>8. \A key : DOMAIN texts(key) = {i + 1} /\ texts(key)[i + 1] = saved[key]
  BY <1>7
<1> HIDE DEF list, cleared, named, es, texts, new
<1>9. ASSUME NEW key, NEW v \in {0, 1}, saved[key] = Text(v), NEW old
      PROVE  SwitchedBy(texts(key), old) = v
  BY <1>8, <1>9, <1>3, SwitchSaved
<1>10. CASE k = "motor"
  <2>1. new = [inverted |-> SwitchedBy(texts("inverted"), cleared[i]["inverted"]),
               minPWM |-> saved.minPWM, minRPM |-> saved.minRPM, maxRPM |-> saved.maxRPM,
               PIDstate |-> SwitchedBy(texts("PIDstate"), cleared[i]["PIDstate"]),
               gains |-> saved.gains]
    BY <1>6, <1>7, <1>10 DEF FromEntries, texts
  <2>2. saved["inverted"] = Text(c.motor[i].inverted) /\ saved["PIDstate"] = Text(c.motor[i].PIDstate)
    BY <1>10 DEF ToEntry
  <2>3. c.motor[i].inverted \in {0, 1} /\ c.motor[i].PIDstate \in {0, 1}
    BY <1>10 DEF SoundConfig
  <2>4. new.inverted = c.motor[i].inverted /\ new.PIDstate = c.motor[i].PIDstate
    BY <2>1, <2>2, <2>3, <1>9
  <2>5. ToEntry(k, i, new) = saved
    BY <2>1, <2>4, <1>10 DEF ToEntry
  <2> QED
    BY <2>4, <2>5, <1>10 DEF new
<1>11. CASE k = "wheel"
  <2>1. new = [diameter |-> saved.diameter, pulsePerRot |-> saved.pulsePerRot]
    BY <1>6, <1>7, <1>11 DEF FromEntries
  <2>2. ToEntry(k, i, new) = saved
    BY <2>1, <1>11 DEF ToEntry
  <2> QED
    BY <2>2, <1>11 DEF new
<1>12. CASE k = "stepper"
  <2>1. new = [inverted |-> SwitchedBy(texts("inverted"), cleared[i]["inverted"]),
               ratio |-> saved.ratio, stepPerRot |-> saved.stepPerRot]
    BY <1>6, <1>7, <1>12 DEF FromEntries, texts
  <2>2. saved["inverted"] = Text(c.stepper[i].inverted)
    BY <1>12 DEF ToEntry
  <2>3. c.stepper[i].inverted \in {0, 1}
    BY <1>12 DEF SoundConfig
  <2>4. new.inverted = c.stepper[i].inverted
    BY <2>1, <2>2, <2>3, <1>9
  <2>5. ToEntry(k, i, new) = saved
    BY <2>1, <2>4, <1>12 DEF ToEntry
  <2> QED
    BY <2>4, <2>5, <1>12 DEF new
<1>13. CASE k = "led"
  <2>1. new = [state |-> SwitchedBy(texts("state"), cleared[i]["state"]), power |-> saved.power]
    BY <1>6, <1>7, <1>13 DEF FromEntries, texts
  <2>2. saved["state"] = Text(c.led[i].state)
    BY <1>13 DEF ToEntry
  <2>3. c.led[i].state \in {0, 1}
    BY <1>13 DEF SoundConfig
  <2>4. new.state = c.led[i].state
    BY <2>1, <2>2, <2>3, <1>9
  <2>5. ToEntry(k, i, new) = saved
    BY <2>1, <2>4, <1>13 DEF ToEntry
  <2> QED
    BY <2>4, <2>5, <1>13 DEF new
<1> QED
  BY <1>10, <1>11, <1>12, <1>13 DEF Kinds

(* The configuration after a file that was saved whole is sound, and would *)
(* be saved as it was.                                                     *)
LEMMA LoadSaved ==
  ASSUME NEW x, ConfigFields(x), NEW c, SoundConfig(c), Written(c) # NoFile
  PROVE  /\ SoundConfig(LoadConfig(x, Written(c)))
         /\ Written(LoadConfig(x, Written(c))) = Written(c)
<1> DEFINE new == LoadConfig(x, Written(c))
<1>1. /\ new.stream.state = Switched(Text(c.stream.state), x.stream.state)
      /\ new.stream.onEvent = Switched(Text(c.stream.onEvent), x.stream.onEvent)
      /\ new.stream.time = c.stream.time
  BY DEF LoadConfig, ConfigFields, Written
<1>2. /\ new.motor = LoadedList(Written(c), "motor", x.motor)
      /\ new.wheel = LoadedList(Written(c), "wheel", x.wheel)
      /\ new.stepper = LoadedList(Written(c), "stepper", x.stepper)
      /\ new.led = LoadedList(Written(c), "led", x.led)
  BY DEF LoadConfig, ConfigFields
<1> HIDE DEF new
<1>3. new.stream.state = c.stream.state /\ new.stream.onEvent = c.stream.onEvent
  BY <1>1 DEF SoundConfig, Switched, Text
<1>4. SoundConfig(new)
  <2>1. \A i \in Devices("motor") :
          {new.motor[i].inverted, new.motor[i].PIDstate} \subseteq {0, 1}
    BY <1>2, LoadWritten DEF Kinds, SoundConfig
  <2>2. \A i \in Devices("stepper") : new.stepper[i].inverted \in {0, 1}
    BY <1>2, LoadWritten DEF Kinds, SoundConfig
  <2>3. \A i \in Devices("led") : new.led[i].state \in {0, 1}
    BY <1>2, LoadWritten DEF Kinds, SoundConfig
  <2> QED
    BY <1>1, <1>3, <2>1, <2>2, <2>3 DEF SoundConfig
<1>5. \A k \in Kinds : \A i \in Devices(k) : ToEntry(k, i, new[k][i]) = ToEntry(k, i, c[k][i])
  BY <1>2, LoadWritten DEF Kinds
<1>6. Written(new) = Written(c)
  <2>1. \A k \in Kinds : \A n \in 1 .. NumberOf(k) :
          ToEntry(k, n - 1, new[k][n - 1]) = ToEntry(k, n - 1, c[k][n - 1])
    BY <1>5, DevicesOf
  <2>2. \A k \in Kinds :
          [n \in 1 .. NumberOf(k) |-> ToEntry(k, n - 1, new[k][n - 1])] =
          [n \in 1 .. NumberOf(k) |-> ToEntry(k, n - 1, c[k][n - 1])]
    BY <2>1
  <2> QED
    BY <2>2, <1>1, <1>3 DEF Written
<1> QED
  BY <1>4, <1>6 DEF new

(* The settings before main, and those of resetConfig.                     *)
LEMMA DefaultSound ==
  ASSUME NEW c, ConfigFields(c)
  PROVE  /\ ConfigFields(DefaultConfig(c))
         /\ SoundConfig(c) => SoundConfig(DefaultConfig(c))
<1> DEFINE new == DefaultConfig(c)
<1>1. /\ DOMAIN new = DOMAIN c /\ DOMAIN new.stream = DOMAIN c.stream
      /\ new.stream.state = 1 /\ new.stream.onEvent = c.stream.onEvent
      /\ new.stream.time = DefaultPeriod /\ new.led = c.led
  BY DEF DefaultConfig, ConfigFields
<1>2. new.motor = [i \in Devices("motor") |->
          [inverted |-> 0, minPWM |-> c.motor[i].minPWM, minRPM |-> 20,
           maxRPM |-> 200, PIDstate |-> 0, gains |-> 0]]
  BY DEF DefaultConfig, ConfigFields
<1>3. new.stepper = [i \in Devices("stepper") |->
          [inverted |-> 0, ratio |-> 64, stepPerRot |-> 32]]
  BY DEF DefaultConfig, ConfigFields
<1> HIDE DEF new
<1>4. ConfigFields(new)
  BY <1>1, <1>2 DEF ConfigFields
<1>5. SoundConfig(c) => SoundConfig(new)
  BY <1>1, <1>2, <1>3, DefaultPeriodAssumption DEF SoundConfig
<1> QED
  BY <1>4, <1>5 DEF new

(* The settings before main are all zero.                                  *)
LEMMA ZeroDefault ==
  ConfigFields(DefaultConfig(ZeroConfig)) /\ SoundConfig(DefaultConfig(ZeroConfig))
<1>1. ConfigFields(ZeroConfig)
  BY DEF ConfigFields, ZeroConfig
<1>2. ConfigFields(DefaultConfig(ZeroConfig))
  BY <1>1, DefaultSound
<1>3. ZeroConfig.stream.onEvent = 0 /\ \A i \in Devices("led") : ZeroConfig.led[i].state = 0
  BY DEF ZeroConfig
<1> DEFINE new == DefaultConfig(ZeroConfig)
<1>4. /\ new.stream.state = 1 /\ new.stream.onEvent = 0
      /\ new.stream.time = DefaultPeriod /\ new.led = ZeroConfig.led
  BY <1>1, <1>3 DEF DefaultConfig, ConfigFields
<1>5. \A i \in Devices("motor") : new.motor[i].inverted = 0 /\ new.motor[i].PIDstate = 0
  BY <1>1 DEF DefaultConfig, ConfigFields
<1>6. \A i \in Devices("stepper") : new.stepper[i].inverted = 0
  BY <1>1 DEF DefaultConfig, ConfigFields
<1> HIDE DEF new
<1>7. SoundConfig(new)
  BY <1>3, <1>4, <1>5, <1>6, DefaultPeriodAssumption DEF SoundConfig
<1> QED
  BY <1>2, <1>7 DEF new

(* Reading a file keeps the fields.                                        *)
LEMMA LoadFields ==
  ASSUME NEW x, ConfigFields(x), NEW doc
  PROVE  ConfigFields(LoadConfig(x, doc))
<1>1. CASE doc = NoFile
  BY <1>1 DEF LoadConfig
<1>2. CASE doc # NoFile
  <2> DEFINE new == LoadConfig(x, doc)
  <2>1. DOMAIN new = DOMAIN x /\ DOMAIN new.stream = DOMAIN x.stream
    BY <1>2 DEF LoadConfig, ConfigFields
  <2>2. new.motor = LoadedList(doc, "motor", x.motor)
    BY <1>2 DEF LoadConfig, ConfigFields
  <2>3. new.motor = [i \in Devices("motor") |-> new.motor[i]]
    BY <2>2 DEF LoadedList, Applied
  <2> QED
    BY <2>1, <2>3 DEF ConfigFields
<1> QED
  BY <1>1, <1>2

(* Loading, over sound settings, the file the invariant allows.            *)
LEMMA LoadKeeps ==
  ASSUME ConfigInv, ~torn, NEW x, ConfigFields(x), SoundConfig(x)
  PROVE  /\ SoundConfig(LoadConfig(x, file))
         /\ file # NoFile => Written(LoadConfig(x, file)) = file
<1>1. CASE file = NoFile
  BY <1>1 DEF LoadConfig
<1>2. CASE file # NoFile
  <2>1. PICK c : SoundConfig(c) /\ file = Written(c)
    BY <1>2 DEF ConfigInv
  <2> QED
    BY <2>1, <1>2, LoadSaved
<1> QED
  BY <1>1, <1>2

(* What a CONFIG message does to the lists and the settings.               *)
LEMMA ConfigureKeeps ==
  ASSUME ConfigInv, NEW m, IsConfig(m), Configure(m)
  PROVE  /\ ConfigFields(cfg')
         /\ ~torn => SoundConfig(cfg')
         /\ ~torn /\ file' # NoFile => \E c : SoundConfig(c) /\ file' = Written(c)
         /\ DOMAIN rxLists' = Kinds /\ IsLists(rxLists')
<1> DEFINE lists == Received(m.list)
           after == ConfigAfter(m)
<1>1. DOMAIN lists = Kinds /\ IsLists(lists)
  <2>1. DOMAIN lists = Kinds
    BY DEF Received
  <2>2. ASSUME NEW k \in Kinds
        PROVE  /\ \E N \in Nat : DOMAIN lists[k] = 1 .. N
               /\ \A n \in DOMAIN lists[k] : "id" \in DOMAIN lists[k][n]
    <3>1. CASE k \in DOMAIN m.list
      BY <3>1 DEF Received, IsConfig
    <3>2. CASE k \notin DOMAIN m.list /\ k = "motor"
      BY <3>2 DEF Received, ConfigInv, IsLists
    <3>3. CASE k \notin DOMAIN m.list /\ k # "motor"
      BY <3>3 DEF Received, ConfigInv, IsLists
    <3> QED
      BY <3>1, <3>2, <3>3
  <2> QED
    BY <2>1, <2>2 DEF IsLists
<1> HIDE DEF lists
<1>2. /\ DOMAIN after = {"stream", "reset", "motor", "wheel", "stepper", "led"}
      /\ after.stream = StreamAfter(m.stream)
      /\ after.motor = Applied("motor", cfg.motor, lists.motor)
      /\ after.stepper = Applied("stepper", cfg.stepper, lists.stepper)
      /\ after.led = Applied("led", cfg.led, lists.led)
  BY DEF ConfigAfter, lists
<1>3. ConfigFields(after)
  <2>1. DOMAIN after.stream = {"state", "onEvent", "time"}
    BY <1>2 DEF StreamAfter
  <2>2. after.motor = [i \in Devices("motor") |-> after.motor[i]]
    BY <1>2 DEF Applied
  <2> QED
    BY <1>2, <2>1, <2>2 DEF ConfigFields
<1>4. ASSUME ~torn
      PROVE  SoundConfig(after)
  <2>0. SoundConfig(cfg)
    BY <1>4 DEF ConfigInv
  <2>1. /\ after.stream.state = Switched(m.stream.state, cfg.stream.state)
        /\ after.stream.onEvent = Switched(m.stream.onEvent, cfg.stream.onEvent)
        /\ after.stream.time = IF m.stream.time > 0 THEN m.stream.time ELSE cfg.stream.time
    BY <1>2 DEF StreamAfter
  <2>2. {after.stream.state, after.stream.onEvent} \subseteq {0, 1} /\ after.stream.time > 0
    BY <2>0, <2>1 DEF SoundConfig, Switched
  <2>3. \A k \in {"motor", "stepper", "led"} : \E N \in Nat : DOMAIN lists[k] = 1 .. N
    BY <1>1 DEF IsLists, Kinds
  <2>4. \A i \in Devices("motor") :
          {after.motor[i].inverted, after.motor[i].PIDstate} \subseteq {0, 1}
    <3>1. PICK N \in Nat : DOMAIN lists["motor"] = 1 .. N
      BY <2>3
    <3> QED
      BY <3>1, <1>2, <2>0, AppliedSound DEF SoundConfig
  <2>5. \A i \in Devices("stepper") : after.stepper[i].inverted \in {0, 1}
    <3>1. PICK N \in Nat : DOMAIN lists["stepper"] = 1 .. N
      BY <2>3
    <3> QED
      BY <3>1, <1>2, <2>0, AppliedSound DEF SoundConfig
  <2>6. \A i \in Devices("led") : after.led[i].state \in {0, 1}
    <3>1. PICK N \in Nat : DOMAIN lists["led"] = 1 .. N
      BY <2>3
    <3> QED
      BY <3>1, <1>2, <2>0, AppliedSound DEF SoundConfig
  <2> QED
    BY <2>2, <2>4, <2>5, <2>6 DEF SoundConfig
<1>5. /\ cfg' = [after EXCEPT !.reset = IF m.reset = "true" THEN 1 ELSE @]
      /\ file' = Written(after) \/ file' = file
      /\ rxLists' = lists
  BY DEF Configure, lists
<1> HIDE DEF after
<1>6. /\ DOMAIN cfg' = DOMAIN after /\ cfg'.stream = after.stream
      /\ cfg'.motor = after.motor /\ cfg'.stepper = after.stepper /\ cfg'.led = after.led
  BY <1>5, <1>3 DEF ConfigFields
<1>7. ConfigFields(cfg')
  BY <1>3, <1>6 DEF ConfigFields
<1>8. ~torn => SoundConfig(cfg')
  BY <1>4, <1>6 DEF SoundConfig
<1>9. ~torn /\ file' # NoFile => \E c : SoundConfig(c) /\ file' = Written(c)
  BY <1>4, <1>5 DEF ConfigInv
<1> QED
  BY <1>1, <1>5, <1>7, <1>8, <1>9

(* What a step does to the configuration.                                  *)
ConfigChange ==
    \/ UNCHANGED configVars
    \/ ResetConfig
    \/ \E m \in dialogue.messages : m.type = "config" /\ Configure(m) /\ pc' = "flag"
    \/ Boot
    \/ \E m \in dialogue.messages : m.type = "config" /\ CutSave(m)

(* Every step is one of these, and the dialogue stays.                     *)
LEMMA ConfigChanges ==
  ASSUME [Next]_vars
  PROVE  ConfigChange /\ UNCHANGED dialogue
<1>1. CASE UNCHANGED vars
  BY <1>1 DEF vars, ConfigChange
<1>2. CASE Reset
  BY <1>2 DEF Reset, ConfigChange
<1>3. CASE NoReset \/ Stream \/ PullNone \/ NotYet \/ PollColours \/ Quit \/ Tick \/ HwTask
  BY <1>3 DEF NoReset, Stream, PullNone, NotYet, PollColours, Quit, Tick, HwTask, ConfigChange
<1>4. CASE Poll
  BY <1>4 DEF Poll, Checked, ConfigChange
<1>5. ASSUME NEW m \in dialogue.messages,
             PullRequest(m) \/ PullConfig(m) \/ PullConfigRestarting(m) \/ PullSystem(m)
      PROVE  ConfigChange /\ UNCHANGED dialogue
  BY <1>5 DEF PullRequest, PullConfig, PullConfigRestarting, PullSystem, Goto, ConfigChange
<1>6. CASE PowerLoss
  BY <1>6 DEF PowerLoss, Restarted, ConfigChange
<1>7. ASSUME NEW m \in dialogue.messages, PowerLossInSave(m)
      PROVE  ConfigChange /\ UNCHANGED dialogue
  BY <1>7 DEF PowerLossInSave, Restarted, ConfigChange
<1> QED
  BY <1>1, <1>2, <1>3, <1>4, <1>5, <1>6, <1>7 DEF Next, MainLoop

(* The invariant of the configuration is inductive.                        *)
LEMMA ConfigStart ==
  Init => ConfigInv
<1> SUFFICES ASSUME Init PROVE ConfigInv
  OBVIOUS
<1>1. IsLists(NoLists) /\ DOMAIN NoLists = Kinds
  BY DEF IsLists, NoLists
<1> QED
  BY <1>1, ZeroDefault DEF Init, ConfigInit, ConfigInv

(* Every step keeps the settings sound and the file readable.              *)
LEMMA ConfigStep ==
  ConfigInv /\ [Next]_vars => ConfigInv'
<1> SUFFICES ASSUME ConfigInv, [Next]_vars PROVE ConfigInv'
  OBVIOUS
<1>1. ConfigChange /\ UNCHANGED dialogue
  BY ConfigChanges
<1>2. CASE UNCHANGED configVars
  BY <1>1, <1>2 DEF configVars, ConfigInv
<1>3. CASE ResetConfig
  <2>1. ConfigFields(DefaultConfig(cfg)) /\ (~torn => SoundConfig(DefaultConfig(cfg)))
    BY DefaultSound DEF ConfigInv
  <2>2. ConfigFields(cfg') /\ (~torn => SoundConfig(cfg'))
    BY <1>3, <2>1, LoadFields, LoadKeeps DEF ResetConfig
  <2> QED
    BY <1>1, <1>3, <2>2 DEF ResetConfig, ConfigInv
<1>4. CASE \E m \in dialogue.messages : m.type = "config" /\ Configure(m) /\ pc' = "flag"
  <2>1. PICK m \in dialogue.messages : m.type = "config" /\ Configure(m)
    BY <1>4
  <2>2. IsConfig(m)
    BY <2>1, DialoguesAssumption DEF ConfigInv
  <2>3. torn' = torn
    BY <2>1 DEF Configure
  <2> QED
    BY <1>1, <2>1, <2>2, <2>3, ConfigureKeeps DEF ConfigInv
<1>5. CASE Boot
  <2>1. ConfigFields(cfg') /\ (~torn => SoundConfig(cfg'))
    BY <1>5, ZeroDefault, LoadFields, LoadKeeps DEF Boot
  <2>2. IsLists(NoLists) /\ DOMAIN NoLists = Kinds
    BY DEF IsLists, NoLists
  <2> QED
    BY <1>1, <1>5, <2>1, <2>2 DEF Boot, ConfigInv
<1>6. CASE \E m \in dialogue.messages : m.type = "config" /\ CutSave(m)
  <2>1. torn' /\ rxLists' = NoLists /\ ConfigFields(cfg')
    BY <1>6, ZeroDefault, LoadFields DEF CutSave
  <2>2. IsLists(NoLists) /\ DOMAIN NoLists = Kinds
    BY DEF IsLists, NoLists
  <2> QED
    BY <1>1, <2>1, <2>2 DEF ConfigInv
<1> QED
  BY <1>1, <1>2, <1>3, <1>4, <1>5, <1>6 DEF ConfigChange

(* As long as no save was cut short, every switch is on or off and the     *)
(* stream has a period, for boards of any size and whatever lists the host *)
(* sends, the robot keeps, saves and reads again (processAlgoidCommand,    *)
(* SaveConfig, LoadConfig, resetConfig).                                   *)
THEOREM SoundAlways == Spec => []SoundUnlessTorn
<1>1. ConfigInv => SoundUnlessTorn
  BY DEF ConfigInv, SoundConfig, SoundUnlessTorn
<1> QED
  BY <1>1, ConfigStart, ConfigStep, PTL DEF Spec

(* After a reset or a restart the robot would save what was saved, unless  *)
(* a save was cut short (LoadConfig after resetConfig, SaveConfig).        *)
THEOREM LoadGivesBackAlways == Spec => LoadGivesBack
<1>1. ASSUME ConfigInv, [Next]_vars, pc' \in {"reset", "stream"}, cfg' # cfg,
             file' # NoFile, ~torn'
      PROVE  Written(cfg') = file'
  <2>1. ConfigChange
    BY <1>1, ConfigChanges
  <2>2. CASE ResetConfig
    <3>1. ConfigFields(DefaultConfig(cfg)) /\ SoundConfig(DefaultConfig(cfg))
      BY <1>1, <2>2, DefaultSound DEF ResetConfig, ConfigInv
    <3> QED
      BY <1>1, <2>2, <3>1, LoadKeeps DEF ResetConfig
  <2>3. CASE Boot
    BY <1>1, <2>3, ZeroDefault, LoadKeeps DEF Boot
  <2>4. ~UNCHANGED configVars
    BY <1>1 DEF configVars
  <2>5. ~\E m \in dialogue.messages : CutSave(m)
    BY <1>1 DEF CutSave
  <2> QED
    BY <1>1, <2>1, <2>2, <2>3, <2>4, <2>5 DEF ConfigChange
<1>2. ConfigInv /\ [Next]_vars =>
        [pc' \in {"reset", "stream"} /\ cfg' # cfg /\ file' # NoFile /\ ~torn'
           => Written(cfg') = file']_vars
  BY <1>1
<1> QED
  BY <1>2, ConfigStart, ConfigStep, PTL DEF Spec, LoadGivesBack

(* A CONFIG message without a list of motors leaves the motors as they     *)
(* are: GetAlgoidMsg has cleared the ids of the list that was kept, if it  *)
(* named no more motors than it clears.                                    *)
THEOREM UnnamedMotorsAlways == Spec => UnnamedMotorsKept
<1>1. ASSUME ConfigInv, NEW m \in dialogue.messages, m.type = "config", PullConfig(m),
             "motor" \notin DOMAIN m.list, DOMAIN rxLists["motor"] \subseteq 1 .. IdsCleared
      PROVE  cfg'.motor = cfg.motor
  <2> DEFINE list == Received(m.list).motor
  <2>1. /\ DOMAIN list = DOMAIN rxLists["motor"]
        /\ \A n \in DOMAIN list : list[n] = [rxLists["motor"][n] EXCEPT !.id = Missing]
    BY <1>1 DEF Received, Kinds, IdsCleared
  <2>2. \A n \in DOMAIN list : "id" \in DOMAIN rxLists["motor"][n]
    BY <1>1, <2>1 DEF ConfigInv, IsLists, Kinds
  <2>3. \A n \in DOMAIN list : list[n].id = Missing
    BY <2>1, <2>2
  <2>4. \A i \in Devices("motor") : i # Missing
    BY DevicesOf DEF Kinds, Missing
  <2>5. \A i \in Devices("motor") : {n \in DOMAIN list : list[n].id = i} = {}
    BY <2>3, <2>4
  <2>6. ConfigAfter(m).motor = Applied("motor", cfg.motor, list)
    BY DEF ConfigAfter
  <2> HIDE DEF list
  <2>7. Applied("motor", cfg.motor, list) = [i \in Devices("motor") |-> cfg.motor[i]]
    BY <2>5 DEF Applied
  <2>8. ConfigAfter(m).motor = cfg.motor
    BY <1>1, <2>6, <2>7 DEF ConfigInv, ConfigFields
  <2>9. cfg'.motor = ConfigAfter(m).motor
    BY <1>1 DEF PullConfig, Configure, ConfigAfter
  <2> QED
    BY <2>8, <2>9
<1>2. ConfigInv /\ [Next]_vars =>
        [\A m \in dialogue.messages :
           /\ m.type = "config" /\ PullConfig(m)
           /\ "motor" \notin DOMAIN m.list
           /\ DOMAIN rxLists["motor"] \subseteq 1 .. IdsCleared
           => cfg'.motor = cfg.motor]_vars
  BY <1>1
<1> QED
  BY <1>2, ConfigStart, ConfigStep, PTL DEF Spec, UnnamedMotorsKept

------------------------------------------------------------------------------
(* What is said of the sensors.                                            *)

IsList(s) == \E P : s \in Seq(P)

(* An entry is true of the sensors r: that of AnswersAreCurrent.           *)
TrueEntry(r, k, e) ==
    \/ e.error
    \/ /\ e.id \in Sensors(k)
       /\ IF "channel" \in DOMAIN e
          THEN e.value = r[k][e.id].value[e.channel]
          ELSE e.value = r[k][e.id].value
TrueList(r, k, entries) ==
    /\ IsList(entries)
    /\ \A i \in DOMAIN entries :
         /\ TrueEntry(r, k, entries[i])
         /\ k \in InputKinds => "channel" \notin DOMAIN entries[i]
TrueMessage(r, m) ==
    /\ m.param \in SensorKinds => TrueList(r, m.param, m.entries)
    /\ m.param = "status" =>
         /\ DOMAIN m.entries = SensorKinds \ {"battery"}
         /\ \A k \in SensorKinds \ {"battery"} :
              Len(m.entries[k]) = SensorCount(k) /\ TrueList(r, k, m.entries[k])
TrueMessages(r, messages) ==
    /\ IsList(messages)
    /\ \A n \in DOMAIN messages : TrueMessage(r, messages[n])

(* The numbers of the sensors.                                             *)
LEMMA SensorsOf ==
  /\ \A k \in SensorKinds : SensorCount(k) \in 0 .. NENTRY /\ Sensors(k) = 0 .. SensorCount(k) - 1
  /\ NBMOTOR \in 0 .. NENTRY /\ NENTRY \in Nat
<1>1. NENTRY \in Nat
  BY SensorNumbers
<1>2. /\ NBDIN \in 0 .. NENTRY /\ NBBTN \in 0 .. NENTRY /\ NBSONAR \in 0 .. NENTRY
      /\ NBRGBC \in 0 .. NENTRY /\ NBAIN \in 0 .. NENTRY /\ NBMOTOR \in 0 .. NENTRY
  BY SensorNumbers
<1> QED
  BY <1>1, <1>2 DEF SensorKinds, SensorCount, Sensors

(* The group of a kind of sensors is reached at its start.                 *)
LEMMA ReachedAtStart ==
  \A k \in SensorKinds \ {"battery"} :
      /\ Reached[k] = GroupStart(k) /\ GroupStart(k) \in Nat
      /\ GroupSize(k) = SensorCount(k)
<1>1. NBDIN \in Nat /\ NBBTN \in Nat /\ NBMOTOR \in Nat /\ NBSONAR \in Nat /\ NBRGBC \in Nat
  BY SensorNumbers
<1>2. /\ GroupSize("din") = NBDIN /\ GroupSize("button") = NBBTN /\ GroupSize("motor") = NBMOTOR
      /\ GroupSize("distance") = NBSONAR /\ GroupSize("rgb") = NBRGBC
  BY DEF GroupSize, SensorCount
<1>3. /\ GroupStart("din") = 1
      /\ GroupStart("button") = 1 + NBDIN
      /\ GroupStart("motor") = 1 + NBDIN + NBBTN
      /\ GroupStart("distance") = 1 + NBDIN + NBBTN + NBMOTOR
      /\ GroupStart("rgb") = 1 + NBDIN + NBBTN + NBMOTOR + NBSONAR
  BY DEF GroupStart
<1>4. /\ Past("din", 1) = GroupStart("button")
      /\ Past("button", GroupStart("button")) = GroupStart("motor")
      /\ Past("motor", GroupStart("motor")) = GroupStart("distance")
      /\ Past("distance", GroupStart("distance")) = GroupStart("rgb")
  BY <1>1, <1>2, <1>3 DEF Past, LiesIn
<1>5. Reached = [din |-> 1, button |-> GroupStart("button"),
                 distance |-> GroupStart("distance"), rgb |-> GroupStart("rgb")]
  BY <1>4 DEF Reached
<1> QED
  BY <1>1, <1>3, <1>5 DEF SensorKinds, GroupSize

(* A function on places from 1 on is a sequence.                           *)
LEMMA ListIsSeq ==
  ASSUME NEW N \in Nat, NEW P, NEW f \in [1 .. N -> P]
  PROVE  f \in Seq(P) /\ Len(f) = N
  OBVIOUS

(* The members of two sequences, one after the other.                      *)
LEMMA ConcatMembers ==
  ASSUME NEW P, NEW s \in Seq(P), NEW t \in Seq(P),
         NEW A \in Nat, A = Len(s), NEW B \in Nat, B = Len(t)
  PROVE  /\ s \o t \in Seq(P) /\ Len(s \o t) = A + B /\ A + B \in Nat
         /\ \A i \in 1 .. A : (s \o t)[i] = s[i]
         /\ \A i \in 1 .. B : (s \o t)[A + i] = t[i]
  OBVIOUS

(* The places the status message takes for a kind hold its devices.        *)
LEMMA PlacesOfKind ==
  ASSUME NEW k \in SensorKinds \ {"battery"}, NEW j \in 1 .. SensorCount(k)
  PROVE  StatusPlaces[GroupStart(k) + j - 1] = [kind |-> k, id |-> j - 1]
<1> DEFINE G == {"din", "button", "motor", "distance", "rgb"}
           P == [kind : G, id : Nat]
           d == Group("din")
           b == Group("button")
           m == Group("motor")
           s == Group("distance")
           c == Group("rgb")
<1>1. NBDIN \in Nat /\ NBBTN \in Nat /\ NBMOTOR \in Nat /\ NBSONAR \in Nat /\ NBRGBC \in Nat
  BY SensorNumbers
<1>2. /\ GroupSize("din") = NBDIN /\ GroupSize("button") = NBBTN /\ GroupSize("motor") = NBMOTOR
      /\ GroupSize("distance") = NBSONAR /\ GroupSize("rgb") = NBRGBC
  BY DEF GroupSize, SensorCount
<1>3. ASSUME NEW g \in G, GroupSize(g) \in Nat
      PROVE  /\ Group(g) \in Seq(P) /\ Len(Group(g)) = GroupSize(g)
             /\ \A n \in 1 .. GroupSize(g) : Group(g)[n] = [kind |-> g, id |-> n - 1]
  <2>1. Group(g) = [n \in 1 .. GroupSize(g) |-> [kind |-> g, id |-> n - 1]]
    BY DEF Group
  <2>2. \A n \in 1 .. GroupSize(g) : [kind |-> g, id |-> n - 1] \in P
    BY <1>3
  <2>3. Group(g) \in [1 .. GroupSize(g) -> P]
    BY <2>1, <2>2
  <2>4. Group(g) \in Seq(P) /\ Len(Group(g)) = GroupSize(g)
    BY <2>3, <1>3, ListIsSeq
  <2> QED
    BY <2>1, <2>4
<1> HIDE DEF P
<1>4. /\ d \in Seq(P) /\ Len(d) = NBDIN /\ b \in Seq(P) /\ Len(b) = NBBTN
      /\ m \in Seq(P) /\ Len(m) = NBMOTOR /\ s \in Seq(P) /\ Len(s) = NBSONAR
      /\ c \in Seq(P) /\ Len(c) = NBRGBC
  BY <1>1, <1>2, <1>3
<1>5. GroupSize(k) = SensorCount(k) /\ Group(k)[j] = [kind |-> k, id |-> j - 1]
  <2>1. GroupSize(k) = SensorCount(k) /\ SensorCount(k) \in Nat
    BY ReachedAtStart, SensorsOf
  <2>2. k \in G
    BY DEF SensorKinds
  <2> QED
    BY <2>1, <2>2, <1>3
<1>6. StatusPlaces = d \o b \o m \o s \o c
  BY DEF StatusPlaces
<1> HIDE DEF d, b, m, s, c
<1> DEFINE db == d \o b
           dbm == db \o m
           dbms == dbm \o s
<1>7. /\ db \in Seq(P) /\ Len(db) = NBDIN + NBBTN /\ NBDIN + NBBTN \in Nat
      /\ \A i \in 1 .. NBDIN : db[i] = d[i]
      /\ \A i \in 1 .. NBBTN : db[NBDIN + i] = b[i]
  <2>1. d \in Seq(P) /\ b \in Seq(P) /\ NBDIN = Len(d) /\ NBBTN = Len(b)
    BY <1>4
  <2> QED
    BY ONLY <2>1, <1>1, ConcatMembers DEF db
<1> HIDE DEF db
<1>8. /\ dbm \in Seq(P) /\ Len(dbm) = NBDIN + NBBTN + NBMOTOR
      /\ NBDIN + NBBTN + NBMOTOR \in Nat
      /\ \A i \in 1 .. NBDIN + NBBTN : dbm[i] = db[i]
  <2>1. m \in Seq(P) /\ NBMOTOR = Len(m) /\ db \in Seq(P) /\ NBDIN + NBBTN = Len(db)
    BY <1>4, <1>7
  <2>2. NBDIN + NBBTN \in Nat /\ NBMOTOR \in Nat
    BY <1>1
  <2> QED
    BY ONLY <2>1, <2>2, ConcatMembers DEF dbm
<1> HIDE DEF dbm
<1>13. /\ dbms \in Seq(P) /\ Len(dbms) = NBDIN + NBBTN + NBMOTOR + NBSONAR
       /\ NBDIN + NBBTN + NBMOTOR + NBSONAR \in Nat
       /\ \A i \in 1 .. NBDIN + NBBTN + NBMOTOR : dbms[i] = dbm[i]
       /\ \A i \in 1 .. NBSONAR : dbms[NBDIN + NBBTN + NBMOTOR + i] = s[i]
  <2> DEFINE A == NBDIN + NBBTN + NBMOTOR
  <2>1. /\ s \in Seq(P) /\ NBSONAR = Len(s) /\ NBSONAR \in Nat
        /\ dbm \in Seq(P) /\ A = Len(dbm) /\ A \in Nat
    BY <1>1, <1>4, <1>8
  <2> HIDE DEF A
  <2>2. /\ dbms \in Seq(P) /\ Len(dbms) = A + NBSONAR /\ A + NBSONAR \in Nat
        /\ \A i \in 1 .. A : dbms[i] = dbm[i]
        /\ \A i \in 1 .. NBSONAR : dbms[A + i] = s[i]
    BY ONLY <2>1, ConcatMembers DEF dbms
  <2> QED
    BY <2>2 DEF A
<1> HIDE DEF dbms
<1>14. /\ \A i \in 1 .. NBDIN + NBBTN + NBMOTOR + NBSONAR : StatusPlaces[i] = dbms[i]
       /\ \A i \in 1 .. NBRGBC : StatusPlaces[NBDIN + NBBTN + NBMOTOR + NBSONAR + i] = c[i]
  <2>1. StatusPlaces = dbms \o c
    BY <1>6 DEF db, dbm, dbms
  <2> DEFINE A == NBDIN + NBBTN + NBMOTOR + NBSONAR
  <2>2. /\ c \in Seq(P) /\ NBRGBC = Len(c) /\ NBRGBC \in Nat
        /\ dbms \in Seq(P) /\ A = Len(dbms) /\ A \in Nat
    BY <1>1, <1>4, <1>13
  <2> HIDE DEF A
  <2>3. /\ \A i \in 1 .. A : StatusPlaces[i] = dbms[i]
        /\ \A i \in 1 .. NBRGBC : StatusPlaces[A + i] = c[i]
    BY ONLY <2>1, <2>2, ConcatMembers
  <2> QED
    BY <2>3 DEF A
<1>9. CASE k = "din"
  <2>1. j \in 1 .. NBDIN /\ GroupStart(k) + j - 1 = j
    BY <1>1, <1>9 DEF GroupStart, SensorCount
  <2>2. StatusPlaces[j] = d[j]
    BY <2>1, <1>1, <1>7, <1>8, <1>13, <1>14
  <2> QED
    BY <2>1, <2>2, <1>5, <1>9 DEF d
<1>10. CASE k = "button"
  <2>1. j \in 1 .. NBBTN /\ GroupStart(k) + j - 1 = NBDIN + j
    BY <1>1, <1>10 DEF GroupStart, SensorCount
  <2>2. StatusPlaces[NBDIN + j] = b[j]
    BY <2>1, <1>1, <1>7, <1>8, <1>13, <1>14
  <2> QED
    BY <2>1, <2>2, <1>5, <1>10 DEF b
<1>11. CASE k = "distance"
  <2>1. j \in 1 .. NBSONAR /\ GroupStart(k) + j - 1 = NBDIN + NBBTN + NBMOTOR + j
    BY <1>1, <1>11 DEF GroupStart, SensorCount
  <2>2. StatusPlaces[NBDIN + NBBTN + NBMOTOR + j] = s[j]
    BY <2>1, <1>1, <1>13, <1>14
  <2> QED
    BY <2>1, <2>2, <1>5, <1>11 DEF s
<1>12. CASE k = "rgb"
  <2>1. j \in 1 .. NBRGBC /\ GroupStart(k) + j - 1 = NBDIN + NBBTN + NBMOTOR + NBSONAR + j
    BY <1>1, <1>12 DEF GroupStart, SensorCount
  <2>2. StatusPlaces[NBDIN + NBBTN + NBMOTOR + NBSONAR + j] = c[j]
    BY <2>1, <1>14
  <2> QED
    BY <2>1, <2>2, <1>5, <1>12 DEF c
<1> QED
  BY <1>9, <1>10, <1>11, <1>12 DEF SensorKinds

(* Functions on places from 1 on are lists; so are lists put together.     *)
LEMMA FunctionIsList ==
  ASSUME NEW N \in Nat, NEW f, f = [n \in 1 .. N |-> f[n]]
  PROVE  IsList(f) /\ DOMAIN f = 1 .. N /\ Len(f) = N
<1> DEFINE P == {f[n] : n \in 1 .. N}
<1>1. f \in [1 .. N -> P]
  OBVIOUS
<1> HIDE DEF P
<1>2. f \in Seq(P) /\ Len(f) = N
  BY <1>1, ListIsSeq
<1> QED
  BY <1>1, <1>2 DEF IsList

(* The places of a list are numbered from 1 to its length.                 *)
LEMMA PlacesOfList ==
  ASSUME NEW s, IsList(s)
  PROVE  Len(s) \in Nat /\ DOMAIN s = 1 .. Len(s)
  BY DEF IsList

(* q lists the members of s and of t.                                      *)
JoinOf(q, s, t) ==
    /\ IsList(q)
    /\ \A n \in DOMAIN q : \/ \E i \in DOMAIN s : q[n] = s[i]
                          \/ \E i \in DOMAIN t : q[n] = t[i]
    /\ \A i \in DOMAIN s : \E n \in DOMAIN q : q[n] = s[i]

(* A list followed by another lists the members of both.                   *)
LEMMA JoinedList ==
  ASSUME NEW s, IsList(s), NEW t, IsList(t)
  PROVE  JoinOf(s \o t, s, t)
<1> DEFINE P == {s[n] : n \in 1 .. Len(s)} \cup {t[n] : n \in 1 .. Len(t)}
           A == Len(s)
           B == Len(t)
<1>1. A \in Nat /\ B \in Nat /\ DOMAIN s = 1 .. A /\ DOMAIN t = 1 .. B
  BY PlacesOfList
<1>2. s \in [1 .. A -> P] /\ t \in [1 .. B -> P]
  <2>1. s = [n \in 1 .. A |-> s[n]] /\ t = [n \in 1 .. B |-> t[n]]
    BY DEF IsList
  <2> QED
    BY <2>1
<1> HIDE DEF P, A, B
<1>3. s \in Seq(P) /\ t \in Seq(P) /\ A = Len(s) /\ B = Len(t)
  BY <1>1, <1>2, ListIsSeq
<1>4. /\ s \o t \in Seq(P) /\ Len(s \o t) = A + B /\ A + B \in Nat
      /\ \A i \in 1 .. A : (s \o t)[i] = s[i]
      /\ \A i \in 1 .. B : (s \o t)[A + i] = t[i]
  BY ONLY <1>1, <1>3, ConcatMembers
<1>5. DOMAIN (s \o t) = 1 .. A + B
  BY <1>4
<1>6. IsList(s \o t)
  BY <1>4 DEF IsList
<1>7. ASSUME NEW n \in DOMAIN (s \o t)
      PROVE  \/ \E i \in DOMAIN s : (s \o t)[n] = s[i]
             \/ \E i \in DOMAIN t : (s \o t)[n] = t[i]
  <2>1. CASE n \in 1 .. A
    BY <2>1, <1>1, <1>4
  <2>2. CASE n \notin 1 .. A
    <3>1. n - A \in 1 .. B /\ A + (n - A) = n
      BY <2>2, <1>1, <1>5
    <3>2. (s \o t)[A + (n - A)] = t[n - A]
      BY <3>1, <1>4
    <3> QED
      BY <3>1, <3>2, <1>1
  <2> QED
    BY <2>1, <2>2
<1>8. ASSUME NEW i \in DOMAIN s
      PROVE  \E n \in DOMAIN (s \o t) : (s \o t)[n] = s[i]
  <2>1. i \in 1 .. A /\ i \in DOMAIN (s \o t)
    BY <1>1, <1>5
  <2> QED
    BY <2>1, <1>4
<1> QED
  BY <1>6, <1>7, <1>8 DEF JoinOf

(* A list of one.                                                          *)
LEMMA OneIsList ==
  ASSUME NEW e
  PROVE  IsList(<<e>>) /\ DOMAIN <<e>> = {1} /\ <<e>>[1] = e /\ IsList(<<>>)
<1>1. <<e>> \in Seq({e}) /\ Len(<<e>>) = 1 /\ <<e>>[1] = e
  OBVIOUS
<1>3. DOMAIN <<e>> = 1 .. Len(<<e>>)
  BY <1>1
<1>4. DOMAIN <<e>> = {1}
  BY <1>1, <1>3
<1>2. <<>> \in Seq({e})
  OBVIOUS
<1> QED
  BY <1>1, <1>2, <1>4 DEF IsList

(* Appending is joining a list of one.                                     *)
LEMMA AppendIsJoin ==
  ASSUME NEW s, IsList(s), NEW e
  PROVE  Append(s, e) = s \o <<e>>
<1> DEFINE P == {s[n] : n \in 1 .. Len(s)} \cup {e}
<1>1. s \in [1 .. Len(s) -> P] /\ Len(s) \in Nat
  BY DEF IsList
<1>2. e \in P
  OBVIOUS
<1> HIDE DEF P
<1>3. s \in Seq(P)
  BY <1>1, ListIsSeq
<1> QED
  BY <1>2, <1>3

------------------------------------------------------------------------------
(* What the messages say is true.                                          *)

(* An entry made from a sensor is true of it.                              *)
LEMMA ShownTrue ==
  ASSUME NEW k, NEW id \in Sensors(k), NEW r
  PROVE  /\ TrueEntry(r, k, Shown(k, id, r[k][id]))
         /\ "channel" \notin DOMAIN Shown(k, id, r[k][id])
<1>1. CASE k # "rgb" /\ r[k][id].value["value"] < 0
  BY <1>1 DEF Shown, TrueEntry
<1>2. CASE ~(k # "rgb" /\ r[k][id].value["value"] < 0)
  BY <1>2 DEF Shown, TrueEntry
<1> QED
  BY <1>1, <1>2

(* The status message shows every sensor of every kind but the battery.    *)
LEMMA StatusTrue ==
  ASSUME NEW type, NEW r
  PROVE  TrueMessage(r, Status(type, r))
<1> DEFINE m == Status(type, r)
<1>1. /\ m.param = "status" /\ DOMAIN m.entries = SensorKinds \ {"battery"}
      /\ \A k \in SensorKinds \ {"battery"} : m.entries[k] = StatusShown(r, k)
  BY DEF Status, Message
<1>2. ASSUME NEW k \in SensorKinds \ {"battery"}
      PROVE  Len(m.entries[k]) = SensorCount(k) /\ TrueList(r, k, m.entries[k])
  <2> DEFINE c == SensorCount(k)
             shown == StatusShown(r, k)
  <2>1. c \in Nat /\ Reached[k] = GroupStart(k) /\ GroupSize(k) = c /\ GroupStart(k) \in Nat
    BY SensorsOf, ReachedAtStart
  <2>2. PrintedPlaces[k] =
          IF LiesIn(k, GroupStart(k)) THEN [j \in 1 .. c |-> GroupStart(k) + j - 1] ELSE <<>>
    BY <2>1 DEF PrintedPlaces
  <2>3. DOMAIN PrintedPlaces[k] = 1 .. c
        /\ \A n \in 1 .. c : PrintedPlaces[k][n] = GroupStart(k) + n - 1
    <3>1. CASE c = 0
      BY <3>1, <2>1, <2>2 DEF LiesIn
    <3>2. CASE c # 0
      BY <3>2, <2>1, <2>2 DEF LiesIn
    <3> QED
      BY <3>1, <3>2
  <2>4. shown = [n \in 1 .. c |-> shown[n]]
    BY <2>3 DEF StatusShown
  <2>5. ASSUME NEW n \in 1 .. c
        PROVE  shown[n] = [id |-> n - 1, error |-> FALSE, value |-> r[k][n - 1].value,
                           on |-> r[k][n - 1].on]
    <3> DEFINE p == StatusPlaces[PrintedPlaces[k][n]]
               i == n - 1
    <3>1. p = [kind |-> k, id |-> i]
      BY <2>3, PlacesOfKind
    <3>2. shown[n] = [id |-> i, error |-> FALSE, value |-> r[p.kind][p.id].value,
                      on |-> r[p.kind][p.id].on]
      BY <2>3 DEF StatusShown
    <3> HIDE DEF p, i
    <3>3. p.kind = k /\ p.id = i
      BY <3>1
    <3>4. shown[n] = [id |-> i, error |-> FALSE, value |-> r[k][i].value, on |-> r[k][i].on]
      BY <3>2, <3>3
    <3> QED
      BY <3>4 DEF i
  <2> HIDE DEF shown
  <2>6. IsList(shown) /\ DOMAIN shown = 1 .. c /\ Len(shown) = c
    BY <2>1, <2>4, FunctionIsList
  <2>7. ASSUME NEW n \in 1 .. c
        PROVE  TrueEntry(r, k, shown[n]) /\ "channel" \notin DOMAIN shown[n]
    <3> DEFINE i == n - 1
    <3>1. i \in Sensors(k)
      BY <2>1, SensorsOf
    <3>2. shown[n] = [id |-> i, error |-> FALSE, value |-> r[k][i].value, on |-> r[k][i].on]
      BY <2>5
    <3> HIDE DEF i
    <3>3. shown[n].id = i /\ shown[n].value = r[k][i].value /\ "channel" \notin DOMAIN shown[n]
      BY <3>2
    <3> QED
      BY <3>1, <3>3 DEF TrueEntry
  <2>8. TrueList(r, k, shown)
    BY <2>6, <2>7 DEF TrueList
  <2> QED
    BY <1>1, <2>6, <2>8 DEF shown
<1>3. "status" \notin SensorKinds
  BY DEF SensorKinds
<1> HIDE DEF m
<1> QED
  BY <1>1, <1>2, <1>3 DEF TrueMessage, m

(* The answer of a request.                                                *)
LEMMA AnswersTrue ==
  ASSUME NEW k \in SensorKinds, NEW n \in 0 .. NENTRY, NEW entries,
         \A i \in 1 .. NENTRY : entries[i].id \in Nat, NEW r
  PROVE  /\ TrueMessage(r, Message("response", k, Answers(k, n, entries, r)))
         /\ n = 0 \/ DOMAIN Answers(k, n, entries, r) = 1 .. n
         /\ \A i \in 1 .. n : entries[i].id \in Sensors(k) =>
              Answers(k, n, entries, r)[i] = Shown(k, entries[i].id, r[k][entries[i].id])
<1> DEFINE c == IF n = 0 THEN AllCount(k) ELSE n
           a == Answers(k, n, entries, r)
           id(i) == IF n = 0 THEN i - 1 ELSE entries[i].id
<1>1. 1 \in 0 .. NENTRY /\ SensorCount(k) \in 0 .. NENTRY
  BY SensorsOf, SensorNumbers
<1>2. c \in 0 .. NENTRY
  BY <1>1 DEF AllCount
<1>3. a = [i \in 1 .. c |-> a[i]] /\ DOMAIN a = 1 .. c
  BY DEF Answers
<1>4. \A i \in 1 .. c : a[i] = IF entries[i].id < SensorCount(k)
                               THEN Shown(k, id(i), r[k][id(i)]) ELSE Refused(id(i))
  BY DEF Answers
<1> HIDE DEF a
<1>5. ASSUME NEW i \in 1 .. c
      PROVE  TrueEntry(r, k, a[i]) /\ "channel" \notin DOMAIN a[i]
  <2>1. entries[i].id \in Nat
    BY <1>2, SensorsOf
  <2>2. CASE entries[i].id < SensorCount(k)
    <3>1. id(i) \in Sensors(k)
      <4>1. CASE n = 0
        <5>1. CASE k = "battery"
          BY <4>1, <5>1, <2>1, <2>2, SensorsOf DEF AllCount
        <5>2. CASE k # "battery"
          BY <4>1, <5>2, SensorsOf DEF AllCount
        <5> QED
          BY <5>1, <5>2
      <4>2. CASE n # 0
        BY <4>2, <2>1, <2>2, SensorsOf
      <4> QED
        BY <4>1, <4>2
    <3> HIDE DEF id
    <3> QED
      BY <3>1, <2>2, <1>4, ShownTrue
  <2>3. CASE ~(entries[i].id < SensorCount(k))
    <3> HIDE DEF id
    <3>1. a[i] = [id |-> id(i), error |-> TRUE]
      BY <2>3, <1>4 DEF Refused
    <3>2. a[i].error /\ DOMAIN a[i] = {"id", "error"}
      BY <3>1
    <3> QED
      BY <3>2 DEF TrueEntry
  <2> QED
    BY <2>2, <2>3
<1>6. IsList(a)
  BY <1>2, <1>3, SensorsOf, FunctionIsList
<1>7. TrueList(r, k, a)
  BY <1>3, <1>5, <1>6 DEF TrueList
<1>8. k # "status"
  BY DEF SensorKinds
<1>9. TrueMessage(r, Message("response", k, a))
  BY <1>7, <1>8 DEF TrueMessage, Message
<1>10. ASSUME NEW i \in 1 .. n, entries[i].id \in Sensors(k)
       PROVE  a[i] = Shown(k, entries[i].id, r[k][entries[i].id])
  <2>1. n # 0 /\ c = n /\ id(i) = entries[i].id
    OBVIOUS
  <2>2. entries[i].id < SensorCount(k)
    BY <1>10, SensorsOf
  <2> QED
    BY <2>1, <2>2, <1>4
<1> QED
  BY <1>3, <1>9, <1>10 DEF a

------------------------------------------------------------------------------
(* What the host knows.                                                    *)

(* An entry of the messages tells the input d of kind k.                   *)
Tells(k, d, messages) == \E n \in DOMAIN messages : PlacesOn(k, d, messages[n]) # {}

(* The sensors: limits where they are compared, inputs that read -1, 0 or 1.*)
SensorTyped(r) ==
    /\ DOMAIN r = SensorKinds
    /\ \A k \in SensorKinds :
         /\ DOMAIN r[k] = Sensors(k)
         /\ \A d \in Sensors(k) :
              /\ DOMAIN r[k][d] = {"on", "value", "low", "high"}
              /\ r[k][d].on \in BOOLEAN
              /\ r[k][d].low = [c \in Limits(k) |-> r[k][d].low[c]]
              /\ r[k][d].high = [c \in Limits(k) |-> r[k][d].high[c]]
              /\ k \in InputKinds => r[k][d].value["value"] \in -1 .. 1
AskedTyped(a) ==
    DOMAIN a = SensorKinds /\ \A k \in SensorKinds : \A n \in 1 .. NENTRY : a[k][n].id \in Nat

SensorInv ==
    /\ SensorTyped(robot)
    /\ AskedTyped(asked)
    /\ dialogue \in Dialogues
    /\ hw \in dialogue.readings
    /\ TrueMessages(robot, out)
    /\ HostKnowsInputs

(* Who hears messages that are true knows what they tell.                  *)
LEMMA Hearing ==
  ASSUME NEW r, NEW messages, TrueMessages(r, messages), NEW t,
         NEW k \in InputKinds, NEW d \in Sensors(k)
  PROVE  IF Tells(k, d, messages)
         THEN Heard(t, messages)[k][d] = r[k][d].value["value"]
         ELSE Heard(t, messages)[k][d] = t[k][d]
<1> DEFINE S == {n \in DOMAIN messages : PlacesOn(k, d, messages[n]) # {}}
           said(m) == EntriesOn(k, m)[LastPlace(PlacesOn(k, d, m))].value["value"]
           values == [n \in DOMAIN messages |-> said(messages[n])]
<1>1. Heard(t, messages)[k][d] = Latest(S, values, t[k][d])
  BY DEF Heard
<1>2. Tells(k, d, messages) <=> S # {}
  BY DEF Tells
<1>3. CASE S = {}
  BY <1>1, <1>2, <1>3 DEF Latest
<1>4. CASE S # {}
  <2>1. Len(messages) \in Nat /\ DOMAIN messages = 1 .. Len(messages)
    BY PlacesOfList DEF TrueMessages
  <2>2. LastPlace(S) \in S
    <3> HIDE DEF values
    <3>1. S \in SUBSET (1 .. Len(messages))
      BY <2>1
    <3> QED
      BY <3>1, <2>1, <1>4, LastPlaceIn
  <2> DEFINE m == messages[LastPlace(S)]
             places == PlacesOn(k, d, m)
             e == EntriesOn(k, m)[LastPlace(places)]
  <2>3. Heard(t, messages)[k][d] = e.value["value"]
    BY <1>1, <1>4, <2>2 DEF Latest
  <2>4. places # {} /\ TrueMessage(r, m)
    BY <2>2 DEF TrueMessages
  <2> HIDE DEF m
  <2>5. TrueList(r, k, EntriesOn(k, m))
    <3>1. k \in SensorKinds \ {"battery"} /\ k # "status"
      BY DEF InputKinds, SensorKinds
    <3>2. CASE m.param = "status"
      BY <3>1, <3>2, <2>4 DEF TrueMessage, EntriesOn
    <3>3. CASE m.param = k
      BY <3>1, <3>3, <2>4 DEF TrueMessage, EntriesOn
    <3>4. CASE m.param # "status" /\ m.param # k
      BY <3>4, <2>4 DEF EntriesOn, PlacesOn
    <3> QED
      BY <3>2, <3>3, <3>4
  <2>6. places \in SUBSET (1 .. Len(EntriesOn(k, m))) /\ Len(EntriesOn(k, m)) \in Nat
    BY <2>5, PlacesOfList DEF TrueList, PlacesOn
  <2>7. LastPlace(places) \in places
    BY <2>4, <2>6, LastPlaceIn
  <2>8. ~e.error /\ e.id = d /\ TrueEntry(r, k, e) /\ "channel" \notin DOMAIN e
    BY <2>5, <2>7 DEF PlacesOn, TrueList
  <2> HIDE DEF e
  <2>9. e.value = r[k][d].value
    BY <2>8 DEF TrueEntry
  <2> QED
    BY <1>2, <1>4, <2>3, <2>9
<1> QED
  BY <1>3, <1>4

(* What one message may do: it is the only one and true.                   *)
LEMMA OneTrue ==
  ASSUME NEW r, NEW m, TrueMessage(r, m)
  PROVE  TrueMessages(r, <<m>>) /\ DOMAIN <<m>> = {1} /\ <<m>>[1] = m
<1>1. IsList(<<m>>) /\ DOMAIN <<m>> = {1} /\ <<m>>[1] = m
  BY OneIsList
<1> QED
  BY <1>1 DEF TrueMessages

(* To say nothing is to say nothing false.                                 *)
LEMMA NoneTrue ==
  ASSUME NEW r
  PROVE  TrueMessages(r, <<>>)
<1>1. <<>> \in Seq({}) /\ DOMAIN <<>> = {}
  OBVIOUS
<1> QED
  BY <1>1 DEF TrueMessages, IsList

(* Lists of true messages, joined, are true and tell what the first told.  *)
LEMMA JoinedTrue ==
  ASSUME NEW r, NEW s, TrueMessages(r, s), NEW t, TrueMessages(r, t),
         NEW q, JoinOf(q, s, t)
  PROVE  /\ TrueMessages(r, q)
         /\ \A k, d : Tells(k, d, s) => Tells(k, d, q)
<1>1. /\ IsList(q)
      /\ \A n \in DOMAIN q : \/ \E i \in DOMAIN s : q[n] = s[i]
                            \/ \E i \in DOMAIN t : q[n] = t[i]
      /\ \A i \in DOMAIN s : \E n \in DOMAIN q : q[n] = s[i]
  BY DEF JoinOf
<1>2. TrueMessages(r, q)
  BY <1>1 DEF TrueMessages
<1>3. \A k, d : Tells(k, d, s) => Tells(k, d, q)
  BY <1>1 DEF Tells
<1> QED
  BY <1>2, <1>3

(* A status that follows true messages is true.                            *)
LEMMA WithStatusTrue ==
  ASSUME NEW r, NEW s, TrueMessages(r, s), NEW onEvent
  PROVE  /\ TrueMessages(r, WithStatus(s, r, onEvent))
         /\ \A k, d : Tells(k, d, s) => Tells(k, d, WithStatus(s, r, onEvent))
<1> DEFINE m == Status("dataflow", r)
<1>1. CASE s = <<>> \/ onEvent # 1
  BY <1>1 DEF WithStatus
<1>2. CASE ~(s = <<>> \/ onEvent # 1)
  <2>1. WithStatus(s, r, onEvent) = s \o <<m>>
    BY <1>2, AppendIsJoin DEF WithStatus, TrueMessages
  <2>2. TrueMessages(r, <<m>>)
    BY StatusTrue, OneTrue
  <2> HIDE DEF m
  <2>3. IsList(s) /\ IsList(<<m>>)
    BY <2>2 DEF TrueMessages
  <2>4. JoinOf(WithStatus(s, r, onEvent), s, <<m>>)
    BY <2>1, <2>3, JoinedList
  <2> QED
    BY <2>2, <2>4, JoinedTrue
<1> QED
  BY <1>1, <1>2

------------------------------------------------------------------------------
(* What a step says and changes.                                           *)

(* A step whose messages are true, and that tells every input that is on   *)
(* of a change, leaves the host in the right.                              *)
LEMMA SaidKeeps ==
  ASSUME HostKnowsInputs, TrueMessages(robot', out'), told' = Heard(told, out'),
         \A k \in InputKinds : \A d \in Sensors(k) :
           robot'[k][d].on /\ robot'[k][d].value["value"] >= 0 =>
           \/ Tells(k, d, out')
           \/ robot[k][d].on /\ robot'[k][d].value["value"] = robot[k][d].value["value"]
  PROVE  HostKnowsInputs'
<1> SUFFICES ASSUME NEW k \in InputKinds, NEW d \in Sensors(k),
                    robot'[k][d].on, robot'[k][d].value["value"] >= 0, told'[k][d] # Unknown
             PROVE  told'[k][d] = robot'[k][d].value["value"]
  BY DEF HostKnowsInputs
<1>1. CASE Tells(k, d, out')
  BY <1>1, Hearing
<1>2. CASE ~Tells(k, d, out')
  <2>1. told'[k][d] = told[k][d]
    BY <1>2, Hearing
  <2>2. robot[k][d].on /\ robot'[k][d].value["value"] = robot[k][d].value["value"]
    BY <1>2
  <2> QED
    BY <2>1, <2>2 DEF HostKnowsInputs
<1> QED
  BY <1>1, <1>2

(* A host that knows nothing is not wrong.                                 *)
LEMMA NothingKnown ==
  \A k \in InputKinds : \A d \in Sensors(k) : KnowsNothing[k][d] = Unknown
  BY DEF KnowsNothing

(* The first loop of a request changes no value, and nothing but the       *)
(* settings of the sensors it names.                                       *)
LEMMA SettingsEffect ==
  ASSUME SensorTyped(robot), NEW k \in SensorKinds, NEW n \in Nat, NEW entries
  PROVE  LET r == Settings(k, n, entries)
         IN  /\ SensorTyped(r)
             /\ \A j \in SensorKinds : \A d \in Sensors(j) :
                  /\ r[j][d].value = robot[j][d].value
                  /\ \/ j = k /\ \E i \in 1 .. n : entries[i].id = d
                     \/ /\ r[j][d].on = robot[j][d].on
                        /\ r[j][d].low = robot[j][d].low
                        /\ r[j][d].high = robot[j][d].high
<1> DEFINE r == Settings(k, n, entries)
           named(d) == {i \in 1 .. n : entries[i].id = d}
           e(d) == EventsAfter(robot[k][d], entries, named(d))
           s(d) == LimitsAfter(k, e(d), entries, named(d))
<1>1. /\ DOMAIN robot = SensorKinds
      /\ \A j \in SensorKinds : DOMAIN robot[j] = Sensors(j)
  BY DEF SensorTyped
<1>2. /\ DOMAIN r = SensorKinds
      /\ \A j \in SensorKinds \ {k} : r[j] = robot[j]
      /\ r[k] = [d \in Sensors(k) |-> s(d)]
  BY <1>1 DEF Settings
<1> HIDE DEF r
<1>3. ASSUME NEW d \in Sensors(k)
      PROVE  /\ DOMAIN s(d) = {"on", "value", "low", "high"}
             /\ s(d).on \in BOOLEAN
             /\ s(d).low = [c \in Limits(k) |-> s(d).low[c]]
             /\ s(d).high = [c \in Limits(k) |-> s(d).high[c]]
             /\ s(d).value = robot[k][d].value
             /\ named(d) = {} => /\ s(d).on = robot[k][d].on
                                 /\ s(d).low = robot[k][d].low
                                 /\ s(d).high = robot[k][d].high
  <2> DEFINE old == robot[k][d]
             S == {i \in named(d) : entries[i].event \in {"on", "off"}}
             values == [i \in named(d) |-> entries[i].event = "on"]
  <2>1. /\ DOMAIN old = {"on", "value", "low", "high"} /\ old.on \in BOOLEAN
        /\ old.low = [c \in Limits(k) |-> old.low[c]]
        /\ old.high = [c \in Limits(k) |-> old.high[c]]
    BY DEF SensorTyped
  <2>2. e(d) = [old EXCEPT !.on = Latest(S, values, old.on)]
    BY DEF EventsAfter
  <2>3. Latest(S, values, old.on) \in BOOLEAN
    <3>1. CASE S = {}
      BY <3>1, <2>1 DEF Latest
    <3>2. CASE S # {}
      <4>1. S \in SUBSET (1 .. n)
        OBVIOUS
      <4>2. LastPlace(S) \in S
        BY <4>1, <3>2, LastPlaceIn
      <4>3. values[LastPlace(S)] \in BOOLEAN
        BY <4>2
      <4> QED
        BY <3>2, <4>3 DEF Latest
    <3> QED
      BY <3>1, <3>2
  <2>4. named(d) = {} => Latest(S, values, old.on) = old.on
    BY DEF Latest
  <2> DEFINE on == Latest(S, values, old.on)
             new == e(d)
             high(c) == Latest({i \in named(d) : entries[i].high[c] # 0},
                               [i \in named(d) |-> entries[i].high[c]], new.high[c])
             low(c) == Latest({i \in named(d) : (IF k = "battery" THEN entries[i].high[c]
                                                 ELSE entries[i].low[c]) # 0},
                              [i \in named(d) |-> entries[i].low[c]], new.low[c])
  <2>5. s(d) = [new EXCEPT !.high = [c \in Limits(k) |-> high(c)],
                           !.low = [c \in Limits(k) |-> low(c)]]
    BY DEF LimitsAfter
  <2>6. named(d) = {} => \A c : high(c) = new.high[c] /\ low(c) = new.low[c]
    BY DEF Latest
  <2> HIDE DEF named, on, S, values, high, low, old
  <2>7. /\ DOMAIN new = {"on", "value", "low", "high"} /\ new.on = on
        /\ new.value = old.value /\ new.low = old.low /\ new.high = old.high
    BY <2>1, <2>2 DEF on
  <2> HIDE DEF new
  <2>8. /\ DOMAIN s(d) = {"on", "value", "low", "high"}
        /\ s(d).on = on /\ s(d).value = old.value
        /\ s(d).high = [c \in Limits(k) |-> high(c)]
        /\ s(d).low = [c \in Limits(k) |-> low(c)]
    BY <2>5, <2>7
  <2> HIDE DEF s
  <2>9. named(d) = {} => s(d).low = old.low /\ s(d).high = old.high
    <3> SUFFICES ASSUME named(d) = {} PROVE s(d).low = old.low /\ s(d).high = old.high
      OBVIOUS
    <3>1. \A c \in Limits(k) : high(c) = old.high[c] /\ low(c) = old.low[c]
      BY <2>6, <2>7
    <3> QED
      BY <3>1, <2>1, <2>8
  <2> QED
    BY <2>3, <2>4, <2>8, <2>9 DEF on, old
<1>4. \A d \in Sensors(k) : named(d) = {} \/ \E i \in 1 .. n : entries[i].id = d
  OBVIOUS
<1> HIDE DEF named, s
<1>5. SensorTyped(r)
  <2>1. ASSUME NEW d \in Sensors(k), k \in InputKinds
        PROVE  r[k][d].value["value"] \in -1 .. 1
    <3>1. r[k][d].value = robot[k][d].value
      BY <1>2, <1>3, <2>1
    <3>2. robot[k][d].value["value"] \in -1 .. 1
      BY <2>1 DEF SensorTyped
    <3> QED
      BY <3>1, <3>2
  <2> QED
    BY <1>1, <1>2, <1>3, <2>1 DEF SensorTyped
<1>6. ASSUME NEW j \in SensorKinds, NEW d \in Sensors(j)
      PROVE  /\ r[j][d].value = robot[j][d].value
             /\ \/ j = k /\ \E i \in 1 .. n : entries[i].id = d
                \/ /\ r[j][d].on = robot[j][d].on
                   /\ r[j][d].low = robot[j][d].low
                   /\ r[j][d].high = robot[j][d].high
  <2>1. CASE j # k
    BY <2>1, <1>2
  <2>2. CASE j = k
    <3>1. d \in Sensors(k) /\ r[j][d] = s(d) /\ robot[j][d] = robot[k][d]
      BY <2>2, <1>2
    <3>2. r[j][d].value = robot[j][d].value
      BY <3>1, <1>3
    <3>3. CASE named(d) = {}
      BY <3>1, <3>2, <3>3, <1>3
    <3>4. CASE named(d) # {}
      BY <2>2, <3>1, <3>2, <3>4, <1>4
    <3> QED
      BY <3>3, <3>4
  <2> QED
    BY <2>1, <2>2
<1> QED
  BY <1>5, <1>6 DEF r

(* What a step is that sends messages to a host that listens: they are     *)
(* true, and an input that is on, can be read and has changed is told.     *)
Truthful ==
    /\ SensorTyped(robot') /\ AskedTyped(asked')
    /\ TrueMessages(robot', out')
    /\ told' = Heard(told, out')
    /\ \A k \in InputKinds : \A d \in Sensors(k) :
         robot'[k][d].on /\ robot'[k][d].value["value"] >= 0 =>
         \/ Tells(k, d, out')
         \/ robot[k][d].on /\ robot'[k][d].value["value"] = robot[k][d].value["value"]

(* Messages about anything else say nothing of the sensors.                *)
LEMMA OtherTrue ==
  ASSUME NEW r, NEW messages, IsList(messages),
         \A n \in DOMAIN messages : messages[n].param \notin SensorKinds \cup {"status"}
  PROVE  TrueMessages(r, messages)
  BY DEF TrueMessages, TrueMessage

(* A step that leaves the sensors alone may say anything that is true.     *)
LEMMA SayingIsTruthful ==
  ASSUME SensorInv, NEW messages, Say(messages), TrueMessages(robot, messages),
         UNCHANGED <<robot, asked>>
  PROVE  Truthful
<1>1. robot' = robot /\ asked' = asked /\ out' = messages /\ told' = Heard(told, out')
  BY DEF Say
<1>2. TrueMessages(robot', out')
  BY <1>1
<1>3. SensorTyped(robot') /\ AskedTyped(asked')
  BY <1>1 DEF SensorInv
<1> QED
  BY <1>1, <1>2, <1>3 DEF Truthful

(* The names of the commands are not those of sensors.                     *)
LEMMA CommandsAreNoSensors ==
  "config" \notin SensorKinds \cup {"status"} /\ "system" \notin SensorKinds \cup {"status"}
  BY DEF SensorKinds

(* The answers to the commands.                                            *)
LEMMA ConfigAnswer ==
  ASSUME SensorInv, NEW m,
         Say(<<[type |-> "response", param |-> "config", entries |-> <<ConfigReply(m)>>]>>),
         UNCHANGED <<robot, asked>>
  PROVE  Truthful
<1> DEFINE a == [type |-> "response", param |-> "config", entries |-> <<ConfigReply(m)>>]
<1>1. a.param = "config"
  OBVIOUS
<1> HIDE DEF a
<1>2. IsList(<<a>>) /\ DOMAIN <<a>> = {1} /\ <<a>>[1] = a
  BY OneIsList
<1>3. TrueMessages(robot, <<a>>)
  BY <1>1, <1>2, CommandsAreNoSensors, OtherTrue
<1>4. Say(<<a>>)
  BY DEF a
<1> QED
  BY <1>3, <1>4, SayingIsTruthful

(* Nor do the answers to a SYSTEM command speak of sensors.                *)
LEMMA SystemAnswer ==
  ASSUME SensorInv, NEW m, PullSystem(m)
  PROVE  Truthful
<1> DEFINE a == [type |-> "response", param |-> "system", entries |-> <<m.application>>]
           e == [a EXCEPT !.type = "event"]
<1>1. a.param = "system" /\ e.param = "system" /\ Report.param = "system"
  BY DEF Report
<1>2. /\ UNCHANGED <<robot, asked>>
      /\ Say(<<>>) \/ Say(<<Report, a>>) \/ Say(<<a, e, Report, Report>>) \/ Say(<<a, Report>>)
  BY DEF PullSystem
<1> HIDE DEF a, e
<1>3. ASSUME NEW x, NEW y, x.param = "system", y.param = "system"
      PROVE  TrueMessages(robot, <<x, y>>)
  <2> DEFINE q == <<x, y>>
  <2>1. q \in Seq({x, y}) /\ DOMAIN q = 1 .. 2 /\ q[1] = x /\ q[2] = y
    OBVIOUS
  <2> HIDE DEF q
  <2>2. IsList(q) /\ \A n \in DOMAIN q : q[n] \in {x, y}
    BY <2>1 DEF IsList
  <2>3. TrueMessages(robot, q)
    BY <2>2, <1>3, CommandsAreNoSensors, OtherTrue
  <2> QED
    BY <2>3 DEF q
<1>4. TrueMessages(robot, <<a, e, Report, Report>>)
  <2> DEFINE q == <<a, e, Report, Report>>
  <2>1. q \in Seq({a, e, Report}) /\ DOMAIN q = 1 .. 4
        /\ q[1] = a /\ q[2] = e /\ q[3] = Report /\ q[4] = Report
    OBVIOUS
  <2> HIDE DEF q
  <2>2. IsList(q) /\ \A n \in DOMAIN q : q[n] \in {a, e, Report}
    BY <2>1 DEF IsList
  <2>3. TrueMessages(robot, q)
    BY <2>2, <1>1, CommandsAreNoSensors, OtherTrue
  <2> QED
    BY <2>3 DEF q
<1> QED
  BY <1>1, <1>2, <1>3, <1>4, NoneTrue, SayingIsTruthful

(* A request: what is asked has ids, and what is said of it is true.       *)
LEMMA RequestTruthful ==
  ASSUME SensorInv, NEW k \in SensorKinds, NEW n \in 0 .. NENTRY, NEW arrays,
         AskedTyped(arrays), MakeRequest(k, n, arrays)
  PROVE  /\ Truthful
         /\ \A j \in SensorKinds : \A d \in Sensors(j) :
              \/ /\ robot'[j][d].on = robot[j][d].on
                 /\ robot'[j][d].low = robot[j][d].low
                 /\ robot'[j][d].high = robot[j][d].high
              \/ /\ j = k /\ DOMAIN out' = {1}
                 /\ \E i \in DOMAIN out'[1].entries :
                      out'[1] = Message("response", k, out'[1].entries)
                      /\ out'[1].entries[i] = Shown(k, d, robot'[k][d])
<1> DEFINE entries == arrays[k]
           r == Settings(k, n, entries)
           answers == Answers(k, n, entries, r)
           m == Message("response", k, answers)
<1>1. robot' = r /\ asked' = arrays /\ out' = <<m>> /\ told' = Heard(told, out')
  BY DEF MakeRequest, Say
<1>2. \A i \in 1 .. NENTRY : entries[i].id \in Nat
  BY DEF AskedTyped
<1>3. n \in Nat /\ \A i \in 1 .. n : i \in 1 .. NENTRY
  BY SensorsOf
<1>4. SensorTyped(robot)
  BY DEF SensorInv
<1> HIDE DEF entries
<1>5. /\ SensorTyped(r)
      /\ \A j \in SensorKinds : \A d \in Sensors(j) :
           /\ r[j][d].value = robot[j][d].value
           /\ \/ j = k /\ \E i \in 1 .. n : entries[i].id = d
              \/ /\ r[j][d].on = robot[j][d].on
                 /\ r[j][d].low = robot[j][d].low
                 /\ r[j][d].high = robot[j][d].high
  BY <1>3, <1>4, SettingsEffect
<1> HIDE DEF r
<1>6. /\ TrueMessage(r, m)
      /\ n = 0 \/ DOMAIN answers = 1 .. n
      /\ \A i \in 1 .. n : entries[i].id \in Sensors(k) =>
           answers[i] = Shown(k, entries[i].id, r[k][entries[i].id])
  BY <1>2, AnswersTrue
<1>7. m.entries = answers /\ m = Message("response", k, m.entries) /\ m.param = k
  BY DEF Message
<1> HIDE DEF answers, m
<1>8. TrueMessages(r, <<m>>) /\ DOMAIN <<m>> = {1} /\ <<m>>[1] = m
  BY <1>6, OneTrue
<1>9. ASSUME NEW d \in Sensors(k), NEW i \in 1 .. n, entries[i].id = d
      PROVE  i \in DOMAIN answers /\ answers[i] = Shown(k, d, r[k][d])
  <2>1. n # 0
    BY <1>3
  <2> QED
    BY <2>1, <1>6, <1>9
<1>10. ASSUME NEW d \in Sensors(k), k \in InputKinds, NEW i \in 1 .. n, entries[i].id = d,
              r[k][d].value["value"] >= 0
       PROVE  Tells(k, d, out')
  <2>1. r[k][d].value["value"] \in -1 .. 1 /\ r[k][d].value["value"] >= 0
    BY <1>5, <1>10 DEF SensorTyped
  <2>2. ~Shown(k, d, r[k][d]).error /\ Shown(k, d, r[k][d]).id = d
    BY <2>1 DEF Shown
  <2>3. k # "status"
    BY DEF SensorKinds
  <2>4. EntriesOn(k, m) = answers
    BY <1>7, <2>3 DEF EntriesOn
  <2>5. i \in PlacesOn(k, d, m)
    BY <2>2, <2>4, <1>9, <1>10 DEF PlacesOn
  <2> QED
    BY <2>5, <1>1, <1>8 DEF Tells
<1>11. ASSUME NEW j \in InputKinds, NEW d \in Sensors(j), robot'[j][d].on,
              robot'[j][d].value["value"] >= 0
       PROVE  \/ Tells(j, d, out')
              \/ robot[j][d].on /\ robot'[j][d].value["value"] = robot[j][d].value["value"]
  <2>1. j \in SensorKinds
    BY DEF InputKinds, SensorKinds
  <2>2. CASE j = k /\ \E i \in 1 .. n : entries[i].id = d
    BY <2>2, <1>1, <1>10, <1>11
  <2>3. CASE ~(j = k /\ \E i \in 1 .. n : entries[i].id = d)
    BY <2>1, <2>3, <1>1, <1>5, <1>11
  <2> QED
    BY <2>2, <2>3
<1>12. Truthful
  <2>1. SensorTyped(robot') /\ TrueMessages(robot', out')
    BY <1>1, <1>5, <1>8
  <2>2. AskedTyped(asked')
    BY <1>1
  <2> QED
    BY <2>1, <2>2, <1>1, <1>11 DEF Truthful
<1>13. ASSUME NEW j \in SensorKinds, NEW d \in Sensors(j)
       PROVE  \/ /\ robot'[j][d].on = robot[j][d].on
                 /\ robot'[j][d].low = robot[j][d].low
                 /\ robot'[j][d].high = robot[j][d].high
              \/ /\ j = k /\ DOMAIN out' = {1}
                 /\ \E i \in DOMAIN out'[1].entries :
                      out'[1] = Message("response", k, out'[1].entries)
                      /\ out'[1].entries[i] = Shown(k, d, robot'[k][d])
  <2>1. CASE j = k /\ \E i \in 1 .. n : entries[i].id = d
    <3>1. PICK i \in 1 .. n : entries[i].id = d
      BY <2>1
    <3>2. i \in DOMAIN answers /\ answers[i] = Shown(k, d, r[k][d])
      BY <2>1, <3>1, <1>9
    <3>3. out'[1] = m /\ DOMAIN out' = {1}
      BY <1>1, <1>8
    <3> QED
      BY <2>1, <3>2, <3>3, <1>1, <1>7
  <2>2. CASE ~(j = k /\ \E i \in 1 .. n : entries[i].id = d)
    BY <2>2, <1>1, <1>5
  <2> QED
    BY <2>1, <2>2
<1> QED
  BY <1>12, <1>13

(* What a request comes down to: the status, or the two loops of one kind  *)
(* of sensors over arrays that are typed.                                  *)
LEMMA RequestCases ==
  ASSUME SensorInv, NEW m \in dialogue.messages, PullRequest(m)
  PROVE  \/ Say(<<Status("response", robot)>>) /\ UNCHANGED <<robot, asked>>
         \/ \E k \in SensorKinds : \E n \in 0 .. NENTRY : \E arrays :
              AskedTyped(arrays) /\ MakeRequest(k, n, arrays)
<1> DEFINE n == Len(m.entries)
           arrays == IF m.param \in SensorKinds THEN AskedAfter(m.param, m.entries) ELSE asked
<1>1. IsRequest(m) /\ processAlgoidRequest(m)
  BY DialoguesAssumption DEF PullRequest, SensorInv
<1>2. /\ n \in 0 .. NENTRY
      /\ \A i \in 1 .. n : m.entries[i].id \in Nat
  BY <1>1 DEF IsRequest
<1>3. AskedTyped(arrays)
  <2>0. AskedTyped(asked)
    BY DEF SensorInv
  <2>1. CASE m.param \in SensorKinds
    <3> DEFINE k == m.param
               list == [i \in 1 .. NENTRY |->
                          IF i <= n THEN m.entries[i] ELSE asked[k][i]]
    <3>1. AskedAfter(k, m.entries) = [asked EXCEPT ![k] = list]
      BY DEF AskedAfter
    <3>2. \A i \in 1 .. NENTRY : list[i].id \in Nat
      <4>1. TAKE i \in 1 .. NENTRY
      <4>2. CASE i <= n
        BY <4>2, <1>2, SensorsOf
      <4>3. CASE ~(i <= n)
        BY <4>3, <2>0, <2>1 DEF AskedTyped
      <4> QED
        BY <4>2, <4>3
    <3> HIDE DEF list
    <3> QED
      BY <2>0, <2>1, <3>1, <3>2 DEF AskedTyped
  <2>2. CASE m.param \notin SensorKinds
    BY <2>0, <2>2
  <2> QED
    BY <2>1, <2>2
<1>4. \/ Say(<<Status("response", robot)>>) /\ UNCHANGED <<robot, asked>>
      \/ \E k \in SensorKinds : MakeRequest(k, n, arrays)
      \/ MakeRequest("rgb", IF n = 0 THEN NBMOTOR ELSE n, arrays)
  BY <1>1 DEF processAlgoidRequest, makeSensorsRequest, makeButtonRequest, makeDistanceRequest,
     makeBatteryRequest, makeRgbRequest, makeMotorRequest, SensorKinds
<1>5. NBMOTOR \in 0 .. NENTRY /\ "rgb" \in SensorKinds
  BY SensorsOf DEF SensorKinds
<1> HIDE DEF n, arrays
<1> QED
  BY <1>2, <1>3, <1>4, <1>5

(* The sensors of one kind with the values just read.                      *)
LEMMA UpdatedEffect ==
  ASSUME SensorInv, NEW k \in SensorKinds
  PROVE  LET r == [robot EXCEPT ![k] = Updated(k)]
         IN  /\ SensorTyped(r)
             /\ \A j \in SensorKinds : \A d \in Sensors(j) :
                  /\ r[j][d].on = robot[j][d].on
                  /\ r[j][d].value = IF j = k THEN hw[k][d] ELSE robot[j][d].value
             /\ k \in InputKinds => \A d \in Sensors(k) : hw[k][d]["value"] \in -1 .. 1
<1> DEFINE r == [robot EXCEPT ![k] = Updated(k)]
<1>1. /\ DOMAIN robot = SensorKinds
      /\ \A j \in SensorKinds :
           /\ DOMAIN robot[j] = Sensors(j)
           /\ \A d \in Sensors(j) :
                /\ DOMAIN robot[j][d] = {"on", "value", "low", "high"}
                /\ robot[j][d].on \in BOOLEAN
                /\ robot[j][d].low = [c \in Limits(j) |-> robot[j][d].low[c]]
                /\ robot[j][d].high = [c \in Limits(j) |-> robot[j][d].high[c]]
                /\ j \in InputKinds => robot[j][d].value["value"] \in -1 .. 1
  BY DEF SensorInv, SensorTyped
<1>2. /\ DOMAIN r = SensorKinds /\ \A j \in SensorKinds \ {k} : r[j] = robot[j]
      /\ r[k] = Updated(k)
  BY <1>1
<1>3. IsReading(hw)
  BY DialoguesAssumption DEF SensorInv
<1>4. k \in InputKinds => \A d \in Sensors(k) : hw[k][d]["value"] \in -1 .. 1
  BY <1>3 DEF IsReading
<1> HIDE DEF r
<1>5. /\ DOMAIN r[k] = Sensors(k)
      /\ \A d \in Sensors(k) :
           /\ DOMAIN r[k][d] = {"on", "value", "low", "high"}
           /\ r[k][d].on = robot[k][d].on /\ r[k][d].value = hw[k][d]
           /\ r[k][d].low = robot[k][d].low /\ r[k][d].high = robot[k][d].high
  <2>1. DOMAIN r[k] = Sensors(k) /\ \A d \in Sensors(k) : r[k][d] = [robot[k][d] EXCEPT !.value = hw[k][d]]
    BY <1>2 DEF Updated
  <2> QED
    BY <1>1, <2>1
<1>6. SensorTyped(r)
  <2>1. ASSUME NEW j \in SensorKinds
        PROVE  /\ DOMAIN r[j] = Sensors(j)
               /\ \A d \in Sensors(j) :
                    /\ DOMAIN r[j][d] = {"on", "value", "low", "high"}
                    /\ r[j][d].on \in BOOLEAN
                    /\ r[j][d].low = [c \in Limits(j) |-> r[j][d].low[c]]
                    /\ r[j][d].high = [c \in Limits(j) |-> r[j][d].high[c]]
                    /\ j \in InputKinds => r[j][d].value["value"] \in -1 .. 1
    <3>1. CASE j # k
      BY <3>1, <1>1, <1>2
    <3>2. CASE j = k
      BY <3>2, <1>1, <1>4, <1>5
    <3> QED
      BY <3>1, <3>2
  <2> QED
    BY <1>2, <2>1 DEF SensorTyped
<1>7. ASSUME NEW j \in SensorKinds, NEW d \in Sensors(j)
      PROVE  /\ r[j][d].on = robot[j][d].on
             /\ r[j][d].value = IF j = k THEN hw[k][d] ELSE robot[j][d].value
  BY <1>2, <1>5
<1> QED
  BY <1>4, <1>6, <1>7 DEF r

(* A set of sensors is finite.                                             *)
LEMMA SensorsFinite ==
  ASSUME NEW k \in SensorKinds, NEW S \in SUBSET Sensors(k)
  PROVE  S \subseteq Nat /\ IsFiniteSet(S)
<1>1. SensorCount(k) \in Nat /\ Sensors(k) = 0 .. SensorCount(k) - 1
  BY SensorsOf
<1>2. IsFiniteSet(Sensors(k))
  BY <1>1, FS_Interval
<1> QED
  BY <1>1, <1>2, FS_Subset

(* The check of the inputs tells every change of an input that is on.      *)
LEMMA InputCheckTruthful ==
  ASSUME SensorInv, NEW k \in InputKinds, NEW onEvent, InputCheck(k, onEvent), asked' = asked
  PROVE  Truthful
<1> DEFINE r == [robot EXCEPT ![k] = Updated(k)]
           S == {d \in Sensors(k) : Changed(k, d)}
           events == Ascending(S)
           entries == [n \in DOMAIN events |-> Shown(k, events[n], r[k][events[n]])]
           m == Message("event", k, entries)
           said == IF events = <<>> THEN <<>> ELSE <<m>>
<1>1. robot' = r /\ out' = WithStatus(said, r, onEvent) /\ told' = Heard(told, out')
  BY DEF InputCheck, Say
<1>2. k \in SensorKinds /\ InputKinds \subseteq SensorKinds /\ k # "status"
  BY DEF InputKinds, SensorKinds
<1>3. /\ SensorTyped(r)
      /\ \A j \in SensorKinds : \A d \in Sensors(j) :
           /\ r[j][d].on = robot[j][d].on
           /\ r[j][d].value = IF j = k THEN hw[k][d] ELSE robot[j][d].value
      /\ \A d \in Sensors(k) : hw[k][d]["value"] \in -1 .. 1
  BY <1>2, UpdatedEffect
<1> HIDE DEF r
<1>4. S \in SUBSET Nat /\ IsFiniteSet(S) /\ S \subseteq Sensors(k)
  BY <1>2, SensorsFinite
<1> DEFINE c == Cardinality(S)
<1>5. /\ c \in Nat /\ DOMAIN events = 1 .. c
      /\ \A n \in 1 .. c : events[n] \in S
      /\ \A d \in S : \E n \in 1 .. c : events[n] = d
  <2>1. DOMAIN events = 1 .. c
    BY DEF Ascending
  <2> HIDE DEF S
  <2> QED
    BY <2>1, <1>4, AscendingLists
<1> HIDE DEF events, c, S
<1>6. /\ entries = [n \in 1 .. c |-> entries[n]] /\ DOMAIN entries = 1 .. c
      /\ \A n \in 1 .. c : entries[n] = Shown(k, events[n], r[k][events[n]])
  BY <1>5
<1> HIDE DEF entries
<1>7. TrueMessage(r, m)
  <2>1. IsList(entries)
    BY <1>5, <1>6, FunctionIsList
  <2>2. \A n \in 1 .. c : TrueEntry(r, k, entries[n]) /\ "channel" \notin DOMAIN entries[n]
    BY <1>4, <1>5, <1>6, ShownTrue
  <2>3. TrueList(r, k, entries)
    BY <1>6, <2>1, <2>2 DEF TrueList
  <2> QED
    BY <1>2, <2>3 DEF TrueMessage, Message
<1>8. m.param = k /\ m.entries = entries
  BY DEF Message
<1> HIDE DEF m
<1>9. TrueMessages(r, <<m>>) /\ DOMAIN <<m>> = {1} /\ <<m>>[1] = m
  BY <1>7, OneTrue
<1>10. TrueMessages(r, said)
  BY <1>9, NoneTrue
<1>11. ASSUME NEW d \in S, r[k][d].value["value"] >= 0
       PROVE  Tells(k, d, said)
  <2>1. PICK n \in 1 .. c : events[n] = d
    BY <1>5
  <2>2. said = <<m>>
    <3>1. <<>> \in Seq({}) /\ DOMAIN <<>> = {}
      OBVIOUS
    <3>2. events # <<>>
      BY <2>1, <3>1, <1>5
    <3> QED
      BY <3>2
  <2>3. r[k][d].value["value"] \in -1 .. 1 /\ r[k][d].value["value"] >= 0
    BY <1>2, <1>3, <1>4, <1>11
  <2>4. entries[n] = Shown(k, d, r[k][d])
    BY <2>1, <1>6
  <2>5. ~entries[n].error /\ entries[n].id = d
    BY <2>3, <2>4 DEF Shown
  <2>6. EntriesOn(k, m) = entries
    BY <1>2, <1>8 DEF EntriesOn
  <2>7. n \in PlacesOn(k, d, m)
    BY <2>1, <2>5, <2>6, <1>6 DEF PlacesOn
  <2> QED
    BY <2>2, <2>7, <1>9 DEF Tells
<1> HIDE DEF said
<1>12. /\ TrueMessages(r, WithStatus(said, r, onEvent))
       /\ \A d \in S : r[k][d].value["value"] >= 0 =>
            Tells(k, d, WithStatus(said, r, onEvent))
  BY <1>10, <1>11, WithStatusTrue
<1>13. ASSUME NEW j \in InputKinds, NEW d \in Sensors(j), robot'[j][d].on,
              robot'[j][d].value["value"] >= 0
       PROVE  \/ Tells(j, d, out')
              \/ robot[j][d].on /\ robot'[j][d].value["value"] = robot[j][d].value["value"]
  <2>1. j \in SensorKinds /\ robot[j][d].on
    BY <1>1, <1>2, <1>3, <1>13
  <2>2. CASE j # k
    BY <2>1, <2>2, <1>1, <1>3
  <2>3. CASE j = k /\ d \in S
    BY <2>3, <1>1, <1>12, <1>13
  <2>4. CASE j = k /\ d \notin S
    <3> DEFINE old == robot[k][d].value["value"]
               new == hw[k][d]["value"]
    <3>1. old % 256 = new
      BY <2>1, <2>4 DEF S, Changed
    <3>2. old \in -1 .. 1 /\ new \in -1 .. 1
      BY <1>2, <1>3, <2>4 DEF SensorInv, SensorTyped
    <3>3. robot'[j][d].value["value"] = new /\ robot[j][d].value["value"] = old
      BY <2>1, <2>4, <1>1, <1>3
    <3>4. new >= 0
      BY <3>3, <1>13
    <3> HIDE DEF old, new
    <3>5. old = new
      BY <3>1, <3>2, <3>4
    <3> QED
      BY <3>3, <3>5, <2>1
  <2> QED
    BY <2>2, <2>3, <2>4
<1>14. SensorTyped(robot') /\ TrueMessages(robot', out')
  BY <1>1, <1>3, <1>12
<1>15. AskedTyped(asked')
  BY DEF SensorInv
<1> QED
  BY <1>1, <1>13, <1>14, <1>15 DEF Truthful

(* A step that leaves the inputs alone tells none of them.                 *)
LEMMA InputsAlone ==
  ASSUME SensorInv, NEW k \in Ranged, robot' = [robot EXCEPT ![k] = Updated(k)] \/ robot' = robot
  PROVE  /\ SensorTyped(robot')
         /\ \A j \in InputKinds : \A d \in Sensors(j) :
              robot'[j][d].on = robot[j][d].on /\ robot'[j][d].value = robot[j][d].value
<1>1. k \in SensorKinds /\ InputKinds \subseteq SensorKinds /\ k \notin InputKinds
  BY DEF Ranged, InputKinds, SensorKinds
<1>2. CASE robot' = robot
  BY <1>2 DEF SensorInv
<1>3. CASE robot' = [robot EXCEPT ![k] = Updated(k)]
  <2> DEFINE r == [robot EXCEPT ![k] = Updated(k)]
  <2>1. /\ SensorTyped(r)
        /\ \A j \in SensorKinds : \A d \in Sensors(j) :
             /\ r[j][d].on = robot[j][d].on
             /\ r[j][d].value = IF j = k THEN hw[k][d] ELSE robot[j][d].value
    BY <1>1, UpdatedEffect
  <2> HIDE DEF r
  <2>2. robot' = r
    BY <1>3 DEF r
  <2> QED
    BY <2>1, <2>2, <1>1
<1> QED
  BY <1>2, <1>3

(* Crossings lists sensors of the board with channels they have.           *)
LEMMA CrossingsLie ==
  ASSUME NEW k \in Ranged, NEW r
  PROVE  \E N \in Nat :
           /\ Crossings(k, r) = [n \in 1 .. N |-> Crossings(k, r)[n]]
           /\ \A n \in 1 .. N : /\ Crossings(k, r)[n].id \in Sensors(k)
                                /\ Crossings(k, r)[n].channel \in Channels(k)
<1> DEFINE channels == IF k = "rgb" THEN ColourOrder ELSE <<"value">>
           L == IF k = "rgb" THEN 3 ELSE 1
           C == SensorCount(k)
           at(n) == [id |-> n \div Len(channels), channel |-> channels[1 + (n % Len(channels))]]
           flips(p) == Flags(k, r)[k][p.id][p.channel] # warned[k][p.id][p.channel]
           S == {n \in 0 .. C * Len(channels) - 1 : flips(at(n))}
           crossed == Ascending(S)
           N == Cardinality(S)
<1>1. C \in Nat /\ Sensors(k) = 0 .. C - 1
  BY SensorsOf DEF Ranged, SensorKinds
<1>2. Len(channels) = L /\ \A i \in 1 .. L : channels[i] \in Channels(k)
  <2>1. CASE k = "rgb"
    BY <2>1, ColourOrderAssumption
  <2>2. CASE k # "rgb"
    BY <2>2 DEF Channels
  <2> QED
    BY <2>1, <2>2
<1>3. Crossings(k, r) = [n \in DOMAIN crossed |-> at(crossed[n])]
  BY DEF Crossings
<1>4. DOMAIN crossed = 1 .. N
  BY DEF Ascending
<1> HIDE DEF flips, channels, C
<1>5. \A n \in 0 .. C * L - 1 : n \div L \in 0 .. C - 1 /\ 1 + (n % L) \in 1 .. L
  <2>1. CASE k = "rgb"
    BY <2>1, <1>1
  <2>2. CASE k # "rgb"
    BY <2>2, <1>1
  <2> QED
    BY <2>1, <2>2
<1>6. C * L - 1 \in Int
  BY <1>1
<1>7. S \subseteq 0 .. C * L - 1
  BY <1>2
<1> HIDE DEF L, S
<1>8. S \in SUBSET Nat /\ IsFiniteSet(S)
  <2> DEFINE M == C * L - 1
  <2>1. M \in Int /\ S \in SUBSET (0 .. M)
    BY <1>6, <1>7
  <2> HIDE DEF M
  <2>2. IsFiniteSet(0 .. M)
    BY <2>1, FS_Interval
  <2>3. S \in SUBSET Nat
    BY <2>1
  <2> QED
    BY <2>1, <2>2, <2>3, FS_Subset
<1>9. N \in Nat /\ \A n \in 1 .. N : crossed[n] \in S
  BY <1>8, AscendingLists
<1> HIDE DEF crossed, N
<1>10. ASSUME NEW n \in 1 .. N
       PROVE  /\ Crossings(k, r)[n].id \in Sensors(k)
              /\ Crossings(k, r)[n].channel \in Channels(k)
  <2> DEFINE x == crossed[n]
  <2>1. x \in 0 .. C * L - 1
    BY <1>7, <1>9
  <2>2. Crossings(k, r)[n] = [id |-> x \div L, channel |-> channels[1 + (x % L)]]
    BY <1>2, <1>3, <1>4
  <2> HIDE DEF x
  <2>3. x \div L \in 0 .. C - 1 /\ 1 + (x % L) \in 1 .. L
    BY <2>1, <1>5
  <2> QED
    BY <2>2, <2>3, <1>1, <1>2
<1>11. Crossings(k, r) = [n \in 1 .. N |-> Crossings(k, r)[n]]
  BY <1>3, <1>4
<1> QED
  BY <1>9, <1>10, <1>11

(* The checks of ranges: an event per crossing.                            *)
LEMMA RangeCheckTruthful ==
  ASSUME SensorInv, NEW k \in Ranged, k # "rgb", NEW onEvent, RangeCheck(k, onEvent),
         asked' = asked
  PROVE  Truthful
<1> DEFINE r == [robot EXCEPT ![k] = Updated(k)]
           e(n) == Measured(k, Crossings(k, r)[n].id, r[k][Crossings(k, r)[n].id])
           m(n) == Message("event", k, <<e(n)>>)
           messages == [n \in DOMAIN Crossings(k, r) |-> m(n)]
<1>1. robot' = r /\ out' = WithStatus(messages, r, onEvent) /\ told' = Heard(told, out')
  BY DEF RangeCheck, Say
<1>2. /\ SensorTyped(robot')
      /\ \A j \in InputKinds : \A d \in Sensors(j) :
           robot'[j][d].on = robot[j][d].on /\ robot'[j][d].value = robot[j][d].value
  BY <1>1, InputsAlone
<1>3. k # "status" /\ k \notin InputKinds
  BY DEF Ranged, InputKinds
<1> HIDE DEF r
<1>4. PICK N \in Nat :
           /\ Crossings(k, r) = [n \in 1 .. N |-> Crossings(k, r)[n]]
           /\ \A n \in 1 .. N : Crossings(k, r)[n].id \in Sensors(k)
  BY CrossingsLie
<1>5. ASSUME NEW n \in 1 .. N
      PROVE  TrueMessage(r, m(n))
  <2> DEFINE d == Crossings(k, r)[n].id
             s == r[k][d]
  <2>1. e(n) = Measured(k, d, s) /\ d \in Sensors(k)
    BY <1>4
  <2> HIDE DEF d
  <2>2. TrueEntry(r, k, Measured(k, d, s))
    <3>1. CASE s.value["value"] < 0
      BY <3>1 DEF Measured, Refused, TrueEntry
    <3>2. CASE ~(s.value["value"] < 0)
      BY <2>1, <3>2 DEF Measured, TrueEntry
    <3> QED
      BY <3>1, <3>2
  <2> HIDE DEF e
  <2>3. TrueEntry(r, k, e(n))
    BY <2>1, <2>2
  <2>4. TrueList(r, k, <<e(n)>>)
    BY <2>3, <1>3, OneIsList DEF TrueList
  <2>5. m(n).param = k /\ m(n).entries = <<e(n)>>
    BY DEF Message
  <2> QED
    BY <2>4, <2>5, <1>3 DEF TrueMessage
<1> HIDE DEF m
<1>6. messages = [n \in 1 .. N |-> m(n)]
  BY <1>4
<1> HIDE DEF messages
<1>7. messages = [n \in 1 .. N |-> messages[n]] /\ \A n \in 1 .. N : messages[n] = m(n)
  BY <1>6
<1>8. IsList(messages) /\ DOMAIN messages = 1 .. N
  BY <1>7, FunctionIsList
<1>9. TrueMessages(r, messages)
  BY <1>5, <1>7, <1>8 DEF TrueMessages
<1>10. TrueMessages(robot', out')
  BY <1>1, <1>9, WithStatusTrue
<1>11. AskedTyped(asked')
  BY DEF SensorInv
<1> QED
  BY <1>1, <1>2, <1>10, <1>11 DEF Truthful

(* The check of the colours: statuses, and one event for all crossings.    *)
LEMMA ColourCheckTruthful ==
  ASSUME SensorInv, NEW onEvent, COLOREventCheck(onEvent), asked' = asked
  PROVE  Truthful
<1> DEFINE crossed == Crossings("rgb", robot)
           entry(p) == [id |-> p.id, error |-> FALSE, channel |-> p.channel,
                        value |-> robot["rgb"][p.id].value[p.channel]]
           entries == [n \in DOMAIN crossed |-> entry(crossed[n])]
           statuses == IF onEvent = 1
                       THEN [n \in DOMAIN crossed |-> Status("dataflow", robot)] ELSE <<>>
           m == Message("event", "rgb", entries)
           all == statuses \o WithStatus(<<m>>, robot, onEvent)
<1>1. /\ robot' = robot /\ told' = Heard(told, out')
      /\ out' = IF crossed = <<>> THEN <<>> ELSE all
  BY DEF COLOREventCheck, Say
<1>2. PICK N \in Nat :
           /\ crossed = [n \in 1 .. N |-> crossed[n]]
           /\ \A n \in 1 .. N : /\ crossed[n].id \in Sensors("rgb")
                                /\ crossed[n].channel \in Channels("rgb")
  BY CrossingsLie DEF Ranged
<1> HIDE DEF crossed
<1>3. TrueMessage(robot, m)
  <2>1. entries = [n \in 1 .. N |-> entries[n]] /\ \A n \in 1 .. N : entries[n] = entry(crossed[n])
    BY <1>2
  <2> HIDE DEF entries
  <2>2. IsList(entries) /\ DOMAIN entries = 1 .. N
    BY <2>1, FunctionIsList
  <2>3. \A n \in 1 .. N : TrueEntry(robot, "rgb", entries[n])
    BY <1>2, <2>1 DEF TrueEntry
  <2>4. TrueList(robot, "rgb", entries)
    BY <2>2, <2>3 DEF TrueList, InputKinds
  <2>5. m.param = "rgb" /\ m.entries = entries
    BY DEF Message
  <2> QED
    BY <2>4, <2>5 DEF TrueMessage
<1> HIDE DEF m
<1>4. TrueMessages(robot, WithStatus(<<m>>, robot, onEvent))
  BY <1>3, OneTrue, WithStatusTrue
<1>5. TrueMessages(robot, statuses)
  <2>1. CASE onEvent = 1
    <3> DEFINE s == Status("dataflow", robot)
               list == [n \in 1 .. N |-> s]
    <3>1. TrueMessage(robot, s)
      BY StatusTrue
    <3>2. statuses = list
      BY <2>1, <1>2
    <3> HIDE DEF s
    <3>3. IsList(list) /\ DOMAIN list = 1 .. N
      BY FunctionIsList
    <3>4. TrueMessages(robot, list)
      BY <3>1, <3>3 DEF TrueMessages
    <3> QED
      BY <3>2, <3>4
  <2>2. CASE onEvent # 1
    BY <2>2, NoneTrue
  <2> QED
    BY <2>1, <2>2
<1> DEFINE last == WithStatus(<<m>>, robot, onEvent)
<1> HIDE DEF statuses, last
<1>6. TrueMessages(robot, statuses \o last)
  <2>1. TrueMessages(robot, last)
    BY <1>4 DEF last
  <2>2. JoinOf(statuses \o last, statuses, last)
    BY <1>5, <2>1, JoinedList DEF TrueMessages
  <2> QED
    BY <1>5, <2>1, <2>2, JoinedTrue
<1>7. all = statuses \o last
  BY DEF last
<1>8. TrueMessages(robot', out')
  BY <1>1, <1>6, <1>7, NoneTrue
<1>9. SensorTyped(robot') /\ AskedTyped(asked')
  BY <1>1 DEF SensorInv
<1>10. ASSUME NEW j \in InputKinds, NEW d \in Sensors(j), robot'[j][d].on
       PROVE  robot[j][d].on /\ robot'[j][d].value["value"] = robot[j][d].value["value"]
  BY <1>1, <1>10
<1> QED
  BY <1>1, <1>8, <1>9, <1>10 DEF Truthful

------------------------------------------------------------------------------
(* The sensors and the host, step by step.                                 *)

(* What a step does to the sensors and to what the host knows of them.     *)
SensorChange ==
    \/ UNCHANGED sensorVars
    \/ Truthful
    \/ /\ SensorTyped(robot') /\ AskedTyped(asked') /\ TrueMessages(robot', out')
       /\ told' = KnowsNothing

(* The sensors main starts with, and those of a reset.                     *)
LEMMA DefaultTyped ==
  /\ SensorTyped(DefaultRobot(ZeroRobot))
  /\ SensorInv => SensorTyped(DefaultRobot(robot))
  /\ AskedTyped(NothingAsked)
<1>1. ASSUME NEW r, \A k \in InputKinds : \A d \in Sensors(k) : r[k][d].value["value"] \in -1 .. 1
      PROVE  SensorTyped(DefaultRobot(r))
  <2> DEFINE new == DefaultRobot(r)
  <2>1. /\ DOMAIN new = SensorKinds
        /\ \A k \in SensorKinds : DOMAIN new[k] = Sensors(k)
        /\ \A k \in SensorKinds : \A d \in Sensors(k) : new[k][d] = DefaultSensor(k, r[k][d])
    BY DEF DefaultRobot
  <2> HIDE DEF new
  <2>2. ASSUME NEW k \in SensorKinds, NEW d \in Sensors(k)
        PROVE  LET s == DefaultSensor(k, r[k][d])
               IN  /\ DOMAIN s = {"on", "value", "low", "high"} /\ s.on \in BOOLEAN
                   /\ s.low = [c \in Limits(k) |-> s.low[c]]
                   /\ s.high = [c \in Limits(k) |-> s.high[c]]
                   /\ k \in InputKinds => s.value["value"] \in -1 .. 1
    BY <1>1 DEF DefaultSensor, InputKinds
  <2> QED
    BY <2>1, <2>2 DEF SensorTyped, new
<1>2. \A k \in InputKinds : \A d \in Sensors(k) : ZeroRobot[k][d].value["value"] = 0
  BY DEF ZeroRobot, InputKinds, SensorKinds, Channels
<1>3. SensorTyped(DefaultRobot(ZeroRobot))
  BY <1>1, <1>2
<1>4. SensorInv => SensorTyped(DefaultRobot(robot))
  BY <1>1 DEF SensorInv, SensorTyped, InputKinds, SensorKinds
<1>5. AskedTyped(NothingAsked)
  BY DEF AskedTyped, NothingAsked, NoEntry
<1> QED
  BY <1>3, <1>4, <1>5

(* Every step is one of these.                                             *)
LEMMA SensorChanges ==
  ASSUME SensorInv, [Next]_vars
  PROVE  SensorChange
<1>1. CASE UNCHANGED vars \/ Tick \/ HwTask
  BY <1>1 DEF vars, Tick, HwTask, SensorChange
<1>2. CASE Reset
  <2>1. robot' = DefaultRobot(robot) /\ asked' = asked /\ out' = <<Report>> /\ told' = KnowsNothing
    BY <1>2 DEF Reset
  <2>2. Report.param = "system"
    BY DEF Report
  <2>3. TrueMessages(robot', <<Report>>)
    BY <2>2, OneIsList, CommandsAreNoSensors, OtherTrue
  <2>4. SensorTyped(robot') /\ AskedTyped(asked')
    BY <2>1, DefaultTyped DEF SensorInv
  <2> QED
    BY <2>1, <2>3, <2>4 DEF SensorChange
<1>3. CASE NoReset \/ PullNone \/ NotYet \/ Quit
  <2>1. Say(<<>>) /\ UNCHANGED <<robot, asked>>
    BY <1>3 DEF NoReset, PullNone, NotYet, Quit
  <2> QED
    BY <2>1, NoneTrue, SayingIsTruthful DEF SensorChange
<1>4. CASE Stream
  <2> DEFINE m == Status("dataflow", robot)
  <2>1. Say(<<>>) \/ Say(<<m>>)
    BY <1>4 DEF Stream
  <2>2. UNCHANGED <<robot, asked>>
    BY <1>4 DEF Stream
  <2>3. TrueMessage(robot, m)
    BY StatusTrue
  <2> HIDE DEF m
  <2>4. TrueMessages(robot, <<m>>)
    BY <2>3, OneTrue
  <2> QED
    BY <2>1, <2>2, <2>4, NoneTrue, SayingIsTruthful DEF SensorChange
<1>5. ASSUME NEW m \in dialogue.messages, PullRequest(m)
      PROVE  SensorChange
  <2>1. CASE Say(<<Status("response", robot)>>) /\ UNCHANGED <<robot, asked>>
    <3> DEFINE s == Status("response", robot)
    <3>1. TrueMessage(robot, s)
      BY StatusTrue
    <3>2. Say(<<s>>)
      BY <2>1
    <3> HIDE DEF s
    <3>3. TrueMessages(robot, <<s>>)
      BY <3>1, OneTrue
    <3> QED
      BY <2>1, <3>2, <3>3, SayingIsTruthful DEF SensorChange
  <2>2. ASSUME NEW k \in SensorKinds, NEW n \in 0 .. NENTRY, NEW arrays,
               AskedTyped(arrays), MakeRequest(k, n, arrays)
        PROVE  SensorChange
    BY <2>2, RequestTruthful DEF SensorChange
  <2> QED
    BY <1>5, <2>1, <2>2, RequestCases
<1>6. ASSUME NEW m \in dialogue.messages, PullConfig(m) \/ PullConfigRestarting(m)
      PROVE  SensorChange
  BY <1>6, ConfigAnswer DEF PullConfig, PullConfigRestarting, SensorChange
<1>7. ASSUME NEW m \in dialogue.messages, PullSystem(m)
      PROVE  SensorChange
  BY <1>7, SystemAnswer DEF SensorChange
<1>8. CASE PollColours
  <2>1. robot' = [robot EXCEPT !["rgb"] = Updated("rgb")] /\ asked' = asked
        /\ out' = <<>> /\ told' = Heard(told, out')
    BY <1>8 DEF PollColours, ReadColours, Say
  <2>2. /\ SensorTyped(robot')
        /\ \A j \in InputKinds : \A d \in Sensors(j) :
             robot'[j][d].on = robot[j][d].on /\ robot'[j][d].value = robot[j][d].value
    BY <2>1, InputsAlone DEF Ranged
  <2>3. AskedTyped(asked')
    BY <2>1 DEF SensorInv
  <2> QED
    BY <2>1, <2>2, <2>3, NoneTrue DEF Truthful, SensorChange
<1>9. CASE Poll
  <2>1. asked' = asked
    BY <1>9 DEF Poll, Checked
  <2>2. \/ \E k \in InputKinds : InputCheck(k, cfg.stream.onEvent)
        \/ \E k \in Ranged \ {"rgb"} : RangeCheck(k, cfg.stream.onEvent)
        \/ COLOREventCheck(cfg.stream.onEvent)
    BY <1>9 DEF Poll, DINEventCheck, BUTTONEventCheck, distanceEventCheck, batteryEventCheck,
       InputKinds, Ranged
  <2> QED
    BY <2>1, <2>2, InputCheckTruthful, RangeCheckTruthful, ColourCheckTruthful DEF SensorChange
<1>10. CASE PowerLoss \/ \E m \in dialogue.messages : PowerLossInSave(m)
  <2>1. StartSensors
    BY <1>10 DEF PowerLoss, PowerLossInSave, Restarted
  <2> QED
    BY <2>1, DefaultTyped, NoneTrue DEF StartSensors, SensorChange
<1> QED
  BY <1>1, <1>2, <1>3, <1>4, <1>5, <1>6, <1>7, <1>8, <1>9, <1>10 DEF Next, MainLoop

(* The readings are those of the dialogue.                                 *)
LEMMA ReadingsKept ==
  ASSUME SensorInv, [Next]_vars
  PROVE  dialogue' = dialogue /\ hw' \in dialogue.readings
<1>1. dialogue' = dialogue
  BY ConfigChanges
<1>2. hw' = hw \/ hw' \in dialogue.readings
  BY DEF Next, MainLoop, vars, Reset, NoReset, Stream, PullNone, PullRequest, PullConfig,
     PullConfigRestarting, PullSystem, NotYet, PollColours, Poll, Checked, Quit, Tick, HwTask,
     PowerLoss, PowerLossInSave, Restarted
<1> QED
  BY <1>1, <1>2 DEF SensorInv

(* The invariant of the sensors is inductive.                              *)
LEMMA SensorStart ==
  Init => SensorInv
<1> SUFFICES ASSUME Init PROVE SensorInv
  OBVIOUS
<1>1. HostKnowsInputs
  BY NothingKnown DEF Init, HostKnowsInputs
<1> QED
  BY <1>1, DefaultTyped, NoneTrue DEF Init, SensorInv

(* Every step keeps what is said true and the host in the right.           *)
LEMMA SensorStep ==
  SensorInv /\ [Next]_vars => SensorInv'
<1> SUFFICES ASSUME SensorInv, [Next]_vars PROVE SensorInv'
  OBVIOUS
<1>1. dialogue' \in Dialogues /\ hw' \in dialogue'.readings
  BY ReadingsKept DEF SensorInv
<1>2. CASE UNCHANGED sensorVars
  BY <1>1, <1>2 DEF sensorVars, SensorInv, HostKnowsInputs
<1>3. CASE Truthful
  <2>1. HostKnowsInputs'
    BY <1>3, SaidKeeps DEF Truthful, SensorInv
  <2> QED
    BY <1>1, <1>3, <2>1 DEF Truthful, SensorInv
<1>4. CASE /\ SensorTyped(robot') /\ AskedTyped(asked') /\ TrueMessages(robot', out')
           /\ told' = KnowsNothing
  <2>1. HostKnowsInputs'
    BY <1>4, NothingKnown DEF HostKnowsInputs
  <2> QED
    BY <1>1, <1>4, <2>1 DEF SensorInv
<1> QED
  BY <1>2, <1>3, <1>4, SensorChanges DEF SensorChange

(* A host that listens is never wrong about an input whose events are on,  *)
(* for boards with any number of inputs, any requests and any readings:    *)
(* ...EventCheck, make...Request, the stream and the resets between them.  *)
THEOREM HostKnowsInputsAlways == Spec => []HostKnowsInputs
<1>1. SensorInv => HostKnowsInputs
  BY DEF SensorInv
<1> QED
  BY <1>1, SensorStart, SensorStep, PTL DEF Spec

(* Whatever an answer, an event or a status message says of a sensor is    *)
(* true of it (ackToJSON, makeStatusRequest, make...Request).              *)
THEOREM AnswersAlwaysCurrent == Spec => []AnswersAreCurrent
<1>1. ASSUME SensorInv PROVE AnswersAreCurrent
  <2>1. TrueMessages(robot, out)
    BY <1>1 DEF SensorInv
  <2>2. \A n \in DOMAIN out : TrueMessage(robot, out[n])
    BY <2>1 DEF TrueMessages
  <2>3. ASSUME NEW n \in DOMAIN out, out[n].param \in SensorKinds,
               NEW i \in DOMAIN out[n].entries
        PROVE  TrueEntry(robot, out[n].param, out[n].entries[i])
    BY <2>2, <2>3 DEF TrueMessage, TrueList
  <2>4. ASSUME NEW n \in DOMAIN out, out[n].param = "status", NEW k \in DOMAIN out[n].entries
        PROVE  /\ Len(out[n].entries[k]) = SensorCount(k)
               /\ \A i \in DOMAIN out[n].entries[k] : TrueEntry(robot, k, out[n].entries[k][i])
    BY <2>2, <2>4 DEF TrueMessage, TrueList
  <2> QED
    BY <2>3, <2>4 DEF TrueEntry, AnswersAreCurrent
<1>2. SensorInv => AnswersAreCurrent
  BY <1>1
<1> QED
  BY <1>2, SensorStart, SensorStep, PTL DEF Spec

(* A setting of a sensor changes only in a step that answers with the new  *)
(* settings (make...Request of algobot_main.c), also when a request for    *)
(* motors falls through into the one for colours.                          *)
THEOREM ChangesAlwaysAnswered == Spec => ChangesAreAnswered
<1> DEFINE Answered(k, d) ==
             LET old == robot[k][d]
                 new == robot'[k][d]
             IN  \/ <<old.on, old.low, old.high>> = <<new.on, new.low, new.high>>
                 \/ (k # "rgb" /\ new.value["value"] < 0)
                 \/ \E n \in DOMAIN out' :
                      /\ out'[n].type = "response" /\ out'[n].param = k
                      /\ \E i \in DOMAIN out'[n].entries :
                           LET e == out'[n].entries[i]
                           IN  /\ e.id = d /\ ~e.error
                               /\ <<e.on, e.low, e.high>> = <<new.on, new.low, new.high>>
<1>1. ASSUME SensorInv, [Next]_vars, pc = "pull" /\ pc' = "flag",
             NEW k \in SensorKinds, NEW d \in Sensors(k)
      PROVE  Answered(k, d)
  <2>1. \/ robot' = robot
        \/ \E m \in dialogue.messages : PullRequest(m)
    BY <1>1 DEF Next, MainLoop, vars, Reset, NoReset, Stream, PullNone, PullConfig,
       PullConfigRestarting, PullSystem, NotYet, PollColours, Poll, Checked, Quit, Tick, HwTask,
       PowerLoss, PowerLossInSave, Restarted, Goto
  <2>2. CASE robot' = robot
    BY <2>2
  <2>3. ASSUME NEW j \in SensorKinds, NEW n \in 0 .. NENTRY, NEW arrays,
               AskedTyped(arrays), MakeRequest(j, n, arrays)
        PROVE  Answered(k, d)
    <3>1. \/ /\ robot'[k][d].on = robot[k][d].on
             /\ robot'[k][d].low = robot[k][d].low
             /\ robot'[k][d].high = robot[k][d].high
          \/ /\ k = j /\ DOMAIN out' = {1}
             /\ \E i \in DOMAIN out'[1].entries :
                  out'[1] = Message("response", j, out'[1].entries)
                  /\ out'[1].entries[i] = Shown(j, d, robot'[j][d])
      BY <1>1, <2>3, RequestTruthful
    <3>2. CASE /\ k = j /\ DOMAIN out' = {1}
               /\ \E i \in DOMAIN out'[1].entries :
                    out'[1] = Message("response", j, out'[1].entries)
                    /\ out'[1].entries[i] = Shown(j, d, robot'[j][d])
      <4>1. PICK i \in DOMAIN out'[1].entries :
                    out'[1] = Message("response", k, out'[1].entries)
                    /\ out'[1].entries[i] = Shown(k, d, robot'[k][d])
        BY <3>2
      <4>2. out'[1].type = "response" /\ out'[1].param = k
        BY <4>1 DEF Message
      <4>3. CASE k # "rgb" /\ robot'[k][d].value["value"] < 0
        BY <4>3
      <4>4. CASE ~(k # "rgb" /\ robot'[k][d].value["value"] < 0)
        <5> DEFINE e == out'[1].entries[i]
        <5>1. e = [id |-> d, error |-> FALSE, value |-> robot'[k][d].value,
                   on |-> robot'[k][d].on, low |-> robot'[k][d].low,
                   high |-> robot'[k][d].high]
          BY <4>1, <4>4 DEF Shown
        <5> HIDE DEF e
        <5>2. /\ e.id = d /\ ~e.error /\ e.on = robot'[k][d].on
              /\ e.low = robot'[k][d].low /\ e.high = robot'[k][d].high
          BY <5>1
        <5> QED
          BY <3>2, <4>1, <4>2, <5>2 DEF e
      <4> QED
        BY <4>3, <4>4
    <3> QED
      BY <3>1, <3>2
  <2>4. CASE \E m \in dialogue.messages : PullRequest(m)
    <3>1. CASE Say(<<Status("response", robot)>>) /\ UNCHANGED <<robot, asked>>
      BY <3>1
    <3> QED
      BY <1>1, <2>3, <2>4, <3>1, RequestCases
  <2> QED
    BY <2>1, <2>2, <2>4
<1>2. SensorInv /\ [Next]_vars =>
        [pc = "pull" /\ pc' = "flag" =>
           \A k \in SensorKinds : \A d \in Sensors(k) : Answered(k, d)]_vars
  BY <1>1
<1> QED
  BY <1>2, SensorStart, SensorStep, PTL DEF Spec, ChangesAreAnswered
==============================================================================
