----------------------------- MODULE TimerTable ------------------------------
(***************************************************************************)
(* The timer slots myTimer[10][5] of timerManager.c, seen between calls of *)
(* setTimer and expiries of TimerTask: a slot is armed exactly when its    *)
(* ACTIONID is positive (STOPTIME # 0 comes and goes with it; the          *)
(* statements in between are the subject of module TimerRace).  STOPTIME   *)
(* itself is left out: an armed slot may expire at any time.               *)
(***************************************************************************)
EXTENDS Integers, FiniteSets, FiniteSetsExt

CONSTANT NTIMER      \* slots of myTimer (10 in the code)

ASSUME NTimerAssumption == NTIMER \in Nat \ {0}

TimerSlots == 0 .. NTIMER - 1

(* The callback of a slot, by what it does when it runs: it ends the action*)
(* ("once"), ends it or re-arms ("poll"), always re-arms ("forever").      *)
Modes == {"once", "poll", "forever"}

TimerSlot == [id : Int, name : Int, type : Int, fn : Modes \cup {"none"}]

(* The zero-initialised slot: NAME and TYPE 0 are motor 0's.               *)
ZeroSlot == [id |-> 0, name |-> 0, type |-> 0, fn |-> "none"]

EmptyTimerTable == [i \in TimerSlots |-> ZeroSlot]

Matches(slot, name, type) == slot.name = name /\ slot.type = type

(* The slots at which the scan of setTimer stops: one of the same device,  *)
(* or a free one.                                                          *)
SetStops(tab, name, type) ==
    {i \in TimerSlots : Matches(tab[i], name, type) \/ tab[i].id <= 0}

(* The slots that carry an action of a task.                               *)
SlotsOf(tab, id) == {i \in TimerSlots : tab[i].id = id}

(* The timers of a device that were overwritten are not reported.          *)
SetTimerMute(tab, id, name, type, fn) ==
    LET stops == SetStops(tab, name, type)
        i     == Min(stops)
    IN  IF stops = {} THEN [table |-> tab, result |-> 0]
        ELSE [table  |-> [tab EXCEPT ![i] = [id   |-> id,   name |-> name,
                                              type |-> type, fn   |-> fn]],
              result |-> 1]

(* setTimer: takes the first slot that is free or belongs to the device.   *)
(* The result is the number of the action it overwrote there, 1 when it    *)
(* overwrote none, 0 when no slot is left.                                 *)
SetTimer(tab, id, name, type, fn) ==
    LET stops == SetStops(tab, name, type)
        i     == Min(stops)
    IN  IF stops = {} THEN [table |-> tab, result |-> 0]
        ELSE [table  |-> [tab EXCEPT ![i] = [id   |-> id,   name |-> name,
                                              type |-> type, fn   |-> fn]],
              result |-> IF Matches(tab[i], name, type) /\ tab[i].id # 0
                         THEN tab[i].id ELSE 1]

(* TimerTask, lines 51-63, frees the slot before it calls back: NAME       *)
(* becomes -1 and TYPE keeps its value.                                    *)
Expire(tab, i) ==
    [tab EXCEPT ![i] = [id |-> 0, name |-> -1, type |-> @.type, fn |-> "none"]]

==============================================================================
