------------------------------ MODULE TaskTable ------------------------------
(***************************************************************************)
(* The table of running commands, ActionTable[10][3] of algobot_main.c.    *)
(* A row is one command that has been accepted: TASK_NUMBER (0 = free row) *)
(* and ACTION_COUNT, the actions of the command that have not ended yet.   *)
(* ACTION_ALGOID_ID always equals TASK_NUMBER and is not kept.             *)
(*                                                                         *)
(* The operators are the two functions of the code as functions of the     *)
(* table's value: each returns the new table and the value the C function  *)
(* returns.                                                                *)
(***************************************************************************)
EXTENDS Integers, FiniteSets, FiniteSetsExt

CONSTANT NTASK       \* rows of ActionTable (10 in the code)

ASSUME NTaskAssumption == NTASK \in Nat \ {0}

TaskRows == 0 .. NTASK - 1

TaskRow == [num : Int, count : Int]

FreeRow == [num |-> 0, count |-> 0]

EmptyTaskTable == [i \in TaskRows |-> FreeRow]

(* The rows at which the scan of createBuggyTask stops: a free one, or one *)
(* that already holds the number.                                          *)
CreateStops(tab, id) == {i \in TaskRows : tab[i].num \in {0, id}}

(* createBuggyTask for a number id # 0.  The result is id (created), -1    *)
(* (the number was met before a free row) or 0 (the scan met neither).     *)
CreateTask(tab, id, n) ==
    LET stops == CreateStops(tab, id)
        i     == Min(stops)
    IN  IF stops = {} THEN [table |-> tab, result |-> 0]
        ELSE IF tab[i].num = 0
             THEN [table  |-> [tab EXCEPT ![i] = [num |-> id, count |-> n]],
                   result |-> id]
             ELSE [table |-> tab, result |-> -1]

(* The rows that carry a number; removeBuggyTask works on the first.       *)
RowsOf(tab, id) == {i \in TaskRows : tab[i].num = id}

(* A row that is closed one action too early.                              *)
RemoveTaskEarly(tab, id) ==
    LET i == Min(RowsOf(tab, id))
    IN  IF RowsOf(tab, id) = {} THEN [table |-> tab, result |-> -1]
        ELSE IF tab[i].count - 1 <= 1
             THEN [table |-> [tab EXCEPT ![i] = FreeRow], result |-> id]
             ELSE [table |-> [tab EXCEPT ![i].count = @ - 1], result |-> 0]

(* A row that is closed but reports that actions remain.                   *)
RemoveTaskSilent(tab, id) ==
    LET i == Min(RowsOf(tab, id))
    IN  IF RowsOf(tab, id) = {} THEN [table |-> tab, result |-> -1]
        ELSE IF tab[i].count - 1 <= 0
             THEN [table |-> [tab EXCEPT ![i] = FreeRow], result |-> 0]
             ELSE [table |-> [tab EXCEPT ![i].count = @ - 1], result |-> 0]

(* Every action that ends is reported as the end of the task.              *)
RemoveTaskLoud(tab, id) ==
    LET i == Min(RowsOf(tab, id))
    IN  IF RowsOf(tab, id) = {} THEN [table |-> tab, result |-> -1]
        ELSE [table  |-> IF tab[i].count - 1 <= 0
                         THEN [tab EXCEPT ![i] = FreeRow]
                         ELSE [tab EXCEPT ![i].count = @ - 1],
              result |-> id]

(* removeBuggyTask: one action less in the first row of the number.  The   *)
(* result is the number when that was the last action and the row is freed,*)
(* 0 when actions remain, -1 when no row carries the number.               *)
RemoveTask(tab, id) ==
    LET i == Min(RowsOf(tab, id))
    IN  IF RowsOf(tab, id) = {} THEN [table |-> tab, result |-> -1]
        ELSE IF tab[i].count - 1 <= 0
             THEN [table |-> [tab EXCEPT ![i] = FreeRow], result |-> id]
             ELSE [table |-> [tab EXCEPT ![i].count = @ - 1], result |-> 0]

==============================================================================
