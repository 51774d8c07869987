---------------------------- MODULE TaskCountProofs --------------------------
(***************************************************************************)
(* No task is closed while one of its actions still runs, for every number *)
(* of rows and slots and all commands.  The argument: a step keeps the     *)
(* actions of an id, moves one of them to another place, drops some, or    *)
(* takes one from the id and from its rows together; opening a task adds   *)
(* as many to the one as to the other.  In the same way no command leaves  *)
(* a row of the sender table behind: the rows of the two tables come and   *)
(* go together, up to a row that is being saved or an end being announced. *)
(***************************************************************************)
EXTENDS BuggyTasksProofs

(* The actions of an id are finitely many.                                 *)
LEMMA RunningFinite ==
  ASSUME TypeOK, NEW id
  PROVE  IsFiniteSet(Running(id))
<1>1. IsFiniteSet(ToStart(id))
  <2>1. IsFiniteSet(1 .. main.left)
    BY FS_Interval DEF TypeOK, MainStates
  <2> DEFINE f == [k \in 1 .. main.left |-> <<"start", k>>]
             T == {<<"start", k>> : k \in 1 .. main.left}
  <2>2. f \in Surjection(1 .. main.left, T)
    BY DEF Surjection
  <2>3. IsFiniteSet(T)
    BY <2>1, <2>2, FS_Surjection
  <2> QED
    BY <2>3, FS_EmptySet DEF ToStart
<1>2. IsFiniteSet(OnTimer(id))
  <2>1. IsFiniteSet(TimerSlots)
    BY FS_Interval, NTimerAssumption DEF TimerSlots
  <2>2. IsFiniteSet(SlotsOf(timer, id))
    BY <2>1, FS_Subset DEF SlotsOf
  <2> DEFINE S == SlotsOf(timer, id)
             f == [i \in S |-> <<"timer", i>>]
             T == {<<"timer", i>> : i \in S}
  <2> HIDE DEF S
  <2>3. f \in Surjection(S, T)
    BY DEF Surjection
  <2>4. IsFiniteSet(T)
    BY <2>2, <2>3, FS_Surjection DEF S
  <2> QED
    BY <2>4 DEF OnTimer, S
<1>3. IsFiniteSet(InCallback(id)) /\ IsFiniteSet(Overwritten(id))
  BY FS_EmptySet, FS_Singleton DEF InCallback, Overwritten
<1>4. IsFiniteSet(ToStart(id) \cup OnTimer(id))
  BY <1>1, <1>2, FS_Union
<1>5. IsFiniteSet(ToStart(id) \cup OnTimer(id) \cup InCallback(id))
  BY <1>3, <1>4, FS_Union
<1> QED
  BY <1>3, <1>5, FS_Union DEF Running

(* What a step may do to the actions of an id and to those its rows owe.   *)
Shrinks(id) == Running(id)' \subseteq Running(id)
Moves(id)   ==
  \E x \in Running(id) : \E y :
      Running(id)' \subseteq (Running(id) \ {x}) \cup {y}
Drops(id)   == \E x \in Running(id) : Running(id)' \subseteq Running(id) \ {x}
Pays(id)    == Drops(id) /\ OneLess(Owed(id), Owed(id)')
Opens(id)   == \E new :
                  /\ IsFiniteSet(new)
                  /\ Running(id)' \subseteq Running(id) \cup new
                  /\ Cardinality(Owed(id)') = Cardinality(Owed(id)) + Cardinality(new)

Balanced(id) == Cardinality(Running(id)) <= Cardinality(Owed(id))

(* Each of these keeps the balance.                                        *)
LEMMA BalanceKept ==
  ASSUME TypeInv, NEW id, Balanced(id),
         \/ Owed(id)' = Owed(id) /\ (Shrinks(id) \/ Moves(id))
         \/ Pays(id)
         \/ Opens(id)
  PROVE  Balanced(id)'
<1> DEFINE R == Running(id)
           S == Running(id)'
           O == Owed(id)
           P == Owed(id)'
<1>1. IsFiniteSet(R) /\ Cardinality(R) \in Nat
  BY RunningFinite, FS_CardinalityType DEF TypeInv
<1>2. /\ IsFiniteSet(O) /\ Cardinality(O) \in Nat
      /\ IsFiniteSet(P) /\ Cardinality(P) \in Nat
  BY OwedFinite, FS_CardinalityType DEF Owed
<1>3. Cardinality(R) <= Cardinality(O)
  BY DEF Balanced
<1>4. SUFFICES Cardinality(S) <= Cardinality(P)
  BY DEF Balanced
<1>5. \/ P = O /\ S \subseteq R
      \/ P = O /\ \E x \in R : \E y : S \subseteq (R \ {x}) \cup {y}
      \/ (\E x \in R : S \subseteq R \ {x}) /\ (\E p \in O : P = O \ {p})
      \/ \E new : /\ IsFiniteSet(new) /\ S \subseteq R \cup new
                  /\ Cardinality(P) = Cardinality(O) + Cardinality(new)
  BY DEF Shrinks, Moves, Drops, Pays, Opens, OneLess
<1> HIDE DEF R, S, O, P
<1>6. CASE P = O /\ S \subseteq R
  <2>1. IsFiniteSet(S) /\ Cardinality(S) <= Cardinality(R)
    BY <1>1, <1>6, FS_Subset
  <2> QED
    BY <1>1, <1>2, <1>3, <1>6, <2>1, FS_CardinalityType
<1>7. CASE P = O /\ \E x \in R : \E y : S \subseteq (R \ {x}) \cup {y}
  <2>1. IsFiniteSet(S) /\ Cardinality(S) <= Cardinality(R)
    BY <1>1, <1>7, SwapCard
  <2> QED
    BY <1>1, <1>2, <1>3, <1>7, <2>1, FS_CardinalityType
<1>8. CASE (\E x \in R : S \subseteq R \ {x}) /\ (\E p \in O : P = O \ {p})
  <2>1. IsFiniteSet(S) /\ Cardinality(S) <= Cardinality(R) - 1
    BY <1>1, <1>8, DropCard
  <2>2. Cardinality(P) = Cardinality(O) - 1
    BY <1>2, <1>8, FS_RemoveElement
  <2>3. Cardinality(S) \in Nat
    BY <2>1, FS_CardinalityType
  <2> QED
    BY <1>1, <1>2, <1>3, <2>1, <2>2, <2>3
<1>9. ASSUME NEW new, IsFiniteSet(new), S \subseteq R \cup new,
             Cardinality(P) = Cardinality(O) + Cardinality(new)
      PROVE  Cardinality(S) <= Cardinality(P)
  <2>1. /\ IsFiniteSet(R \cup new)
        /\ Cardinality(R \cup new)
             = Cardinality(R) + Cardinality(new) - Cardinality(R \cap new)
    BY <1>1, <1>9, FS_Union
  <2>2. IsFiniteSet(S) /\ Cardinality(S) <= Cardinality(R \cup new)
    BY <1>9, <2>1, FS_Subset
  <2>3. IsFiniteSet(R \cap new)
    BY <1>1, FS_Intersection
  <2>4. /\ Cardinality(S) \in Nat /\ Cardinality(new) \in Nat
        /\ Cardinality(R \cap new) \in Nat
    BY <1>9, <2>2, <2>3, FS_CardinalityType
  <2> QED
    BY <1>1, <1>2, <1>3, <1>9, <2>1, <2>2, <2>4
<1> QED
  BY <1>5, <1>6, <1>7, <1>8, <1>9

(* A call of removeBuggyTask for an id that gives up an action pays:       *)
(* by the balance a row of the id exists.             *)
LEMMA RemovePays ==
  ASSUME TypeInv, NEW id \in Ids, Balanced(id), Drops(id),
         task' = RemoveTask(task, id).table
  PROVE  /\ Pays(id)
         /\ \A j \in Ids \ {id} : Owed(j)' = Owed(j)
         /\ RemoveTask(task, id).result # -1
<1>1. task \in TaskTables(Ids, NACTION) /\ RowsLive(task)
  BY DEF TypeInv, TypeOK, WellPlaced, TaskTables
<1>2. Owed(id) # {}
  <2>1. SUFFICES ASSUME Owed(id) = {} PROVE FALSE
    OBVIOUS
  <2>2. Cardinality(Owed(id)) = 0
    BY <2>1, FS_EmptySet
  <2>3. IsFiniteSet(Running(id)) /\ Cardinality(Running(id)) \in Nat
    BY RunningFinite, FS_CardinalityType DEF TypeInv
  <2>4. Cardinality(Running(id)) = 0
    BY <2>2, <2>3 DEF Balanced
  <2> QED
    BY <2>3, <2>4, FS_EmptySet DEF Drops
<1>3. RowsOf(task, id) # {}
  BY <1>2 DEF Owed, OwedIn, RowsOf
<1>4. /\ OneLess(OwedIn(task, id), OwedIn(RemoveTask(task, id).table, id))
      /\ \A j \in Ids \ {id} :
             OwedIn(RemoveTask(task, id).table, j) = OwedIn(task, j)
  <2>1. Ids \subseteq Nat \ {0}
    BY IdsPositive
  <2> QED
    BY <1>1, <1>3, <2>1, RemoveTaskOwed, Zenon
<1>5. \A j : Owed(j) = OwedIn(task, j)
             /\ Owed(j)' = OwedIn(RemoveTask(task, id).table, j)
  BY DEF Owed, OwedIn
<1>6. RemoveTask(task, id).result # -1
  BY <1>1, <1>3, IdsPositive, CommandsAssumption, RemoveTaskType
<1> QED
  BY <1>4, <1>5, <1>6 DEF Pays

(* The four places are told apart by their names.                          *)
LEMMA Places ==
  ASSUME NEW id
  PROVE  /\ \A x \in ToStart(id) : x[1] = "start"
         /\ \A x \in OnTimer(id) : x[1] = "timer"
         /\ \A x \in InCallback(id) : x[1] = "call"
         /\ \A x \in Overwritten(id) : x[1] = "over"
  BY DEF ToStart, OnTimer, InCallback, Overwritten

(* Where the actions are depends on the main loop, the timers and the      *)
(* callback only, and what is owed on the task table.                      *)
LEMMA Local ==
  ASSUME NEW id
  PROVE  /\ main' = main => /\ ToStart(id)' = ToStart(id)
                            /\ Overwritten(id)' = Overwritten(id)
         /\ timer' = timer => OnTimer(id)' = OnTimer(id)
         /\ fired' = fired => InCallback(id)' = InCallback(id)
         /\ task' = task => Owed(id)' = Owed(id)
<1>1. main' = main => ToStart(id)' = ToStart(id) /\ Overwritten(id)' = Overwritten(id)
  BY DEF ToStart, Overwritten
<1>2. timer' = timer => OnTimer(id)' = OnTimer(id)
  BY DEF OnTimer, SlotsOf
<1>3. fired' = fired => InCallback(id)' = InCallback(id)
  BY DEF InCallback
<1>4. task' = task => Owed(id)' = Owed(id)
  BY DEF Owed, OwedIn
<1> QED
  BY <1>1, <1>2, <1>3, <1>4

(* Steps of the main loop that neither arm a timer nor end an action: the  *)
(* actions still to be started can only become fewer.                      *)
LEMMA StartsShrink ==
  ASSUME NEW id, timer' = timer, fired' = fired, task' = task,
         ToStart(id)' \subseteq ToStart(id), main'.pc # "retire"
  PROVE  Shrinks(id) /\ Owed(id)' = Owed(id)
<1>1. Overwritten(id)' = {}
  BY DEF Overwritten
<1> QED
  BY <1>1, Local DEF Shrinks, Running

(* setAsync...Action gives up an overwritten action when it retires it.    *)
LEMMA RetireDrops ==
  ASSUME TypeInv, Retire, NEW o \in Ids, o = main.over
  PROVE  /\ Drops(o)
         /\ \A j : Running(j)' = ToStart(j) \cup OnTimer(j) \cup InCallback(j)
<1>1. /\ main.pc = "retire" /\ main.over = o /\ main'.pc \in {"start", "abort"}
      /\ main'.cmd = main.cmd /\ main'.left = main.left
  BY DEF Retire, TypeInv, TypeOK, WellPlaced, MainStates
<1>2. \A j : ToStart(j)' = ToStart(j) /\ Overwritten(j)' = {}
  BY <1>1 DEF ToStart, Overwritten
<1>3. \A j : OnTimer(j)' = OnTimer(j) /\ InCallback(j)' = InCallback(j)
  BY Local DEF Retire
<1>4. \A j : Running(j)' = ToStart(j) \cup OnTimer(j) \cup InCallback(j)
  BY <1>2, <1>3 DEF Running
<1>5. Drops(o)
  <2>1. <<"over", 0>> \in Overwritten(o)
    BY <1>1 DEF Overwritten
  <2>2. /\ <<"over", 0>> \notin ToStart(o)
        /\ <<"over", 0>> \notin OnTimer(o)
        /\ <<"over", 0>> \notin InCallback(o)
    BY Places
  <2>3. Running(o)'
          = ToStart(o) \cup OnTimer(o) \cup InCallback(o)
    BY <1>2, <1>3 DEF Running
  <2> QED
    BY <2>1, <2>2, <2>3 DEF Drops, Running
<1> QED
  BY <1>4, <1>5

(* The callback gives up its action when it ends it.                       *)
LEMMA EndDrops ==
  ASSUME TypeInv, EndAction, NEW o \in Ids, o = fired.id
  PROVE  /\ Drops(o)
         /\ \A j : Running(j)' = ToStart(j) \cup OnTimer(j) \cup Overwritten(j)
<1>1. /\ fired.pc = "call" /\ fired.id = o /\ fired'.pc \in {"scan", "tell"}
  BY IdleMainType DEF EndAction, TypeInv, TypeOK, WellPlaced, FiredStates, IdleTimer
<1>2. \A j : InCallback(j)' = {}
  BY <1>1 DEF InCallback
<1>3. \A j : /\ ToStart(j)' = ToStart(j) /\ Overwritten(j)' = Overwritten(j)
             /\ OnTimer(j)' = OnTimer(j)
  BY Local DEF EndAction
<1>4. Drops(o)
  <2>1. <<"call", 0>> \in InCallback(o)
    BY <1>1 DEF InCallback
  <2>2. /\ <<"call", 0>> \notin ToStart(o)
        /\ <<"call", 0>> \notin OnTimer(o)
        /\ <<"call", 0>> \notin Overwritten(o)
    BY Places
  <2>3. Running(o)'
          = ToStart(o) \cup OnTimer(o) \cup Overwritten(o)
    BY <1>2, <1>3 DEF Running
  <2> QED
    BY <2>1, <2>2, <2>3 DEF Drops, Running
<1>5. \A j : Running(j)' = ToStart(j) \cup OnTimer(j) \cup Overwritten(j)
  BY <1>2, <1>3 DEF Running
<1> QED
  BY <1>4, <1>5

(* n actions to be started are n.                                          *)
LEMMA StartsCard ==
  ASSUME NEW n \in Nat
  PROVE  /\ IsFiniteSet({<<"start", k>> : k \in 1 .. n})
         /\ Cardinality({<<"start", k>> : k \in 1 .. n}) = n
<1> DEFINE T == {<<"start", k>> : k \in 1 .. n}
           f == [k \in 1 .. n |-> <<"start", k>>]
<1>1. IsFiniteSet(1 .. n) /\ Cardinality(1 .. n) = n
  BY FS_Interval
<1>2. f \in Bijection(1 .. n, T)
  <2>1. f \in Surjection(1 .. n, T)
    BY DEF Surjection
  <2>2. \A a, b \in 1 .. n : f[a] = f[b] => a = b
    OBVIOUS
  <2> QED
    BY <2>1, <2>2 DEF Bijection, Injection, Surjection, IsInjective
<1>3. IsFiniteSet(T) /\ Cardinality(T) = Cardinality(1 .. n)
  BY <1>1, <1>2, FS_Bijection DEF ExistsBijection
<1> QED
  BY <1>1, <1>3

(* Every step but the write past the table keeps the balance of every id.  *)
LEMMA BalanceStep ==
  ASSUME TypeInv, [Next]_vars, ~overran', \A j \in Ids : Balanced(j),
         NEW id \in Ids
  PROVE  Balanced(id)'
<1>1. /\ task \in TaskTables(Ids, NACTION) /\ RowsLive(task)
      /\ timer \in TimerTables(Ids)
      /\ main \in MainStates /\ fired \in FiredStates
  BY DEF TypeInv, TypeOK, WellPlaced, TaskTables, TimerTables
<1>2. Balanced(id)
  OBVIOUS
<1>3. ASSUME Shrinks(id) /\ Owed(id)' = Owed(id) PROVE Balanced(id)'
  BY <1>2, <1>3, BalanceKept
<1>4. ASSUME main' = main, timer' = timer, fired' = fired, task' = task
      PROVE  Balanced(id)'
  BY <1>3, <1>4, Local DEF Shrinks, Running
<1>5. CASE UNCHANGED vars
  BY <1>4, <1>5 DEF vars
<1>6. ASSUME NEW m \in Messages, Receive(m) PROVE Balanced(id)'
  BY <1>4, <1>6 DEF Receive
<1>7. CASE Take
  <2>1. ToStart(id)' = {} /\ main'.pc # "retire"
    BY <1>1, <1>7, IdleMainType DEF Take, ToStart, MainStates
  <2> QED
    BY <1>3, <1>7, <2>1, StartsShrink DEF Take
<1>8. CASE Create
  <2>1. main.cmd \in Commands /\ main.pc = "create"
    BY <1>8 DEF Create, TypeInv, WellPlaced
  <2>2. PICK o \in Ids : o = main.cmd.id
    BY <2>1 DEF Ids, Messages
  <2>3. PICK n \in 1 .. NACTION : n = ActionCount(main.cmd)
    BY <2>1, ActionCountBounded, CommandsAssumption DEF TypeInv, WellPlaced
  <2> DEFINE new == CreateTask(task, o, n)
  <2>4. /\ new.result \in {o, -1}
        /\ new.result = -1 => new.table = task
        /\ new.result = o => OwesMore(Ids, task, new.table, o, n)
    <3>1. CreateStops(task, o) # {} /\ Ids \subseteq Nat \ {0}
      BY <1>8, <2>2, IdsPositive DEF Create
    <3>2. new.result \in {o, -1}
      BY <1>1, <3>1, CreateTaskEffect
    <3>3. new.result = -1 => new.table = task
      <4>1. o # -1
        BY IdsPositive
      <4> QED
        BY <4>1 DEF CreateTask
    <3>4. new.result = o => OwesMore(Ids, task, new.table, o, n)
      BY <1>1, <3>1, CreateTaskEffect
    <3> QED
      BY <3>2, <3>3, <3>4
  <2>5. /\ task' = new.table
        /\ IF new.result > 0 THEN main' = Opened ELSE main' = IdleMain
        /\ timer' = timer /\ fired' = fired
    BY <1>8, <2>2, <2>3 DEF Create
  <2> HIDE DEF new
  <2>6. /\ OnTimer(id)' = OnTimer(id) /\ InCallback(id)' = InCallback(id)
        /\ ToStart(id) = {} /\ Overwritten(id) = {}
    BY <2>1, <2>5, Local DEF ToStart, Overwritten
  <2>7. CASE new.result = -1
    <3>1. main' = IdleMain /\ task' = task
      BY <2>4, <2>5, <2>7
    <3>2. ToStart(id)' = {} /\ main'.pc # "retire"
      BY <3>1 DEF ToStart, IdleMain
    <3> QED
      BY <1>3, <2>5, <2>6, <3>1, <3>2, StartsShrink
  <2>8. CASE new.result = o
    <3>1. o > 0
      BY IdsPositive
    <3>2. /\ main'.pc = "save" /\ main'.cmd = main.cmd /\ main'.left = n
      BY <1>1, <2>3, <2>5, <2>8, <3>1 DEF Opened, MainStates
    <3>3. Overwritten(id)' = {}
      BY <3>2 DEF Overwritten
    <3>4. Owed(id) = OwedIn(task, id) /\ Owed(id)' = OwedIn(new.table, id)
      BY <2>5 DEF Owed, OwedIn
    <3>5. CASE id = o
      <4> DEFINE add == {<<"start", k>> : k \in 1 .. n}
      <4>1. ToStart(id)' = add
        BY <2>2, <3>2, <3>5 DEF ToStart
      <4>2. IsFiniteSet(add) /\ Cardinality(add) = n
        BY StartsCard
      <4>3. Running(id)' \subseteq Running(id) \cup add
        BY <2>6, <3>3, <4>1 DEF Running
      <4>4. Cardinality(Owed(id)') = Cardinality(Owed(id)) + Cardinality(add)
        BY <2>4, <2>8, <3>4, <3>5, <4>2 DEF OwesMore
      <4> HIDE DEF add
      <4>5. Opens(id)
        BY <4>2, <4>3, <4>4 DEF Opens
      <4> QED
        BY <1>2, <4>5, BalanceKept
    <3>6. CASE id # o
      <4>1. ToStart(id)' = {}
        BY <2>2, <3>2, <3>6 DEF ToStart
      <4>2. Owed(id)' = Owed(id)
        BY <2>4, <2>8, <3>4, <3>6 DEF OwesMore
      <4>3. Shrinks(id)
        BY <2>6, <3>3, <4>1 DEF Shrinks, Running
      <4> QED
        BY <1>3, <4>2, <4>3
    <3> QED
      BY <3>5, <3>6
  <2> QED
    BY <2>4, <2>7, <2>8
<1>9. CASE CreateFull
  <2>1. main' = IdleMain
    BY <1>9 DEF CreateFull
  <2>2. ToStart(id)' = {} /\ main'.pc # "retire"
    BY <2>1 DEF ToStart, IdleMain
  <2> QED
    BY <1>3, <1>9, <2>2, StartsShrink DEF CreateFull
<1>10. CASE Save
  <2>1. ToStart(id)' = ToStart(id) /\ main'.pc # "retire"
    BY <1>1, <1>10 DEF Save, ToStart, MainStates
  <2> QED
    BY <1>3, <1>10, <2>1, StartsShrink DEF Save
<1>11. CASE SkipEntry
  <2>1. /\ main'.pc = "start" /\ main'.cmd = main.cmd /\ main.pc = "start"
        /\ main.left \in Nat /\ main'.left \in {main.left, main.left - 1}
    BY <1>1, <1>11 DEF SkipEntry, Starting, MainStates
  <2>2. ToStart(id)' \subseteq ToStart(id)
    BY <2>1 DEF ToStart
  <2> QED
    BY <1>3, <1>11, <2>1, <2>2, StartsShrink DEF SkipEntry
<1>12. CASE StartEntry
  <2> DEFINE act == main.cmd.acts[main.k]
             set == SetTimer(timer, main.cmd.id, act.name,
                             TypeOf(main.cmd.family), act.mode)
  <2>0. Starting
    BY <1>12 DEF StartEntry
  <2>1. /\ main.cmd \in Commands /\ main.k \in 1 .. Len(main.cmd.acts)
        /\ main.pc = "start" /\ main.left \in Nat /\ main.left > 0
    BY <1>1, <2>0 DEF Starting, EntriesLeft, TypeInv, WellPlaced, MainStates
  <2>2. PICK o \in Ids : o = main.cmd.id
    BY <2>1 DEF Ids, Messages
  <2>3. /\ set.result \in Ids \cup {0, 1}
        /\ \/ set.result = 0 /\ set.table = timer
           \/ \E i \in TimerSlots : Arms(timer, set, i, o)
    <3>1. /\ act.name \in Int /\ act.mode \in Modes \cup {"none"}
          /\ TypeOf(main.cmd.family) \in 0 .. 3
      BY <2>1, EntryType
    <3>2. timer \in TimerTables(Ids) /\ Ids \subseteq Nat \ {0}
      BY <1>1, IdsPositive
    <3> HIDE DEF act
    <3> QED
      BY <2>2, <3>1, <3>2, SetTimerEffect
  <2>4. /\ timer' = set.table /\ fired' = fired /\ task' = task
        /\ main' = [main EXCEPT
                      !.k = @ + 1,
                      !.left = @ - 1,
                      !.pc = IF set.result > 1 THEN "retire" ELSE "start",
                      !.over = IF set.result > 1 THEN set.result ELSE 0]
    BY <1>12 DEF StartEntry
  <2> HIDE DEF set
  <2>5. /\ main'.cmd = main.cmd /\ main'.left = main.left - 1
        /\ main'.pc \in {"start", "retire"}
        /\ main'.pc = "retire" => set.result > 1 /\ main'.over = set.result
    BY <1>1, <2>4 DEF MainStates
  <2>6. InCallback(id)' = InCallback(id) /\ Owed(id)' = Owed(id)
        /\ Overwritten(id) = {}
    BY <2>1, <2>4, Local DEF Overwritten
  <2>7. IF id = o THEN /\ <<"start", main.left>> \in ToStart(id)
                       /\ ToStart(id)' = ToStart(id) \ {<<"start", main.left>>}
        ELSE ToStart(id)' = ToStart(id)
    BY <2>1, <2>2, <2>5 DEF ToStart
  <2>8. /\ <<"start", main.left>> \notin OnTimer(id)
        /\ <<"start", main.left>> \notin InCallback(id)
    BY Places
  <2>9. CASE set.result = 0 /\ set.table = timer
    <3>1. OnTimer(id)' = OnTimer(id) /\ Overwritten(id)' = {}
      BY <2>4, <2>5, <2>9, Local DEF Overwritten
    <3>2. ToStart(id)' \subseteq ToStart(id)
      BY <2>7
    <3>3. Shrinks(id)
      BY <2>6, <3>1, <3>2 DEF Shrinks, Running
    <3> QED
      BY <1>3, <2>6, <3>3
  <2>10. ASSUME NEW i \in TimerSlots, Arms(timer, set, i, o)
         PROVE  Balanced(id)'
    <3>1. /\ timer'[i].id = o
          /\ \A k \in TimerSlots \ {i} : timer'[k] = timer[k]
          /\ set.result = IF timer[i].id = 0 THEN 1 ELSE timer[i].id
      BY <2>4, <2>10 DEF Arms
    <3>2. Overwritten(id)' \subseteq {<<"over", 0>>}
      BY DEF Overwritten
    <3>3. id # 0 /\ o # 0
      BY IdsPositive
    <3>4. timer[i].id # id => Overwritten(id)' = {}
      <4>1. SUFFICES ASSUME timer[i].id # id, main'.pc = "retire" PROVE main'.over # id
        BY DEF Overwritten
      <4>2. set.result # 1 /\ main'.over = set.result
        BY <2>5, <4>1
      <4> QED
        BY <3>1, <4>1, <4>2
    <3>5. CASE id = o /\ timer[i].id = id
      <4>1. SlotsOf(timer, id)' = SlotsOf(timer, id)
        BY <3>1, <3>5 DEF SlotsOf
      <4>2. OnTimer(id)' = OnTimer(id)
        BY <4>1 DEF OnTimer
      <4>3. Moves(id)
        BY <2>6, <2>7, <2>8, <3>2, <3>5, <4>2 DEF Moves, Running
      <4> QED
        BY <1>2, <2>6, <4>3, BalanceKept
    <3>6. CASE id = o /\ timer[i].id # id
      <4>1. SlotsOf(timer, id)' = SlotsOf(timer, id) \cup {i}
        BY <3>1, <3>6 DEF SlotsOf
      <4>2. OnTimer(id)' = OnTimer(id) \cup {<<"timer", i>>}
        BY <4>1 DEF OnTimer
      <4>3. Moves(id)
        BY <2>6, <2>7, <2>8, <3>4, <3>6, <4>2 DEF Moves, Running
      <4> QED
        BY <1>2, <2>6, <4>3, BalanceKept
    <3>7. CASE id # o /\ timer[i].id = id
      <4>1. /\ SlotsOf(timer, id)' = SlotsOf(timer, id) \ {i}
            /\ i \in SlotsOf(timer, id)
        BY <3>1, <3>7 DEF SlotsOf
      <4>2. /\ OnTimer(id)' = OnTimer(id) \ {<<"timer", i>>}
            /\ <<"timer", i>> \in OnTimer(id)
        BY <4>1 DEF OnTimer
      <4>3. <<"timer", i>> \notin ToStart(id) /\ <<"timer", i>> \notin InCallback(id)
        BY Places
      <4>4. ToStart(id)' = ToStart(id)
        BY <2>7, <3>7
      <4>5. Moves(id)
        BY <2>6, <3>2, <4>2, <4>3, <4>4 DEF Moves, Running
      <4> QED
        BY <1>2, <2>6, <4>5, BalanceKept
    <3>8. CASE id # o /\ timer[i].id # id
      <4>1. SlotsOf(timer, id)' = SlotsOf(timer, id)
        BY <3>1, <3>8 DEF SlotsOf
      <4>2. OnTimer(id)' = OnTimer(id)
        BY <4>1 DEF OnTimer
      <4>3. ToStart(id)' = ToStart(id)
        BY <2>7, <3>8
      <4>4. Shrinks(id)
        BY <2>6, <3>4, <3>8, <4>2, <4>3 DEF Shrinks, Running
      <4> QED
        BY <1>3, <2>6, <4>4
    <3> QED
      BY <3>5, <3>6, <3>7, <3>8
  <2> QED
    BY <2>3, <2>9, <2>10
<1>13. CASE Retire
  <2>0. PICK o \in Ids : o = main.over
    BY <1>13 DEF Retire, TypeInv, WellPlaced
  <2>1. /\ Drops(o)
        /\ \A j : Running(j)' = ToStart(j) \cup OnTimer(j) \cup InCallback(j)
    BY <1>13, <2>0, RetireDrops
  <2>2. /\ Pays(o)
        /\ \A j \in Ids \ {o} : Owed(j)' = Owed(j)
    <3>1. Balanced(o) /\ task' = RemoveTask(task, o).table
      BY <1>13, <2>0 DEF Retire
    <3> QED
      BY <2>1, <3>1, RemovePays
  <2>3. Shrinks(id)
    BY <2>1 DEF Shrinks, Running
  <2> QED
    BY <1>2, <2>2, <2>3, BalanceKept
<1>14. CASE Abort
  <2>1. ToStart(id)' = ToStart(id) /\ main'.pc # "retire"
    BY <1>1, <1>14 DEF Abort, ToStart, MainStates
  <2> QED
    BY <1>3, <1>14, <2>1, StartsShrink DEF Abort
<1>15. CASE Finish
  <2>1. ToStart(id)' = {} /\ main'.pc # "retire"
    BY <1>15 DEF Finish, ToStart, IdleMain
  <2> QED
    BY <1>3, <1>15, <2>1, StartsShrink DEF Finish
<1>16. ASSUME NEW i \in TimerSlots, Fire(i) PROVE Balanced(id)'
  <2>1. /\ timer'[i].id = 0
        /\ \A k \in TimerSlots \ {i} : timer'[k] = timer[k]
        /\ timer[i].id # 0 /\ fired.pc = "scan"
        /\ fired'.pc = "call" /\ fired'.id = timer[i].id
    BY <1>1, <1>16, ExpireEffect DEF Fire, TimerInCallback
  <2>2. id # 0
    BY IdsPositive
  <2>3. ToStart(id)' = ToStart(id) /\ Overwritten(id)' = Overwritten(id)
        /\ Owed(id)' = Owed(id)
    BY <1>16, Local DEF Fire
  <2>4. OnTimer(id)' = OnTimer(id) \ {<<"timer", i>>}
    <3>1. SlotsOf(timer, id)' = SlotsOf(timer, id) \ {i}
      BY <2>1, <2>2 DEF SlotsOf
    <3> QED
      BY <3>1 DEF OnTimer
  <2>5. CASE timer[i].id = id
    <3>1. <<"timer", i>> \in OnTimer(id)
      BY <2>5 DEF OnTimer, SlotsOf
    <3>2. InCallback(id)' \subseteq {<<"call", 0>>}
      BY DEF InCallback
    <3>3. /\ <<"timer", i>> \notin ToStart(id)
          /\ <<"timer", i>> \notin Overwritten(id)
      BY Places
    <3>4. Moves(id)
      BY <2>3, <2>4, <3>1, <3>2, <3>3 DEF Moves, Running
    <3> QED
      BY <1>2, <2>3, <3>4, BalanceKept
  <2>6. CASE timer[i].id # id
    <3>1. InCallback(id)' = {}
      BY <2>1, <2>6 DEF InCallback
    <3>2. Shrinks(id)
      BY <2>3, <2>4, <3>1 DEF Shrinks, Running
    <3> QED
      BY <1>3, <2>3, <3>2
  <2> QED
    BY <2>5, <2>6
<1>17. CASE EndAction
  <2>0. PICK o \in Ids : o = fired.id
    BY <1>17 DEF EndAction, TypeInv, WellPlaced
  <2>1. /\ Drops(o)
        /\ \A j : Running(j)' = ToStart(j) \cup OnTimer(j) \cup Overwritten(j)
    BY <1>17, <2>0, EndDrops
  <2>2. /\ Pays(o)
        /\ \A j \in Ids \ {o} : Owed(j)' = Owed(j)
    <3>1. Balanced(o) /\ task' = RemoveTask(task, o).table
      BY <1>17, <2>0 DEF EndAction
    <3> QED
      BY <2>1, <3>1, RemovePays
  <2>3. Shrinks(id)
    BY <2>1 DEF Shrinks, Running
  <2> QED
    BY <1>2, <2>2, <2>3, BalanceKept
<1>18. CASE TellEnd
  <2>1. InCallback(id)' = {}
    BY <1>18 DEF TellEnd, IdleTimer, InCallback
  <2>2. /\ ToStart(id)' = ToStart(id) /\ Overwritten(id)' = Overwritten(id)
        /\ OnTimer(id)' = OnTimer(id) /\ Owed(id)' = Owed(id)
    BY <1>18, Local DEF TellEnd
  <2> QED
    BY <1>3, <2>1, <2>2 DEF Shrinks, Running
<1>19. CASE Rearm
  <2> DEFINE set == SetTimer(timer, fired.id, fired.name, fired.type, fired.fn)
  <2>1. /\ fired.pc = "call" /\ fired.id \in Ids /\ fired.name \in Int
        /\ fired.type \in 0 .. 3 /\ fired.fn \in Modes \cup {"none"}
    BY <1>1, <1>19 DEF Rearm, TypeInv, WellPlaced, FiredStates
  <2>2. ToStart(id)' = ToStart(id) /\ Overwritten(id)' = Overwritten(id)
        /\ Owed(id)' = Owed(id)
    BY <1>19, Local DEF Rearm
  <2>3. InCallback(id)' = {}
    BY <1>19 DEF Rearm, IdleTimer, InCallback
  <2>4. timer' = set.table
    BY <1>19 DEF Rearm
  <2>5. \/ set.table = timer
        \/ \E i \in TimerSlots : Arms(timer, set, i, fired.id)
    <3>1. Ids \subseteq Nat \ {0}
      BY IdsPositive
    <3> QED
      BY <1>1, <2>1, <3>1, SetTimerEffect
  <2> HIDE DEF set
  <2>6. CASE set.table = timer
    <3>1. OnTimer(id)' = OnTimer(id)
      BY <2>4, <2>6, Local
    <3> QED
      BY <1>3, <2>2, <2>3, <3>1 DEF Shrinks, Running
  <2>7. ASSUME NEW i \in TimerSlots, Arms(timer, set, i, fired.id)
        PROVE  Balanced(id)'
    <3>1. /\ timer'[i].id = fired.id
          /\ \A k \in TimerSlots \ {i} : timer'[k] = timer[k]
      BY <2>4, <2>7 DEF Arms
    <3>2. CASE fired.id = id
      <4>1. SlotsOf(timer, id)' \subseteq SlotsOf(timer, id) \cup {i}
        BY <3>1 DEF SlotsOf
      <4>2. OnTimer(id)' \subseteq OnTimer(id) \cup {<<"timer", i>>}
        BY <4>1 DEF OnTimer
      <4>3. <<"call", 0>> \in InCallback(id)
        BY <2>1, <3>2 DEF InCallback
      <4>4. /\ <<"call", 0>> \notin ToStart(id) /\ <<"call", 0>> \notin OnTimer(id)
            /\ <<"call", 0>> \notin Overwritten(id)
        BY Places
      <4>5. Moves(id)
        BY <2>2, <2>3, <4>2, <4>3, <4>4 DEF Moves, Running
      <4> QED
        BY <1>2, <2>2, <4>5, BalanceKept
    <3>3. CASE fired.id # id
      <4>1. SlotsOf(timer, id)' \subseteq SlotsOf(timer, id)
        BY <3>1, <3>3 DEF SlotsOf
      <4>2. OnTimer(id)' \subseteq OnTimer(id)
        BY <4>1 DEF OnTimer
      <4> QED
        BY <1>3, <2>2, <2>3, <4>2 DEF Shrinks, Running
    <3> QED
      BY <3>2, <3>3
  <2> QED
    BY <2>5, <2>6, <2>7
<1>20. CASE TakeRequest \/ AnswerCall \/ AnswerEnds
  <2>1. main'.pc \in {"idle", "answer"}
    BY <1>1, <1>20, IdleMainType
       DEF TakeRequest, AnswerCall, AnswerEnds, IdleMain, MainStates
  <2>2. ToStart(id)' = {} /\ main'.pc # "retire"
    BY <2>1 DEF ToStart
  <2> QED
    BY <1>3, <1>20, <2>2, StartsShrink DEF TakeRequest, AnswerCall, AnswerEnds
<1> QED
  BY <1>5, <1>6, <1>7, <1>8, <1>9, <1>10, <1>11, <1>12, <1>13, <1>14, <1>15,
     <1>16, <1>17, <1>18, <1>19, <1>20 DEF Next, MainStep, TimerStep

(* A write past the table is never taken back.                             *)
LEMMA OverranStays == [Next]_vars /\ ~overran' => ~overran
  BY DEF Next, MainStep, TimerStep, vars, Receive, Take, TakeRequest, AnswerCall,
         AnswerEnds, Create, CreateFull, Save,
         SkipEntry, StartEntry, Retire, Abort, Finish, Fire, EndAction, TellEnd, Rearm

(* NeverEndsEarly: as long as createBuggyTask has not written past its     *)
(* table, the rows of an id owe at least as many actions as are still to   *)
(* be started, on a timer, in a callback or overwritten, so that           *)
(* removeBuggyTask never reports the last action while another one runs.   *)
THEOREM NeverEndsEarlyAlways == Spec => []NeverEndsEarly
<1>1. Init => NeverEndsEarly
  <2> SUFFICES ASSUME Init, NEW id \in Ids
               PROVE  Cardinality(Running(id)) <= Cardinality(Owed(id))
    BY DEF NeverEndsEarly
  <2>1. id # 0
    BY IdsPositive
  <2>2. Running(id) = {}
    BY <2>1 DEF Init, Running, ToStart, OnTimer, InCallback, Overwritten, SlotsOf,
                EmptyTimerTable, ZeroSlot, IdleMain, IdleTimer
  <2>3. Cardinality(Running(id)) = 0 /\ Cardinality(Owed(id)) \in Nat
    BY <2>2, FS_EmptySet, OwedFinite, FS_CardinalityType DEF Owed
  <2> QED
    BY <2>3
<1>2. TypeInv /\ NeverEndsEarly /\ [Next]_vars => NeverEndsEarly'
  <2> SUFFICES ASSUME TypeInv, NeverEndsEarly, [Next]_vars, ~overran'
               PROVE  \A id \in Ids : Balanced(id)'
    BY DEF NeverEndsEarly, Balanced
  <2>1. ~overran
    BY OverranStays
  <2>2. \A id \in Ids : Balanced(id)
    BY <2>1 DEF NeverEndsEarly, Balanced
  <2> QED
    BY <2>2, BalanceStep
<1> QED
  BY <1>1, <1>2, InitTypeInv, TypeInvStep, PTL DEF Spec

(* What makes NoEventForNoTask inductive: -1 is on its way to no client.   *)
NoMinusOne ==
    ~overran => main.over # -1 /\ fired.ended # -1 /\ hist[-1] = <<>>

(* Telling the client of a command leaves the history of "-1" alone.       *)
LEMMA TellOthers ==
  ASSUME NEW id \in Ids, NEW kind, NEW to, TypeOK, Tell(id, kind, to)
  PROVE  hist'[-1] = hist[-1]
  BY IdsPositive DEF Tell, TypeOK

(* No step takes the answer -1 for a command, nor tells anyone of it.      *)
LEMMA NoMinusOneStep ==
  ASSUME TypeInv, [Next]_vars, ~overran', ~overran, \A j \in Ids : Balanced(j),
         main.over # -1, fired.ended # -1, hist[-1] = <<>>
  PROVE  main'.over # -1 /\ fired'.ended # -1 /\ hist'[-1] = <<>>
<1>1. TypeOK /\ WellPlaced /\ main \in MainStates /\ fired \in FiredStates
  BY DEF TypeInv, TypeOK
<1>2. /\ IdleMain.over # -1 /\ IdleTimer.ended # -1
  BY DEF IdleMain, IdleTimer
<1>3. CASE UNCHANGED vars
  BY <1>3 DEF vars
<1>4. ASSUME NEW m \in Messages, Receive(m)
      PROVE  main'.over # -1 /\ fired'.ended # -1 /\ hist'[-1] = <<>>
  BY <1>4 DEF Receive
<1>5. CASE Take
  <2>1. Head(stack) \in Messages /\ Head(stack).id \in Ids
    BY <1>1, <1>5 DEF Take, TypeOK, Ids
  <2>2. PICK o \in Ids : o = Head(stack).id
    BY <2>1
  <2>3. hist'[-1] = hist[-1]
    BY <1>1, <1>5, <2>2, TellOthers DEF Take
  <2>4. main'.over # -1
    BY <1>2, <1>5, IdleMainType DEF Take, MainStates
  <2> QED
    BY <1>5, <2>3, <2>4 DEF Take
<1>6. ASSUME main.cmd \in Commands, fired' = fired,
             main' \in {Opened, IdleMain},
             hist' = hist \/ Tell(main.cmd.id, "begin", rxFrom)
      PROVE  main'.over # -1 /\ fired'.ended # -1 /\ hist'[-1] = <<>>
  <2>1. PICK o \in Ids : o = main.cmd.id
    BY <1>6 DEF Ids, Messages
  <2>2. hist'[-1] = hist[-1]
    BY <1>1, <1>6, <2>1, TellOthers
  <2>3. main'.over # -1
    BY <1>1, <1>2, <1>6 DEF Opened, MainStates
  <2> QED
    BY <1>6, <2>2, <2>3
<1>7. CASE Create
  <2>1. main.cmd \in Commands
    BY <1>1, <1>7 DEF Create, WellPlaced
  <2> QED
    BY <1>6, <1>7, <2>1 DEF Create
<1>8. CASE CreateFull
  <2>1. main.cmd \in Commands
    BY <1>1, <1>8 DEF CreateFull, WellPlaced
  <2> QED
    BY <1>6, <1>8, <2>1 DEF CreateFull
<1>9. CASE Save
  BY <1>1, <1>9 DEF Save, MainStates
<1>10. CASE SkipEntry
  BY <1>1, <1>10 DEF SkipEntry, MainStates
<1>11. CASE StartEntry
  <2>1. PICK r : main' = [main EXCEPT
                           !.k = @ + 1,
                           !.left = @ - 1,
                           !.pc = IF r > 1 THEN "retire" ELSE "start",
                           !.over = IF r > 1 THEN r ELSE 0]
    BY <1>11 DEF StartEntry
  <2>2. main'.over # -1
    BY <1>1, <2>1 DEF MainStates
  <2> QED
    BY <1>11, <2>2 DEF StartEntry
<1>12. CASE Retire
  <2>1. PICK o \in Ids : o = main.over
    BY <1>1, <1>12 DEF Retire, WellPlaced
  <2>2. RemoveTask(task, o).result # -1
    <3>1. Balanced(o) /\ task' = RemoveTask(task, o).table
      BY <1>12, <2>1 DEF Retire
    <3> QED
      BY <1>12, <2>1, <3>1, RetireDrops, RemovePays
  <2>3. main'.over # -1
    BY <1>1, <1>12, <2>1, <2>2 DEF Retire, MainStates
  <2> QED
    BY <1>12, <2>3 DEF Retire
<1>13. CASE Abort
  <2>1. PICK o \in Ids : o = main.over
    BY <1>1, <1>13 DEF Abort, WellPlaced
  <2>2. hist'[-1] = hist[-1]
    BY <1>1, <1>13, <2>1, TellOthers DEF Abort
  <2>3. main'.over # -1
    BY <1>1, <1>13 DEF Abort, MainStates
  <2> QED
    BY <1>13, <2>2, <2>3 DEF Abort
<1>14. CASE Finish
  <2>1. main.cmd \in Commands
    BY <1>1, <1>14 DEF Finish, WellPlaced
  <2> QED
    BY <1>6, <1>14, <2>1 DEF Finish
<1>15. ASSUME NEW i \in TimerSlots, Fire(i)
       PROVE  main'.over # -1 /\ fired'.ended # -1 /\ hist'[-1] = <<>>
  BY <1>15 DEF Fire, TimerInCallback
<1>16. CASE EndAction
  <2>1. PICK o \in Ids : o = fired.id
    BY <1>1, <1>16 DEF EndAction, WellPlaced
  <2>2. RemoveTask(task, o).result # -1
    <3>1. Balanced(o) /\ task' = RemoveTask(task, o).table
      BY <1>16, <2>1 DEF EndAction
    <3> QED
      BY <1>16, <2>1, <3>1, EndDrops, RemovePays
  <2>3. \/ fired' = IdleTimer
        \/ fired' = [IdleTimer EXCEPT !.pc = "tell",
                                      !.ended = RemoveTask(task, o).result]
    BY <1>16, <2>1 DEF EndAction
  <2>4. fired'.ended # -1
    BY <1>2, <2>2, <2>3, IdleMainType DEF FiredStates
  <2> QED
    BY <1>16, <2>4 DEF EndAction
<1>17. CASE TellEnd
  <2>1. PICK o \in Ids : o = fired.ended
    BY <1>1, <1>17 DEF TellEnd, WellPlaced
  <2>2. hist'[-1] = hist[-1]
    BY <1>1, <1>17, <2>1, TellOthers DEF TellEnd
  <2> QED
    BY <1>2, <1>17, <2>2 DEF TellEnd
<1>18. CASE Rearm
  BY <1>2, <1>18 DEF Rearm
<1>19. CASE TakeRequest \/ AnswerCall \/ AnswerEnds
  <2>1. main'.over # -1
    BY <1>1, <1>2, <1>19, IdleMainType
       DEF TakeRequest, AnswerCall, AnswerEnds, MainStates
  <2> QED
    BY <1>19, <2>1 DEF TakeRequest, AnswerCall, AnswerEnds
<1> QED
  BY <1>3, <1>4, <1>5, <1>7, <1>8, <1>9, <1>10, <1>11, <1>12, <1>13, <1>14,
     <1>15, <1>16, <1>17, <1>18, <1>19 DEF Next, MainStep, TimerStep

(* NoEventForNoTask: every call of removeBuggyTask made by a callback or   *)
(* for an overwritten action finds a row of its id, so the value -1, which *)
(* the callers take for an ended task, never reaches them.                 *)
THEOREM NoEventForNoTaskAlways == Spec => []NoEventForNoTask
<1>1. Init => NoMinusOne
  BY DEF Init, NoMinusOne, IdleMain, IdleTimer
<1>2. TypeInv /\ NeverEndsEarly /\ NoMinusOne /\ [Next]_vars => NoMinusOne'
  <2> SUFFICES ASSUME TypeInv, NeverEndsEarly, NoMinusOne, [Next]_vars, ~overran'
               PROVE  main'.over # -1 /\ fired'.ended # -1 /\ hist'[-1] = <<>>
    BY DEF NoMinusOne
  <2>1. ~overran
    BY OverranStays
  <2>2. \A id \in Ids : Balanced(id)
    BY <2>1 DEF NeverEndsEarly, Balanced
  <2>3. main.over # -1 /\ fired.ended # -1 /\ hist[-1] = <<>>
    BY <2>1 DEF NoMinusOne
  <2> QED
    BY <2>1, <2>2, <2>3, NoMinusOneStep
<1>3. NoMinusOne => NoEventForNoTask
  BY DEF NoMinusOne, NoEventForNoTask
<1> QED
  BY <1>1, <1>2, <1>3, InitTypeInv, TypeInvStep, NeverEndsEarlyAlways, PTL DEF Spec

------------------------------------------------------------------------------
(* Rows of the sender table.  What makes SenderPerTask inductive: between  *)
(* createBuggyTask and saveSenderOfMsgId there is one row of the sender    *)
(* table less than the task allows.                                        *)
CommandIds == Ids \ {r.id : r \in Requests}
Saving(id) == IF main.pc = "save" /\ main.cmd.id = id THEN 1 ELSE 0
Traced(id) ==
    Cardinality(EntriesOf(sender, id)) + Saving(id)
        <= Cardinality(RowsOf(task, id)) + Announcing(id)

(* What the balance of an id is made of.                                   *)
LEMMA TracedTerms ==
  ASSUME NEW id
  PROVE  /\ Cardinality(EntriesOf(sender, id)) \in Nat
         /\ Cardinality(RowsOf(task, id)) \in Nat
         /\ Saving(id) \in 0 .. 1 /\ Announcing(id) \in 0 .. 2
         /\ sender' = sender => EntriesOf(sender, id)' = EntriesOf(sender, id)
         /\ task' = task => RowsOf(task, id)' = RowsOf(task, id)
         /\ Cardinality(EntriesOf(sender, id))' \in Nat
         /\ Cardinality(RowsOf(task, id))' \in Nat
         /\ Saving(id)' \in 0 .. 1 /\ Announcing(id)' \in 0 .. 2
<1>1. /\ Cardinality(EntriesOf(sender, id)) \in Nat
      /\ Cardinality(RowsOf(task, id)) \in Nat
  BY EntriesFinite, RowsFinite
<1>2. /\ Cardinality(EntriesOf(sender', id)) \in Nat
      /\ Cardinality(RowsOf(task', id)) \in Nat
  BY EntriesFinite, RowsFinite
<1>3. Saving(id) \in 0 .. 1 /\ Announcing(id) \in 0 .. 2
  BY DEF Saving, Announcing
<1>4. Saving(id)' \in 0 .. 1 /\ Announcing(id)' \in 0 .. 2
  BY DEF Saving, Announcing
<1>5. /\ EntriesOf(sender, id)' = EntriesOf(sender', id)
      /\ RowsOf(task, id)' = RowsOf(task', id)
  BY DEF EntriesOf, RowsOf
<1> QED
  BY <1>1, <1>2, <1>3, <1>4, <1>5

(* Steps that leave both tables alone and neither end nor save.            *)
LEMMA TracedSame ==
  ASSUME NEW id, Traced(id), sender' = sender, task' = task,
         Saving(id)' = Saving(id), Announcing(id)' = Announcing(id)
  PROVE  Traced(id)'
  BY TracedTerms DEF Traced

(* createBuggyTask gives the command its row of the task table, before its *)
(* sender is saved.                                                        *)
LEMMA TracedCreate ==
  ASSUME TypeInv, Create, NEW id \in CommandIds, Traced(id)
  PROVE  Traced(id)'
<1>1. /\ main.pc = "create" /\ main.cmd \in Commands
      /\ task \in TaskTables(Ids, NACTION) /\ main \in MainStates
      /\ CreateStops(task, main.cmd.id) # {}
      /\ sender' = sender /\ fired' = fired
  BY DEF TypeInv, TypeOK, WellPlaced, TaskTables, Create
<1>2. PICK o \in Ids : o = main.cmd.id
  BY <1>1 DEF Ids, Messages
<1> DEFINE new == CreateTask(task, o, ActionCount(main.cmd))
<1>3. /\ task' = new.table
      /\ main' = IF new.result > 0 THEN Opened ELSE IdleMain
  BY <1>2 DEF Create
<1>4. \/ new.table = task /\ new.result = -1
      \/ \E i \in TaskRows :
            /\ task[i].num = 0 /\ new.table[i].num = o
            /\ \A k \in TaskRows \ {i} : new.table[k] = task[k]
  <2>1. DOMAIN task = TaskRows /\ CreateStops(task, o) # {}
    BY <1>1, <1>2 DEF TaskTables
  <2> QED
    BY <2>1, CreateOpens
<1> HIDE DEF new
<1>5. /\ Announcing(id)' = Announcing(id)
      /\ Saving(id) = 0
      /\ Saving(id)' = 1 => id = o
  <2>1. main'.pc \in {"save", "idle"} /\ (main'.pc = "save" => main'.cmd = main.cmd)
    BY <1>1, <1>3 DEF Opened, IdleMain, MainStates
  <2> QED
    BY <1>1, <1>2, <2>1 DEF Announcing, Saving
<1>6. CASE new.table = task /\ new.result = -1
  <2>1. main' = IdleMain
    BY <1>3, <1>6
  <2>2. Saving(id)' = 0
    BY <2>1 DEF Saving, IdleMain
  <2> QED
    BY <1>1, <1>3, <1>5, <1>6, <2>2, TracedSame
<1>7. ASSUME NEW i \in TaskRows, task[i].num = 0, new.table[i].num = o,
             \A k \in TaskRows \ {i} : new.table[k] = task[k]
      PROVE  Traced(id)'
  <2>1. 0 \notin Ids /\ id \in Ids
    BY IdsPositive DEF CommandIds
  <2>2. /\ \A j \in Ids \ {o} : RowsOf(new.table, j) = RowsOf(task, j)
        /\ Cardinality(RowsOf(new.table, o)) = Cardinality(RowsOf(task, o)) + 1
    BY <1>7, <2>1, OneRowMore
  <2>3. Cardinality(RowsOf(task, id))'
          = Cardinality(RowsOf(task, id)) + IF id = o THEN 1 ELSE 0
    <3>1. RowsOf(task, id)' = RowsOf(new.table, id)
      BY <1>3 DEF RowsOf
    <3>2. Cardinality(RowsOf(task, id)) \in Nat
      BY TracedTerms
    <3> QED
      BY <2>1, <2>2, <3>1, <3>2
  <2>4. Cardinality(EntriesOf(sender, id))' = Cardinality(EntriesOf(sender, id))
    BY <1>1, TracedTerms
  <2> QED
    BY <1>5, <2>3, <2>4, TracedTerms DEF Traced
<1> QED
  BY <1>4, <1>6, <1>7

(* saveSenderOfMsgId, for a command or a request.                          *)
LEMMA TracedSave ==
  ASSUME TypeInv, Save \/ AnswerCall, NEW id \in CommandIds, Traced(id)
  PROVE  Traced(id)'
<1>1. /\ sender \in [SenderRows -> SenderRow] /\ main \in MainStates
      /\ task' = task /\ fired' = fired
      /\ Ids \subseteq Nat \ {0} /\ id \in Ids
      /\ main.cmd \in Messages
  BY IdsPositive
     DEF TypeInv, TypeOK, WellPlaced, Save, AnswerCall, CommandIds, Messages
<1>2. PICK o \in Ids : o = main.cmd.id
  BY <1>1 DEF Ids
<1>3. /\ main'.pc \in {"start", "answer"}
      /\ main.pc = "save" \/ id # o
  <2>1. CASE Save
    BY <1>1, <2>1 DEF Save, MainStates
  <2>2. CASE AnswerCall
    <3>1. main.cmd \in Requests
      BY <2>2 DEF AnswerCall, TypeInv, WellPlaced
    <3> QED
      BY <1>1, <1>2, <2>2, <3>1 DEF AnswerCall, MainStates, CommandIds
  <2> QED
    BY <2>1, <2>2
<1>4. Saving(id)' = 0 /\ Announcing(id)' = Announcing(id)
  <2>1. main.pc \in {"save", "answer"}
    BY DEF Save, AnswerCall
  <2> QED
    BY <1>1, <1>3, <2>1 DEF Saving, Announcing
<1>5. /\ EntriesOf(sender, id)' = EntriesOf(sender', id)
      /\ RowsOf(task, id)' = RowsOf(task, id)
  BY <1>1 DEF EntriesOf, RowsOf
<1>6. ASSUME NEW start \in SaveStarts, sender' = SaveSender(sender, start, o, rxFrom)
      PROVE  Traced(id)'
  <2>1. start \in Nat
    BY SaveStartsAssumption
  <2>2. o \in Nat \ {0} /\ id \in Nat \ {0}
    BY <1>1
  <2>3. /\ id # o => EntriesOf(sender', id) = EntriesOf(sender, id)
        /\ Cardinality(EntriesOf(sender', o)) <= Cardinality(EntriesOf(sender, o)) + 1
    BY <1>1, <1>6, <2>1, <2>2, SaveSenderRows
  <2>4. CASE id # o
    BY <1>4, <1>5, <2>3, <2>4, TracedTerms DEF Traced
  <2>5. CASE id = o
    <3>1. Saving(id) = 1
      BY <1>2, <1>3, <2>5 DEF Saving
    <3> QED
      BY <1>4, <1>5, <2>3, <2>5, <3>1, TracedTerms DEF Traced
  <2> QED
    BY <2>4, <2>5
<1>7. ASSUME id # o, sender' = RemoveSender(sender, o) PROVE Traced(id)'
  <2>1. o \in Int /\ id \in Nat \ {0}
    BY <1>1
  <2>2. EntriesOf(sender', id) = EntriesOf(sender, id)
    BY <1>1, <1>7, <2>1, RemoveSenderRows
  <2> QED
    BY <1>4, <1>5, <2>2, TracedTerms DEF Traced
<1>8. CASE Save
  BY <1>2, <1>6, <1>8 DEF Save
<1>9. CASE AnswerCall
  <2>1. id # o
    BY <1>3, <1>9 DEF AnswerCall
  <2> QED
    BY <1>2, <1>6, <1>7, <1>9, <2>1 DEF AnswerCall
<1> QED
  BY <1>8, <1>9

(* removeBuggyTask frees a row of the id, and whoever learns it frees the  *)
(* sender's with the announcement: Retire and EndAction come to this.      *)
LEMMA TracedRemove ==
  ASSUME TypeInv, NEW o \in Ids, NEW id \in CommandIds, Traced(id),
         task' = RemoveTask(task, o).table, sender' = sender,
         Saving(id)' = Saving(id),
         Announcing(id)' = Announcing(id)
             + IF id = o /\ RemoveTask(task, o).result = o THEN 1 ELSE 0
  PROVE  Traced(id)'
<1> DEFINE new == RemoveTask(task, o)
<1>1. /\ task \in [TaskRows -> TaskRow]
      /\ id \in Nat \ {0} /\ o \in Nat \ {0}
  <2>1. /\ \A n \in Ids \cup {0} : n \in Int
        /\ \A n \in 0 .. NACTION : n \in Int
    BY IdsPositive
  <2>2. task \in [TaskRows -> TaskRow]
    <3>1. task \in [TaskRows -> [num : Ids \cup {0}, count : 0 .. NACTION]]
      BY DEF TypeInv, TypeOK
    <3>2. ASSUME NEW x \in [num : Ids \cup {0}, count : 0 .. NACTION]
          PROVE  x \in TaskRow
      <4>1. x = [num |-> x.num, count |-> x.count]
        OBVIOUS
      <4>2. x.num \in Ids \cup {0} /\ x.count \in 0 .. NACTION
        OBVIOUS
      <4>3. x.num \in Int /\ x.count \in Int
        BY <2>1, <4>2, Zenon
      <4> QED
        BY <4>1, <4>3 DEF TaskRow
    <3> QED
      BY <3>1, <3>2
  <2> QED
    BY <2>2, IdsPositive DEF CommandIds
<1>2. /\ \A j \in (Nat \ {0}) \ {o} : RowsOf(new.table, j) = RowsOf(task, j)
      /\ \/ new.result \in {0, -1} /\ RowsOf(new.table, o) = RowsOf(task, o)
         \/ /\ new.result = o
            /\ Cardinality(RowsOf(task, o)) = Cardinality(RowsOf(new.table, o)) + 1
  BY <1>1, RemoveTaskRows
<1>3. /\ RowsOf(task, id)' = RowsOf(new.table, id)
      /\ EntriesOf(sender, id)' = EntriesOf(sender, id)
  BY DEF RowsOf, EntriesOf
<1>4. Announcing(id)' = Announcing(id) + IF id = o /\ new.result = o THEN 1 ELSE 0
  OBVIOUS
<1> HIDE DEF new
<1>5. CASE id # o \/ new.result # o
  <2>1. RowsOf(task, id)' = RowsOf(task, id)
    BY <1>1, <1>2, <1>3, <1>5
  <2>2. Announcing(id)' = Announcing(id)
    BY <1>4, <1>5, TracedTerms
  <2> QED
    BY <1>3, <2>1, <2>2, TracedTerms DEF Traced
<1>6. CASE id = o /\ new.result = o
  <2>1. Cardinality(RowsOf(task, id)) = Cardinality(RowsOf(task, id))' + 1
    BY <1>1, <1>2, <1>3, <1>6
  <2>2. Announcing(id)' = Announcing(id) + 1
    BY <1>4, <1>6
  <2> QED
    BY <1>3, <2>1, <2>2, TracedTerms DEF Traced
<1> QED
  BY <1>5, <1>6

(* setAsync...Action retires an overwritten action; a callback ends its    *)
(* action.                                                                 *)
LEMMA TracedEnd ==
  ASSUME TypeInv, Retire \/ EndAction, NEW id \in CommandIds, Traced(id)
  PROVE  Traced(id)'
<1>0. /\ main \in MainStates /\ id \in Nat \ {0} /\ \A o \in Ids : o # 0 /\ o # -1
  <2>1. \A o \in Ids : o # 0 /\ o # -1
    BY IdsPositive
  <2>2. id \in Nat \ {0}
    BY IdsPositive DEF CommandIds
  <2> QED
    BY <2>1, <2>2 DEF TypeInv, TypeOK
<1>1. CASE Retire
  <2>1. PICK o \in Ids : o = main.over
    BY <1>1 DEF Retire, TypeInv, WellPlaced
  <2> DEFINE res == RemoveTask(task, o).result
  <2>2. /\ task' = RemoveTask(task, o).table /\ sender' = sender /\ fired' = fired
        /\ main.pc = "retire"
        /\ main' = [main EXCEPT !.pc = IF res # 0 THEN "abort" ELSE "start",
                                !.over = res]
    BY <1>1, <2>1 DEF Retire
  <2>3. res \in {o, 0, -1}
    BY IdsPositive, CommandsAssumption, RemoveTaskType
       DEF TypeInv, TypeOK, WellPlaced, TaskTables
  <2> HIDE DEF res
  <2>4. /\ main'.pc = (IF res # 0 THEN "abort" ELSE "start")
        /\ main'.over = res
    BY <1>0, <2>2 DEF MainStates
  <2>5. Saving(id) = 0 /\ Saving(id)' = 0
    BY <2>2, <2>4 DEF Saving
  <2>6. Announcing(id)' = Announcing(id) + IF id = o /\ res = o THEN 1 ELSE 0
    BY <1>0, <2>2, <2>3, <2>4 DEF Announcing
  <2> QED
    BY <2>2, <2>5, <2>6, TracedRemove DEF res
<1>2. CASE EndAction
  <2>1. PICK o \in Ids : o = fired.id
    BY <1>2 DEF EndAction, TypeInv, WellPlaced
  <2> DEFINE res == RemoveTask(task, o).result
  <2>2. /\ task' = RemoveTask(task, o).table /\ sender' = sender /\ main' = main
        /\ fired.pc = "call"
        /\ fired' = IF (IF fired.type = TypeOf("led") THEN res > 0 ELSE res # 0)
                    THEN [IdleTimer EXCEPT !.pc = "tell", !.ended = res]
                    ELSE IdleTimer
    BY <1>2, <2>1 DEF EndAction
  <2>3. res \in {o, 0, -1}
    BY IdsPositive, CommandsAssumption, RemoveTaskType
       DEF TypeInv, TypeOK, WellPlaced, TaskTables
  <2> HIDE DEF res
  <2>4. o > 0
    BY IdsPositive
  <2>5. /\ res = o => fired'.pc = "tell" /\ fired'.ended = o
        /\ res # o => fired'.pc = "scan" \/ fired'.ended = -1
    BY <1>0, <2>2, <2>3, <2>4 DEF IdleTimer
  <2>6. Saving(id)' = Saving(id)
    BY <2>2 DEF Saving
  <2>7. Announcing(id)' = Announcing(id) + IF id = o /\ res = o THEN 1 ELSE 0
    BY <1>0, <2>2, <2>5 DEF Announcing
  <2> QED
    BY <2>2, <2>6, <2>7, TracedRemove DEF res
<1> QED
  BY <1>1, <1>2

(* The two places that send an end or abort event free the sender's row.   *)
LEMMA TracedTell ==
  ASSUME TypeInv, Abort \/ TellEnd, NEW id \in CommandIds, Traced(id),
         Saving(id) <= Cardinality(RowsOf(task, id))
  PROVE  Traced(id)'
<1>1. /\ sender \in [SenderRows -> SenderRow] /\ main \in MainStates
      /\ task' = task /\ id \in Nat \ {0}
  BY IdsPositive DEF TypeInv, TypeOK, Abort, TellEnd, CommandIds
<1>2. ASSUME NEW o \in Ids \cup {-1}, sender' = RemoveSender(sender, o),
             Saving(id)' = Saving(id) \/ Saving(id)' = 0,
             Announcing(id)' = Announcing(id) - IF id = o THEN 1 ELSE 0
      PROVE  Traced(id)'
  <2>1. o \in Int /\ id # -1
    BY <1>1, IdsInt
  <2>2. /\ id # o => EntriesOf(sender', id) = EntriesOf(sender, id)
        /\ o # -1 => \/ EntriesOf(sender', o) = {}
                     \/ Cardinality(EntriesOf(sender', o)) + 1
                            <= Cardinality(EntriesOf(sender, o))
    <3>1. ASSUME id # o PROVE EntriesOf(sender', id) = EntriesOf(sender, id)
      <4>1. id \in (Nat \ {0}) \ {o}
        BY <1>1, <3>1
      <4> QED
        BY <1>1, <1>2, <2>1, <4>1, RemoveSenderRows
    <3>2. o # -1 => \/ EntriesOf(sender', o) = {}
                    \/ Cardinality(EntriesOf(sender', o)) + 1
                            <= Cardinality(EntriesOf(sender, o))
      BY <1>1, <1>2, <2>1, RemoveSenderRows
    <3> QED
      BY <3>1, <3>2
  <2>3. /\ EntriesOf(sender, id)' = EntriesOf(sender', id)
        /\ RowsOf(task, id)' = RowsOf(task, id)
    BY <1>1 DEF EntriesOf, RowsOf
  <2>4. CASE id # o
    <3>1. Announcing(id)' = Announcing(id)
      BY <1>2, <2>4, TracedTerms
    <3> QED
      BY <1>2, <2>2, <2>3, <2>4, <3>1, TracedTerms DEF Traced
  <2>5. CASE id = o
    <3>1. Announcing(id)' = Announcing(id) - 1
      BY <1>2, <2>5
    <3>2. CASE EntriesOf(sender', id) = {}
      <4>1. Cardinality(EntriesOf(sender, id))' = 0
        BY <2>3, <3>2, FS_EmptySet
      <4>2. Saving(id)' <= Cardinality(RowsOf(task, id))'
        BY <1>2, <2>3, TracedTerms
      <4> QED
        BY <4>1, <4>2, TracedTerms DEF Traced
    <3>3. CASE Cardinality(EntriesOf(sender', id)) + 1 <= Cardinality(EntriesOf(sender, id))
      BY <1>2, <2>3, <3>1, <3>3, TracedTerms DEF Traced
    <3> QED
      BY <2>1, <2>2, <2>5, <3>2, <3>3
  <2> QED
    BY <2>4, <2>5
<1>3. CASE Abort
  <2>1. PICK o \in Ids \cup {-1} : o = main.over
    BY <1>3 DEF Abort, TypeInv, WellPlaced
  <2>2. main.pc = "abort" /\ main'.pc = "start" /\ fired' = fired
        /\ sender' = RemoveSender(sender, o)
    BY <1>1, <1>3, <2>1 DEF Abort, MainStates
  <2>3. Saving(id)' = Saving(id)
    BY <2>2 DEF Saving
  <2>4. Announcing(id)' = Announcing(id) - IF id = o THEN 1 ELSE 0
    BY <2>1, <2>2 DEF Announcing
  <2> QED
    BY <1>2, <2>2, <2>3, <2>4
<1>4. CASE TellEnd
  <2>1. PICK o \in Ids \cup {-1} : o = fired.ended
    BY <1>4 DEF TellEnd, TypeInv, WellPlaced
  <2>2. fired.pc = "tell" /\ fired'.pc = "scan" /\ main' = main
        /\ sender' = RemoveSender(sender, o)
    BY <1>4, <2>1 DEF TellEnd, IdleTimer
  <2>3. Saving(id)' = Saving(id)
    BY <2>2 DEF Saving
  <2>4. Announcing(id)' = Announcing(id) - IF id = o THEN 1 ELSE 0
    BY <2>1, <2>2 DEF Announcing
  <2> QED
    BY <1>2, <2>2, <2>3, <2>4
<1> QED
  BY <1>3, <1>4

(* While the sender is being saved the actions are still to be started, so *)
(* by the balance the task has its row.                                    *)
SavesEarly == main.pc = "save" => main.left # 0

(* Every step keeps the save ahead of the first entry.                     *)
LEMMA SavesEarlyStep == TypeInv /\ SavesEarly /\ [Next]_vars => SavesEarly'
<1> SUFFICES ASSUME TypeInv, SavesEarly, [Next]_vars PROVE SavesEarly'
  OBVIOUS
<1>1. main \in MainStates
  BY DEF TypeInv, TypeOK
<1>2. CASE main' = main
  BY <1>2 DEF SavesEarly
<1>3. CASE main'.pc # "save"
  BY <1>3 DEF SavesEarly
<1>4. CASE Create \/ CreateFull
  <2>1. main.pc = "create" /\ (main' = Opened \/ main' = IdleMain)
    BY <1>4 DEF Create, CreateFull
  <2>2. ActionCount(main.cmd) # 0
    BY <2>1 DEF TypeInv, WellPlaced
  <2>3. CASE main' = Opened
    BY <1>1, <2>2, <2>3 DEF Opened, SavesEarly, MainStates
  <2>4. CASE main' = IdleMain
    BY <2>4 DEF IdleMain, SavesEarly
  <2> QED
    BY <2>1, <2>3, <2>4
<1>5. Take \/ TakeRequest => main' = main \/ main'.pc # "save"
  BY IdleMainType DEF Take, TakeRequest, MainStates
<1>6. AnswerCall \/ AnswerEnds \/ Save \/ Abort \/ Finish => main'.pc # "save"
  <2>1. AnswerCall => main'.pc # "save"
    BY <1>1 DEF AnswerCall, MainStates
  <2>2. AnswerEnds \/ Finish => main'.pc # "save"
    BY DEF AnswerEnds, Finish, IdleMain
  <2>3. Save => main'.pc # "save"
    BY <1>1 DEF Save, MainStates
  <2>4. Abort => main'.pc # "save"
    BY <1>1 DEF Abort, MainStates
  <2> QED
    BY <2>1, <2>2, <2>3, <2>4
<1>7. SkipEntry \/ Retire => main'.pc # "save"
  BY <1>1 DEF SkipEntry, Starting, Retire, MainStates
<1>8. StartEntry => main'.pc # "save"
  <2>1. SUFFICES ASSUME StartEntry PROVE main'.pc # "save"
    OBVIOUS
  <2>2. PICK r : main' = [main EXCEPT
                           !.k = @ + 1,
                           !.left = @ - 1,
                           !.pc = IF r > 1 THEN "retire" ELSE "start",
                           !.over = IF r > 1 THEN r ELSE 0]
    BY <2>1 DEF StartEntry
  <2> QED
    BY <1>1, <2>2 DEF MainStates
<1>9. (\E m \in Messages : Receive(m)) \/ TimerStep \/ UNCHANGED vars => main' = main
  BY DEF Receive, TimerStep, Fire, EndAction, TellEnd, Rearm, vars
<1> QED
  BY <1>2, <1>3, <1>4, <1>5, <1>6, <1>7, <1>8, <1>9 DEF Next, MainStep

(* A command that is about to save its sender has its row in the task table.*)
LEMMA SavingHasRow ==
  ASSUME TypeInv, SavesEarly, NEW id \in Ids, Balanced(id)
  PROVE  Saving(id) <= Cardinality(RowsOf(task, id))
<1>1. CASE ~(main.pc = "save" /\ main.cmd.id = id)
  BY <1>1, TracedTerms DEF Saving
<1>2. CASE main.pc = "save" /\ main.cmd.id = id
  <2>1. main.left \in Nat /\ main.left # 0
    BY <1>2 DEF SavesEarly, TypeInv, TypeOK, MainStates
  <2>2. <<"start", 1>> \in ToStart(id)
    <3>1. 1 \in 1 .. main.left
      BY <2>1
    <3> QED
      BY <1>2, <3>1 DEF ToStart
  <2>3. Running(id) # {}
    BY <2>2 DEF Running
  <2>4. IsFiniteSet(Running(id)) /\ Cardinality(Running(id)) \in Nat
    BY RunningFinite, FS_CardinalityType DEF TypeInv
  <2>5. Cardinality(Running(id)) # 0
    BY <2>3, <2>4, FS_EmptySet
  <2>6. Owed(id) # {}
    BY <2>4, <2>5, FS_EmptySet DEF Balanced
  <2>7. RowsOf(task, id) # {}
    BY <2>6 DEF Owed, OwedIn, RowsOf
  <2>8. Cardinality(RowsOf(task, id)) # 0
    BY <2>7, RowsFinite, FS_EmptySet
  <2> QED
    BY <2>8, TracedTerms
<1> QED
  BY <1>1, <1>2

(* Every step but the write past the table keeps the balance of the rows.  *)
LEMMA TracedStep ==
  ASSUME TypeInv, SavesEarly, [Next]_vars, ~overran', \A j \in Ids : Balanced(j),
         NEW id \in CommandIds, Traced(id)
  PROVE  Traced(id)'
<1>1. main \in MainStates
  BY DEF TypeInv, TypeOK
<1>2. ASSUME sender' = sender, task' = task, main' = main, fired' = fired
      PROVE  Traced(id)'
  BY <1>2, TracedSame DEF Saving, Announcing
<1>3. ASSUME sender' = sender, task' = task, fired' = fired,
             main.pc \notin {"save", "abort"}, main'.pc \notin {"save", "abort"}
      PROVE  Traced(id)'
  BY <1>3, TracedSame DEF Saving, Announcing
<1>4. CASE UNCHANGED vars
  BY <1>2, <1>4 DEF vars
<1>5. CASE \E m \in Messages : Receive(m)
  BY <1>2, <1>5 DEF Receive
<1>6. CASE Take \/ TakeRequest
  <2>1. /\ sender' = sender /\ task' = task /\ fired' = fired
        /\ main.pc = "idle"
    BY <1>6 DEF Take, TakeRequest
  <2>2. main' = main \/ main'.pc \in {"create", "answer"}
    BY <1>6, IdleMainType DEF Take, TakeRequest, MainStates
  <2> QED
    BY <1>2, <1>3, <2>1, <2>2
<1>7. CASE AnswerEnds
  BY <1>3, <1>7 DEF AnswerEnds, IdleMain
<1>8. CASE CreateFull
  <2>1. main' = IdleMain
    BY <1>8 DEF CreateFull
  <2> QED
    BY <1>3, <1>8, <2>1 DEF CreateFull, IdleMain
<1>9. CASE SkipEntry \/ Finish
  <2>1. /\ sender' = sender /\ task' = task /\ fired' = fired
        /\ main.pc = "start"
    BY <1>9 DEF SkipEntry, Finish, Starting
  <2>2. main'.pc \in {"start", "idle"}
    <3>1. SkipEntry => main'.pc = "start"
      BY <1>1, <2>1 DEF SkipEntry, MainStates
    <3>2. Finish => main'.pc = "idle"
      BY DEF Finish, IdleMain
    <3> QED
      BY <1>9, <3>1, <3>2
  <2> QED
    BY <1>3, <2>1, <2>2
<1>10. CASE StartEntry
  <2>1. PICK r : main' = [main EXCEPT
                           !.k = @ + 1,
                           !.left = @ - 1,
                           !.pc = IF r > 1 THEN "retire" ELSE "start",
                           !.over = IF r > 1 THEN r ELSE 0]
    BY <1>10 DEF StartEntry
  <2>2. main'.pc \in {"retire", "start"}
    BY <1>1, <2>1 DEF MainStates
  <2> QED
    BY <1>3, <1>10, <2>2 DEF StartEntry, Starting
<1>11. CASE Create
  BY <1>11, TracedCreate
<1>12. CASE Save \/ AnswerCall
  BY <1>12, TracedSave
<1>13. CASE Retire \/ EndAction
  BY <1>13, TracedEnd
<1>14. CASE Abort \/ TellEnd
  <2>1. id \in Ids
    BY DEF CommandIds
  <2>2. Saving(id) <= Cardinality(RowsOf(task, id))
    BY <2>1, SavingHasRow
  <2> QED
    BY <1>14, <2>2, TracedTell
<1>15. CASE Rearm \/ \E i \in TimerSlots : Fire(i)
  <2>1. /\ sender' = sender /\ task' = task /\ main' = main
        /\ fired.pc # "tell" /\ fired'.pc # "tell"
    BY <1>15 DEF Rearm, Fire, IdleTimer, TimerInCallback
  <2>2. Saving(id)' = Saving(id)
    BY <2>1 DEF Saving
  <2>3. Announcing(id)' = Announcing(id)
    BY <2>1 DEF Announcing
  <2> QED
    BY <2>1, <2>2, <2>3, TracedSame
<1> QED
  BY <1>4, <1>5, <1>6, <1>7, <1>8, <1>9, <1>10, <1>11, <1>12, <1>13, <1>14, <1>15
  DEF Next, MainStep, TimerStep

TracedRows == ~overran => \A id \in CommandIds : Traced(id)

(* SenderPerTask: whatever ids clients repeat and wherever the             *)
(* uninitialised counter of saveSenderOfMsgId starts, a command leaves no  *)
(* row of the sender table behind: each row belongs to an open task or to  *)
(* one whose end is being announced.                                       *)
THEOREM SenderPerTaskAlways == Spec => []SenderPerTask
<1>1. Init => SavesEarly
  BY DEF Init, IdleMain, SavesEarly
<1>2. Init => TracedRows
  <2> SUFFICES ASSUME Init, NEW id \in CommandIds PROVE Traced(id)
    BY DEF TracedRows
  <2>1. main.pc = "idle" /\ \A i \in SenderRows : sender[i].id = 0
    BY DEF Init, IdleMain, EmptySenderTable
  <2>2. id # 0
    BY IdsPositive DEF CommandIds
  <2>3. EntriesOf(sender, id) = {} /\ Saving(id) = 0
    BY <2>1, <2>2 DEF EntriesOf, Saving
  <2>4. Cardinality(EntriesOf(sender, id)) = 0
    BY <2>3, FS_EmptySet
  <2> QED
    BY <2>3, <2>4, TracedTerms DEF Traced
<1>3. TypeInv /\ NeverEndsEarly /\ SavesEarly /\ TracedRows /\ [Next]_vars => TracedRows'
  <2> SUFFICES ASSUME TypeInv, NeverEndsEarly, SavesEarly, TracedRows, [Next]_vars,
                      ~overran', NEW id \in CommandIds
               PROVE  Traced(id)'
    BY DEF TracedRows
  <2>1. ~overran
    BY OverranStays
  <2>2. \A j \in Ids : Balanced(j)
    BY <2>1 DEF NeverEndsEarly, Balanced
  <2>3. Traced(id)
    BY <2>1 DEF TracedRows
  <2> QED
    BY <2>2, <2>3, TracedStep
<1>4. TracedRows => SenderPerTask
  BY TracedTerms DEF TracedRows, SenderPerTask, Traced, CommandIds
<1> QED
  BY <1>1, <1>2, <1>3, <1>4, InitTypeInv, TypeInvStep, SavesEarlyStep, NeverEndsEarlyAlways,
     PTL DEF Spec
==============================================================================
