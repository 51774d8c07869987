--------------------------- MODULE BuggyTasksProofs --------------------------
(***************************************************************************)
(* Theorems about BuggyTasks, for every number of rows and slots, every set*)
(* of commands and every behaviour of the uninitialised counter.  First    *)
(* what the operations on the task, timer and sender tables do, for tables *)
(* of any size, and the counting arguments the proofs rest on; then the    *)
(* types.                                                                  *)
(***************************************************************************)
EXTENDS BuggyTasks, FiniteSetTheorems, WellFoundedInduction, TLAPS

LessOnNat == {ss \in Nat \X Nat : ss[1] < ss[2]}

(* < has no infinite descent on the naturals, as a set of pairs.           *)
LEMMA LessOnNatWellFounded == IsWellFoundedOn(LessOnNat, Nat)
  BY NatLessThanWellFounded, Zenon DEF OpToRel, LessOnNat

(* Min is the least element of every non-empty set of naturals; the scans  *)
(* of the tables stop at such an element.                                  *)
LEMMA MinIsLeast ==
  ASSUME NEW S \in SUBSET Nat, S # {}
  PROVE  Min(S) \in S /\ \A y \in S : Min(S) <= y
<1>1. PICK x \in S : \A y \in S : ~(<<y, x>> \in LessOnNat)
  BY LessOnNatWellFounded, WFMin
<1>2. \A y \in S : x <= y
  <2>1. TAKE y \in S
  <2>2. <<y, x>> \in Nat \X Nat
    OBVIOUS
  <2>3. ~(<<y, x>>[1] < <<y, x>>[2])
    BY <1>1, <2>2 DEF LessOnNat
  <2> QED
    BY <2>3
<1> QED
  BY <1>2 DEF Min

------------------------------------------------------------------------------
(* Counting.                                                               *)

(* Giving one element up for another does not make a set larger.           *)
LEMMA SwapCard ==
  ASSUME NEW R, NEW S, IsFiniteSet(R), NEW x \in R, NEW y,
         S \subseteq (R \ {x}) \cup {y}
  PROVE  IsFiniteSet(S) /\ Cardinality(S) <= Cardinality(R)
<1>1. /\ IsFiniteSet(R \ {x})
      /\ Cardinality(R \ {x}) = Cardinality(R) - 1
  BY FS_RemoveElement
<1>2. Cardinality(R) \in Nat /\ Cardinality(R \ {x}) \in Nat
  BY <1>1, FS_CardinalityType
<1>3. /\ IsFiniteSet((R \ {x}) \cup {y})
      /\ Cardinality((R \ {x}) \cup {y}) <= Cardinality(R)
  BY <1>1, <1>2, FS_AddElement
<1>4. /\ IsFiniteSet(S)
      /\ Cardinality(S) <= Cardinality((R \ {x}) \cup {y})
  BY <1>3, FS_Subset
<1>5. Cardinality(S) \in Nat /\ Cardinality((R \ {x}) \cup {y}) \in Nat
  BY <1>3, <1>4, FS_CardinalityType
<1> QED
  BY <1>2, <1>3, <1>4, <1>5

(* Losing an element makes a finite set smaller by one at least.           *)
LEMMA DropCard ==
  ASSUME NEW R, NEW S, IsFiniteSet(R), NEW x \in R, S \subseteq R \ {x}
  PROVE  IsFiniteSet(S) /\ Cardinality(S) <= Cardinality(R) - 1
<1>1. /\ IsFiniteSet(R \ {x})
      /\ Cardinality(R \ {x}) = Cardinality(R) - 1
  BY FS_RemoveElement
<1> QED
  BY <1>1, FS_Subset

------------------------------------------------------------------------------
(* The task table.                                                         *)

TaskTables(nums, n) == [TaskRows -> [num : nums \cup {0}, count : 0 .. n]]

(* Every row in use waits for at least one action.                         *)
RowsLive(tab) == \A i \in TaskRows : tab[i].num # 0 => tab[i].count >= 1

(* The scan of removeBuggyTask finds a row that carries the number.        *)
LEMMA FirstRow ==
  ASSUME NEW tab, NEW id, RowsOf(tab, id) # {}
  PROVE  /\ Min(RowsOf(tab, id)) \in TaskRows
         /\ tab[Min(RowsOf(tab, id))].num = id
<1>1. RowsOf(tab, id) \in SUBSET Nat
  BY NTaskAssumption DEF RowsOf, TaskRows
<1> QED
  BY <1>1, MinIsLeast DEF RowsOf

(* removeBuggyTask keeps the table well formed.                            *)
LEMMA RemoveTaskType ==
  ASSUME NEW nums, nums \subseteq Nat \ {0}, NEW n \in Nat,
         NEW tab \in TaskTables(nums, n), RowsLive(tab), NEW id \in nums
  PROVE  /\ RemoveTask(tab, id).table \in TaskTables(nums, n)
         /\ RowsLive(RemoveTask(tab, id).table)
         /\ RemoveTask(tab, id).result \in {id, 0, -1}
         /\ RemoveTask(tab, id).result = -1 <=> RowsOf(tab, id) = {}
<1>1. CASE RowsOf(tab, id) = {}
  BY <1>1 DEF RemoveTask
<1>2. CASE RowsOf(tab, id) # {}
  <2> DEFINE i == Min(RowsOf(tab, id))
  <2>1. i \in TaskRows /\ tab[i].num = id /\ tab[i].count \in 1 .. n
    BY <1>2, FirstRow DEF TaskTables, RowsLive
  <2>2. FreeRow \in [num : nums \cup {0}, count : 0 .. n]
    BY DEF FreeRow
  <2> HIDE DEF i
  <2>3. CASE tab[i].count - 1 <= 0
    <3>1. RemoveTask(tab, id) = [table |-> [tab EXCEPT ![i] = FreeRow], result |-> id]
      BY <1>2, <2>3 DEF RemoveTask, i
    <3> QED
      BY <1>2, <2>1, <2>2, <3>1 DEF TaskTables, RowsLive, FreeRow
  <2>4. CASE ~(tab[i].count - 1 <= 0)
    <3>1. RemoveTask(tab, id)
            = [table |-> [tab EXCEPT ![i].count = @ - 1], result |-> 0]
      BY <1>2, <2>4 DEF RemoveTask, i
    <3> QED
      BY <1>2, <2>1, <2>4, <3>1 DEF TaskTables, RowsLive
  <2> QED
    BY <2>3, <2>4
<1> QED
  BY <1>1, <1>2

OneLess(old, new) == \E p \in old : new = old \ {p}

(* removeBuggyTask takes exactly one owed action from the number it is     *)
(* given and none from any other.                                          *)
LEMMA RemoveTaskOwed ==
  ASSUME NEW nums, nums \subseteq Nat \ {0},
         NEW tab \in TaskTables(nums, NACTION), RowsLive(tab), NEW id \in nums,
         RowsOf(tab, id) # {}
  PROVE  /\ OneLess(OwedIn(tab, id), OwedIn(RemoveTask(tab, id).table, id))
         /\ \A j \in nums \ {id} :
               OwedIn(RemoveTask(tab, id).table, j) = OwedIn(tab, j)
<1> DEFINE i == Min(RowsOf(tab, id))
           new == RemoveTask(tab, id).table
<1>1. i \in TaskRows /\ tab[i].num = id /\ tab[i].count \in 1 .. NACTION
  BY FirstRow, CommandsAssumption DEF TaskTables, RowsLive
<1>2. \A j \in nums : j # 0
  OBVIOUS
<1> HIDE DEF i, new
<1>3. <<i, tab[i].count>> \in OwedIn(tab, id)
  BY <1>1 DEF OwedIn
<1>4. CASE tab[i].count - 1 <= 0
  <2>1. new = [tab EXCEPT ![i] = FreeRow]
    BY <1>4 DEF RemoveTask, i, new
  <2>2. \A k \in TaskRows : new[k] = IF k = i THEN FreeRow ELSE tab[k]
    BY <2>1 DEF TaskTables
  <2>3. \A k \in TaskRows : new[k].num = IF k = i THEN 0 ELSE tab[k].num
    BY <2>2 DEF FreeRow
  <2>4. \A k \in TaskRows : k # i => new[k] = tab[k]
    BY <2>2
  <2>5. tab[i].count = 1
    BY <1>1, <1>4, CommandsAssumption
  <2>6. OwedIn(new, id) = OwedIn(tab, id) \ {<<i, tab[i].count>>}
    BY <1>1, <1>2, <2>3, <2>4, <2>5, CommandsAssumption DEF OwedIn
  <2>7. \A j \in nums \ {id} : OwedIn(new, j) = OwedIn(tab, j)
    BY <1>1, <1>2, <2>3, <2>4 DEF OwedIn
  <2> QED
    BY <1>3, <2>6, <2>7 DEF new, OneLess
<1>5. CASE ~(tab[i].count - 1 <= 0)
  <2>1. new = [tab EXCEPT ![i].count = @ - 1]
    BY <1>5 DEF RemoveTask, i, new
  <2>2. \A k \in TaskRows : k # i => new[k] = tab[k]
    BY <2>1 DEF TaskTables
  <2>3. new[i].num = id /\ new[i].count = tab[i].count - 1
    BY <1>1, <2>1 DEF TaskTables
  <2>4. OwedIn(new, id) = OwedIn(tab, id) \ {<<i, tab[i].count>>}
    BY <1>1, <2>2, <2>3, CommandsAssumption DEF OwedIn
  <2>5. \A j \in nums \ {id} : OwedIn(new, j) = OwedIn(tab, j)
    BY <1>1, <2>2, <2>3 DEF OwedIn
  <2> QED
    BY <1>3, <2>4, <2>5 DEF new, OneLess
<1> QED
  BY <1>4, <1>5

(* The set of owed actions is finite.                                      *)
LEMMA OwedFinite ==
  ASSUME NEW tab, NEW id
  PROVE  IsFiniteSet(OwedIn(tab, id))
<1>1. IsFiniteSet(TaskRows) /\ IsFiniteSet(1 .. NACTION)
  BY FS_Interval, NTaskAssumption, CommandsAssumption DEF TaskRows
<1>2. IsFiniteSet(TaskRows \X (1 .. NACTION))
  BY <1>1, FS_Product
<1> QED
  BY <1>2, FS_Subset DEF OwedIn

OwesMore(nums, old, new, id, n) ==
    /\ Cardinality(OwedIn(new, id)) = Cardinality(OwedIn(old, id)) + n
    /\ \A j \in nums \ {id} : OwedIn(new, j) = OwedIn(old, j)

(* createBuggyTask either opens a row for the number, which then owes the  *)
(* n actions more than before, or leaves the table as it is.               *)
LEMMA CreateTaskEffect ==
  ASSUME NEW nums, nums \subseteq Nat \ {0},
         NEW tab \in TaskTables(nums, NACTION), RowsLive(tab), NEW id \in nums,
         NEW n \in 1 .. NACTION, CreateStops(tab, id) # {}
  PROVE  LET new == CreateTask(tab, id, n) IN
         /\ new.table \in TaskTables(nums, NACTION)
         /\ RowsLive(new.table)
         /\ new.result \in {id, -1}
         /\ new.result = -1 => new.table = tab
         /\ new.result = id => OwesMore(nums, tab, new.table, id, n)
<1> DEFINE i == Min(CreateStops(tab, id))
           new == CreateTask(tab, id, n)
<1>1. i \in TaskRows /\ tab[i].num \in {0, id}
  <2>1. CreateStops(tab, id) \in SUBSET Nat
    BY NTaskAssumption DEF CreateStops, TaskRows
  <2> QED
    BY <2>1, MinIsLeast DEF CreateStops
<1>2. \A j \in nums : j # 0 /\ j # -1
  OBVIOUS
<1> HIDE DEF i
<1>3. CASE tab[i].num # 0
  <2>1. new = [table |-> tab, result |-> -1]
    BY <1>3 DEF CreateTask, i
  <2> QED
    BY <1>2, <2>1
<1>4. CASE tab[i].num = 0
  <2>1. new = [table |-> [tab EXCEPT ![i] = [num |-> id, count |-> n]], result |-> id]
    BY <1>4 DEF CreateTask, i
  <2> DEFINE t == new.table
  <2>2. t = [tab EXCEPT ![i] = [num |-> id, count |-> n]] /\ new.result = id
    BY <2>1
  <2> HIDE DEF new
  <2>3. [num |-> id, count |-> n] \in [num : nums \cup {0}, count : 0 .. NACTION]
    BY CommandsAssumption
  <2>4. t \in TaskTables(nums, NACTION)
    BY <2>2, <2>3 DEF TaskTables
  <2>5. /\ \A k \in TaskRows : k # i => t[k] = tab[k]
        /\ t[i].num = id /\ t[i].count = n
    BY <1>1, <2>2 DEF TaskTables
  <2>6. RowsLive(t)
    BY <2>5, CommandsAssumption DEF RowsLive
  <2>7. \A j \in nums \ {id} : OwedIn(t, j) = OwedIn(tab, j)
    BY <1>2, <1>4, <2>5 DEF OwedIn
  <2>8. Cardinality(OwedIn(t, id)) = Cardinality(OwedIn(tab, id)) + n
    <3> DEFINE old == OwedIn(tab, id)
               add == {i} \X (1 .. n)
    <3>1. OwedIn(t, id) = old \cup add
      BY <1>1, <1>2, <1>4, <2>5, CommandsAssumption DEF OwedIn
    <3>2. old \cap add = {}
      BY <1>2, <1>4 DEF OwedIn
    <3>3. IsFiniteSet({i}) /\ Cardinality({i}) = 1
      BY FS_Singleton
    <3>4. IsFiniteSet(1 .. n) /\ Cardinality(1 .. n) = n
      BY FS_Interval, CommandsAssumption
    <3>5. IsFiniteSet(add) /\ Cardinality(add) = 1 * n
      BY <3>3, <3>4, FS_Product
    <3>6. IsFiniteSet(old) /\ Cardinality(old) \in Nat
      BY OwedFinite, FS_CardinalityType
    <3> HIDE DEF old, add
    <3>7. Cardinality(old \cup add)
            = Cardinality(old) + Cardinality(add) - Cardinality(old \cap add)
      BY <3>5, <3>6, FS_Union
    <3>8. Cardinality(old \cap add) = 0
      BY <3>2, FS_EmptySet
    <3>9. Cardinality(add) = n /\ n \in Int
      BY <3>5, CommandsAssumption
    <3>10. Cardinality(OwedIn(t, id)) = Cardinality(old) + n
      BY <3>1, <3>6, <3>7, <3>8, <3>9
    <3> QED
      BY <3>10 DEF old
  <2> QED
    BY <1>2, <2>2, <2>4, <2>6, <2>7, <2>8 DEF new, OwesMore
<1> QED
  BY <1>3, <1>4

(* createBuggyTask either leaves the table alone or puts the number into a *)
(* free row.                                                               *)
LEMMA CreateOpens ==
  ASSUME NEW tab, DOMAIN tab = TaskRows, NEW id, NEW n, CreateStops(tab, id) # {}
  PROVE  LET new == CreateTask(tab, id, n) IN
         \/ new.table = tab /\ new.result = -1
         \/ \E i \in TaskRows :
               /\ tab[i].num = 0 /\ new.table[i].num = id
               /\ \A k \in TaskRows \ {i} : new.table[k] = tab[k]
<1> DEFINE i == Min(CreateStops(tab, id))
           new == CreateTask(tab, id, n)
<1>1. i \in TaskRows
  <2>1. CreateStops(tab, id) \in SUBSET Nat
    BY NTaskAssumption DEF CreateStops, TaskRows
  <2> QED
    BY <2>1, MinIsLeast DEF CreateStops
<1> HIDE DEF i
<1>2. CASE tab[i].num # 0
  <2>1. new = [table |-> tab, result |-> -1]
    BY <1>2 DEF CreateTask, i
  <2> QED
    BY <2>1
<1>3. CASE tab[i].num = 0
  <2>1. new = [table |-> [tab EXCEPT ![i] = [num |-> id, count |-> n]], result |-> id]
    BY <1>3 DEF CreateTask, i
  <2>2. /\ new.table[i].num = id
        /\ \A k \in TaskRows \ {i} : new.table[k] = tab[k]
    BY <1>1, <2>1 DEF TaskTables
  <2> QED
    BY <1>1, <1>3, <2>2
<1> QED
  BY <1>2, <1>3

(* The rows of a number are finitely many.                                 *)
LEMMA RowsFinite ==
  ASSUME NEW tab, NEW id
  PROVE  IsFiniteSet(RowsOf(tab, id)) /\ Cardinality(RowsOf(tab, id)) \in Nat
<1>1. IsFiniteSet(TaskRows)
  BY FS_Interval, NTaskAssumption DEF TaskRows
<1> QED
  BY <1>1, FS_Subset, FS_CardinalityType DEF RowsOf

(* A free row that gets the number of a task is one row more for it, and   *)
(* none less for another.                                                  *)
LEMMA OneRowMore ==
  ASSUME NEW nums, 0 \notin nums, NEW tab, NEW new, NEW id \in nums,
         NEW i \in TaskRows, tab[i].num = 0, new[i].num = id,
         \A k \in TaskRows \ {i} : new[k] = tab[k]
  PROVE  /\ \A j \in nums \ {id} : RowsOf(new, j) = RowsOf(tab, j)
         /\ Cardinality(RowsOf(new, id)) = Cardinality(RowsOf(tab, id)) + 1
<1>1. RowsOf(new, id) = RowsOf(tab, id) \cup {i} /\ i \notin RowsOf(tab, id)
  BY DEF RowsOf
<1>2. Cardinality(RowsOf(new, id)) = Cardinality(RowsOf(tab, id)) + 1
  <2>1. IsFiniteSet(RowsOf(tab, id))
    BY RowsFinite
  <2>2. Cardinality(RowsOf(tab, id) \cup {i}) = Cardinality(RowsOf(tab, id)) + 1
    BY <1>1, <2>1, FS_AddElement
  <2> QED
    BY <1>1, <2>2
<1>3. \A j \in nums \ {id} : RowsOf(new, j) = RowsOf(tab, j)
  BY DEF RowsOf
<1> QED
  BY <1>2, <1>3

(* removeBuggyTask frees one row of the number when it reports its end,    *)
(* and otherwise none.                                                     *)
LEMMA RemoveTaskRows ==
  ASSUME NEW tab \in [TaskRows -> TaskRow], NEW id \in Nat \ {0}
  PROVE  LET new == RemoveTask(tab, id) IN
         /\ \A j \in (Nat \ {0}) \ {id} : RowsOf(new.table, j) = RowsOf(tab, j)
         /\ \/ new.result \in {0, -1} /\ RowsOf(new.table, id) = RowsOf(tab, id)
            \/ /\ new.result = id
               /\ Cardinality(RowsOf(tab, id)) = Cardinality(RowsOf(new.table, id)) + 1
<1> DEFINE new == RemoveTask(tab, id)
           i == Min(RowsOf(tab, id))
<1>2. CASE RowsOf(tab, id) = {}
  BY <1>2 DEF RemoveTask
<1>3. CASE RowsOf(tab, id) # {}
  <2>1. i \in TaskRows /\ tab[i].num = id
    BY <1>3, FirstRow
  <2> HIDE DEF i
  <2>2. CASE tab[i].count - 1 <= 0
    <3>1. new = [table |-> [tab EXCEPT ![i] = FreeRow], result |-> id]
      BY <1>3, <2>2 DEF RemoveTask, i
    <3>2. \A k \in TaskRows : new.table[k].num = IF k = i THEN 0 ELSE tab[k].num
      BY <3>1 DEF TaskRow, FreeRow
    <3>3. RowsOf(new.table, id) = RowsOf(tab, id) \ {i} /\ i \in RowsOf(tab, id)
      BY <2>1, <3>2 DEF RowsOf
    <3>4. Cardinality(RowsOf(new.table, id)) = Cardinality(RowsOf(tab, id)) - 1
      <4>1. IsFiniteSet(RowsOf(tab, id))
        BY RowsFinite
      <4> QED
        BY <3>3, <4>1, FS_RemoveElement
    <3>5. \A j \in (Nat \ {0}) \ {id} : RowsOf(new.table, j) = RowsOf(tab, j)
      BY <2>1, <3>2 DEF RowsOf
    <3>6. Cardinality(RowsOf(tab, id)) = Cardinality(RowsOf(new.table, id)) + 1
      BY <3>4, RowsFinite
    <3>7. new.result = id
      BY <3>1
    <3> HIDE DEF new
    <3> QED
      BY <3>5, <3>6, <3>7 DEF new
  <2>3. CASE ~(tab[i].count - 1 <= 0)
    <3>1. new = [table |-> [tab EXCEPT ![i].count = @ - 1], result |-> 0]
      BY <1>3, <2>3 DEF RemoveTask, i
    <3>2. \A k \in TaskRows : new.table[k].num = tab[k].num
      BY <2>1, <3>1 DEF TaskRow
    <3>3. \A j : RowsOf(new.table, j) = RowsOf(tab, j)
      BY <3>2 DEF RowsOf
    <3>4. new.result = 0
      BY <3>1
    <3> HIDE DEF new
    <3> QED
      BY <3>3, <3>4 DEF new
  <2> QED
    BY <2>2, <2>3
<1> QED
  BY <1>2, <1>3

------------------------------------------------------------------------------
(* The timer table.                                                        *)

TimerTables(nums) ==
    [TimerSlots -> [id : nums \cup {0}, name : Int, type : 0 .. 3,
                    fn : Modes \cup {"none"}]]

(* A call of setTimer with the outcome new put an action of id in slot i.  *)
Arms(tab, new, i, id) ==
    /\ new.table[i].id = id
    /\ \A k \in TimerSlots \ {i} : new.table[k] = tab[k]
    /\ new.result = IF tab[i].id = 0 THEN 1 ELSE tab[i].id

(* setTimer changes nothing (result 0), or one slot, which then carries the*)
(* new action; its result is the action that slot carried, 1 if none.      *)
LEMMA SetTimerEffect ==
  ASSUME NEW nums, nums \subseteq Nat \ {0}, NEW tab \in TimerTables(nums),
         NEW id \in nums, NEW name \in Int, NEW type \in 0 .. 3,
         NEW fn \in Modes \cup {"none"}
  PROVE  LET new == SetTimer(tab, id, name, type, fn) IN
         /\ new.table \in TimerTables(nums)
         /\ new.result \in nums \cup {0, 1}
         /\ \/ new.result = 0 /\ new.table = tab
            \/ \E i \in TimerSlots : Arms(tab, new, i, id)
<1> DEFINE stops == SetStops(tab, name, type)
           i == Min(stops)
           new == SetTimer(tab, id, name, type, fn)
           slot == [id |-> id, name |-> name, type |-> type, fn |-> fn]
<1>1. CASE stops = {}
  <2>1. new = [table |-> tab, result |-> 0]
    BY <1>1 DEF SetTimer
  <2> QED
    BY <2>1
<1>2. CASE stops # {}
  <2>1. i \in TimerSlots /\ (Matches(tab[i], name, type) \/ tab[i].id <= 0)
    <3>1. stops \in SUBSET Nat
      BY NTimerAssumption DEF SetStops, TimerSlots
    <3>2. i \in stops
      BY <1>2, <3>1, MinIsLeast
    <3> QED
      BY <3>2 DEF SetStops
  <2>2. new = [table  |-> [tab EXCEPT ![i] = slot],
               result |-> IF Matches(tab[i], name, type) /\ tab[i].id # 0
                          THEN tab[i].id ELSE 1]
    BY <1>2 DEF SetTimer
  <2> HIDE DEF i, new
  <2>3. tab[i].id \in nums \cup {0}
    BY <2>1 DEF TimerTables
  <2>4. tab[i].id <= 0 => tab[i].id = 0
    BY <2>3
  <2>5. new.result = IF tab[i].id = 0 THEN 1 ELSE tab[i].id
    BY <2>1, <2>2, <2>4
  <2>6. slot \in [id : nums \cup {0}, name : Int, type : 0 .. 3,
                 fn : Modes \cup {"none"}]
    OBVIOUS
  <2>7. new.table = [tab EXCEPT ![i] = slot]
    BY <2>2
  <2>8. new.table \in TimerTables(nums)
    BY <2>6, <2>7 DEF TimerTables
  <2>9. /\ new.table[i].id = id
        /\ \A k \in TimerSlots \ {i} : new.table[k] = tab[k]
    BY <2>1, <2>7 DEF TimerTables
  <2>10. new.result \in nums \cup {0, 1}
    BY <2>3, <2>5
  <2> QED
    BY <2>1, <2>5, <2>8, <2>9, <2>10 DEF new, Arms
<1> QED
  BY <1>1, <1>2

(* An expired slot carries no action; the others are untouched.            *)
LEMMA ExpireEffect ==
  ASSUME NEW nums, NEW tab \in TimerTables(nums), NEW i \in TimerSlots
  PROVE  /\ Expire(tab, i) \in TimerTables(nums)
         /\ Expire(tab, i)[i].id = 0
         /\ \A k \in TimerSlots \ {i} : Expire(tab, i)[k] = tab[k]
  BY DEF Expire, TimerTables

------------------------------------------------------------------------------
(* The sender table.                                                       *)

(* Saving, removing and looking up keep the table and its answers typed.   *)
LEMMA SenderTableType ==
  ASSUME NEW tab \in [SenderRows -> SenderRow], NEW id \in Int, NEW start \in Nat,
         NEW from \in Clients \cup {Garbage}
  PROVE  /\ SaveSender(tab, start, id, from) \in [SenderRows -> SenderRow]
         /\ RemoveSender(tab, id) \in [SenderRows -> SenderRow]
         /\ SenderOf(tab, id) \in Clients \cup {Garbage}
<1>1. EntriesOf(tab, id) # {} => Min(EntriesOf(tab, id)) \in SenderRows
  <2>1. EntriesOf(tab, id) \in SUBSET Nat
    BY NSenderAssumption DEF EntriesOf, SenderRows
  <2> QED
    BY <2>1, MinIsLeast DEF EntriesOf
<1>2. SenderOf(tab, id) \in Clients \cup {Garbage}
  BY <1>1 DEF SenderOf, SenderRow
<1>3. RemoveSender(tab, id) \in [SenderRows -> SenderRow]
  <2>1. [id |-> -1, from |-> Garbage] \in SenderRow
    BY DEF SenderRow
  <2> QED
    BY <2>1 DEF RemoveSender
<1>4. SaveSender(tab, start, id, from) \in [SenderRows -> SenderRow]
  BY DEF SaveSender, SenderRow
<1> QED
  BY <1>2, <1>3, <1>4

(* The rows of a sender are finitely many.                                 *)
LEMMA EntriesFinite ==
  ASSUME NEW tab, NEW id
  PROVE  IsFiniteSet(EntriesOf(tab, id)) /\ Cardinality(EntriesOf(tab, id)) \in Nat
<1>1. IsFiniteSet(SenderRows)
  BY FS_Interval, NSenderAssumption DEF SenderRows
<1> QED
  BY <1>1, FS_Subset, FS_CardinalityType DEF EntriesOf

(* saveSenderOfMsgId takes at most one row, and none of another id.        *)
LEMMA SaveSenderRows ==
  ASSUME NEW tab \in [SenderRows -> SenderRow], NEW id \in Nat \ {0}, NEW start \in Nat,
         NEW from
  PROVE  LET new == SaveSender(tab, start, id, from) IN
         /\ \A j \in (Nat \ {0}) \ {id} : EntriesOf(new, j) = EntriesOf(tab, j)
         /\ Cardinality(EntriesOf(new, id)) <= Cardinality(EntriesOf(tab, id)) + 1
<1> DEFINE free == {i \in SenderRows : i >= start /\ tab[i].id <= 0}
           new == SaveSender(tab, start, id, from)
           i == Min(free)
<1>1. CASE free = {}
  BY <1>1, EntriesFinite DEF SaveSender
<1>2. CASE free # {}
  <2>1. i \in SenderRows /\ tab[i].id <= 0
    <3>1. free \in SUBSET Nat
      BY NSenderAssumption DEF SenderRows
    <3> QED
      BY <1>2, <3>1, MinIsLeast
  <2>2. new = [tab EXCEPT ![i] = [id |-> id, from |-> from]]
    BY <1>2 DEF SaveSender
  <2> HIDE DEF i, free
  <2>3. \A k \in SenderRows : new[k].id = IF k = i THEN id ELSE tab[k].id
    BY <2>2
  <2>4. EntriesOf(new, id) = EntriesOf(tab, id) \cup {i}
    BY <2>1, <2>3 DEF EntriesOf
  <2>5. Cardinality(EntriesOf(new, id)) <= Cardinality(EntriesOf(tab, id)) + 1
    BY <2>4, EntriesFinite, FS_AddElement
  <2>6. \A j \in (Nat \ {0}) \ {id} : EntriesOf(new, j) = EntriesOf(tab, j)
    BY <2>1, <2>3 DEF EntriesOf
  <2> QED
    BY <2>5, <2>6
<1> QED
  BY <1>1, <1>2

(* removeSenderOfMsgId frees one row of the id, if there is one, and none  *)
(* of another.                                                             *)
LEMMA RemoveSenderRows ==
  ASSUME NEW tab \in [SenderRows -> SenderRow], NEW id \in Int
  PROVE  LET new == RemoveSender(tab, id) IN
         /\ \A j \in (Nat \ {0}) \ {id} : EntriesOf(new, j) = EntriesOf(tab, j)
         /\ id # -1 => \/ EntriesOf(new, id) = {}
                       \/ Cardinality(EntriesOf(new, id)) + 1
                              <= Cardinality(EntriesOf(tab, id))
<1> DEFINE new == RemoveSender(tab, id)
           i == Min(EntriesOf(tab, id))
<1>1. CASE EntriesOf(tab, id) = {}
  BY <1>1 DEF RemoveSender
<1>2. CASE EntriesOf(tab, id) # {}
  <2>1. i \in SenderRows /\ tab[i].id = id
    <3>1. EntriesOf(tab, id) \in SUBSET Nat
      BY NSenderAssumption DEF EntriesOf, SenderRows
    <3> QED
      BY <1>2, <3>1, MinIsLeast DEF EntriesOf
  <2>2. new = [tab EXCEPT ![i] = [id |-> -1, from |-> Garbage]]
    BY <1>2 DEF RemoveSender
  <2> HIDE DEF i
  <2>3. \A k \in SenderRows : new[k].id = IF k = i THEN -1 ELSE tab[k].id
    BY <2>2
  <2>4. ASSUME id # -1
        PROVE  Cardinality(EntriesOf(new, id)) + 1 <= Cardinality(EntriesOf(tab, id))
    <3>1. EntriesOf(new, id) = EntriesOf(tab, id) \ {i} /\ i \in EntriesOf(tab, id)
      BY <2>1, <2>3, <2>4 DEF EntriesOf
    <3>2. /\ IsFiniteSet(EntriesOf(tab, id))
          /\ Cardinality(EntriesOf(tab, id)) \in Nat
      BY EntriesFinite
    <3>3. Cardinality(EntriesOf(new, id)) = Cardinality(EntriesOf(tab, id)) - 1
      BY <3>1, <3>2, FS_RemoveElement
    <3> QED
      BY <3>2, <3>3
  <2>5. \A j \in (Nat \ {0}) \ {id} : EntriesOf(new, j) = EntriesOf(tab, j)
    BY <2>1, <2>3 DEF EntriesOf
  <2> QED
    BY <2>4, <2>5
<1> QED
  BY <1>1, <1>2
------------------------------------------------------------------------------

(* What the control of the two threads adds to the types: the locals that  *)
(* are read at a place have been set on the way to it.                     *)
WellPlaced ==
    /\ main.pc \notin {"idle", "answer"} => main.cmd \in Commands
    /\ main.pc = "answer" => main.cmd \in Requests
    /\ main.pc = "create" => ActionCount(main.cmd) # 0
    /\ main.pc = "retire" => main.over \in Ids
    /\ main.pc = "abort" => main.over \in Ids \cup {-1}
    /\ fired.pc = "call" => fired.id \in Ids
    /\ fired.pc = "tell" => fired.ended \in Ids \cup {-1}
    /\ RowsLive(task)

TypeInv == TypeOK /\ WellPlaced

(* Message ids are positive, so they are neither of the special values.    *)
LEMMA IdsPositive == Ids \subseteq Nat \ {0}
  BY CommandsAssumption, RequestsAssumption DEF Ids, Messages

(* Ids and -1, the answer of the table for no task, are integers.          *)
LEMMA IdsInt == \A x \in Ids \cup {-1} : x \in Int
<1>1. \A x \in Ids : x \in Int
  BY IdsPositive
<1>2. -1 \in Int
  OBVIOUS
<1> QED
  BY <1>1, <1>2

(* A command names at most NACTION devices.                                *)
LEMMA ActionCountBounded ==
  ASSUME NEW c \in Commands
  PROVE  ActionCount(c) \in 0 .. NACTION
<1> DEFINE S == DOMAIN c.acts
           f == [k \in S |-> c.acts[k].name]
           T == {c.acts[k].name : k \in S}
           U == {n \in T : n >= 0}
<1>1. S = 1 .. Len(c.acts) /\ Len(c.acts) \in Nat /\ Len(c.acts) <= NACTION
  BY CommandsAssumption
<1>2. IsFiniteSet(S) /\ Cardinality(S) = Len(c.acts)
  <2>1. IsFiniteSet(1 .. Len(c.acts))
        /\ Cardinality(1 .. Len(c.acts)) = Len(c.acts)
    BY <1>1, FS_Interval
  <2> QED
    BY <1>1, <2>1
<1>3. IsFiniteSet(T) /\ Cardinality(T) <= Cardinality(S)
  <2>1. f \in Surjection(S, T)
    BY DEF Surjection
  <2> QED
    BY <1>2, <2>1, FS_Surjection
<1>4. IsFiniteSet(U) /\ Cardinality(U) <= Cardinality(T)
  BY <1>3, FS_Subset
<1>5. Cardinality(T) \in Nat /\ Cardinality(U) \in Nat
  BY <1>3, <1>4, FS_CardinalityType
<1> QED
  BY <1>1, <1>2, <1>3, <1>4, <1>5, CommandsAssumption DEF ActionCount

(* Telling a client keeps the history typed.                               *)
LEMMA TellType ==
  ASSUME NEW id \in Ids \cup {-1}, NEW kind \in {"begin", "end", "abort"},
         NEW to \in Clients \cup {Garbage}, TypeOK, Tell(id, kind, to)
  PROVE  hist' \in [Ids \cup {-1} -> Seq(EventRecord)]
<1>1. Event(kind, to) \in EventRecord
  BY DEF Event, EventRecord
<1>2. hist[id] \in Seq(EventRecord)
  BY DEF TypeOK
<1>3. Append(hist[id], Event(kind, to)) \in Seq(EventRecord)
  BY <1>1, <1>2
<1> QED
  BY <1>3 DEF Tell, TypeOK

(* An entry of a command is a device and a kind of callback.               *)
LEMMA EntryType ==
  ASSUME NEW c \in Commands, NEW k \in 1 .. Len(c.acts)
  PROVE  /\ c.id \in Ids /\ TypeOf(c.family) \in 0 .. 3
         /\ c.acts[k].name \in Int
         /\ c.acts[k].mode \in Modes \cup {"none"}
<1>1. c.acts \in Seq(Act) /\ c.family \in Families
  BY CommandsAssumption
<1>2. c.acts[k] \in Act
  BY <1>1
<1>3. TypeOf(c.family) \in 0 .. 3
  BY <1>1 DEF TypeOf, Families
<1> QED
  BY <1>2, <1>3 DEF Act, Ids, Messages

(* The states both threads rest in are well typed.                         *)
LEMMA IdleMainType == IdleMain \in MainStates /\ IdleTimer \in FiredStates
  BY CommandsAssumption DEF IdleMain, MainStates, IdleTimer, FiredStates

(* The type invariant holds initially.                                     *)
LEMMA InitTypeInv == Init => TypeInv
<1> SUFFICES ASSUME Init PROVE TypeInv
  OBVIOUS
<1> USE DEF Init
<1>1. task \in TaskTables(Ids, NACTION) /\ RowsLive(task)
  BY CommandsAssumption DEF EmptyTaskTable, FreeRow, TaskTables, RowsLive
<1>2. timer \in TimerTables(Ids)
  BY DEF EmptyTimerTable, ZeroSlot, TimerTables
<1>3. sender \in [SenderRows -> SenderRow]
  BY DEF EmptySenderTable, SenderRow
<1>4. main \in MainStates
  BY IdleMainType
<1>5. fired \in FiredStates
  BY IdleMainType
<1>6. hist \in [Ids \cup {-1} -> Seq(EventRecord)]
  OBVIOUS
<1>7. /\ stack \in Seq(Messages) /\ rxFrom \in Clients \cup {Garbage}
      /\ overran \in BOOLEAN /\ used \subseteq Ids /\ received \in Nat
      /\ unsaved \subseteq Ids /\ crowded \in BOOLEAN
  <2>1. stack \in Seq(Messages)
    OBVIOUS
  <2>2. rxFrom \in Clients \cup {Garbage}
    OBVIOUS
  <2>3. overran \in BOOLEAN
    OBVIOUS
  <2>4. used \subseteq Ids
    OBVIOUS
  <2>5. received \in Nat
    OBVIOUS
  <2>6. unsaved \subseteq Ids /\ crowded \in BOOLEAN
    OBVIOUS
  <2> QED
    BY <2>1, <2>2, <2>3, <2>4, <2>5, <2>6
<1>8. TypeOK
  <2> USE DEF TaskTables, TimerTables
  <2> HIDE DEF Init
  <2> QED
    BY <1>1, <1>2, <1>3, <1>4, <1>5, <1>6, <1>7 DEF TypeOK
<1>9. WellPlaced
  BY <1>1 DEF WellPlaced, IdleMain, IdleTimer
<1> QED
  BY <1>8, <1>9 DEF TypeInv

(* What is noted of full tables is typed.                                  *)
LEMMA NotedType ==
  ASSUME TypeOK, WellPlaced, [Next]_vars
  PROVE  unsaved' \subseteq Ids /\ crowded' \in BOOLEAN
<1>1. unsaved \subseteq Ids /\ crowded \in BOOLEAN
  BY DEF TypeOK
<1>2. CASE UNCHANGED <<unsaved, crowded>>
  BY <1>1, <1>2
<1>3. CASE Save
  <2>1. main.cmd.id \in Ids
    BY <1>3 DEF Save, WellPlaced, Ids, Messages
  <2>2. unsaved' \in {unsaved, unsaved \cup {main.cmd.id}} /\ crowded' = crowded
    BY <1>3 DEF Save
  <2> QED
    BY <1>1, <2>1, <2>2
<1>4. CASE StartEntry \/ Rearm
  <2>1. unsaved' = unsaved /\ crowded' \in BOOLEAN
    BY <1>1, <1>4 DEF StartEntry, Rearm
  <2> QED
    BY <1>1, <2>1
<1>5. CASE MainStep /\ ~Save /\ ~StartEntry
  BY <1>2, <1>5 DEF MainStep, Take, TakeRequest, AnswerCall, AnswerEnds, Create,
                    CreateFull, SkipEntry, Retire, Abort, Finish
<1>6. CASE TimerStep /\ ~Rearm
  BY <1>2, <1>6 DEF TimerStep, Fire, EndAction, TellEnd
<1>7. CASE (\E m \in Messages : Receive(m)) \/ UNCHANGED vars
  BY <1>2, <1>7 DEF Receive, vars
<1> QED
  BY <1>3, <1>4, <1>5, <1>6, <1>7 DEF Next

(* Every step keeps the type invariant.                                    *)
LEMMA TypeInvStep == TypeInv /\ [Next]_vars => TypeInv'
<1> SUFFICES ASSUME TypeInv, [Next]_vars PROVE TypeInv'
  OBVIOUS
<1>1. /\ TypeOK /\ WellPlaced
      /\ task \in TaskTables(Ids, NACTION) /\ RowsLive(task)
      /\ timer \in TimerTables(Ids)
      /\ sender \in [SenderRows -> SenderRow]
      /\ main \in MainStates /\ fired \in FiredStates
      /\ Ids \subseteq Nat \ {0} /\ NACTION \in Nat
  BY IdsPositive, CommandsAssumption
     DEF TypeInv, TypeOK, WellPlaced, TaskTables, TimerTables
<1>2. ASSUME /\ task' \in TaskTables(Ids, NACTION) /\ RowsLive(task')
             /\ timer' \in TimerTables(Ids)
             /\ sender' \in [SenderRows -> SenderRow]
             /\ main' \in MainStates /\ fired' \in FiredStates
             /\ stack' \in Seq(Messages)
             /\ rxFrom' \in Clients \cup {Garbage}
             /\ overran' \in BOOLEAN
             /\ hist' \in [Ids \cup {-1} -> Seq(EventRecord)]
             /\ used' \subseteq Ids
             /\ received' \in Nat,
             WellPlaced'
      PROVE  TypeInv'
  <2>1. unsaved' \subseteq Ids /\ crowded' \in BOOLEAN
    BY <1>1, NotedType
  <2> QED
    BY <1>2, <2>1 DEF TypeInv, TypeOK, TaskTables, TimerTables
<1>3. CASE UNCHANGED vars
  BY <1>1, <1>3 DEF vars, TypeInv, TypeOK, WellPlaced
<1>4. ASSUME NEW m \in Messages, Receive(m) PROVE TypeInv'
  <2>1. m.from \in Clients /\ m.id \in Ids
    BY CommandsAssumption, RequestsAssumption DEF Ids, Messages
  <2>2. Append(stack, m) \in Seq(Messages)
    BY <1>1 DEF TypeOK
  <2>3. rxFrom' \in Clients \cup {Garbage} /\ used' \subseteq Ids
    BY <1>1, <1>4, <2>1 DEF Receive, TypeOK
  <2>4. received' \in Nat
    BY <1>1, <1>4 DEF Receive, TypeOK
  <2>5. WellPlaced'
    BY <1>1, <1>4 DEF Receive, WellPlaced
  <2> QED
    BY <1>1, <1>2, <1>4, <2>2, <2>3, <2>4, <2>5 DEF Receive, TypeOK
<1>5. CASE Take
  <2> DEFINE c == Head(stack)
  <2>1. c \in Commands /\ Tail(stack) \in Seq(Messages)
    <3>1. c \in Messages /\ Tail(stack) \in Seq(Messages) /\ c.family # "request"
      BY <1>1, <1>5 DEF Take, TypeOK
    <3> QED
      BY <3>1, RequestsAssumption DEF Messages
  <2>2. c.from \in Clients /\ c.id \in Ids
    BY <2>1, CommandsAssumption DEF Ids, Messages
  <2>3. hist' \in [Ids \cup {-1} -> Seq(EventRecord)]
    <3>1. CASE hist' = hist
      BY <1>1, <3>1 DEF TypeOK
    <3>2. CASE Tell(c.id, "begin", c.from)
      BY <1>1, <2>2, <3>2, TellType
    <3> QED
      BY <1>5, <3>1, <3>2 DEF Take
  <2>4. IF ActionCount(c) = 0 THEN main' = main
        ELSE main' = [IdleMain EXCEPT !.pc = "create", !.cmd = c]
    BY <1>5 DEF Take
  <2>5. main' \in MainStates
    <3>1. [IdleMain EXCEPT !.pc = "create", !.cmd = c] \in MainStates
      BY <1>1, <2>1, IdleMainType DEF MainStates, Messages
    <3> QED
      BY <1>1, <2>4, <3>1
  <2>6. WellPlaced'
    BY <1>1, <1>5, <2>1, <2>4 DEF IdleMain, Take, WellPlaced
  <2> QED
    BY <1>1, <1>2, <1>5, <2>1, <2>3, <2>5, <2>6 DEF Take, TypeOK
<1>6. CASE Create
  <2> DEFINE c == main.cmd
             n == ActionCount(c)
             new == CreateTask(task, c.id, n)
  <2>1. c \in Commands /\ c.id \in Ids /\ n \in 1 .. NACTION /\ n \in 0 .. NACTION
    BY <1>1, <1>6, ActionCountBounded DEF Create, WellPlaced, Ids, Messages
  <2>2. /\ new.table \in TaskTables(Ids, NACTION) /\ RowsLive(new.table)
        /\ new.result \in {c.id, -1}
    BY <1>1, <1>6, <2>1, CreateTaskEffect DEF Create
  <2> HIDE DEF new
  <2>3. IF new.result > 0 THEN main' = Opened ELSE main' = IdleMain
    BY <1>6 DEF Create, new
  <2>4. hist' \in [Ids \cup {-1} -> Seq(EventRecord)]
    <3>1. CASE hist' = hist
      BY <1>1, <3>1 DEF TypeOK
    <3>2. CASE Tell(c.id, "begin", rxFrom)
      BY <1>1, <2>1, <3>2, TellType DEF TypeOK
    <3> QED
      BY <1>6, <3>1, <3>2 DEF Create
  <2>5. Opened \in MainStates /\ Opened.cmd = c /\ Opened.pc = "save"
    <3>1. \A m \in 0 .. NACTION :
             LET o == [main EXCEPT !.pc = "save", !.left = m] IN
             o \in MainStates /\ o.cmd = c /\ o.pc = "save"
      BY <1>1 DEF MainStates
    <3> QED
      BY <2>1, <3>1 DEF Opened
  <2>6. main' \in MainStates
    BY <1>1, <2>3, <2>5, IdleMainType
  <2>7. task' = new.table
    BY <1>6 DEF Create, new
  <2>8. WellPlaced'
    BY <1>1, <1>6, <2>1, <2>2, <2>3, <2>5, <2>7 DEF IdleMain, Create, WellPlaced
  <2> QED
    BY <1>1, <1>2, <1>6, <2>2, <2>4, <2>6, <2>7, <2>8 DEF Create, TypeOK
<1>7. CASE CreateFull
  <2> DEFINE c == main.cmd
  <2>1. c \in Commands /\ c.id \in Ids /\ ActionCount(c) \in 0 .. NACTION
    BY <1>1, <1>7, ActionCountBounded DEF CreateFull, WellPlaced, Ids, Messages
  <2>2. Opened \in MainStates /\ Opened.cmd = c /\ Opened.pc = "save"
    <3>1. \A m \in 0 .. NACTION :
             LET o == [main EXCEPT !.pc = "save", !.left = m] IN
             o \in MainStates /\ o.cmd = c /\ o.pc = "save"
      BY <1>1 DEF MainStates
    <3> QED
      BY <2>1, <3>1 DEF Opened
  <2>3. main' = Opened \/ main' = IdleMain
    BY <1>7 DEF CreateFull
  <2>4. hist' \in [Ids \cup {-1} -> Seq(EventRecord)]
    <3>1. CASE hist' = hist
      BY <1>1, <3>1 DEF TypeOK
    <3>2. CASE Tell(c.id, "begin", rxFrom)
      BY <1>1, <2>1, <3>2, TellType DEF TypeOK
    <3> QED
      BY <1>7, <3>1, <3>2 DEF CreateFull
  <2>5. main' \in MainStates
    BY <1>1, <2>2, <2>3, IdleMainType
  <2>6. WellPlaced'
    BY <1>1, <1>7, <2>1, <2>2, <2>3 DEF IdleMain, CreateFull, WellPlaced
  <2> QED
    BY <1>1, <1>2, <1>7, <2>4, <2>5, <2>6 DEF CreateFull, TypeOK
<1>8. CASE Save
  <2>1. main.cmd \in Commands /\ main.cmd.id \in Int /\ rxFrom \in Clients \cup {Garbage}
    BY <1>1, <1>8, CommandsAssumption DEF Save, WellPlaced, TypeOK
  <2>2. sender' \in [SenderRows -> SenderRow]
    <3>1. PICK start \in SaveStarts :
             sender' = SaveSender(sender, start, main.cmd.id, rxFrom)
      BY <1>8 DEF Save
    <3>2. start \in Nat
      BY <3>1, SaveStartsAssumption
    <3> QED
      BY <1>1, <2>1, <3>1, <3>2, SenderTableType
  <2>3. main' \in MainStates
    BY <1>1, <1>8 DEF Save, MainStates
  <2>4. WellPlaced'
    BY <1>1, <1>8, <2>1 DEF Save, WellPlaced, MainStates
  <2> QED
    BY <1>1, <1>2, <1>8, <2>2, <2>3, <2>4 DEF Save, TypeOK
<1>9. CASE SkipEntry
  <2>1. main' \in MainStates /\ main'.cmd = main.cmd /\ main'.pc = "start"
    <3>1. /\ main.left \in 0 .. NACTION /\ main.left - 1 \in 0 .. NACTION
          /\ main.k + 1 \in Nat \ {0} /\ main.pc = "start"
      BY <1>1, <1>9 DEF SkipEntry, Starting, MainStates
    <3>2. PICK left \in 0 .. NACTION :
             main' = [main EXCEPT !.k = @ + 1, !.left = left]
      BY <1>9, <3>1 DEF SkipEntry
    <3> QED
      BY <1>1, <3>1, <3>2 DEF MainStates
  <2>2. WellPlaced'
    BY <1>1, <1>9, <2>1 DEF SkipEntry, Starting, WellPlaced
  <2> QED
    BY <1>1, <1>2, <1>9, <2>1, <2>2 DEF SkipEntry, TypeOK
<1>10. CASE StartEntry
  <2> DEFINE act == main.cmd.acts[main.k]
             set == SetTimer(timer, main.cmd.id, act.name,
                             TypeOf(main.cmd.family), act.mode)
  <2>0. Starting
    BY <1>10 DEF StartEntry
  <2>1. main.cmd \in Commands /\ main.k \in 1 .. Len(main.cmd.acts)
    BY <1>1, <2>0 DEF Starting, EntriesLeft, WellPlaced, MainStates
  <2>2. /\ main.cmd.id \in Ids /\ act.name \in Int
        /\ act.mode \in Modes \cup {"none"}
        /\ TypeOf(main.cmd.family) \in 0 .. 3
    BY <2>1, EntryType
  <2>3. /\ set.table \in TimerTables(Ids)
        /\ set.result \in Ids \cup {0, 1}
    <3>1. timer \in TimerTables(Ids) /\ Ids \subseteq Nat \ {0}
      BY <1>1
    <3> HIDE DEF act
    <3> QED
      BY <2>2, <3>1, SetTimerEffect
  <2> HIDE DEF set
  <2>4. /\ timer' = set.table
        /\ main' = [main EXCEPT
                      !.k = @ + 1,
                      !.left = @ - 1,
                      !.pc = IF set.result > 1 THEN "retire" ELSE "start",
                      !.over = IF set.result > 1 THEN set.result ELSE 0]
    BY <1>10 DEF StartEntry, set
  <2>5. main.k + 1 \in Nat \ {0} /\ main.left - 1 \in 0 .. NACTION
    BY <1>1, <2>0 DEF Starting, MainStates
  <2>6. /\ main' \in MainStates /\ main'.cmd = main.cmd
        /\ main'.pc \in {"start", "retire"}
        /\ main'.pc = "retire" => main'.over \in Ids
    <3>1. set.result > 1 => set.result \in Ids
      BY <2>3
    <3> QED
      BY <1>1, <2>4, <2>5, <3>1 DEF MainStates
  <2>7. WellPlaced'
    BY <1>1, <1>10, <2>1, <2>6 DEF StartEntry, WellPlaced
  <2> QED
    BY <1>1, <1>2, <1>10, <2>3, <2>4, <2>6, <2>7 DEF StartEntry, TypeOK
<1>11. CASE Retire
  <2> DEFINE rest == RemoveTask(task, main.over)
  <2>1. main.over \in Ids /\ main.cmd \in Commands
    BY <1>1, <1>11 DEF Retire, WellPlaced
  <2>2. /\ rest.table \in TaskTables(Ids, NACTION) /\ RowsLive(rest.table)
        /\ rest.result \in {main.over, 0, -1}
    BY <1>1, <2>1, RemoveTaskType
  <2> HIDE DEF rest
  <2>3. /\ task' = rest.table
        /\ main' = [main EXCEPT !.pc = IF rest.result # 0 THEN "abort" ELSE "start",
                                !.over = rest.result]
    BY <1>11 DEF Retire, rest
  <2>4. /\ main' \in MainStates /\ main'.cmd = main.cmd
        /\ main'.pc \in {"start", "abort"}
        /\ main'.pc = "abort" => main'.over \in Ids \cup {-1}
    BY <1>1, <2>1, <2>2, <2>3 DEF MainStates
  <2>5. WellPlaced'
    BY <1>1, <1>11, <2>1, <2>2, <2>3, <2>4 DEF Retire, WellPlaced
  <2> QED
    BY <1>1, <1>2, <1>11, <2>2, <2>3, <2>4, <2>5 DEF Retire, TypeOK
<1>12. CASE Abort
  <2>1. /\ main.over \in Ids \cup {-1} /\ main.over \in Int
        /\ main.cmd \in Commands /\ main.cmd.from \in Clients
    BY <1>1, <1>12, CommandsAssumption DEF Abort, WellPlaced
  <2>2. hist' \in [Ids \cup {-1} -> Seq(EventRecord)]
    BY <1>1, <1>12, <2>1, TellType DEF Abort
  <2>3. sender' \in [SenderRows -> SenderRow]
    <3>1. RemoveSender(sender, main.over) \in [SenderRows -> SenderRow]
      BY <1>1, <2>1, SenderTableType DEF TypeOK
    <3> QED
      BY <1>12, <3>1 DEF Abort
  <2>4. main' \in MainStates /\ main'.cmd = main.cmd /\ main'.pc = "start"
    BY <1>1, <1>12 DEF Abort, MainStates
  <2>5. WellPlaced'
    BY <1>1, <1>12, <2>1, <2>4 DEF Abort, WellPlaced
  <2> QED
    BY <1>1, <1>2, <1>12, <2>2, <2>3, <2>4, <2>5 DEF Abort, TypeOK
<1>13. CASE Finish
  <2>1. main.cmd \in Commands /\ main.cmd.id \in Ids
    BY <1>1, <1>13 DEF Finish, WellPlaced, Ids, Messages
  <2>2. hist' \in [Ids \cup {-1} -> Seq(EventRecord)]
    <3>1. CASE hist' = hist
      BY <1>1, <3>1 DEF TypeOK
    <3>2. CASE Tell(main.cmd.id, "begin", rxFrom)
      BY <1>1, <2>1, <3>2, TellType DEF TypeOK
    <3> QED
      BY <1>13, <3>1, <3>2 DEF Finish
  <2>3. main' \in MainStates
    BY <1>13, IdleMainType DEF Finish
  <2>4. WellPlaced'
    BY <1>1, <1>13 DEF Finish, IdleMain, WellPlaced
  <2> QED
    BY <1>1, <1>2, <1>13, <2>2, <2>3, <2>4 DEF Finish, TypeOK
<1>14. ASSUME NEW i \in TimerSlots, Fire(i) PROVE TypeInv'
  <2>1. timer' \in TimerTables(Ids)
    BY <1>1, <1>14, ExpireEffect DEF Fire
  <2>2. fired' = TimerInCallback(timer[i])
    BY <1>14 DEF Fire
  <2>3. /\ timer[i] \in [id : Ids \cup {0}, name : Int, type : 0 .. 3,
                         fn : Modes \cup {"none"}]
        /\ timer[i].id \in Ids
    BY <1>1, <1>14 DEF Fire, TimerTables
  <2>4. fired' \in FiredStates /\ fired'.pc = "call" /\ fired'.id \in Ids
    BY <2>2, <2>3 DEF TimerInCallback, FiredStates
  <2>5. WellPlaced'
    BY <1>1, <1>14, <2>4 DEF Fire, WellPlaced
  <2> QED
    BY <1>1, <1>2, <1>14, <2>1, <2>4, <2>5 DEF Fire, TypeOK
<1>15. CASE EndAction
  <2> DEFINE rest == RemoveTask(task, fired.id)
  <2>1. fired.id \in Ids
    BY <1>1, <1>15 DEF EndAction, WellPlaced
  <2>2. /\ rest.table \in TaskTables(Ids, NACTION) /\ RowsLive(rest.table)
        /\ rest.result \in {fired.id, 0, -1}
    BY <1>1, <2>1, RemoveTaskType
  <2> HIDE DEF rest
  <2>3. /\ task' = rest.table
        /\ \/ fired' = IdleTimer
           \/ /\ rest.result # 0
              /\ fired' = [IdleTimer EXCEPT !.pc = "tell", !.ended = rest.result]
    BY <1>15, <2>2 DEF EndAction, rest
  <2>4. /\ fired' \in FiredStates
        /\ fired'.pc \in {"scan", "tell"}
        /\ fired'.pc = "tell" => fired'.ended \in Ids \cup {-1}
    <3>1. IdleTimer.pc = "scan"
      BY DEF IdleTimer
    <3> QED
      BY <1>1, <2>1, <2>2, <2>3, <3>1, IdleMainType DEF FiredStates
  <2>5. WellPlaced'
    BY <1>1, <1>15, <2>2, <2>3, <2>4 DEF EndAction, WellPlaced
  <2> QED
    BY <1>1, <1>2, <1>15, <2>2, <2>3, <2>4, <2>5 DEF EndAction, TypeOK
<1>16. CASE TellEnd
  <2>1. fired.ended \in Ids \cup {-1} /\ fired.ended \in Int
    <3>1. fired.ended \in Ids \cup {-1}
      BY <1>1, <1>16 DEF TellEnd, WellPlaced
    <3> QED
      BY <3>1, IdsInt
  <2>2. SenderOf(sender, fired.ended) \in Clients \cup {Garbage}
    BY <1>1, <2>1, SenderTableType DEF TypeOK
  <2>3. RemoveSender(sender, fired.ended) \in [SenderRows -> SenderRow]
    BY <1>1, <2>1, SenderTableType DEF TypeOK
  <2>4. hist' \in [Ids \cup {-1} -> Seq(EventRecord)]
    BY <1>1, <1>16, <2>1, <2>2, TellType DEF TellEnd
  <2>5. WellPlaced'
    BY <1>1, <1>16 DEF TellEnd, IdleTimer, WellPlaced
  <2> QED
    BY <1>1, <1>2, <1>16, <2>3, <2>4, <2>5, IdleMainType DEF TellEnd, TypeOK
<1>17. CASE Rearm
  <2> DEFINE set == SetTimer(timer, fired.id, fired.name, fired.type, fired.fn)
  <2>1. /\ fired.id \in Ids /\ fired.name \in Int /\ fired.type \in 0 .. 3
        /\ fired.fn \in Modes \cup {"none"}
    BY <1>1, <1>17 DEF Rearm, WellPlaced, FiredStates
  <2>2. set.table \in TimerTables(Ids)
    BY <1>1, <2>1, SetTimerEffect
  <2>3. timer' \in TimerTables(Ids)
    BY <1>17, <2>2 DEF Rearm
  <2>4. WellPlaced'
    BY <1>1, <1>17 DEF Rearm, IdleTimer, WellPlaced
  <2> QED
    BY <1>1, <1>2, <1>17, <2>3, <2>4, IdleMainType DEF Rearm, TypeOK
<1>18. CASE TakeRequest
  <2> DEFINE r == Head(stack)
  <2>1. r \in Requests /\ Tail(stack) \in Seq(Messages)
    <3>1. r \in Messages /\ Tail(stack) \in Seq(Messages) /\ r.family = "request"
      BY <1>1, <1>18 DEF TakeRequest, TypeOK
    <3>2. \A c \in Commands : c.family # "request"
      BY CommandsAssumption DEF Families
    <3> QED
      BY <3>1, <3>2 DEF Messages
  <2>2. main' = [IdleMain EXCEPT !.pc = "answer", !.cmd = r]
    BY <1>18 DEF TakeRequest
  <2>3. main' \in MainStates /\ main'.pc = "answer" /\ main'.cmd = r
    BY <2>1, <2>2, IdleMainType DEF MainStates, Messages
  <2>4. WellPlaced'
    BY <1>1, <1>18, <2>1, <2>3 DEF TakeRequest, WellPlaced
  <2> QED
    BY <1>1, <1>2, <1>18, <2>1, <2>3, <2>4 DEF TakeRequest, TypeOK
<1>19. CASE AnswerCall
  <2>1. main.cmd \in Requests /\ main.cmd.id \in Int
    BY <1>1, <1>19, RequestsAssumption DEF AnswerCall, WellPlaced
  <2>2. sender' \in [SenderRows -> SenderRow]
    <3>1. ASSUME NEW start \in SaveStarts,
                 sender' = SaveSender(sender, start, main.cmd.id, rxFrom)
          PROVE  sender' \in [SenderRows -> SenderRow]
      <4>1. start \in Nat /\ rxFrom \in Clients \cup {Garbage}
        BY <1>1, SaveStartsAssumption DEF TypeOK
      <4> QED
        BY <1>1, <2>1, <3>1, <4>1, SenderTableType
    <3>2. ASSUME sender' = RemoveSender(sender, main.cmd.id)
          PROVE  sender' \in [SenderRows -> SenderRow]
      BY <1>1, <2>1, <3>2, SenderTableType
    <3> QED
      BY <1>19, <3>1, <3>2 DEF AnswerCall
  <2>3. main' \in MainStates /\ main'.pc = "answer" /\ main'.cmd = main.cmd
    BY <1>1, <1>19 DEF AnswerCall, MainStates
  <2>4. WellPlaced'
    BY <1>1, <1>19, <2>1, <2>3 DEF AnswerCall, WellPlaced
  <2> QED
    BY <1>1, <1>2, <1>19, <2>2, <2>3, <2>4 DEF AnswerCall, TypeOK
<1>20. CASE AnswerEnds
  <2>1. WellPlaced'
    BY <1>1, <1>20 DEF AnswerEnds, IdleMain, WellPlaced
  <2> QED
    BY <1>1, <1>2, <1>20, <2>1, IdleMainType DEF AnswerEnds, TypeOK
<1> QED
  BY <1>3, <1>4, <1>5, <1>6, <1>7, <1>8, <1>9, <1>10, <1>11, <1>12, <1>13,
     <1>14, <1>15, <1>16, <1>17, <1>18, <1>19, <1>20
     DEF Next, MainStep, TimerStep

(* TypeOK, for every command, table size and behaviour of the clients: the *)
(* task counts never leave 0 .. NACTION, and every number found in a table,*)
(* a timer or a callback is the id of a command or one of the special      *)
(* values 0 and -1.                                                        *)
THEOREM TypeCorrect == Spec => []TypeOK
<1>1. TypeInv => TypeOK
  BY DEF TypeInv
<1> QED
  BY <1>1, InitTypeInv, TypeInvStep, PTL DEF Spec
==============================================================================
