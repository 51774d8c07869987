---------------------------- MODULE QuietEndProofs ---------------------------
(***************************************************************************)
(* When ids are not used twice, a command that was reported as ended or    *)
(* aborted is over: its row is gone and no other is opened for it, and an  *)
(* id without a row has no action, by the balance of TaskCountProofs.  From*)
(* the same facts the order of a command's events: who is about to send an *)
(* end or abort is the only one, and nothing but a begin was sent before.  *)
(* Then whom an end is addressed to: the row of the sender table outlives  *)
(* the task.  Last the other half of the balance: of orderly clients no    *)
(* action that a row owes is ever lost.                                    *)
(***************************************************************************)
EXTENDS TaskCountProofs

Waiting(id) == \E n \in DOMAIN stack : stack[n].id = id
Creating(id) == main.pc = "create" /\ main.cmd.id = id

(* The task of id has been closed: it is announced, or about to be.        *)
Ending(id) ==
    \/ Closed(id)
    \/ fired.pc = "tell" /\ fired.ended = id
    \/ main.pc = "abort" /\ main.over = id

(* A message is in one place: not received, on the stack or taken.         *)
TakenOnce ==
    /\ \A m, n \in DOMAIN stack : m # n => stack[m].id # stack[n].id
    /\ \A id \in Ids : Waiting(id) => id \in used /\ ~Creating(id)
    /\ \A id \in Ids : Creating(id) => id \in used

(* Before createBuggyTask is called for it, nothing is known of a command. *)
NotYet(id) == id \notin used \/ Waiting(id) \/ Creating(id)
FreshBefore ==
    \A id \in Ids : NotYet(id) => RowsOf(task, id) = {} /\ ~Ending(id)

OneRow ==
    \A i, j \in TaskRows : task[i].num = task[j].num /\ task[i].num # 0 => i = j

GoneAfter == \A id \in Ids : Ending(id) => RowsOf(task, id) = {}

Once == TakenOnce /\ FreshBefore /\ OneRow /\ GoneAfter
OnceIfUnique == UniqueIds /\ ~overran => Once

------------------------------------------------------------------------------
(* Only an end or abort event closes a command, and only the one it names. *)
LEMMA TellCloses ==
  ASSUME TypeOK, NEW x \in Ids \cup {-1}, NEW kind, NEW to, Tell(x, kind, to),
         NEW id \in Ids, Closed(id)'
  PROVE  Closed(id) \/ (id = x /\ kind \in {"end", "abort"})
<1>1. hist \in [Ids \cup {-1} -> Seq(EventRecord)]
  BY DEF TypeOK
<1>2. hist' = [hist EXCEPT ![x] = Append(@, Event(kind, to))]
  BY DEF Tell
<1>3. PICK n \in DOMAIN hist'[id] : hist'[id][n].kind \in {"end", "abort"}
  BY DEF Closed
<1>4. CASE id # x
  BY <1>1, <1>2, <1>3, <1>4 DEF Closed
<1>5. CASE id = x
  <2>1. /\ hist[id] \in Seq(EventRecord)
        /\ hist'[id] = Append(hist[id], Event(kind, to))
    BY <1>1, <1>2, <1>5
  <2>2. n \in 1 .. Len(hist[id]) \/ n = Len(hist[id]) + 1
    BY <1>3, <2>1
  <2>3. CASE n \in 1 .. Len(hist[id])
    <3>1. n \in DOMAIN hist[id] /\ hist'[id][n] = hist[id][n]
      BY <2>1, <2>3
    <3> QED
      BY <1>3, <3>1 DEF Closed
  <2>4. CASE n = Len(hist[id]) + 1
    <3>1. hist'[id][n] = Event(kind, to)
      BY <2>1, <2>4
    <3> QED
      BY <1>3, <1>5, <3>1 DEF Event
  <2> QED
    BY <2>2, <2>3, <2>4
<1> QED
  BY <1>4, <1>5

(* removeBuggyTask opens no row, and when it reports that the task ended   *)
(* the number's only row was there and is gone.                            *)
LEMMA RemoveCloses ==
  ASSUME NEW nums, nums \subseteq Nat \ {0}, NEW n \in Nat,
         NEW tab \in TaskTables(nums, n), NEW id \in nums,
         \A i, j \in TaskRows : tab[i].num = tab[j].num /\ tab[i].num # 0 => i = j
  PROVE  LET new == RemoveTask(tab, id) IN
         /\ \A k \in TaskRows : new.table[k].num \in {tab[k].num, 0}
         /\ new.result = id => RowsOf(tab, id) # {} /\ RowsOf(new.table, id) = {}
<1> DEFINE new == RemoveTask(tab, id)
           i == Min(RowsOf(tab, id))
<1>1. CASE RowsOf(tab, id) = {}
  <2>1. new = [table |-> tab, result |-> -1]
    BY <1>1 DEF RemoveTask
  <2>2. id # -1
    OBVIOUS
  <2> QED
    BY <2>1, <2>2
<1>2. CASE RowsOf(tab, id) # {}
  <2>1. i \in TaskRows /\ tab[i].num = id /\ tab[i].count \in 0 .. n
    BY <1>2, FirstRow DEF TaskTables
  <2> HIDE DEF i
  <2>2. CASE tab[i].count - 1 <= 0
    <3>1. new = [table |-> [tab EXCEPT ![i] = FreeRow], result |-> id]
      BY <1>2, <2>2 DEF RemoveTask, i
    <3>2. \A k \in TaskRows : new.table[k].num = IF k = i THEN 0 ELSE tab[k].num
      BY <3>1 DEF TaskTables, FreeRow
    <3>3. RowsOf(new.table, id) = {}
      BY <2>1, <3>2 DEF RowsOf
    <3> QED
      BY <1>2, <3>2, <3>3
  <2>3. CASE ~(tab[i].count - 1 <= 0)
    <3>1. new = [table |-> [tab EXCEPT ![i].count = @ - 1], result |-> 0]
      BY <1>2, <2>3 DEF RemoveTask, i
    <3>2. \A k \in TaskRows : new.table[k].num = tab[k].num
      BY <2>1, <3>1 DEF TaskTables
    <3> QED
      BY <3>1, <3>2
  <2> QED
    BY <2>2, <2>3
<1> QED
  BY <1>1, <1>2

------------------------------------------------------------------------------
(* Rows change only at createBuggyTask and removeBuggyTask: the other steps*)
(* that leave the messages alone keep Once when they close no command.     *)
LEMMA SameRows ==
  ASSUME Once, task' = task, stack' = stack, used' = used,
         \A id \in Ids : Creating(id)' => Creating(id),
         \A id \in Ids : Ending(id)' => Ending(id)
  PROVE  Once'
<1>1. \A id : /\ RowsOf(task, id)' = RowsOf(task, id)
              /\ Waiting(id)' = Waiting(id)
  BY DEF RowsOf, Waiting
<1>2. \A id \in Ids : NotYet(id)' => NotYet(id)
  BY <1>1 DEF NotYet
<1>3. TakenOnce'
  BY <1>1 DEF Once, TakenOnce
<1>4. FreshBefore' /\ GoneAfter'
  BY <1>1, <1>2 DEF Once, FreshBefore, GoneAfter
<1>5. OneRow'
  BY DEF Once, OneRow
<1> QED
  BY <1>3, <1>4, <1>5 DEF Once

(* The main loop goes on without closing a command.                        *)
LEMMA MainGoesOn ==
  ASSUME TypeOK, fired' = fired, main'.pc \notin {"create", "abort"} \/ main' = main,
         \/ hist' = hist
         \/ \E x \in Ids, to \in Clients \cup {Garbage} : Tell(x, "begin", to)
  PROVE  /\ \A id \in Ids : Creating(id)' => Creating(id)
         /\ \A id \in Ids : Ending(id)' => Ending(id)
<1>1. ASSUME NEW id \in Ids, Closed(id)' PROVE Closed(id)
  <2>1. CASE hist' = hist
    BY <1>1, <2>1 DEF Closed
  <2>2. ASSUME NEW x \in Ids, NEW to, Tell(x, "begin", to) PROVE Closed(id)
    BY <1>1, <2>2, TellCloses
  <2> QED
    BY <2>1, <2>2
<1> QED
  BY <1>1 DEF Creating, Ending

(* An end or abort event was decided before it is sent.                    *)
LEMMA TellingEnds ==
  ASSUME TypeOK, NEW x \in Ids \cup {-1}, NEW kind, NEW to, Tell(x, kind, to),
         \A id \in Ids : id = x => Ending(id),
         fired' = fired \/ fired'.pc = "scan",
         main' = main \/ main'.pc = "start"
  PROVE  /\ \A id \in Ids : Creating(id)' => Creating(id)
         /\ \A id \in Ids : Ending(id)' => Ending(id)
<1>1. ASSUME NEW id \in Ids, Closed(id)' PROVE Ending(id)
  BY <1>1, TellCloses DEF Ending
<1> QED
  BY <1>1 DEF Creating, Ending

(* A message with a new id is put on the stack.                            *)
LEMMA ReceiveKeeps ==
  ASSUME TypeInv, Once, UniqueIds, NEW m \in Messages, Receive(m)
  PROVE  Once'
<1>1. /\ stack \in Seq(Messages) /\ stack' = Append(stack, m)
      /\ m.id \in Ids /\ m.id \notin used /\ used' = used \cup {m.id}
      /\ main' = main /\ task' = task /\ fired' = fired /\ hist' = hist
  BY DEF TypeInv, TypeOK, Receive, Ids
<1>2. \A id \in Ids : /\ Creating(id)' = Creating(id) /\ Ending(id)' = Ending(id)
                      /\ RowsOf(task, id)' = RowsOf(task, id)
  BY <1>1 DEF Creating, Ending, Closed, RowsOf
<1>3. \A n \in DOMAIN stack : stack[n] \in Messages /\ stack[n].id \in used
  <2>1. \A n \in DOMAIN stack : stack[n].id \in Ids
    BY <1>1 DEF Ids
  <2> QED
    BY <1>1, <2>1 DEF Once, TakenOnce, Waiting
<1>4. /\ DOMAIN stack' = DOMAIN stack \cup {Len(stack) + 1}
      /\ Len(stack) + 1 \notin DOMAIN stack
      /\ stack'[Len(stack) + 1] = m
      /\ \A n \in DOMAIN stack : stack'[n] = stack[n]
  BY <1>1
<1>5. \A id \in Ids : Waiting(id)' <=> Waiting(id) \/ id = m.id
  BY <1>4 DEF Waiting
<1>6. TakenOnce'
  <2>1. \A a, b \in DOMAIN stack' : a # b => stack'[a].id # stack'[b].id
    BY <1>1, <1>3, <1>4 DEF Once, TakenOnce
  <2>2. \A id \in Ids : Waiting(id)' => id \in used' /\ ~Creating(id)'
    BY <1>1, <1>2, <1>5 DEF Once, TakenOnce
  <2>3. \A id \in Ids : Creating(id)' => id \in used'
    BY <1>1, <1>2 DEF Once, TakenOnce
  <2> QED
    BY <2>1, <2>2, <2>3 DEF TakenOnce
<1>7. \A id \in Ids : NotYet(id)' => NotYet(id)
  BY <1>1, <1>2, <1>5 DEF NotYet
<1>8. FreshBefore' /\ GoneAfter'
  BY <1>2, <1>7 DEF Once, FreshBefore, GoneAfter
<1>9. OneRow'
  BY <1>1 DEF Once, OneRow
<1> QED
  BY <1>6, <1>8, <1>9 DEF Once

(* The oldest message leaves the stack; a command among them goes on to    *)
(* createBuggyTask.                                                        *)
LEMMA TakeKeeps ==
  ASSUME TypeInv, Once, Take \/ TakeRequest
  PROVE  Once'
<1> DEFINE h == Head(stack)
<1>1. /\ stack \in Seq(Messages) /\ stack # <<>> /\ stack' = Tail(stack)
      /\ task' = task /\ used' = used /\ fired' = fired /\ main.pc = "idle"
      /\ h = stack[1] /\ h \in Messages /\ h.id \in Ids
  BY DEF TypeInv, TypeOK, Take, TakeRequest, Ids
<1>2. /\ 1 \in DOMAIN stack
      /\ \A n \in DOMAIN stack' : /\ n + 1 \in DOMAIN stack /\ n + 1 # 1
                                  /\ stack'[n] = stack[n + 1]
      /\ \A n \in DOMAIN stack' : n \in Int
  BY <1>1
<1>3. /\ main'.pc \in {"idle", "create", "answer"}
      /\ main'.pc = "create" => main'.cmd = h
  <2>1. CASE Take
    BY <1>1, <2>1, IdleMainType DEF Take, MainStates
  <2>2. CASE TakeRequest
    BY <1>1, <2>2, IdleMainType DEF TakeRequest, MainStates
  <2> QED
    BY <2>1, <2>2
<1> HIDE DEF h
<1>4. \A id \in Ids : Waiting(id)' => Waiting(id) /\ id # h.id
  BY <1>1, <1>2 DEF Waiting, Once, TakenOnce
<1>5. Waiting(h.id)
  BY <1>1, <1>2 DEF Waiting
<1>6. \A id \in Ids : Creating(id)' => id = h.id
  BY <1>3 DEF Creating
<1>7. \A id \in Ids : Ending(id)' => Ending(id)
  <2>1. ASSUME NEW id \in Ids, Closed(id)' PROVE Closed(id)
    <3>1. CASE hist' = hist
      BY <2>1, <3>1 DEF Closed
    <3>2. CASE Tell(h.id, "begin", h.from)
      BY <1>1, <2>1, <3>2, TellCloses DEF TypeInv
    <3> QED
      BY <3>1, <3>2 DEF Take, TakeRequest, h
  <2> QED
    BY <1>1, <1>3, <2>1 DEF Ending
<1>8. TakenOnce'
  <2>1. \A a, b \in DOMAIN stack' : a # b => stack'[a].id # stack'[b].id
    BY <1>2 DEF Once, TakenOnce
  <2>2. \A id \in Ids : Waiting(id)' => id \in used' /\ ~Creating(id)'
    BY <1>1, <1>4, <1>6 DEF Once, TakenOnce
  <2>3. \A id \in Ids : Creating(id)' => id \in used'
    BY <1>1, <1>5, <1>6 DEF Once, TakenOnce
  <2> QED
    BY <2>1, <2>2, <2>3 DEF TakenOnce
<1>9. \A id \in Ids : NotYet(id)' => NotYet(id)
  BY <1>1, <1>4, <1>5, <1>6 DEF NotYet
<1>10. \A id : RowsOf(task, id)' = RowsOf(task, id)
  BY <1>1 DEF RowsOf
<1>11. FreshBefore' /\ GoneAfter'
  BY <1>7, <1>9, <1>10 DEF Once, FreshBefore, GoneAfter
<1>12. OneRow'
  BY <1>1 DEF Once, OneRow
<1> QED
  BY <1>8, <1>11, <1>12 DEF Once

(* A row is opened for a command of which nothing was known.               *)
LEMMA CreateKeeps ==
  ASSUME TypeInv, Once, Create
  PROVE  Once'
<1>1. /\ main.pc = "create" /\ main.cmd \in Commands
      /\ task \in TaskTables(Ids, NACTION) /\ main \in MainStates
      /\ CreateStops(task, main.cmd.id) # {}
      /\ stack' = stack /\ used' = used /\ fired' = fired
      /\ rxFrom \in Clients \cup {Garbage}
  BY DEF TypeInv, TypeOK, WellPlaced, TaskTables, Create
<1>2. PICK o \in Ids : o = main.cmd.id
  BY <1>1 DEF Ids, Messages
<1> DEFINE new == CreateTask(task, o, ActionCount(main.cmd))
<1>3. /\ task' = new.table
      /\ main' = IdleMain \/ main' = Opened
      /\ hist' = hist \/ Tell(o, "begin", rxFrom)
  BY <1>2 DEF Create
<1>4. \/ new.table = task /\ new.result = -1
      \/ \E i \in TaskRows :
            /\ task[i].num = 0 /\ new.table[i].num = o
            /\ \A k \in TaskRows \ {i} : new.table[k] = task[k]
  <2>1. DOMAIN task = TaskRows /\ CreateStops(task, o) # {}
    BY <1>1, <1>2 DEF TaskTables
  <2> QED
    BY <2>1, CreateOpens
<1> HIDE DEF new
<1>5. main'.pc \notin {"create", "abort"}
  <2>1. CASE main' = IdleMain
    BY <2>1 DEF IdleMain
  <2>2. CASE main' = Opened
    <3>1. main'.pc = "save"
      BY <1>1, <2>2 DEF Opened, MainStates
    <3> QED
      BY <3>1
  <2> QED
    BY <1>3, <2>1, <2>2
<1>6. /\ \A id \in Ids : Creating(id)' => Creating(id)
      /\ \A id \in Ids : Ending(id)' => Ending(id)
  BY <1>1, <1>3, <1>5, MainGoesOn DEF TypeInv
<1>7. CASE new.table = task
  BY <1>1, <1>3, <1>6, <1>7, SameRows
<1>8. ASSUME NEW i \in TaskRows, task[i].num = 0, new.table[i].num = o,
             \A k \in TaskRows \ {i} : new.table[k] = task[k]
      PROVE  Once'
  <2>1. Creating(o) /\ NotYet(o)
    BY <1>1, <1>2 DEF Creating, NotYet
  <2>2. RowsOf(task, o) = {} /\ ~Ending(o) /\ o # 0
    BY <2>1, IdsPositive DEF Once, FreshBefore
  <2>3. \A id \in Ids \ {o} : RowsOf(task, id)' = RowsOf(task, id)
    <3>1. 0 \notin Ids
      BY IdsPositive
    <3> QED
      BY <1>3, <1>8, <3>1 DEF RowsOf
  <2>4. OneRow'
    BY <1>3, <1>8, <2>2 DEF Once, OneRow, RowsOf
  <2>5. \A id : Waiting(id)' = Waiting(id)
    BY <1>1 DEF Waiting
  <2>6. \A id \in Ids : ~Creating(id)'
    BY <1>5 DEF Creating
  <2>7. TakenOnce'
    BY <1>1, <2>5, <2>6 DEF Once, TakenOnce
  <2>8. ~NotYet(o)'
    BY <1>1, <2>1, <2>5, <2>6 DEF Once, TakenOnce, NotYet
  <2>9. FreshBefore'
    BY <1>1, <1>6, <2>3, <2>5, <2>6, <2>8 DEF Once, FreshBefore, NotYet
  <2>10. GoneAfter'
    BY <1>6, <2>2, <2>3 DEF Once, GoneAfter
  <2> QED
    BY <2>4, <2>7, <2>9, <2>10 DEF Once
<1> QED
  BY <1>3, <1>4, <1>7, <1>8

(* removeBuggyTask: whoever learns that the task ended knows that its row  *)
(* is gone.                                                                *)
LEMMA RemoveKeeps ==
  ASSUME TypeInv, Once, NEW o \in Ids, task' = RemoveTask(task, o).table,
         stack' = stack, used' = used, hist' = hist,
         \A id \in Ids : Creating(id)' => Creating(id),
         \A id \in Ids : Ending(id)' =>
             Ending(id) \/ (id = o /\ RemoveTask(task, o).result = o)
  PROVE  Once'
<1> DEFINE new == RemoveTask(task, o)
<1>1. /\ \A k \in TaskRows : new.table[k].num \in {task[k].num, 0}
      /\ new.result = o => RowsOf(task, o) # {} /\ RowsOf(new.table, o) = {}
  <2>1. task \in TaskTables(Ids, NACTION) /\ Ids \subseteq Nat \ {0} /\ NACTION \in Nat
    BY IdsPositive, CommandsAssumption DEF TypeInv, TypeOK, TaskTables
  <2>2. \A i, j \in TaskRows : task[i].num = task[j].num /\ task[i].num # 0 => i = j
    BY DEF Once, OneRow
  <2> QED
    BY <2>1, <2>2, RemoveCloses
<1>2. task' = new.table
  OBVIOUS
<1>3. \A id \in Ids : Ending(id)' => Ending(id) \/ (id = o /\ new.result = o)
  OBVIOUS
<1> HIDE DEF new
<1>4. 0 \notin Ids
  BY IdsPositive
<1>5. \A id \in Ids : RowsOf(task, id)' \subseteq RowsOf(task, id)
  BY <1>1, <1>2, <1>4 DEF RowsOf
<1>6. \A id : Waiting(id)' = Waiting(id)
  BY DEF Waiting
<1>7. \A id \in Ids : Creating(id)' => Creating(id)
  OBVIOUS
<1>8. TakenOnce'
  BY <1>6, <1>7 DEF Once, TakenOnce
<1>9. OneRow'
  BY <1>1, <1>2 DEF Once, OneRow
<1>10. FreshBefore'
  <2>1. SUFFICES ASSUME NEW id \in Ids, NotYet(id)'
                 PROVE  RowsOf(task, id)' = {} /\ ~Ending(id)'
    BY DEF FreshBefore
  <2>2. NotYet(id)
    BY <1>6, <1>7, <2>1 DEF NotYet
  <2>3. RowsOf(task, id) = {} /\ ~Ending(id)
    BY <2>2 DEF Once, FreshBefore
  <2>4. ~Ending(id)'
    BY <1>1, <1>3, <2>3
  <2> QED
    BY <1>5, <2>3, <2>4
<1>11. GoneAfter'
  <2>1. SUFFICES ASSUME NEW id \in Ids, Ending(id)' PROVE RowsOf(task, id)' = {}
    BY DEF GoneAfter
  <2>2. CASE Ending(id)
    BY <1>5, <2>2 DEF Once, GoneAfter
  <2>3. CASE id = o /\ new.result = o
    <3>1. RowsOf(new.table, o) = {}
      BY <1>1, <2>3
    <3> QED
      BY <1>2, <2>3, <3>1 DEF RowsOf
  <2> QED
    BY <1>3, <2>1, <2>2, <2>3
<1> QED
  BY <1>8, <1>9, <1>10, <1>11 DEF Once

(* The steps of the main loop that touch no row and close no command.      *)
LEMMA MainKeeps ==
  ASSUME TypeInv, Once, ~overran',
         \/ AnswerCall \/ AnswerEnds \/ CreateFull \/ Save
         \/ SkipEntry \/ StartEntry \/ Finish
  PROVE  Once'
<1>1. TypeOK /\ WellPlaced /\ main \in MainStates
  BY DEF TypeInv, TypeOK
<1>2. /\ task' = task /\ stack' = stack /\ used' = used /\ fired' = fired
  BY DEF AnswerCall, AnswerEnds, CreateFull, Save, SkipEntry, StartEntry, Finish
<1>3. main'.pc \notin {"create", "abort"}
  <2>1. CASE AnswerCall
    BY <1>1, <2>1 DEF AnswerCall, MainStates
  <2>2. CASE AnswerEnds
    BY <2>2 DEF AnswerEnds, IdleMain
  <2>3. CASE CreateFull
    BY <2>3 DEF CreateFull, IdleMain
  <2>4. CASE Save
    BY <1>1, <2>4 DEF Save, MainStates
  <2>5. CASE SkipEntry
    BY <1>1, <2>5 DEF SkipEntry, Starting, MainStates
  <2>6. CASE StartEntry
    <3>1. PICK r : main' = [main EXCEPT
                             !.k = @ + 1,
                             !.left = @ - 1,
                             !.pc = IF r > 1 THEN "retire" ELSE "start",
                             !.over = IF r > 1 THEN r ELSE 0]
      BY <2>6 DEF StartEntry
    <3> QED
      BY <1>1, <3>1 DEF MainStates
  <2>7. CASE Finish
    BY <2>7 DEF Finish, IdleMain
  <2> QED
    BY <2>1, <2>2, <2>3, <2>4, <2>5, <2>6, <2>7
<1>4. hist' = hist \/ \E x \in Ids, to \in Clients \cup {Garbage} : Tell(x, "begin", to)
  <2>1. CASE Finish
    <3>1. main.cmd \in Commands /\ rxFrom \in Clients \cup {Garbage}
      BY <1>1, <2>1 DEF Finish, WellPlaced, TypeOK
    <3>2. PICK o \in Ids : o = main.cmd.id
      BY <3>1 DEF Ids, Messages
    <3>3. hist' = hist \/ Tell(o, "begin", rxFrom)
      BY <2>1, <3>2 DEF Finish
    <3> QED
      BY <3>1, <3>3
  <2>2. CASE CreateFull
    BY <2>2 DEF CreateFull
  <2>3. CASE AnswerCall \/ AnswerEnds \/ Save \/ SkipEntry \/ StartEntry
    BY <2>3 DEF AnswerCall, AnswerEnds, Save, SkipEntry, StartEntry
  <2> QED
    BY <2>1, <2>2, <2>3
<1>5. /\ \A id \in Ids : Creating(id)' => Creating(id)
      /\ \A id \in Ids : Ending(id)' => Ending(id)
  BY <1>1, <1>2, <1>3, <1>4, MainGoesOn
<1> QED
  BY <1>2, <1>5, SameRows

(* The two steps that send an end or abort event.                          *)
LEMMA TellingKeeps ==
  ASSUME TypeInv, Once, Abort \/ TellEnd
  PROVE  Once'
<1>1. TypeOK /\ WellPlaced /\ main \in MainStates
  BY DEF TypeInv, TypeOK
<1>2. task' = task /\ stack' = stack /\ used' = used
  BY DEF Abort, TellEnd
<1>3. /\ \A id \in Ids : Creating(id)' => Creating(id)
      /\ \A id \in Ids : Ending(id)' => Ending(id)
  <2>1. CASE Abort
    <3>1. PICK x \in Ids \cup {-1} : x = main.over
      BY <1>1, <2>1 DEF Abort, WellPlaced
    <3>2. /\ \A id \in Ids : id = x => Ending(id)
          /\ Tell(x, "abort", main.cmd.from) /\ fired' = fired
      BY <2>1, <3>1 DEF Abort, Ending
    <3>3. main'.pc = "start"
      BY <1>1, <2>1 DEF Abort, MainStates
    <3> QED
      BY <1>1, <3>2, <3>3, TellingEnds
  <2>2. CASE TellEnd
    <3>1. PICK x \in Ids \cup {-1} : x = fired.ended
      BY <1>1, <2>2 DEF TellEnd, WellPlaced
    <3>2. /\ \A id \in Ids : id = x => Ending(id)
          /\ Tell(x, "end", SenderOf(sender, x)) /\ main' = main
      BY <2>2, <3>1 DEF TellEnd, Ending
    <3>3. fired'.pc = "scan"
      BY <2>2 DEF TellEnd, IdleTimer
    <3> QED
      BY <1>1, <3>2, <3>3, TellingEnds
  <2> QED
    BY <2>1, <2>2
<1> QED
  BY <1>2, <1>3, SameRows

(* setAsync...Action retires an overwritten action.                        *)
LEMMA RetireKeeps ==
  ASSUME TypeInv, Once, Retire
  PROVE  Once'
<1>1. main \in MainStates
  BY DEF TypeInv, TypeOK
<1>2. PICK o \in Ids : o = main.over
  BY DEF Retire, TypeInv, WellPlaced
<1> DEFINE res == RemoveTask(task, o).result
<1>3. /\ task' = RemoveTask(task, o).table
      /\ stack' = stack /\ used' = used /\ hist' = hist /\ fired' = fired
      /\ main' = [main EXCEPT !.pc = IF res # 0 THEN "abort" ELSE "start",
                              !.over = res]
  BY <1>2 DEF Retire
<1>4. res \in {o, 0, -1}
  BY IdsPositive, CommandsAssumption, RemoveTaskType
     DEF TypeInv, TypeOK, WellPlaced, TaskTables
<1>5. \A id \in Ids : id # 0 /\ id # -1
  BY IdsPositive
<1> HIDE DEF res
<1>6. main'.pc \in {"abort", "start"} /\ main'.over = res
  BY <1>1, <1>3 DEF MainStates
<1>7. \A id \in Ids : Ending(id)' => Ending(id) \/ (id = o /\ res = o)
  BY <1>3, <1>4, <1>5, <1>6 DEF Ending, Closed
<1>8. \A id \in Ids : Creating(id)' => Creating(id)
  BY <1>6 DEF Creating
<1> QED
  BY <1>3, <1>7, <1>8, RemoveKeeps DEF res

(* A callback ends its action.                                             *)
LEMMA EndKeeps ==
  ASSUME TypeInv, Once, EndAction
  PROVE  Once'
<1>1. PICK o \in Ids : o = fired.id
  BY DEF EndAction, TypeInv, WellPlaced
<1> DEFINE res == RemoveTask(task, o).result
<1>2. /\ task' = RemoveTask(task, o).table
      /\ stack' = stack /\ used' = used /\ hist' = hist /\ main' = main
      /\ \/ fired' = IdleTimer
         \/ fired' = [IdleTimer EXCEPT !.pc = "tell", !.ended = res]
  BY <1>1 DEF EndAction
<1>3. res \in {o, 0, -1}
  BY IdsPositive, CommandsAssumption, RemoveTaskType
     DEF TypeInv, TypeOK, WellPlaced, TaskTables
<1>4. \A id \in Ids : id # 0 /\ id # -1
  BY IdsPositive
<1> HIDE DEF res
<1>5. fired'.pc = "tell" => fired'.ended = res
  <2>1. CASE fired' = IdleTimer
    BY <2>1 DEF IdleTimer
  <2>2. CASE fired' = [IdleTimer EXCEPT !.pc = "tell", !.ended = res]
    BY <2>2, IdleMainType DEF FiredStates
  <2> QED
    BY <1>2, <2>1, <2>2
<1>6. \A id \in Ids : Ending(id)' => Ending(id) \/ (id = o /\ res = o)
  BY <1>2, <1>3, <1>4, <1>5 DEF Ending, Closed
<1>7. \A id \in Ids : Creating(id)' => Creating(id)
  BY <1>2 DEF Creating
<1> QED
  BY <1>2, <1>6, <1>7, RemoveKeeps DEF res

(* The timer starts a callback, or a callback re-arms.                     *)
LEMMA TimerKeeps ==
  ASSUME Once, Rearm \/ \E i \in TimerSlots : Fire(i)
  PROVE  Once'
<1>1. /\ task' = task /\ stack' = stack /\ used' = used /\ main' = main
      /\ hist' = hist /\ fired'.pc \in {"scan", "call"}
  BY DEF Rearm, Fire, IdleTimer, TimerInCallback
<1>2. /\ \A id \in Ids : Creating(id)' => Creating(id)
      /\ \A id \in Ids : Ending(id)' => Ending(id)
  BY <1>1 DEF Creating, Ending, Closed
<1> QED
  BY <1>1, <1>2, SameRows

(* Every step but the write past the table keeps Once.                     *)
LEMMA OnceStep ==
  ASSUME TypeInv, Once, UniqueIds, ~overran', [Next]_vars
  PROVE  Once'
<1>1. CASE UNCHANGED vars
  <2>1. /\ \A id \in Ids : Creating(id)' => Creating(id)
        /\ \A id \in Ids : Ending(id)' => Ending(id)
    BY <1>1 DEF vars, Creating, Ending, Closed
  <2> QED
    BY <1>1, <2>1, SameRows DEF vars
<1>2. CASE \E m \in Messages : Receive(m)
  BY <1>2, ReceiveKeeps
<1>3. CASE MainStep
  BY <1>3, TakeKeeps, CreateKeeps, MainKeeps, RetireKeeps, TellingKeeps DEF MainStep
<1>4. CASE TimerStep
  BY <1>4, TimerKeeps, EndKeeps, TellingKeeps DEF TimerStep
<1> QED
  BY <1>1, <1>2, <1>3, <1>4 DEF Next

(* Once holds as long as ids are used once and the task table has held.    *)
LEMMA OnceAlways == Spec => []OnceIfUnique
<1>1. Init => OnceIfUnique
  <2> SUFFICES ASSUME Init PROVE Once
    BY DEF OnceIfUnique
  <2>1. /\ stack = <<>> /\ used = {} /\ main.pc = "idle" /\ fired.pc = "scan"
        /\ \A i \in TaskRows : task[i].num = 0
        /\ \A id \in Ids : hist[id] = <<>>
    BY DEF Init, IdleMain, IdleTimer, EmptyTaskTable, FreeRow
  <2>2. \A id \in Ids : ~Waiting(id) /\ ~Creating(id)
    BY <2>1 DEF Waiting, Creating
  <2>3. \A id \in Ids : ~Ending(id)
    BY <2>1 DEF Ending, Closed
  <2>4. \A id \in Ids : RowsOf(task, id) = {}
    <3>1. 0 \notin Ids
      BY IdsPositive
    <3> QED
      BY <2>1, <3>1 DEF RowsOf
  <2> QED
    BY <2>1, <2>2, <2>3, <2>4 DEF Once, TakenOnce, FreshBefore, OneRow, GoneAfter
<1>2. TypeInv /\ OnceIfUnique /\ [Next]_vars => OnceIfUnique'
  BY OverranStays, OnceStep DEF OnceIfUnique
<1> QED
  BY <1>1, <1>2, InitTypeInv, TypeInvStep, PTL DEF Spec

(* EndMeansQuiet: when ids are used once and createBuggyTask has not       *)
(* written past its table, nothing of a command runs once its client was   *)
(* told that it ended or was aborted.  Its row is gone, so its rows owe    *)
(* nothing, and by NeverEndsEarly no action of it is under way.            *)
THEOREM EndMeansQuietAlways == Spec => []EndMeansQuiet
<1>1. TypeInv /\ NeverEndsEarly /\ OnceIfUnique => EndMeansQuiet
  <2> SUFFICES ASSUME TypeInv, NeverEndsEarly, Once, ~overran,
                      NEW id \in Ids, Closed(id)
               PROVE  Running(id) = {}
    BY DEF OnceIfUnique, EndMeansQuiet
  <2>1. RowsOf(task, id) = {}
    BY DEF Once, GoneAfter, Ending
  <2>2. Owed(id) = {}
    BY <2>1 DEF RowsOf, Owed, OwedIn
  <2>3. Cardinality(Owed(id)) = 0
    BY <2>2, FS_EmptySet
  <2>4. IsFiniteSet(Running(id)) /\ Cardinality(Running(id)) \in Nat
    BY RunningFinite, FS_CardinalityType DEF TypeInv
  <2>5. Cardinality(Running(id)) = 0
    BY <2>3, <2>4 DEF NeverEndsEarly
  <2> QED
    BY <2>4, <2>5, FS_EmptySet
<1> QED
  BY <1>1, OnceAlways, InitTypeInv, TypeInvStep, NeverEndsEarlyAlways, PTL DEF Spec

------------------------------------------------------------------------------
(* The order of a command's events.  What makes EventOrder inductive: a    *)
(* command with a row, or whose end or abort is about to be sent, has had  *)
(* at most its begin; a PWM or servo command that is still being started   *)
(* has had no begin; and an id not taken yet has had nothing.              *)
Telling(id) == fired.pc = "tell" /\ fired.ended = id
Aborting(id) == main.pc = "abort" /\ main.over = id
Live(id) == RowsOf(task, id) # {} \/ Telling(id) \/ Aborting(id)
Unseen(id) == id \notin used \/ Waiting(id)
Serving(id) ==
    /\ main.pc \in {"create", "save", "start", "retire", "abort"}
    /\ main.cmd.id = id /\ main.cmd.family = "pwm"

FirstKinds(cmd) == IF cmd.family \in {"motor", "stepper"} THEN <<"begin">> ELSE <<>>

InOrder(id) ==
    /\ Kinds(id) \in Orders(id)
    /\ Live(id) => /\ Kinds(id) \in {<<>>, <<"begin">>}
                   /\ Kinds(id) = <<>> => MayEndFirst(id)
    /\ ~(Telling(id) /\ Aborting(id))
    /\ Serving(id) => Kinds(id) \in {<<>>, <<"end">>, <<"abort">>} /\ ~Unseen(id)
    /\ Unseen(id) => Kinds(id) = <<>>
    /\ Creating(id) => Kinds(id) = FirstKinds(main.cmd)

(* An event is appended to those of the id it names.                       *)
LEMMA TellKinds ==
  ASSUME TypeOK, NEW x \in Ids \cup {-1}, NEW kind, NEW to, Tell(x, kind, to),
         NEW id \in Ids
  PROVE  Kinds(id)' = IF id = x THEN Append(Kinds(id), kind) ELSE Kinds(id)
<1>1. hist \in [Ids \cup {-1} -> Seq(EventRecord)]
  BY DEF TypeOK
<1>2. hist' = [hist EXCEPT ![x] = Append(@, Event(kind, to))]
  BY DEF Tell
<1>3. CASE id # x
  <2>1. hist'[id] = hist[id]
    BY <1>1, <1>2, <1>3
  <2> QED
    BY <1>3, <2>1 DEF Kinds
<1>4. CASE id = x
  <2> DEFINE old == hist[id]
             new == hist'[id]
  <2>1. old \in Seq(EventRecord) /\ new = Append(old, Event(kind, to))
    BY <1>1, <1>2, <1>4
  <2>2. /\ DOMAIN new = 1 .. Len(old) + 1 /\ DOMAIN old = 1 .. Len(old)
        /\ Len(old) \in Nat
        /\ \A n \in 1 .. Len(old) : new[n] = old[n]
        /\ new[Len(old) + 1] = Event(kind, to)
    BY <2>1
  <2>3. /\ Kinds(id) = [n \in 1 .. Len(old) |-> old[n].kind]
        /\ Kinds(id)' = [n \in 1 .. Len(old) + 1 |-> new[n].kind]
    BY <2>2 DEF Kinds
  <2> HIDE DEF old, new
  <2>4. Kinds(id) \in Seq({old[n].kind : n \in 1 .. Len(old)})
    BY <2>2, <2>3
  <2>5. Len(Kinds(id)) = Len(old)
    BY <2>2, <2>3, <2>4
  <2>6. Append(Kinds(id), kind)
          = [n \in 1 .. Len(old) + 1 |-> IF n = Len(old) + 1 THEN kind ELSE old[n].kind]
    BY <2>2, <2>3, <2>4, <2>5
  <2>7. Event(kind, to).kind = kind
    BY DEF Event
  <2> QED
    BY <1>4, <2>2, <2>3, <2>6, <2>7
<1> QED
  BY <1>3, <1>4

(* What has been sent for an id is one of the orders listed: an event of   *)
(* one kind makes of it another.                                           *)
LEMMA AppendKinds ==
  /\ Append(<<>>, "begin") = <<"begin">>
  /\ Append(<<>>, "end") = <<"end">> /\ Append(<<>>, "abort") = <<"abort">>
  /\ Append(<<"begin">>, "end") = <<"begin", "end">>
  /\ Append(<<"begin">>, "abort") = <<"begin", "abort">>
  /\ Append(<<"end">>, "begin") = <<"end", "begin">>
  /\ Append(<<"abort">>, "begin") = <<"abort", "begin">>
<1>1. \A x : Append(<<>>, x) = <<x>>
  OBVIOUS
<1>2. \A x, y : Append(<<x>>, y) = <<x, y>>
  <2> TAKE x, y
  <2>1. <<x>> \in Seq({x, y}) /\ Len(<<x>>) = 1
    OBVIOUS
  <2>2. Append(<<x>>, y) \in Seq({x, y}) /\ Len(Append(<<x>>, y)) = 2
    BY <2>1
  <2>3. <<x, y>> \in Seq({x, y}) /\ Len(<<x, y>>) = 2
    OBVIOUS
  <2>4. Append(<<x>>, y)[1] = x /\ Append(<<x>>, y)[2] = y
    BY <2>1
  <2>5. \A n \in 1 .. 2 : n = 1 \/ n = 2
    OBVIOUS
  <2>6. \A n \in 1 .. 2 : Append(<<x>>, y)[n] = <<x, y>>[n]
    BY <2>4, <2>5
  <2>7. \A s, t \in Seq({x, y}) :
           Len(s) = Len(t) /\ (\A n \in 1 .. Len(s) : s[n] = t[n]) => s = t
    OBVIOUS
  <2> QED
    BY <2>2, <2>3, <2>6, <2>7
<1> QED
  BY <1>1, <1>2

(* The histories of a command that the order allows are all different.     *)
LEMMA KindsDiffer ==
  /\ <<>> # <<"begin">> /\ <<>> # <<"end">> /\ <<>> # <<"abort">>
  /\ <<"begin">> # <<"end">> /\ <<"begin">> # <<"abort">>
  OBVIOUS

(* An id for which a step sends nothing and opens nothing stays in order.  *)
LEMMA OrderSame ==
  ASSUME NEW id, InOrder(id), Kinds(id)' = Kinds(id),
         Live(id)' => Live(id),
         ~(Telling(id) /\ Aborting(id))',
         Serving(id)' => Serving(id),
         Unseen(id)' => Unseen(id),
         Creating(id)' => Creating(id) /\ main'.cmd = main.cmd
  PROVE  InOrder(id)'
<1>1. Orders(id)' = Orders(id) /\ MayEndFirst(id)' = MayEndFirst(id)
  BY DEF Orders, MayEndFirst
<1>2. Creating(id)' => FirstKinds(main.cmd)' = FirstKinds(main.cmd)
  BY DEF FirstKinds
<1> QED
  BY <1>1, <1>2 DEF InOrder

(* No step before an action ends touches what decides the order.           *)
LEMMA OrderQuiet ==
  ASSUME NEW id \in Ids, InOrder(id), hist' = hist, used' = used, stack' = stack,
         task' = task, Telling(id)' => Telling(id),
         \/ main' = main
         \/ /\ main.pc \in {"save", "start"} /\ main'.pc \in {"start", "retire"}
            /\ main'.cmd = main.cmd
         \/ main'.pc \in {"answer", "idle"}
  PROVE  InOrder(id)'
<1>1. /\ Kinds(id)' = Kinds(id) /\ RowsOf(task, id)' = RowsOf(task, id)
      /\ Unseen(id)' = Unseen(id)
  BY DEF Kinds, RowsOf, Unseen, Waiting
<1>2. Aborting(id)' => Aborting(id)
  BY DEF Aborting
<1>3. Serving(id)' => Serving(id)
  BY DEF Serving
<1>4. Creating(id)' => Creating(id) /\ main'.cmd = main.cmd
  BY DEF Creating
<1>5. Live(id)' => Live(id)
  BY <1>1, <1>2 DEF Live
<1>6. ~(Telling(id) /\ Aborting(id))'
  BY <1>2 DEF InOrder
<1> QED
  BY <1>1, <1>3, <1>4, <1>5, <1>6, OrderSame

(* A new message, and a message or request taken that sends nothing.       *)
LEMMA OrderReceive ==
  ASSUME TypeInv, Once, UniqueIds, NEW m \in Messages, Receive(m),
         NEW id \in Ids, InOrder(id)
  PROVE  InOrder(id)'
<1>1. /\ stack \in Seq(Messages) /\ stack' = Append(stack, m)
      /\ m.id \notin used /\ used' = used \cup {m.id}
      /\ main' = main /\ task' = task /\ fired' = fired /\ hist' = hist
  BY DEF TypeInv, TypeOK, Receive
<1>2. /\ Kinds(id)' = Kinds(id) /\ Live(id)' = Live(id)
      /\ Telling(id)' = Telling(id) /\ Aborting(id)' = Aborting(id)
      /\ Serving(id)' = Serving(id) /\ Creating(id)' = Creating(id)
  BY <1>1 DEF Kinds, Live, Telling, Aborting, Serving, Creating, RowsOf
<1>3. Waiting(id)' => Waiting(id) \/ id = m.id
  BY <1>1 DEF Waiting
<1>4. Unseen(id)' => Unseen(id)
  BY <1>1, <1>3 DEF Unseen
<1>5. ~(Telling(id) /\ Aborting(id))'
  BY <1>2 DEF InOrder
<1> QED
  BY <1>1, <1>2, <1>4, <1>5, OrderSame

(* A command is taken: nothing was sent for it before, and a motor or      *)
(* stepper command gets its begin.                                         *)
LEMMA OrderTake ==
  ASSUME TypeInv, Once, Once', Take \/ TakeRequest, NEW id \in Ids, InOrder(id)
  PROVE  InOrder(id)'
<1> DEFINE h == Head(stack)
<1>1. /\ stack \in Seq(Messages) /\ stack # <<>> /\ stack' = Tail(stack)
      /\ task' = task /\ used' = used /\ fired' = fired /\ main.pc = "idle"
      /\ h = stack[1] /\ h \in Messages /\ h.id \in Ids /\ 1 \in DOMAIN stack
  BY DEF TypeInv, TypeOK, Take, TakeRequest, Ids
<1>2. Waiting(h.id)
  BY <1>1 DEF Waiting
<1>3. Unseen(id)' => Unseen(id)
  BY <1>1 DEF Unseen, Waiting
<1>4. \/ main' = main /\ hist' = hist
      \/ main'.pc = "answer" /\ hist' = hist
      \/ /\ main'.pc = "create" /\ main'.cmd = h /\ h.family # "request"
         /\ IF h.family \in {"motor", "stepper"} THEN Tell(h.id, "begin", h.from)
            ELSE hist' = hist
  <2>1. CASE Take
    BY <1>1, <2>1, IdleMainType DEF Take, MainStates
  <2>2. CASE TakeRequest
    BY <1>1, <2>2, IdleMainType DEF TakeRequest, MainStates
  <2> QED
    BY <2>1, <2>2
<1> HIDE DEF h
<1>5. /\ Live(id)' <=> RowsOf(task, id) # {} \/ Telling(id) 
      /\ ~Aborting(id)'
  <2>1. main'.pc # "abort"
    BY <1>1, <1>4
  <2> QED
    BY <1>1, <2>1 DEF Live, Telling, Aborting, RowsOf
<1>6. Live(id)' => Live(id)
  BY <1>5 DEF Live
<1>7. CASE hist' = hist /\ ~Creating(id)'
  <2>1. Kinds(id)' = Kinds(id)
    BY <1>7 DEF Kinds
  <2>2. ~Serving(id)'
    BY <1>1, <1>4, <1>7 DEF Serving, Creating
  <2> QED
    BY <1>3, <1>5, <1>6, <1>7, <2>1, <2>2, OrderSame
<1>8. CASE main'.pc = "create" /\ id # h.id
  <2>1. Kinds(id)' = Kinds(id)
    BY <1>1, <1>4, <1>8, TellKinds DEF Kinds, TypeInv
  <2>2. ~Serving(id)' /\ ~Creating(id)'
    BY <1>1, <1>4, <1>8 DEF Serving, Creating
  <2> QED
    BY <1>3, <1>5, <1>6, <2>1, <2>2, OrderSame
<1>9. CASE main'.pc = "create" /\ id = h.id
  <2>1. Kinds(id) = <<>> /\ ~Live(id)
    BY <1>2, <1>9 DEF InOrder, Unseen, Once, FreshBefore, NotYet, Live, Ending,
                      Telling, Aborting
  <2>2. main'.cmd = h /\ main.pc = "idle"
    BY <1>1, <1>4, <1>9
  <2>3. Kinds(id)' = FirstKinds(main'.cmd)
    <3>1. CASE h.family \in {"motor", "stepper"}
      <4>1. Tell(h.id, "begin", h.from)
        BY <1>4, <2>2, <3>1, <1>9
      <4>2. Kinds(id)' = Append(Kinds(id), "begin")
        BY <1>1, <1>9, <4>1, TellKinds DEF TypeInv
      <4> QED
        BY <2>1, <2>2, <3>1, <4>2, AppendKinds DEF FirstKinds
    <3>2. CASE h.family \notin {"motor", "stepper"}
      <4>1. Kinds(id)' = Kinds(id)
        BY <1>4, <1>9, <2>2, <3>2 DEF Kinds
      <4> QED
        BY <2>1, <2>2, <3>2, <4>1 DEF FirstKinds
    <3> QED
      BY <3>1, <3>2
  <2>4. ~Unseen(id)'
    <3>1. Creating(id)'
      BY <1>9, <2>2 DEF Creating
    <3> QED
      BY <3>1 DEF Once, TakenOnce, Unseen
  <2>5. ~Live(id)'
    BY <1>6, <2>1
  <2>6. Kinds(id)' \in Orders(id)'
    BY <2>3 DEF Orders, FirstKinds
  <2>7. Serving(id)' => Kinds(id)' = <<>>
    BY <2>3 DEF Serving, FirstKinds
  <2>8. Creating(id)' => Kinds(id)' = FirstKinds(main.cmd)'
    BY <2>3 DEF FirstKinds
  <2> QED
    BY <1>5, <2>4, <2>5, <2>6, <2>7, <2>8 DEF InOrder
<1> QED
  BY <1>1, <1>4, <1>7, <1>8, <1>9 DEF Creating

(* A row is opened for a command that was announced before (motor and      *)
(* stepper), is announced now (LED), or will be (PWM and servo).           *)
LEMMA OrderCreate ==
  ASSUME TypeInv, Once, Once', Create, NEW id \in Ids, InOrder(id)
  PROVE  InOrder(id)'
<1>1. /\ main.pc = "create" /\ main.cmd \in Commands /\ main \in MainStates
      /\ main.cmd.family \in Families
      /\ task \in TaskTables(Ids, NACTION) /\ RowsLive(task)
      /\ ActionCount(main.cmd) \in 1 .. NACTION
      /\ CreateStops(task, main.cmd.id) # {}
      /\ stack' = stack /\ used' = used /\ fired' = fired
      /\ rxFrom \in Clients \cup {Garbage}
  BY CommandsAssumption, ActionCountBounded
     DEF TypeInv, TypeOK, WellPlaced, TaskTables, Create
<1>2. PICK o \in Ids : o = main.cmd.id
  BY <1>1 DEF Ids, Messages
<1> DEFINE new == CreateTask(task, o, ActionCount(main.cmd))
<1>3. /\ task' = new.table
      /\ \/ new.result > 0 /\ main' = Opened
            /\ IF main.cmd.family = "led" THEN Tell(o, "begin", rxFrom)
               ELSE hist' = hist
         \/ ~(new.result > 0) /\ main' = IdleMain /\ hist' = hist
  BY <1>2 DEF Create
<1>4. /\ new.result \in {o, -1}
      /\ new.result = -1 => new.table = task
      /\ \/ new.table = task
         \/ \E i \in TaskRows :
               /\ task[i].num = 0 /\ new.table[i].num = o
               /\ \A k \in TaskRows \ {i} : new.table[k] = task[k]
  <2>1. DOMAIN task = TaskRows /\ CreateStops(task, o) # {}
    BY <1>1, <1>2 DEF TaskTables
  <2>2. Ids \subseteq Nat \ {0}
    BY IdsPositive
  <2>3. /\ new.result \in {o, -1}
        /\ new.result = -1 => new.table = task
    BY <1>1, <1>2, <2>1, <2>2, CreateTaskEffect
  <2>4. \/ new.table = task
        \/ \E i \in TaskRows :
              /\ task[i].num = 0 /\ new.table[i].num = o
              /\ \A k \in TaskRows \ {i} : new.table[k] = task[k]
    BY <2>1, CreateOpens
  <2> QED
    BY <2>3, <2>4
<1> HIDE DEF new
<1>5. o > 0 /\ ~(-1 > 0) /\ 0 \notin Ids
  BY IdsPositive
<1>6. /\ Unseen(id)' = Unseen(id)
      /\ Telling(id)' = Telling(id)
  BY <1>1 DEF Unseen, Waiting, Telling
<1>7. CASE main' = IdleMain /\ task' = task /\ hist' = hist
  BY <1>1, <1>6, <1>7, OrderQuiet DEF IdleMain
<1>8. CASE new.result > 0
  <2>1. main' = Opened /\ new.result = o
    BY <1>3, <1>4, <1>5, <1>8
  <2>2. main'.pc = "save" /\ main'.cmd = main.cmd
    BY <1>1, <2>1 DEF Opened, MainStates
  <2>3. ~Aborting(id)' /\ ~Creating(id)' /\ (Serving(id)' => Serving(id))
    BY <1>1, <2>2 DEF Aborting, Creating, Serving
  <2>4. CASE id # o
    <3>1. RowsOf(task, id)' = RowsOf(task, id)
      BY <1>3, <1>4, <1>5, <2>4 DEF RowsOf
    <3>2. Live(id)' => Live(id)
      BY <1>6, <2>3, <3>1 DEF Live
    <3>3. Kinds(id)' = Kinds(id)
      <4>1. CASE hist' = hist
        BY <4>1 DEF Kinds
      <4>2. CASE Tell(o, "begin", rxFrom)
        BY <2>4, <4>2, TellKinds DEF TypeInv
      <4> QED
        BY <1>3, <1>8, <4>1, <4>2
    <3> QED
      BY <1>6, <2>3, <3>2, <3>3, OrderSame
  <2>5. CASE id = o
    <3>1. Creating(id) /\ Kinds(id) = FirstKinds(main.cmd)
      BY <1>1, <1>2, <2>5 DEF Creating, InOrder
    <3>2. ~Unseen(id)'
      BY <1>6, <3>1 DEF Once, TakenOnce, Unseen
    <3>3. Kinds(id)' = IF main.cmd.family = "pwm" THEN <<>> ELSE <<"begin">>
      <4>1. CASE main.cmd.family = "led"
        <5>1. Kinds(id)' = Append(Kinds(id), "begin")
          BY <1>3, <1>8, <2>5, <4>1, TellKinds DEF TypeInv
        <5> QED
          BY <3>1, <4>1, <5>1, AppendKinds DEF FirstKinds
      <4>2. CASE main.cmd.family # "led"
        <5>1. Kinds(id)' = Kinds(id)
          BY <1>3, <1>8, <4>2 DEF Kinds
        <5>2. main.cmd.family \in {"motor", "stepper", "pwm"}
          BY <1>1, <4>2 DEF Families
        <5> QED
          BY <3>1, <4>2, <5>1, <5>2 DEF FirstKinds
      <4> QED
        BY <4>1, <4>2
    <3>4. main.cmd.family = "pwm" => MayEndFirst(id)'
      BY <1>1, <1>2, <2>5 DEF MayEndFirst
    <3>5. Kinds(id)' \in Orders(id)'
      BY <3>3 DEF Orders
    <3>6. Live(id)' => /\ Kinds(id)' \in {<<>>, <<"begin">>}
                       /\ Kinds(id)' = <<>> => MayEndFirst(id)'
      BY <3>3, <3>4, KindsDiffer
    <3>7. Serving(id)' => Kinds(id)' = <<>>
      BY <2>2, <3>3 DEF Serving
    <3> QED
      BY <2>3, <3>2, <3>5, <3>6, <3>7 DEF InOrder
  <2> QED
    BY <2>4, <2>5
<1> QED
  BY <1>3, <1>4, <1>5, <1>7, <1>8

(* removeBuggyTask: who learns that the task ended is the only one to.     *)
LEMMA OrderRemove ==
  ASSUME TypeInv, Once, NEW o \in Ids, task' = RemoveTask(task, o).table,
         stack' = stack, used' = used, hist' = hist,
         NEW id \in Ids, InOrder(id),
         Serving(id)' => Serving(id), ~Creating(id)' \/ main' = main,
         \/ /\ Telling(id)' => Telling(id)
            /\ Aborting(id)' => id = o /\ RemoveTask(task, o).result = o
         \/ /\ Aborting(id)' => Aborting(id)
            /\ Telling(id)' => id = o /\ RemoveTask(task, o).result = o
  PROVE  InOrder(id)'
<1> DEFINE new == RemoveTask(task, o)
<1>1. /\ \A k \in TaskRows : new.table[k].num \in {task[k].num, 0}
      /\ new.result = o => RowsOf(task, o) # {} /\ RowsOf(new.table, o) = {}
  <2>1. task \in TaskTables(Ids, NACTION) /\ Ids \subseteq Nat \ {0} /\ NACTION \in Nat
    BY IdsPositive, CommandsAssumption DEF TypeInv, TypeOK, TaskTables
  <2>2. \A i, j \in TaskRows : task[i].num = task[j].num /\ task[i].num # 0 => i = j
    BY DEF Once, OneRow
  <2> QED
    BY <2>1, <2>2, RemoveCloses
<1>2. /\ task' = new.table
      /\ \/ /\ Telling(id)' => Telling(id)
            /\ Aborting(id)' => id = o /\ new.result = o
         \/ /\ Aborting(id)' => Aborting(id)
            /\ Telling(id)' => id = o /\ new.result = o
  OBVIOUS
<1> HIDE DEF new
<1>3. id # 0
  BY IdsPositive
<1>4. RowsOf(task, id)' \subseteq RowsOf(task, id)
  BY <1>1, <1>2, <1>3 DEF RowsOf
<1>5. id = o /\ new.result = o => RowsOf(task, id) # {} /\ ~Telling(id) /\ ~Aborting(id)
  BY <1>1 DEF Once, GoneAfter, Ending, Telling, Aborting
<1>6. Live(id)' => Live(id)
  BY <1>2, <1>4, <1>5 DEF Live
<1>7. ~(Telling(id) /\ Aborting(id))'
  BY <1>2, <1>5
<1>8. /\ Kinds(id)' = Kinds(id) /\ Unseen(id)' = Unseen(id)
      /\ Creating(id)' => Creating(id) /\ main'.cmd = main.cmd
  BY DEF Kinds, Unseen, Waiting, Creating
<1> QED
  BY <1>6, <1>7, <1>8, OrderSame

(* Retiring a task or ending an action keeps the order of its events.      *)
LEMMA OrderEnds ==
  ASSUME TypeInv, Once, Retire \/ EndAction, NEW id \in Ids, InOrder(id)
  PROVE  InOrder(id)'
<1>0. main \in MainStates /\ \A o \in Ids : o # 0 /\ o # -1
  BY IdsPositive DEF TypeInv, TypeOK
<1>1. CASE Retire
  <2>1. PICK o \in Ids : o = main.over
    BY <1>1 DEF Retire, TypeInv, WellPlaced
  <2> DEFINE res == RemoveTask(task, o).result
  <2>2. /\ task' = RemoveTask(task, o).table /\ main.pc = "retire"
        /\ stack' = stack /\ used' = used /\ hist' = hist /\ fired' = fired
        /\ main' = [main EXCEPT !.pc = IF res # 0 THEN "abort" ELSE "start",
                                !.over = res]
    BY <1>1, <2>1 DEF Retire
  <2>3. res \in {o, 0, -1}
    BY IdsPositive, CommandsAssumption, RemoveTaskType
       DEF TypeInv, TypeOK, WellPlaced, TaskTables
  <2> HIDE DEF res
  <2>4. /\ main'.pc \in {"abort", "start"} /\ main'.over = res
        /\ main'.cmd = main.cmd
    BY <1>0, <2>2 DEF MainStates
  <2>5. /\ Serving(id)' => Serving(id)
        /\ ~Creating(id)'
        /\ Telling(id)' => Telling(id)
    BY <2>2, <2>4 DEF Serving, Creating, Telling
  <2>6. Aborting(id)' => id = o /\ res = o
    BY <1>0, <2>3, <2>4 DEF Aborting
  <2> QED
    BY <2>2, <2>5, <2>6, OrderRemove DEF res
<1>2. CASE EndAction
  <2>1. PICK o \in Ids : o = fired.id
    BY <1>2 DEF EndAction, TypeInv, WellPlaced
  <2> DEFINE res == RemoveTask(task, o).result
  <2>2. /\ task' = RemoveTask(task, o).table
        /\ stack' = stack /\ used' = used /\ hist' = hist /\ main' = main
        /\ \/ fired' = IdleTimer
           \/ fired' = [IdleTimer EXCEPT !.pc = "tell", !.ended = res]
    BY <1>2, <2>1 DEF EndAction
  <2>3. res \in {o, 0, -1}
    BY IdsPositive, CommandsAssumption, RemoveTaskType
       DEF TypeInv, TypeOK, WellPlaced, TaskTables
  <2> HIDE DEF res
  <2>4. fired'.pc = "tell" => fired'.ended = res
    BY <2>2, IdleMainType DEF FiredStates, IdleTimer
  <2>5. /\ Serving(id)' => Serving(id)
        /\ Aborting(id)' => Aborting(id)
    BY <2>2 DEF Serving, Aborting
  <2>6. Telling(id)' => id = o /\ res = o
    BY <1>0, <2>3, <2>4 DEF Telling
  <2> QED
    BY <2>2, <2>5, <2>6, OrderRemove DEF res
<1> QED
  BY <1>1, <1>2

(* The end or abort event of a command is its last but for a late begin.   *)
LEMMA OrderTold ==
  ASSUME TypeInv, Once, NEW o \in Ids \cup {-1}, NEW kind \in {"end", "abort"},
         NEW to, Tell(o, kind, to), task' = task, stack' = stack, used' = used,
         NEW id \in Ids, InOrder(id),
         Telling(id)' => Telling(id) /\ (id = o => kind = "abort"),
         Aborting(id)' => Aborting(id) /\ (id = o => kind = "end"),
         id = o => (IF kind = "abort" THEN Aborting(id) ELSE Telling(id)),
         Serving(id)' => Serving(id),
         Creating(id)' => Creating(id) /\ main'.cmd = main.cmd
  PROVE  InOrder(id)'
<1>1. /\ Unseen(id)' = Unseen(id)
      /\ RowsOf(task, id)' = RowsOf(task, id)
      /\ Kinds(id)' = IF id = o THEN Append(Kinds(id), kind) ELSE Kinds(id)
  BY TellKinds DEF Unseen, Waiting, RowsOf, TypeInv
<1>2. ~(Telling(id) /\ Aborting(id))'
  BY DEF InOrder
<1>3. CASE id # o
  <2>1. Kinds(id)' = Kinds(id)
    BY <1>1, <1>3
  <2>2. Live(id)' => Live(id)
    BY <1>1 DEF Live
  <2> QED
    BY <1>1, <1>2, <2>1, <2>2, OrderSame
<1>4. CASE id = o
  <2>1. Ending(id) /\ Live(id)
    BY <1>4 DEF Ending, Telling, Aborting, Live
  <2>2. RowsOf(task, id) = {} /\ ~Unseen(id) /\ ~Creating(id)
    BY <2>1 DEF Once, GoneAfter, FreshBefore, NotYet, Unseen
  <2>3. ~Telling(id)' /\ ~Aborting(id)'
    BY <1>4 DEF InOrder
  <2>4. ~Live(id)' /\ ~Unseen(id)' /\ ~Creating(id)'
    BY <1>1, <2>2, <2>3 DEF Live
  <2>5. /\ Kinds(id) \in {<<>>, <<"begin">>}
        /\ Kinds(id) = <<>> => MayEndFirst(id)
        /\ Serving(id) => Kinds(id) # <<"begin">>
    BY <2>1, KindsDiffer DEF InOrder
  <2>6. Kinds(id)' = Append(Kinds(id), kind)
    BY <1>1, <1>4
  <2>7. Orders(id)' = Orders(id)
    BY DEF Orders, MayEndFirst
  <2>8. CASE Kinds(id) = <<>>
    <3>1. Kinds(id)' \in {<<"end">>, <<"abort">>}
      BY <2>6, <2>8, AppendKinds
    <3>2. Kinds(id)' \in Orders(id)'
      BY <2>5, <2>7, <2>8, <3>1 DEF Orders
    <3> QED
      BY <1>2, <2>4, <3>1, <3>2 DEF InOrder
  <2>9. CASE Kinds(id) = <<"begin">>
    <3>1. Kinds(id)' \in {<<"begin", "end">>, <<"begin", "abort">>}
      BY <2>6, <2>9, AppendKinds
    <3>2. Kinds(id)' \in Orders(id)'
      BY <2>7, <3>1 DEF Orders
    <3>3. ~Serving(id)'
      BY <2>5, <2>9
    <3> QED
      BY <1>2, <2>4, <3>2, <3>3 DEF InOrder
  <2> QED
    BY <2>5, <2>8, <2>9
<1> QED
  BY <1>3, <1>4

(* Sending an abort or an end keeps the order of the events.               *)
LEMMA OrderTells ==
  ASSUME TypeInv, Once, Abort \/ TellEnd, NEW id \in Ids, InOrder(id)
  PROVE  InOrder(id)'
<1>1. main \in MainStates /\ WellPlaced
  BY DEF TypeInv, TypeOK
<1>2. task' = task /\ stack' = stack /\ used' = used
  BY DEF Abort, TellEnd
<1>3. CASE Abort
  <2>1. PICK o \in Ids \cup {-1} : o = main.over
    BY <1>1, <1>3 DEF Abort, WellPlaced
  <2>2. /\ Tell(o, "abort", main.cmd.from) /\ fired' = fired /\ main.pc = "abort"
        /\ main'.pc = "start" /\ main'.cmd = main.cmd
    BY <1>1, <1>3, <2>1 DEF Abort, MainStates
  <2>3. /\ id = o => Aborting(id)
        /\ ~Aborting(id)' /\ ~Creating(id)'
        /\ Serving(id)' => Serving(id)
        /\ Telling(id)' => Telling(id)
    BY <2>1, <2>2 DEF Aborting, Creating, Serving, Telling
  <2>4. "abort" \in {"end", "abort"} /\ "abort" # "end"
    OBVIOUS
  <2> QED
    BY <1>2, <2>2, <2>3, <2>4, OrderTold
<1>4. CASE TellEnd
  <2>1. PICK o \in Ids \cup {-1} : o = fired.ended
    BY <1>1, <1>4 DEF TellEnd, WellPlaced
  <2>2. /\ Tell(o, "end", SenderOf(sender, o)) /\ main' = main
        /\ fired.pc = "tell" /\ fired'.pc = "scan"
    BY <1>4, <2>1 DEF TellEnd, IdleTimer
  <2>3. /\ id = o => Telling(id)
        /\ ~Telling(id)' /\ (Aborting(id)' => Aborting(id))
        /\ Serving(id)' => Serving(id)
        /\ Creating(id)' => Creating(id) /\ main'.cmd = main.cmd
    BY <2>1, <2>2 DEF Aborting, Creating, Serving, Telling
  <2>4. "end" \in {"end", "abort"} /\ "abort" # "end"
    OBVIOUS
  <2> QED
    BY <1>2, <2>2, <2>3, <2>4, OrderTold
<1> QED
  BY <1>3, <1>4

(* The loop of a command is over: a PWM or servo command gets its begin.   *)
LEMMA OrderFinish ==
  ASSUME TypeInv, Finish, NEW id \in Ids, InOrder(id)
  PROVE  InOrder(id)'
<1>1. /\ main.pc = "start" /\ main.cmd \in Commands
      /\ task' = task /\ stack' = stack /\ used' = used /\ fired' = fired
      /\ main'.pc = "idle"
  BY DEF TypeInv, WellPlaced, Finish, IdleMain
<1>2. PICK o \in Ids : o = main.cmd.id
  BY <1>1 DEF Ids, Messages
<1>3. Telling(id)' => Telling(id)
  BY <1>1 DEF Telling
<1>4. CASE hist' = hist
  BY <1>1, <1>3, <1>4, OrderQuiet
<1>5. CASE main.cmd.family = "pwm" /\ Tell(o, "begin", rxFrom)
  <2>1. /\ Kinds(id)' = IF id = o THEN Append(Kinds(id), "begin") ELSE Kinds(id)
        /\ Unseen(id)' = Unseen(id)
        /\ RowsOf(task, id)' = RowsOf(task, id)
    BY <1>1, <1>5, TellKinds DEF TypeInv, Unseen, Waiting, RowsOf
  <2>2. ~Serving(id)' /\ ~Creating(id)' /\ ~Aborting(id)'
    BY <1>1 DEF Serving, Creating, Aborting
  <2>3. Live(id)' => Live(id)
    BY <1>3, <2>1, <2>2 DEF Live
  <2>4. CASE id # o
    BY <2>1, <2>2, <2>3, <2>4, OrderSame
  <2>5. CASE id = o
    <3>1. Serving(id)
      BY <1>1, <1>2, <1>5, <2>5 DEF Serving
    <3>2. Kinds(id) \in {<<>>, <<"end">>, <<"abort">>} /\ ~Unseen(id)
      BY <3>1 DEF InOrder
    <3>3. MayEndFirst(id)
      BY <1>1, <1>2, <1>5, <2>5 DEF MayEndFirst
    <3>4. Live(id) => Kinds(id) = <<>>
      BY <3>2, KindsDiffer DEF InOrder
    <3>5. Kinds(id)' \in {<<"begin">>, <<"end", "begin">>, <<"abort", "begin">>}
      BY <2>1, <2>5, <3>2, AppendKinds
    <3>6. Live(id)' => Kinds(id)' = <<"begin">>
      BY <2>1, <2>3, <2>5, <3>4, AppendKinds
    <3>7. <<"begin">> # <<>>
      BY KindsDiffer
    <3>8. Kinds(id)' \in Orders(id)'
      BY <3>3, <3>5 DEF Orders, MayEndFirst
    <3> QED
      BY <2>1, <2>2, <3>2, <3>6, <3>7, <3>8 DEF InOrder
  <2> QED
    BY <2>4, <2>5
<1> QED
  BY <1>2, <1>4, <1>5 DEF Finish

(* The steps that send nothing, open nothing and end nothing.              *)
LEMMA OrderOthers ==
  ASSUME TypeInv, ~overran', NEW id \in Ids, InOrder(id),
         \/ AnswerCall \/ AnswerEnds \/ CreateFull \/ Save
         \/ SkipEntry \/ StartEntry
         \/ Rearm \/ (\E i \in TimerSlots : Fire(i))
         \/ UNCHANGED vars
  PROVE  InOrder(id)'
<1>1. main \in MainStates
  BY DEF TypeInv, TypeOK
<1>2. task' = task /\ stack' = stack /\ used' = used /\ hist' = hist
  BY DEF AnswerCall, AnswerEnds, CreateFull, Save, SkipEntry, StartEntry, Rearm,
         Fire, vars
<1>3. Telling(id)' => Telling(id)
  <2>1. fired' = fired \/ fired'.pc \in {"scan", "call"}
    <3>1. CASE Rearm
      BY <3>1 DEF Rearm, IdleTimer
    <3>2. CASE \E i \in TimerSlots : Fire(i)
      BY <3>2 DEF Fire, TimerInCallback
    <3>3. CASE AnswerCall \/ AnswerEnds \/ CreateFull \/ Save
      BY <3>3 DEF AnswerCall, AnswerEnds, CreateFull, Save
    <3>4. CASE SkipEntry \/ StartEntry \/ UNCHANGED vars
      BY <3>4 DEF SkipEntry, StartEntry, vars
    <3> QED
      BY <3>1, <3>2, <3>3, <3>4
  <2> QED
    BY <2>1 DEF Telling
<1>4. \/ main' = main
      \/ /\ main.pc \in {"save", "start"} /\ main'.pc \in {"start", "retire"}
         /\ main'.cmd = main.cmd
      \/ main'.pc \in {"answer", "idle"}
  <2>1. CASE AnswerCall
    BY <1>1, <2>1 DEF AnswerCall, MainStates
  <2>2. CASE AnswerEnds \/ CreateFull
    BY <2>2 DEF AnswerEnds, CreateFull, IdleMain
  <2>3. CASE Save
    BY <1>1, <2>3 DEF Save, MainStates
  <2>4. CASE SkipEntry
    BY <1>1, <2>4 DEF SkipEntry, Starting, MainStates
  <2>5. CASE StartEntry
    <3>1. PICK r : main' = [main EXCEPT
                             !.k = @ + 1,
                             !.left = @ - 1,
                             !.pc = IF r > 1 THEN "retire" ELSE "start",
                             !.over = IF r > 1 THEN r ELSE 0]
      BY <2>5 DEF StartEntry
    <3>2. main.pc = "start"
      BY <2>5 DEF StartEntry, Starting
    <3> QED
      BY <1>1, <3>1, <3>2 DEF MainStates
  <2>6. CASE Rearm \/ (\E i \in TimerSlots : Fire(i)) \/ UNCHANGED vars
    BY <2>6 DEF Rearm, Fire, vars
  <2> QED
    BY <2>1, <2>2, <2>3, <2>4, <2>5, <2>6
<1> QED
  BY <1>2, <1>3, <1>4, OrderQuiet

(* Every step keeps the order of the events of a command.                  *)
LEMMA OrderStep ==
  ASSUME TypeInv, Once, UniqueIds, ~overran', [Next]_vars, NEW id \in Ids, InOrder(id)
  PROVE  InOrder(id)'
<1>1. Once'
  BY OnceStep
<1>2. CASE UNCHANGED vars
  BY <1>2, OrderOthers
<1>3. CASE \E m \in Messages : Receive(m)
  BY <1>3, OrderReceive
<1>4. CASE MainStep
  BY <1>1, <1>4, OrderTake, OrderCreate, OrderEnds, OrderTells, OrderFinish, OrderOthers
     DEF MainStep
<1>5. CASE TimerStep
  BY <1>5, OrderEnds, OrderTells, OrderOthers DEF TimerStep
<1> QED
  BY <1>2, <1>3, <1>4, <1>5 DEF Next

InOrderIfUnique == UniqueIds /\ ~overran => \A id \in Ids : InOrder(id)

(* The order of events holds as long as ids are used once and the task     *)
(* table has held.                                                         *)
LEMMA InOrderAlways == Spec => []InOrderIfUnique
<1>1. Init => InOrderIfUnique
  <2> SUFFICES ASSUME Init, NEW id \in Ids PROVE InOrder(id)
    BY DEF InOrderIfUnique
  <2>1. /\ main.pc = "idle" /\ fired.pc = "scan" /\ hist[id] = <<>>
        /\ \A i \in TaskRows : task[i].num = 0
    BY DEF Init, IdleMain, IdleTimer, EmptyTaskTable, FreeRow
  <2>2. id # 0
    BY IdsPositive
  <2>3. ~Live(id) /\ ~Telling(id) /\ ~Serving(id) /\ ~Creating(id)
    BY <2>1, <2>2 DEF Live, Telling, Aborting, Serving, Creating, RowsOf
  <2>4. Kinds(id) = <<>>
    BY <2>1 DEF Kinds
  <2> QED
    BY <2>3, <2>4 DEF InOrder, Orders
<1>2. TypeInv /\ OnceIfUnique /\ InOrderIfUnique /\ [Next]_vars => InOrderIfUnique'
  BY OverranStays, OrderStep DEF OnceIfUnique, InOrderIfUnique
<1> QED
  BY <1>1, <1>2, OnceAlways, InitTypeInv, TypeInvStep, PTL DEF Spec

(* EventOrder: when ids are used once and createBuggyTask has not written  *)
(* past its table, the events of a command are its begin and one end or    *)
(* abort, in that order unless it is a PWM or servo command.               *)
THEOREM EventOrderAlways == Spec => []EventOrder
<1>1. InOrderIfUnique => EventOrder
  BY DEF InOrderIfUnique, InOrder, EventOrder
<1> QED
  BY <1>1, InOrderAlways, PTL

------------------------------------------------------------------------------
(* Who the end of a command is addressed to.  What makes EndIsAddressed    *)
(* inductive: a message has been received when the main loop has one, a row*)
(* of the sender table that carries an id names a client, and a command    *)
(* whose sender was saved has its row as long as it has a task or its end  *)
(* is being announced.                                                     *)
SavePending(id) == main.pc = "save" /\ main.cmd.id = id
Answering(id) == main.pc = "answer" /\ main.cmd.id = id

RxKnown == stack # <<>> \/ main.pc # "idle" => rxFrom \in Clients
SendersKnown == \A i \in SenderRows : sender[i].id \in Ids => sender[i].from \in Clients

(* While a request is answered there is no task of its id.                 *)
AnswersAlone(id) == Answering(id) => RowsOf(task, id) = {} /\ ~Ending(id)

Addressed(id) ==
    id \notin unsaved /\ ~SavePending(id) /\ (RowsOf(task, id) # {} \/ Telling(id))
        => EntriesOf(sender, id) # {}

EndsAtClient(id) ==
    id \notin unsaved =>
        \A n \in DOMAIN hist[id] : hist[id][n].kind = "end" => hist[id][n].to \in Clients

(* Saving and removing leave only rows that name clients.                  *)
LEMMA SendersStayKnown ==
  ASSUME sender \in [SenderRows -> SenderRow], SendersKnown, NEW o \in Int
  PROVE  /\ \A start \in Nat, from \in Clients :
                sender' = SaveSender(sender, start, o, from) => SendersKnown'
         /\ sender' = RemoveSender(sender, o) => SendersKnown'
<1>1. -1 \notin Ids
  BY IdsPositive
<1>2. ASSUME NEW start \in Nat, NEW from \in Clients,
             sender' = SaveSender(sender, start, o, from)
      PROVE  SendersKnown'
  <2> DEFINE free == {i \in SenderRows : i >= start /\ sender[i].id <= 0}
             j == Min(free)
  <2>1. sender' = sender \/ sender' = [sender EXCEPT ![j] = [id |-> o, from |-> from]]
    BY <1>2 DEF SaveSender
  <2> HIDE DEF j
  <2>2. \A i \in SenderRows : sender'[i] = sender[i] \/ sender'[i].from = from
    BY <2>1
  <2> QED
    BY <2>2 DEF SendersKnown
<1>3. ASSUME sender' = RemoveSender(sender, o)
      PROVE  SendersKnown'
  <2> DEFINE j == Min(EntriesOf(sender, o))
  <2>1. \/ sender' = sender
        \/ sender' = [sender EXCEPT ![j] = [id |-> -1, from |-> Garbage]]
    BY <1>3 DEF RemoveSender
  <2> HIDE DEF j
  <2>2. \A i \in SenderRows : sender'[i] = sender[i] \/ sender'[i].id = -1
    BY <2>1
  <2> QED
    BY <1>1, <2>2 DEF SendersKnown
<1> QED
  BY <1>2, <1>3

(* The sender of an id with a row is a client.                             *)
LEMMA SenderFound ==
  ASSUME SendersKnown, NEW id \in Ids, EntriesOf(sender, id) # {}
  PROVE  SenderOf(sender, id) \in Clients
<1>1. Min(EntriesOf(sender, id)) \in EntriesOf(sender, id)
  <2>1. EntriesOf(sender, id) \in SUBSET Nat
    BY NSenderAssumption DEF EntriesOf, SenderRows
  <2> QED
    BY <2>1, MinIsLeast
<1>2. SenderOf(sender, id) = sender[Min(EntriesOf(sender, id))].from
  BY DEF SenderOf
<1> QED
  BY <1>1, <1>2 DEF EntriesOf, SendersKnown

(* saveSenderOfMsgId finds no row, or there is one for the id afterwards;  *)
(* the rows of other ids stay.                                             *)
LEMMA SaveFinds ==
  ASSUME NEW tab \in [SenderRows -> SenderRow], NEW id \in Nat \ {0}, NEW start \in Nat,
         NEW from \in Clients
  PROVE  LET new == SaveSender(tab, start, id, from) IN
         /\ new = tab \/ EntriesOf(new, id) # {}
         /\ \A j \in (Nat \ {0}) \ {id} : EntriesOf(new, j) = EntriesOf(tab, j)
<1> DEFINE free == {i \in SenderRows : i >= start /\ tab[i].id <= 0}
           new == SaveSender(tab, start, id, from)
           i == Min(free)
<1>1. new = tab \/ EntriesOf(new, id) # {}
  <2>1. CASE free = {}
    BY <2>1 DEF SaveSender
  <2>2. CASE free # {}
    <3>1. i \in SenderRows
      <4>1. free \in SUBSET Nat
        BY NSenderAssumption DEF SenderRows
      <4> QED
        BY <2>2, <4>1, MinIsLeast
    <3>2. new = [tab EXCEPT ![i] = [id |-> id, from |-> from]]
      BY <2>2 DEF SaveSender
    <3> HIDE DEF i, new
    <3>3. new[i].id = id
      BY <3>1, <3>2
    <3> QED
      BY <3>1, <3>3 DEF EntriesOf
  <2> QED
    BY <2>1, <2>2
<1>2. \A j \in (Nat \ {0}) \ {id} : EntriesOf(new, j) = EntriesOf(tab, j)
  BY SaveSenderRows
<1> QED
  BY <1>1, <1>2

(* A message has been received when the main loop has one.                 *)
LEMMA RxKnownStep == TypeInv /\ RxKnown /\ [Next]_vars => RxKnown'
<1> SUFFICES ASSUME TypeInv, RxKnown, [Next]_vars PROVE RxKnown'
  OBVIOUS
<1>1. CASE \E m \in Messages : Receive(m)
  BY <1>1, CommandsAssumption, RequestsAssumption DEF Receive, RxKnown, Messages
<1>2. CASE UNCHANGED vars
  BY <1>2 DEF vars, RxKnown
<1>3. CASE Take \/ TakeRequest
  BY <1>3 DEF Take, TakeRequest, RxKnown
<1>4. CASE AnswerCall \/ AnswerEnds \/ Create \/ CreateFull \/ Save \/ SkipEntry
           \/ StartEntry \/ Retire \/ Abort \/ Finish
  <2>1. main.pc # "idle" /\ rxFrom' = rxFrom
    BY <1>4 DEF AnswerCall, AnswerEnds, Create, CreateFull, Save, SkipEntry, StartEntry,
                Starting, Retire, Abort, Finish
  <2> QED
    BY <2>1 DEF RxKnown
<1>5. CASE TimerStep
  BY <1>5 DEF TimerStep, Fire, EndAction, TellEnd, Rearm, RxKnown
<1> QED
  BY <1>1, <1>2, <1>3, <1>4, <1>5 DEF Next, MainStep

(* Every step keeps the rows of the sender table to clients.               *)
LEMMA SendersKnownStep ==
  ASSUME TypeInv, RxKnown, SendersKnown, [Next]_vars
  PROVE  SendersKnown'
<1>1. sender \in [SenderRows -> SenderRow]
  BY DEF TypeInv, TypeOK
<1>2. CASE sender' = sender
  BY <1>2 DEF SendersKnown
<1>3. CASE Save \/ AnswerCall
  <2>1. main.cmd.id \in Int /\ rxFrom \in Clients
    BY <1>3, CommandsAssumption, RequestsAssumption
       DEF Save, AnswerCall, TypeInv, WellPlaced, RxKnown
  <2>2. \/ \E start \in SaveStarts : sender' = SaveSender(sender, start, main.cmd.id, rxFrom)
        \/ sender' = RemoveSender(sender, main.cmd.id)
    BY <1>3 DEF Save, AnswerCall
  <2>3. \A start \in SaveStarts : start \in Nat
    BY SaveStartsAssumption
  <2> QED
    BY <1>1, <2>1, <2>2, <2>3, SendersStayKnown
<1>4. CASE Abort \/ TellEnd
  <2>1. PICK o \in Ids \cup {-1} : sender' = RemoveSender(sender, o)
    BY <1>4 DEF Abort, TellEnd, TypeInv, WellPlaced
  <2>2. o \in Int
    BY IdsInt
  <2> QED
    BY <1>1, <2>1, <2>2, SendersStayKnown
<1>5. CASE Next /\ ~Save /\ ~AnswerCall /\ ~Abort /\ ~TellEnd
  BY <1>2, <1>5 DEF Next, MainStep, TimerStep, Receive, Take, TakeRequest, AnswerEnds,
                    Create, CreateFull, SkipEntry, StartEntry, Retire, Finish, Fire,
                    EndAction, Rearm
<1> QED
  BY <1>2, <1>3, <1>4, <1>5 DEF vars

(* The history of an id gets an event that is no end, or one for a client. *)
LEMMA ToldToClients ==
  ASSUME TypeOK, NEW x \in Ids \cup {-1}, NEW kind, NEW to, Tell(x, kind, to),
         NEW id \in Ids, id = x /\ kind = "end" => to \in Clients,
         \A n \in DOMAIN hist[id] : hist[id][n].kind = "end" => hist[id][n].to \in Clients
  PROVE  \A n \in DOMAIN hist'[id] : hist'[id][n].kind = "end" => hist'[id][n].to \in Clients
<1>1. hist \in [Ids \cup {-1} -> Seq(EventRecord)]
  BY DEF TypeOK
<1>2. hist' = [hist EXCEPT ![x] = Append(@, Event(kind, to))]
  BY DEF Tell
<1>3. CASE id # x
  <2>1. hist'[id] = hist[id]
    BY <1>1, <1>2, <1>3
  <2> QED
    BY <2>1
<1>4. CASE id = x
  <2>1. hist[id] \in Seq(EventRecord) /\ hist'[id] = Append(hist[id], Event(kind, to))
    BY <1>1, <1>2, <1>4
  <2>2. /\ DOMAIN hist'[id] = DOMAIN hist[id] \cup {Len(hist[id]) + 1}
        /\ hist'[id][Len(hist[id]) + 1] = Event(kind, to)
        /\ \A n \in DOMAIN hist[id] : hist'[id][n] = hist[id][n]
    BY <2>1
  <2>3. Event(kind, to).kind = kind /\ Event(kind, to).to = to
    BY DEF Event
  <2> QED
    BY <1>4, <2>2, <2>3
<1> QED
  BY <1>3, <1>4

(* Nothing of a request's id is opened or ended while it is answered.      *)
LEMMA AnswersAloneStep ==
  ASSUME TypeInv, Once, [Next]_vars, NEW id \in Ids, AnswersAlone(id)
  PROVE  AnswersAlone(id)'
<1>1. TypeOK /\ WellPlaced /\ main \in MainStates /\ id # 0 /\ id # -1
  BY IdsPositive DEF TypeInv, TypeOK
<1> SUFFICES ASSUME Answering(id)'
             PROVE  RowsOf(task, id)' = {} /\ ~Ending(id)'
  BY DEF AnswersAlone
<1>2. main'.pc = "answer" /\ main'.cmd.id = id
  BY DEF Answering
<1>3. CASE TakeRequest
  <2>1. /\ stack \in Seq(Messages) /\ stack # <<>> /\ task' = task /\ fired' = fired
        /\ hist' = hist
    BY <1>1, <1>3 DEF TakeRequest, TypeOK
  <2>2. main'.cmd = stack[1]
    BY <1>3, <2>1, IdleMainType DEF TakeRequest, MainStates
  <2>3. NotYet(id)
    BY <1>2, <2>1, <2>2 DEF NotYet, Waiting
  <2>4. RowsOf(task, id) = {} /\ ~Ending(id)
    BY <2>3 DEF Once, FreshBefore
  <2> QED
    BY <1>2, <2>1, <2>4 DEF RowsOf, Ending, Closed
<1>4. CASE AnswerCall
  <2>1. Answering(id) /\ task' = task /\ fired' = fired /\ hist' = hist
    BY <1>1, <1>2, <1>4 DEF AnswerCall, Answering, MainStates
  <2>2. RowsOf(task, id) = {} /\ ~Ending(id)
    BY <2>1 DEF AnswersAlone
  <2> QED
    BY <1>2, <2>1, <2>2 DEF RowsOf, Ending, Closed
<1>5. ASSUME main' = main
      PROVE  Answering(id) /\ RowsOf(task, id) = {} /\ ~Ending(id)
  BY <1>2, <1>5 DEF Answering, AnswersAlone
<1>6. CASE (\E m \in Messages : Receive(m)) \/ UNCHANGED vars \/ Rearm
           \/ (\E i \in TimerSlots : Fire(i))
  <2>1. /\ main' = main /\ task' = task /\ hist' = hist
        /\ fired' = fired \/ fired'.pc # "tell"
    BY <1>6 DEF Receive, Rearm, Fire, IdleTimer, TimerInCallback, vars
  <2> QED
    BY <1>5, <2>1 DEF RowsOf, Ending, Closed
<1>7. CASE EndAction
  <2>1. PICK o \in Ids : o = fired.id
    BY <1>1, <1>7 DEF EndAction, WellPlaced
  <2> DEFINE new == RemoveTask(task, o)
  <2>2. /\ \A k \in TaskRows : new.table[k].num \in {task[k].num, 0}
        /\ new.result = o => RowsOf(task, o) # {} /\ RowsOf(new.table, o) = {}
    <3>1. task \in TaskTables(Ids, NACTION) /\ Ids \subseteq Nat \ {0} /\ NACTION \in Nat
      BY <1>1, IdsPositive, CommandsAssumption DEF TypeOK, TaskTables
    <3>2. \A i, j \in TaskRows : task[i].num = task[j].num /\ task[i].num # 0 => i = j
      BY DEF Once, OneRow
    <3> QED
      BY <3>1, <3>2, RemoveCloses
  <2>3. new.result \in {o, 0, -1}
    BY <1>1, IdsPositive, CommandsAssumption, RemoveTaskType
       DEF TypeOK, WellPlaced, TaskTables
  <2>4. /\ task' = new.table /\ main' = main /\ hist' = hist
        /\ \/ fired' = IdleTimer
           \/ fired' = [IdleTimer EXCEPT !.pc = "tell", !.ended = new.result]
    BY <1>7, <2>1 DEF EndAction
  <2> HIDE DEF new
  <2>5. fired'.pc = "tell" => fired'.ended = new.result
    BY <2>4, IdleMainType DEF FiredStates, IdleTimer
  <2>6. RowsOf(task, id) = {} /\ ~Ending(id)
    BY <1>5, <2>4
  <2>7. ~(fired'.pc = "tell" /\ fired'.ended = id)
    BY <1>1, <2>2, <2>3, <2>5, <2>6
  <2>8. RowsOf(task, id)' = {}
    BY <1>1, <2>2, <2>4, <2>6 DEF RowsOf
  <2> QED
    BY <2>4, <2>6, <2>7, <2>8 DEF Ending, Closed
<1>8. CASE TellEnd
  <2>1. PICK x \in Ids \cup {-1} : x = fired.ended
    BY <1>1, <1>8 DEF TellEnd, WellPlaced
  <2>2. /\ Tell(x, "end", SenderOf(sender, x)) /\ main' = main /\ task' = task
        /\ fired'.pc = "scan" /\ fired.pc = "tell"
    BY <1>8, <2>1 DEF TellEnd, IdleTimer
  <2>3. RowsOf(task, id) = {} /\ ~Ending(id)
    BY <1>5, <2>2
  <2>4. ~Closed(id)'
    BY <1>1, <2>1, <2>2, <2>3, TellCloses DEF Ending
  <2> QED
    BY <2>2, <2>3, <2>4 DEF RowsOf, Ending
<1>9. CASE Take \/ AnswerEnds \/ Create \/ CreateFull \/ Save \/ SkipEntry \/ StartEntry
           \/ Retire \/ Abort \/ Finish
  <2>1. main'.pc # "answer"
    <3>1. CASE Take
      BY <1>1, <3>1, IdleMainType DEF Take, MainStates
    <3>2. CASE AnswerEnds \/ CreateFull \/ Create \/ Finish
      <4>1. main' = IdleMain \/ main' = Opened
        BY <3>2 DEF AnswerEnds, CreateFull, Create, Finish
      <4>2. main' = Opened => main'.pc = "save"
        BY <1>1 DEF Opened, MainStates
      <4>3. main' = IdleMain => main'.pc = "idle"
        BY DEF IdleMain
      <4> QED
        BY <4>1, <4>2, <4>3
    <3>3. CASE Save \/ SkipEntry \/ Abort
      BY <1>1, <3>3 DEF Save, SkipEntry, Starting, Abort, MainStates
    <3>4. CASE StartEntry
      <4>1. PICK r : main' = [main EXCEPT
                               !.k = @ + 1,
                               !.left = @ - 1,
                               !.pc = IF r > 1 THEN "retire" ELSE "start",
                               !.over = IF r > 1 THEN r ELSE 0]
        BY <3>4 DEF StartEntry
      <4> QED
        BY <1>1, <4>1 DEF MainStates
    <3>5. CASE Retire
      BY <1>1, <3>5 DEF Retire, MainStates
    <3> QED
      BY <1>9, <3>1, <3>2, <3>3, <3>4, <3>5
  <2> QED
    BY <1>2, <2>1
<1> QED
  BY <1>3, <1>4, <1>6, <1>7, <1>8, <1>9 DEF Next, MainStep, TimerStep

(* What a step that leaves the sender table alone must not do: open a row  *)
(* without saving, or announce the end of a task that is not there.        *)
LEMMA AddressedSame ==
  ASSUME NEW id, Addressed(id), unsaved' = unsaved,
         EntriesOf(sender, id)' = EntriesOf(sender, id),
         ~SavePending(id)' => ~SavePending(id),
         RowsOf(task, id)' # {} \/ Telling(id)' => RowsOf(task, id) # {} \/ Telling(id)
  PROVE  Addressed(id)'
  BY DEF Addressed

(* createBuggyTask opens a row only for a command that goes on to save its *)
(* sender.                                                                 *)
LEMMA AddressedCreate ==
  ASSUME TypeInv, Create, NEW id \in Ids, Addressed(id)
  PROVE  Addressed(id)'
<1>1. /\ main.pc = "create" /\ main.cmd \in Commands /\ main \in MainStates
      /\ task \in TaskTables(Ids, NACTION)
      /\ CreateStops(task, main.cmd.id) # {}
      /\ sender' = sender /\ fired' = fired /\ unsaved' = unsaved
  BY DEF TypeInv, TypeOK, WellPlaced, TaskTables, Create
<1>2. PICK o \in Ids : o = main.cmd.id
  BY <1>1 DEF Ids, Messages
<1> DEFINE new == CreateTask(task, o, ActionCount(main.cmd))
<1>3. task' = new.table /\ main' = IF new.result > 0 THEN Opened ELSE IdleMain
  BY <1>2 DEF Create
<1>4. /\ \/ new.table = task
         \/ \E i \in TaskRows :
               /\ task[i].num = 0 /\ new.table[i].num = o
               /\ \A k \in TaskRows \ {i} : new.table[k] = task[k]
      /\ new.result > 0 \/ new.table = task
  <2>1. DOMAIN task = TaskRows /\ CreateStops(task, o) # {} /\ o > 0
    BY <1>1, <1>2, IdsPositive DEF TaskTables
  <2>2. \/ new.table = task
        \/ \E i \in TaskRows :
              /\ task[i].num = 0 /\ new.table[i].num = o
              /\ \A k \in TaskRows \ {i} : new.table[k] = task[k]
    BY <2>1, CreateOpens
  <2>3. new.result > 0 \/ new.table = task
    BY <2>1 DEF CreateTask
  <2> QED
    BY <2>2, <2>3
<1> HIDE DEF new
<1>5. /\ EntriesOf(sender, id)' = EntriesOf(sender, id) /\ Telling(id)' = Telling(id)
      /\ ~SavePending(id)
  BY <1>1 DEF EntriesOf, Telling, SavePending
<1>6. CASE id = o /\ new.result > 0
  <2>1. main'.pc = "save" /\ main'.cmd.id = id
    BY <1>1, <1>2, <1>3, <1>6 DEF Opened, MainStates
  <2> QED
    BY <2>1 DEF Addressed, SavePending
<1>7. CASE ~(id = o /\ new.result > 0)
  <2>1. RowsOf(task, id)' # {} => RowsOf(task, id) # {}
    <3>1. 0 \notin Ids
      BY IdsPositive
    <3> QED
      BY <1>3, <1>4, <1>7, <3>1 DEF RowsOf
  <2> QED
    BY <1>1, <1>5, <2>1, AddressedSame
<1> QED
  BY <1>6, <1>7

(* saveSenderOfMsgId leaves the row of the command on record, or the       *)
(* command is noted; requests have no task.                                *)
LEMMA AddressedSave ==
  ASSUME TypeInv, RxKnown, AnswersAlone(main.cmd.id), Save \/ AnswerCall,
         NEW id \in Ids, Addressed(id)
  PROVE  Addressed(id)'
<1>1. /\ sender \in [SenderRows -> SenderRow] /\ main \in MainStates
      /\ task' = task /\ fired' = fired /\ unsaved \subseteq unsaved'
      /\ id \in Nat \ {0} /\ main.cmd \in Messages /\ rxFrom \in Clients
  BY IdsPositive DEF TypeInv, TypeOK, WellPlaced, Save, AnswerCall, Messages, RxKnown
<1>2. PICK o \in Ids : o = main.cmd.id
  BY <1>1 DEF Ids
<1>3. o \in Nat \ {0} /\ o \in Int
  BY IdsPositive
<1>4. RowsOf(task, id)' = RowsOf(task, id) /\ Telling(id)' = Telling(id)
  BY <1>1 DEF RowsOf, Telling
<1>5. \/ \E start \in SaveStarts : sender' = SaveSender(sender, start, o, rxFrom)
      \/ sender' = RemoveSender(sender, o)
  BY <1>2 DEF Save, AnswerCall
<1>6. CASE id # o
  <2>1. EntriesOf(sender', id) = EntriesOf(sender, id)
    <3>1. ASSUME NEW start \in SaveStarts, sender' = SaveSender(sender, start, o, rxFrom)
          PROVE  EntriesOf(sender', id) = EntriesOf(sender, id)
      <4>1. start \in Nat
        BY SaveStartsAssumption
      <4> QED
        BY <1>1, <1>3, <1>6, <3>1, <4>1, SaveFinds
    <3>2. ASSUME sender' = RemoveSender(sender, o)
          PROVE  EntriesOf(sender', id) = EntriesOf(sender, id)
      BY <1>1, <1>3, <1>6, <3>2, RemoveSenderRows
    <3> QED
      BY <1>5, <3>1, <3>2
  <2>2. EntriesOf(sender, id)' = EntriesOf(sender, id)
    BY <2>1 DEF EntriesOf
  <2>3. ~SavePending(id)
    BY <1>2, <1>6 DEF SavePending
  <2> QED
    BY <1>1, <1>4, <2>2, <2>3 DEF Addressed
<1>7. CASE id = o /\ AnswerCall
  <2>1. Answering(id)
    BY <1>2, <1>7 DEF AnswerCall, Answering
  <2>2. RowsOf(task, id) = {} /\ ~Telling(id)
    BY <1>2, <1>7, <2>1 DEF AnswersAlone, Ending, Telling
  <2> QED
    BY <1>4, <2>2 DEF Addressed
<1>8. CASE id = o /\ Save
  <2>1. PICK start \in SaveStarts :
           /\ sender' = SaveSender(sender, start, o, rxFrom)
           /\ unsaved' = IF SaveSender(sender, start, o, rxFrom) = sender
                         THEN unsaved \cup {o} ELSE unsaved
    BY <1>2, <1>8 DEF Save
  <2>2. start \in Nat
    BY SaveStartsAssumption
  <2>3. sender' = sender \/ EntriesOf(sender', o) # {}
    BY <1>1, <1>3, <2>1, <2>2, SaveFinds
  <2>4. sender' = sender => id \in unsaved'
    BY <1>8, <2>1
  <2>5. EntriesOf(sender, id)' = EntriesOf(sender', id)
    BY DEF EntriesOf
  <2> QED
    BY <1>8, <2>3, <2>4, <2>5 DEF Addressed
<1> QED
  BY <1>6, <1>7, <1>8

(* An end or abort takes the row of its own id only, which needs it no     *)
(* more.                                                                   *)
LEMMA AddressedTell ==
  ASSUME TypeInv, Once, Abort \/ TellEnd, NEW id \in Ids, InOrder(id), Addressed(id)
  PROVE  Addressed(id)'
<1>1. /\ sender \in [SenderRows -> SenderRow] /\ main \in MainStates /\ WellPlaced
      /\ task' = task /\ unsaved' = unsaved /\ id \in Nat \ {0}
      /\ id # -1
  BY IdsPositive DEF TypeInv, TypeOK, Abort, TellEnd
<1>2. RowsOf(task, id)' = RowsOf(task, id)
  BY <1>1 DEF RowsOf
<1>3. ASSUME NEW o \in Ids \cup {-1}, sender' = RemoveSender(sender, o),
             ~SavePending(id)' => ~SavePending(id), Telling(id)' => Telling(id),
             id = o => Ending(id) /\ ~Telling(id)'
      PROVE  Addressed(id)'
  <2>1. CASE id = o
    <3>1. RowsOf(task, id) = {}
      BY <1>3, <2>1 DEF Once, GoneAfter
    <3> QED
      BY <1>2, <1>3, <2>1, <3>1 DEF Addressed
  <2>2. CASE id # o
    <3>1. o \in Int
      BY IdsInt
    <3>2. EntriesOf(sender', id) = EntriesOf(sender, id)
      BY <1>1, <1>3, <2>2, <3>1, RemoveSenderRows
    <3>3. EntriesOf(sender, id)' = EntriesOf(sender, id)
      BY <3>2 DEF EntriesOf
    <3> QED
      BY <1>1, <1>2, <1>3, <3>3, AddressedSame
  <2> QED
    BY <2>1, <2>2
<1>4. CASE Abort
  <2>1. PICK o \in Ids \cup {-1} : o = main.over
    BY <1>1, <1>4 DEF Abort, WellPlaced
  <2>2. /\ main.pc = "abort" /\ main'.pc = "start" /\ fired' = fired
        /\ sender' = RemoveSender(sender, o)
    BY <1>1, <1>4, <2>1 DEF Abort, MainStates
  <2>3. id = o => Ending(id) /\ ~Telling(id)'
    BY <2>1, <2>2 DEF Ending, InOrder, Aborting, Telling
  <2>4. ~SavePending(id) /\ (Telling(id)' => Telling(id))
    BY <2>2 DEF SavePending, Telling
  <2> QED
    BY <1>3, <2>2, <2>3, <2>4
<1>5. CASE TellEnd
  <2>1. PICK o \in Ids \cup {-1} : o = fired.ended
    BY <1>1, <1>5 DEF TellEnd, WellPlaced
  <2>2. /\ fired.pc = "tell" /\ fired'.pc = "scan" /\ main' = main
        /\ sender' = RemoveSender(sender, o)
    BY <1>5, <2>1 DEF TellEnd, IdleTimer
  <2>3. id = o => Ending(id)
    BY <2>1, <2>2 DEF Ending
  <2>4. /\ ~SavePending(id)' => ~SavePending(id)
        /\ ~Telling(id)'
    BY <2>2 DEF SavePending, Telling
  <2> QED
    BY <1>3, <2>2, <2>3, <2>4
<1> QED
  BY <1>4, <1>5

(* Every step but the write past the table keeps the sender of a command   *)
(* on record until its end was announced.                                  *)
LEMMA AddressedStep ==
  ASSUME TypeInv, Once, RxKnown, ~overran', [Next]_vars,
         \A j \in Ids : AnswersAlone(j), NEW id \in Ids, InOrder(id), Addressed(id)
  PROVE  Addressed(id)'
<1>1. TypeOK /\ WellPlaced /\ main \in MainStates /\ id # 0 /\ id # -1
  BY IdsPositive DEF TypeInv, TypeOK
<1>2. ASSUME task' = task, sender' = sender, unsaved' = unsaved,
             fired' = fired \/ fired'.pc # "tell",
             main' = main \/ main.pc # "save"
      PROVE  Addressed(id)'
  <2>1. /\ EntriesOf(sender, id)' = EntriesOf(sender, id)
        /\ RowsOf(task, id)' = RowsOf(task, id)
    BY <1>2 DEF EntriesOf, RowsOf
  <2>2. ~SavePending(id)' => ~SavePending(id)
    BY <1>2 DEF SavePending
  <2>3. Telling(id)' => Telling(id)
    BY <1>2 DEF Telling
  <2> QED
    BY <1>2, <2>1, <2>2, <2>3, AddressedSame
<1>3. CASE (\E m \in Messages : Receive(m)) \/ UNCHANGED vars \/ Rearm
           \/ (\E i \in TimerSlots : Fire(i))
  <2>1. /\ main' = main /\ task' = task /\ sender' = sender /\ unsaved' = unsaved
        /\ fired' = fired \/ fired'.pc # "tell"
    BY <1>3 DEF Receive, Rearm, Fire, IdleTimer, TimerInCallback, vars
  <2> QED
    BY <1>2, <2>1
<1>4. CASE Take \/ TakeRequest \/ AnswerEnds \/ CreateFull \/ SkipEntry \/ StartEntry
           \/ Finish
  <2>1. /\ task' = task /\ sender' = sender /\ unsaved' = unsaved /\ fired' = fired
        /\ main.pc # "save"
    BY <1>4 DEF Take, TakeRequest, AnswerEnds, CreateFull, SkipEntry, StartEntry, Starting,
                Finish
  <2> QED
    BY <1>2, <2>1
<1>5. CASE Retire \/ EndAction
  <2>1. PICK o \in Ids :
           /\ task' = RemoveTask(task, o).table /\ sender' = sender /\ unsaved' = unsaved
           /\ \/ main.pc = "retire" /\ fired' = fired
              \/ /\ main' = main
                 /\ \/ fired' = IdleTimer
                    \/ fired' = [IdleTimer EXCEPT !.pc = "tell",
                                                  !.ended = RemoveTask(task, o).result]
    <3>1. CASE Retire
      <4>1. main.over \in Ids
        BY <1>1, <3>1 DEF Retire, WellPlaced
      <4> QED
        BY <3>1, <4>1 DEF Retire
    <3>2. CASE EndAction
      <4>1. fired.id \in Ids
        BY <1>1, <3>2 DEF EndAction, WellPlaced
      <4> QED
        BY <3>2, <4>1 DEF EndAction
    <3> QED
      BY <1>5, <3>1, <3>2
  <2> DEFINE new == RemoveTask(task, o)
  <2>2. /\ \A k \in TaskRows : new.table[k].num \in {task[k].num, 0}
        /\ new.result = o => RowsOf(task, o) # {} /\ RowsOf(new.table, o) = {}
    <3>1. task \in TaskTables(Ids, NACTION) /\ Ids \subseteq Nat \ {0} /\ NACTION \in Nat
      BY <1>1, IdsPositive, CommandsAssumption DEF TypeOK, TaskTables
    <3>2. \A i, j \in TaskRows : task[i].num = task[j].num /\ task[i].num # 0 => i = j
      BY DEF Once, OneRow
    <3> QED
      BY <3>1, <3>2, RemoveCloses
  <2>3. new.result \in {o, 0, -1}
    BY <1>1, IdsPositive, CommandsAssumption, RemoveTaskType
       DEF TypeOK, WellPlaced, TaskTables
  <2>4. RowsOf(task, id)' # {} => RowsOf(task, id) # {}
    BY <1>1, <2>1, <2>2 DEF RowsOf
  <2>5. EntriesOf(sender, id)' = EntriesOf(sender, id)
    BY <2>1 DEF EntriesOf
  <2>6. CASE main.pc = "retire" /\ fired' = fired
    <3>1. ~SavePending(id) /\ Telling(id)' = Telling(id)
      BY <2>6 DEF SavePending, Telling
    <3> QED
      BY <2>1, <2>4, <2>5, <3>1, AddressedSame
  <2>7. CASE /\ main' = main
             /\ \/ fired' = IdleTimer
                \/ fired' = [IdleTimer EXCEPT !.pc = "tell", !.ended = new.result]
    <3> HIDE DEF new
    <3>1. fired'.pc = "tell" => fired'.ended = new.result
      BY <2>7, IdleMainType DEF FiredStates, IdleTimer
    <3>2. Telling(id)' => RowsOf(task, id) # {}
      BY <1>1, <2>2, <2>3, <3>1 DEF Telling
    <3>3. SavePending(id)' = SavePending(id)
      BY <2>7 DEF SavePending
    <3> QED
      BY <2>1, <2>4, <2>5, <3>2, <3>3, AddressedSame
  <2> QED
    BY <2>1, <2>6, <2>7
<1>6. CASE Save \/ AnswerCall
  <2>1. main.cmd.id \in Ids
    BY <1>1, <1>6 DEF Save, AnswerCall, WellPlaced, Ids, Messages
  <2> QED
    BY <1>6, <2>1, AddressedSave
<1> QED
  BY <1>3, <1>4, <1>5, <1>6, AddressedCreate, AddressedTell DEF Next, MainStep, TimerStep

(* An end event of a command that was saved names a client: its row is on  *)
(* record, and it is not just being saved, for then its task would be open.*)
LEMMA EndsAtClientStep ==
  ASSUME TypeInv, SavesEarly, Once, RxKnown, SendersKnown, [Next]_vars,
         NEW id \in Ids, Balanced(id), Addressed(id), EndsAtClient(id)
  PROVE  EndsAtClient(id)'
<1>1. TypeOK /\ WellPlaced /\ main \in MainStates
  BY DEF TypeInv, TypeOK
<1>2. unsaved \subseteq unsaved'
  <2>1. Save \/ ~Save
    OBVIOUS
  <2>2. Save => unsaved \subseteq unsaved'
    BY DEF Save
  <2>3. ~Save => unsaved' = unsaved
    BY DEF Next, MainStep, TimerStep, vars, Receive, Take, TakeRequest, AnswerCall,
           AnswerEnds, Create, CreateFull, SkipEntry, StartEntry, Retire, Abort,
           Finish, Fire, EndAction, TellEnd, Rearm
  <2> QED
    BY <2>1, <2>2, <2>3
<1>3. CASE hist' = hist
  BY <1>2, <1>3 DEF EndsAtClient
<1>4. ASSUME NEW x \in Ids \cup {-1}, NEW kind, NEW to, Tell(x, kind, to),
             id = x /\ id \notin unsaved /\ kind = "end" => to \in Clients
      PROVE  EndsAtClient(id)'
  BY <1>1, <1>2, <1>4, ToldToClients DEF EndsAtClient
<1>5. CASE Take
  <2>1. Head(stack).id \in Ids
    BY <1>1, <1>5 DEF Take, TypeOK, Ids
  <2>2. hist' = hist \/ Tell(Head(stack).id, "begin", Head(stack).from)
    BY <1>5 DEF Take
  <2> QED
    BY <1>3, <1>4, <2>1, <2>2
<1>6. CASE Create \/ CreateFull \/ Finish
  <2>1. main.cmd.id \in Ids
    BY <1>1, <1>6 DEF Create, CreateFull, Finish, WellPlaced, Ids, Messages
  <2>2. hist' = hist \/ Tell(main.cmd.id, "begin", rxFrom)
    BY <1>6 DEF Create, CreateFull, Finish
  <2> QED
    BY <1>3, <1>4, <2>1, <2>2
<1>7. CASE Abort
  <2>1. main.over \in Ids \cup {-1}
    BY <1>1, <1>7 DEF Abort, WellPlaced
  <2>2. Tell(main.over, "abort", main.cmd.from)
    BY <1>7 DEF Abort
  <2> QED
    BY <1>4, <2>1, <2>2
<1>8. CASE TellEnd
  <2>1. PICK x \in Ids \cup {-1} : x = fired.ended
    BY <1>1, <1>8 DEF TellEnd, WellPlaced
  <2>2. Tell(x, "end", SenderOf(sender, x)) /\ fired.pc = "tell"
    BY <1>8, <2>1 DEF TellEnd
  <2>3. ASSUME id = x, id \notin unsaved PROVE SenderOf(sender, x) \in Clients
    <3>1. Telling(id) /\ Ending(id)
      BY <2>1, <2>2, <2>3 DEF Telling, Ending
    <3>2. RowsOf(task, id) = {}
      BY <3>1 DEF Once, GoneAfter
    <3>3. Cardinality(RowsOf(task, id)) = 0
      BY <3>2, FS_EmptySet
    <3>4. Saving(id) <= 0
      BY <3>3, SavingHasRow
    <3>5. ~SavePending(id)
      BY <3>4 DEF Saving, SavePending
    <3> QED
      BY <2>3, <3>1, <3>5, SenderFound DEF Addressed
  <2> QED
    BY <1>4, <2>2, <2>3
<1>9. CASE Next /\ ~Take /\ ~Create /\ ~CreateFull /\ ~Finish /\ ~Abort /\ ~TellEnd
  BY <1>3, <1>9 DEF Next, MainStep, TimerStep, Receive, TakeRequest, AnswerCall, AnswerEnds,
                    Save, SkipEntry, StartEntry, Retire, Fire, EndAction, Rearm
<1> QED
  BY <1>3, <1>5, <1>6, <1>7, <1>8, <1>9 DEF vars

AllAddressed ==
    /\ RxKnown /\ SendersKnown
    /\ UniqueIds /\ ~overran =>
           \A id \in Ids : AnswersAlone(id) /\ Addressed(id) /\ EndsAtClient(id)

(* EndIsAddressed: when ids are used once and createBuggyTask has not      *)
(* written past its table, the end event of a command whose sender found a *)
(* row is addressed to a client: the row is there before the first callback*)
(* can look for it, and nothing else takes it away.                        *)
THEOREM EndIsAddressedAlways == Spec => []EndIsAddressed
<1>1. Init => AllAddressed /\ SavesEarly
  <2> SUFFICES ASSUME Init PROVE AllAddressed /\ SavesEarly
    OBVIOUS
  <2>1. /\ main.pc = "idle" /\ fired.pc = "scan" /\ stack = <<>>
        /\ \A i \in TaskRows : task[i].num = 0
        /\ \A i \in SenderRows : sender[i].id = 0
        /\ \A id \in Ids : hist[id] = <<>> /\ id # 0
    BY IdsPositive DEF Init, IdleMain, IdleTimer, EmptyTaskTable, FreeRow, EmptySenderTable
  <2>2. RxKnown /\ SendersKnown /\ SavesEarly
    BY <2>1, IdsPositive DEF RxKnown, SendersKnown, SavesEarly
  <2>3. ASSUME NEW id \in Ids PROVE AnswersAlone(id) /\ Addressed(id) /\ EndsAtClient(id)
    <3>1. ~Answering(id) /\ RowsOf(task, id) = {} /\ ~Telling(id)
      BY <2>1 DEF Answering, RowsOf, Telling
    <3>2. DOMAIN hist[id] = {}
      BY <2>1
    <3> QED
      BY <3>1, <3>2 DEF AnswersAlone, Addressed, EndsAtClient
  <2> QED
    BY <2>2, <2>3 DEF AllAddressed
<1>2. /\ TypeInv /\ SavesEarly /\ NeverEndsEarly /\ OnceIfUnique /\ InOrderIfUnique
      /\ AllAddressed /\ [Next]_vars
      => AllAddressed'
  <2> SUFFICES ASSUME TypeInv, SavesEarly, NeverEndsEarly, OnceIfUnique, InOrderIfUnique,
                      AllAddressed, [Next]_vars
               PROVE  AllAddressed'
    OBVIOUS
  <2>1. RxKnown' /\ SendersKnown'
    BY RxKnownStep, SendersKnownStep DEF AllAddressed
  <2>2. ASSUME UniqueIds, ~overran', NEW id \in Ids
        PROVE  AnswersAlone(id)' /\ Addressed(id)' /\ EndsAtClient(id)'
    <3>1. ~overran
      BY <2>2, OverranStays
    <3>2. Once /\ InOrder(id) /\ Balanced(id)
      BY <2>2, <3>1 DEF OnceIfUnique, InOrderIfUnique, NeverEndsEarly, Balanced
    <3>3. /\ RxKnown /\ SendersKnown /\ EndsAtClient(id) /\ Addressed(id)
          /\ \A j \in Ids : AnswersAlone(j)
      BY <2>2, <3>1 DEF AllAddressed
    <3>4. AnswersAlone(id)'
      BY <3>2, <3>3, AnswersAloneStep
    <3>5. Addressed(id)'
      BY <2>2, <3>2, <3>3, AddressedStep
    <3>6. EndsAtClient(id)'
      BY <3>2, <3>3, EndsAtClientStep
    <3> QED
      BY <3>4, <3>5, <3>6
  <2> QED
    BY <2>1, <2>2 DEF AllAddressed
<1>3. AllAddressed => EndIsAddressed
  <2> SUFFICES ASSUME AllAddressed, UniqueIds, ~overran, NEW c \in Commands,
                      NEW n \in DOMAIN hist[c.id], c.id \notin unsaved,
                      hist[c.id][n].kind = "end"
               PROVE  hist[c.id][n].to \in Clients
    BY DEF EndIsAddressed
  <2>1. c.id \in Ids
    BY DEF Ids, Messages
  <2> QED
    BY <2>1 DEF AllAddressed, EndsAtClient
<1> QED
  BY <1>1, <1>2, <1>3, InOrderAlways, OnceAlways, InitTypeInv, TypeInvStep, SavesEarlyStep,
     NeverEndsEarlyAlways, PTL DEF Spec

------------------------------------------------------------------------------
(* Nothing is lost.  What makes NothingLost inductive: every timer and     *)
(* callback carries an entry of a command, the actions of one command are  *)
(* for different devices wherever they are, and the loop has as many       *)
(* actions left as it has entries.  So a callback that re-arms never finds *)
(* its device in the timers, what the main loop overwrites it also retires,*)
(* and the loop ends with nothing left.                                    *)
Loading(id) == main.pc \in {"save", "start", "retire", "abort"} /\ main.cmd.id = id
Called(id) == fired.pc = "call" /\ fired.id = id

IsEntry(x) ==
    \E c \in Commands : \E k \in DOMAIN c.acts :
        /\ x.id = c.id /\ x.name = c.acts[k].name
        /\ x.type = TypeOf(c.family) /\ x.fn = c.acts[k].mode

FromEntries ==
    /\ \A i \in TimerSlots : timer[i].id # 0 => IsEntry(timer[i])
    /\ fired.pc = "call" => IsEntry(fired)

Apart(id) ==
    /\ \A i, j \in SlotsOf(timer, id) : timer[i].name = timer[j].name => i = j
    /\ Called(id) => \A i \in SlotsOf(timer, id) : timer[i].name # fired.name
    /\ Loading(id) => \A k \in DOMAIN main.cmd.acts : k >= main.k =>
          /\ \A i \in SlotsOf(timer, id) : timer[i].name # main.cmd.acts[k].name
          /\ Called(id) => fired.name # main.cmd.acts[k].name

CountsDown ==
    /\ main.pc = "create" => main.k = 1
    /\ main.pc \in {"save", "start", "retire", "abort"}
           => main.left = Len(main.cmd.acts) - main.k + 1

Covered(id) == Cardinality(Owed(id)) <= Cardinality(Running(id))

(* setTimer stops at a free slot or at one of the device, and writes the   *)
(* action there.                                                           *)
LEMMA SetTimerWhere ==
  ASSUME NEW nums, nums \subseteq Nat \ {0}, NEW tab \in TimerTables(nums),
         NEW id \in nums, NEW name \in Int, NEW type \in 0 .. 3,
         NEW fn \in Modes \cup {"none"}
  PROVE  LET new == SetTimer(tab, id, name, type, fn) IN
         \/ new.result = 0 /\ new.table = tab
         \/ \E i \in TimerSlots :
               /\ Arms(tab, new, i, id)
               /\ new.table[i] = [id |-> id, name |-> name, type |-> type, fn |-> fn]
               /\ tab[i].id = 0 \/ Matches(tab[i], name, type)
<1> DEFINE stops == SetStops(tab, name, type)
           i == Min(stops)
           new == SetTimer(tab, id, name, type, fn)
           slot == [id |-> id, name |-> name, type |-> type, fn |-> fn]
<1>1. CASE stops = {}
  <2>1. new = [table |-> tab, result |-> 0]
    BY <1>1 DEF SetTimer
  <2> QED
    BY <2>1
<1>2. CASE stops # {}
  <2>1. i \in TimerSlots /\ (Matches(tab[i], name, type) \/ tab[i].id <= 0)
    <3>1. stops \in SUBSET Nat
      BY NTimerAssumption DEF SetStops, TimerSlots
    <3>2. i \in stops
      BY <1>2, <3>1, MinIsLeast
    <3> QED
      BY <3>2 DEF SetStops
  <2>2. new = [table  |-> [tab EXCEPT ![i] = slot],
               result |-> IF Matches(tab[i], name, type) /\ tab[i].id # 0
                          THEN tab[i].id ELSE 1]
    BY <1>2 DEF SetTimer
  <2> HIDE DEF i, new
  <2>3. tab[i].id \in nums \cup {0}
    BY <2>1 DEF TimerTables
  <2>4. tab[i].id <= 0 => tab[i].id = 0
    BY <2>3
  <2>5. new.result = IF tab[i].id = 0 THEN 1 ELSE tab[i].id
    BY <2>1, <2>2, <2>4
  <2>6. /\ new.table[i] = slot
        /\ \A k \in TimerSlots \ {i} : new.table[k] = tab[k]
    BY <2>1, <2>2 DEF TimerTables
  <2>7. Arms(tab, new, i, id)
    BY <2>5, <2>6 DEF Arms
  <2> QED
    BY <2>1, <2>4, <2>6, <2>7 DEF new
<1> QED
  BY <1>1, <1>2

(* What StartEntry does, with the slot it takes.                           *)
LEMMA StartEntryEffect ==
  ASSUME TypeInv, StartEntry
  PROVE  LET act == main.cmd.acts[main.k] IN
         /\ main.cmd \in Commands /\ main.k \in DOMAIN main.cmd.acts
         /\ main.pc = "start" /\ main.left \in Nat /\ main.left > 0
         /\ fired' = fired /\ task' = task
         /\ main'.cmd = main.cmd /\ main'.k = main.k + 1 /\ main'.left = main.left - 1
         /\ main'.pc \in {"start", "retire"}
         /\ \/ timer' = timer /\ main'.pc = "start" /\ crowded'
            \/ \E i \in TimerSlots :
                  /\ timer'[i] = [id |-> main.cmd.id, name |-> act.name,
                                  type |-> TypeOf(main.cmd.family), fn |-> act.mode]
                  /\ \A k \in TimerSlots \ {i} : timer'[k] = timer[k]
                  /\ IF timer[i].id > 1
                     THEN main'.pc = "retire" /\ main'.over = timer[i].id
                     ELSE main'.pc = "start"
<1> DEFINE act == main.cmd.acts[main.k]
           set == SetTimer(timer, main.cmd.id, act.name,
                           TypeOf(main.cmd.family), act.mode)
<1>1. /\ timer \in TimerTables(Ids) /\ main \in MainStates /\ Ids \subseteq Nat \ {0}
      /\ Starting
  BY IdsPositive DEF TypeInv, TypeOK, TimerTables, StartEntry
<1>2. /\ main.cmd \in Commands /\ main.k \in 1 .. Len(main.cmd.acts)
      /\ main.pc = "start" /\ main.left \in Nat /\ main.left > 0
  BY <1>1 DEF Starting, EntriesLeft, TypeInv, WellPlaced, MainStates
<1>3. /\ main.cmd.id \in Ids /\ act.name \in Int /\ act.mode \in Modes \cup {"none"}
      /\ TypeOf(main.cmd.family) \in 0 .. 3
  BY <1>2, EntryType
<1>4. main.k \in DOMAIN main.cmd.acts
  BY <1>2, CommandsAssumption
<1>5. \/ set.result = 0 /\ set.table = timer
      \/ \E i \in TimerSlots :
            /\ Arms(timer, set, i, main.cmd.id)
            /\ set.table[i] = [id |-> main.cmd.id, name |-> act.name,
                               type |-> TypeOf(main.cmd.family), fn |-> act.mode]
  <2>1. PICK o \in Ids : o = main.cmd.id
    BY <1>3
  <2>2. PICK ty \in 0 .. 3 : ty = TypeOf(main.cmd.family)
    BY <1>3
  <2> HIDE DEF act
  <2>3. PICK na \in Int : na = act.name
    BY <1>3
  <2>4. PICK fn \in Modes \cup {"none"} : fn = act.mode
    BY <1>3
  <2> DEFINE new == SetTimer(timer, o, na, ty, fn)
  <2>5. \/ new.result = 0 /\ new.table = timer
        \/ \E i \in TimerSlots :
              /\ Arms(timer, new, i, o)
              /\ new.table[i] = [id |-> o, name |-> na, type |-> ty, fn |-> fn]
              /\ timer[i].id = 0 \/ Matches(timer[i], na, ty)
    BY <1>1, SetTimerWhere
  <2> QED
    BY <2>1, <2>2, <2>3, <2>4, <2>5
<1>6. /\ timer' = set.table /\ fired' = fired /\ task' = task
      /\ main' = [main EXCEPT
                    !.k = @ + 1,
                    !.left = @ - 1,
                    !.pc = IF set.result > 1 THEN "retire" ELSE "start",
                    !.over = IF set.result > 1 THEN set.result ELSE 0]
  BY DEF StartEntry
<1>7. set.result = 0 => crowded'
  BY DEF StartEntry
<1> HIDE DEF set
<1>8. /\ main'.cmd = main.cmd /\ main'.k = main.k + 1 /\ main'.left = main.left - 1
      /\ main'.pc = (IF set.result > 1 THEN "retire" ELSE "start")
      /\ set.result > 1 => main'.over = set.result
  BY <1>1, <1>6 DEF MainStates
<1>9. CASE set.result = 0 /\ set.table = timer
  BY <1>2, <1>4, <1>6, <1>7, <1>8, <1>9
<1>10. ASSUME NEW i \in TimerSlots, Arms(timer, set, i, main.cmd.id),
              set.table[i] = [id |-> main.cmd.id, name |-> act.name,
                              type |-> TypeOf(main.cmd.family), fn |-> act.mode]
       PROVE  /\ timer'[i] = [id |-> main.cmd.id, name |-> act.name,
                              type |-> TypeOf(main.cmd.family), fn |-> act.mode]
              /\ \A k \in TimerSlots \ {i} : timer'[k] = timer[k]
              /\ IF timer[i].id > 1
                 THEN main'.pc = "retire" /\ main'.over = timer[i].id
                 ELSE main'.pc = "start"
  <2>1. set.result = IF timer[i].id = 0 THEN 1 ELSE timer[i].id
    BY <1>10 DEF Arms
  <2>2. timer[i].id \in Ids \cup {0}
    BY <1>1, <1>10 DEF TimerTables
  <2>3. timer[i].id \in Nat
    BY <1>1, <2>2
  <2> QED
    BY <1>6, <1>8, <1>10, <2>1, <2>3 DEF Arms
<1>11. main'.pc \in {"start", "retire"}
  BY <1>8
<1> QED
  BY <1>2, <1>4, <1>5, <1>6, <1>8, <1>9, <1>10, <1>11

(* What Rearm does, with the slot it takes.                                *)
LEMMA RearmEffect ==
  ASSUME TypeInv, Rearm
  PROVE  /\ fired.pc = "call" /\ fired.id \in Ids /\ fired.fn \in {"poll", "forever"}
         /\ fired' = IdleTimer /\ main' = main /\ task' = task
         /\ \/ timer' = timer /\ crowded'
            \/ \E i \in TimerSlots :
                  /\ timer'[i] = [id |-> fired.id, name |-> fired.name,
                                  type |-> fired.type, fn |-> fired.fn]
                  /\ \A k \in TimerSlots \ {i} : timer'[k] = timer[k]
                  /\ timer[i].id = 0 \/ Matches(timer[i], fired.name, fired.type)
<1> DEFINE set == SetTimer(timer, fired.id, fired.name, fired.type, fired.fn)
<1>1. timer \in TimerTables(Ids) /\ fired \in FiredStates /\ Ids \subseteq Nat \ {0}
  BY IdsPositive DEF TypeInv, TypeOK, TimerTables
<1>2. /\ fired.pc = "call" /\ fired.id \in Ids /\ fired.name \in Int
      /\ fired.type \in 0 .. 3 /\ fired.fn \in Modes \cup {"none"}
  BY <1>1 DEF Rearm, TypeInv, WellPlaced, FiredStates
<1>3. \/ set.result = 0 /\ set.table = timer
      \/ \E i \in TimerSlots :
            /\ Arms(timer, set, i, fired.id)
            /\ set.table[i] = [id |-> fired.id, name |-> fired.name,
                               type |-> fired.type, fn |-> fired.fn]
            /\ timer[i].id = 0 \/ Matches(timer[i], fired.name, fired.type)
  <2>1. ASSUME NEW id \in Ids, NEW name \in Int, NEW type \in 0 .. 3,
               NEW fn \in Modes \cup {"none"},
               NEW new, new = SetTimer(timer, id, name, type, fn)
        PROVE  \/ new.result = 0 /\ new.table = timer
               \/ \E i \in TimerSlots :
                     /\ Arms(timer, new, i, id)
                     /\ new.table[i] = [id |-> id, name |-> name, type |-> type, fn |-> fn]
                     /\ timer[i].id = 0 \/ Matches(timer[i], name, type)
    BY <1>1, <2>1, SetTimerWhere
  <2> QED
    BY <1>2, <2>1
<1>4. /\ timer' = set.table /\ fired' = IdleTimer /\ main' = main /\ task' = task
      /\ fired.fn \in {"poll", "forever"} /\ (set.result = 0 => crowded')
  BY DEF Rearm
<1> HIDE DEF set
<1> QED
  BY <1>2, <1>3, <1>4 DEF Arms

(* setTimer is called with an entry of the command, and a callback arms its*)
(* slot again with what it was called with.                                *)
LEMMA FromEntriesStep == TypeInv /\ FromEntries /\ [Next]_vars => FromEntries'
<1> SUFFICES ASSUME TypeInv, FromEntries, [Next]_vars PROVE FromEntries'
  OBVIOUS
<1>1. ASSUME timer' = timer, fired' = fired \/ fired'.pc # "call" PROVE FromEntries'
  BY <1>1 DEF FromEntries, IsEntry
<1>2. CASE StartEntry
  <2>1. /\ main.cmd \in Commands /\ main.k \in DOMAIN main.cmd.acts /\ fired' = fired
    BY <1>2, StartEntryEffect
  <2>2. ASSUME timer' = timer PROVE FromEntries'
    BY <1>1, <2>1, <2>2
  <2>3. ASSUME NEW i \in TimerSlots,
               timer'[i] = [id |-> main.cmd.id, name |-> main.cmd.acts[main.k].name,
                            type |-> TypeOf(main.cmd.family),
                            fn |-> main.cmd.acts[main.k].mode],
               \A k \in TimerSlots \ {i} : timer'[k] = timer[k]
        PROVE  FromEntries'
    <3>1. IsEntry(timer'[i])
      BY <2>1, <2>3 DEF IsEntry
    <3>2. \A k \in TimerSlots : timer'[k].id # 0 => IsEntry(timer'[k])
      BY <2>3, <3>1 DEF FromEntries
    <3>3. fired'.pc = "call" => IsEntry(fired')
      BY <2>1 DEF FromEntries
    <3> QED
      BY <3>2, <3>3 DEF FromEntries, IsEntry
  <2> QED
    BY <1>2, <2>2, <2>3, StartEntryEffect
<1>3. ASSUME NEW i \in TimerSlots, Fire(i) PROVE FromEntries'
  <2>1. timer \in TimerTables(Ids)
    BY DEF TypeInv, TypeOK, TimerTables
  <2>2. /\ timer'[i].id = 0 /\ \A k \in TimerSlots \ {i} : timer'[k] = timer[k]
        /\ timer[i].id # 0 /\ fired' = TimerInCallback(timer[i])
    BY <1>3, <2>1, ExpireEffect DEF Fire
  <2>3. IsEntry(fired')
    BY <2>2 DEF FromEntries, IsEntry, TimerInCallback
  <2>4. \A k \in TimerSlots : timer'[k].id # 0 => IsEntry(timer'[k])
    BY <2>2 DEF FromEntries
  <2> QED
    BY <2>3, <2>4 DEF FromEntries, IsEntry
<1>4. CASE Rearm
  <2>1. fired.pc = "call" /\ fired' = IdleTimer
    BY <1>4, RearmEffect
  <2>2. ASSUME timer' = timer PROVE FromEntries'
    BY <1>1, <2>1, <2>2 DEF IdleTimer
  <2>3. ASSUME NEW i \in TimerSlots,
               timer'[i] = [id |-> fired.id, name |-> fired.name,
                            type |-> fired.type, fn |-> fired.fn],
               \A k \in TimerSlots \ {i} : timer'[k] = timer[k]
        PROVE  FromEntries'
    <3>1. IsEntry(timer'[i])
      BY <2>1, <2>3 DEF FromEntries, IsEntry
    <3>2. \A k \in TimerSlots : timer'[k].id # 0 => IsEntry(timer'[k])
      BY <2>3, <3>1 DEF FromEntries
    <3> QED
      BY <2>1, <3>2 DEF FromEntries, IsEntry, IdleTimer
  <2> QED
    BY <1>4, <2>2, <2>3, RearmEffect
<1>5. CASE EndAction \/ TellEnd
  <2>1. fired'.pc # "call"
    BY <1>5, IdleMainType DEF EndAction, TellEnd, IdleTimer, FiredStates
  <2> QED
    BY <1>1, <1>5, <2>1 DEF EndAction, TellEnd
<1>6. CASE \/ TakeRequest \/ AnswerCall \/ AnswerEnds \/ Take \/ Create \/ CreateFull
           \/ Save \/ SkipEntry \/ Retire \/ Abort \/ Finish
  BY <1>1, <1>6 DEF TakeRequest, AnswerCall, AnswerEnds, Take, Create, CreateFull, Save,
                    SkipEntry, Retire, Abort, Finish
<1>7. CASE UNCHANGED vars
  BY <1>1, <1>7 DEF vars
<1>8. ASSUME NEW m \in Messages, Receive(m) PROVE FromEntries'
  BY <1>1, <1>8 DEF Receive
<1> QED
  BY <1>2, <1>3, <1>4, <1>5, <1>6, <1>7, <1>8 DEF Next, MainStep, TimerStep

(* A command is counted down from the number of its entries: an orderly    *)
(* client names as many devices as there are entries.                      *)
LEMMA OrderlyCount ==
  ASSUME Orderly, NEW c \in Commands
  PROVE  ActionCount(c) = Len(c.acts)
<1> DEFINE n == Len(c.acts)
           f == [k \in 1 .. n |-> c.acts[k].name]
           T == {x \in {c.acts[k].name : k \in DOMAIN c.acts} : x >= 0}
<1>1. c.acts \in Seq(Act) /\ n \in Nat /\ DOMAIN c.acts = 1 .. n
  BY CommandsAssumption
<1>2. /\ \A k \in 1 .. n : c.acts[k].name >= 0
      /\ \A j, k \in 1 .. n : c.acts[j].name = c.acts[k].name => j = k
  BY <1>1 DEF Orderly, Startable
<1>3. f \in Bijection(1 .. n, T)
  <2>1. f \in Surjection(1 .. n, T)
    BY <1>1, <1>2 DEF Surjection
  <2>2. \A j, k \in 1 .. n : f[j] = f[k] => j = k
    BY <1>2
  <2> QED
    BY <2>1, <2>2 DEF Bijection, Injection, Surjection, IsInjective
<1>4. IsFiniteSet(1 .. n) /\ Cardinality(1 .. n) = n
  BY <1>1, FS_Interval
<1>5. Cardinality(T) = n
  <2> HIDE DEF f, T
  <2> QED
    BY <1>3, <1>4, FS_Bijection DEF ExistsBijection
<1> QED
  BY <1>5 DEF ActionCount

LEMMA CountsDownStep ==
  ASSUME TypeInv, Orderly, CountsDown, [Next]_vars, ~overran'
  PROVE  CountsDown'
<1>1. main \in MainStates
  BY DEF TypeInv, TypeOK
<1>2. CASE main' = main
  BY <1>2 DEF CountsDown
<1>3. CASE main'.pc \in {"idle", "answer"}
  BY <1>3 DEF CountsDown
<1>4. CASE Take
  <2>1. main' = main \/ (main'.pc = "create" /\ main'.k = 1)
    BY <1>4, IdleMainType DEF Take, IdleMain, MainStates
  <2> QED
    BY <1>2, <2>1 DEF CountsDown
<1>5. CASE Create
  <2>1. main.cmd \in Commands /\ main.k = 1 /\ Len(main.cmd.acts) \in Nat
    BY <1>5, CommandsAssumption DEF Create, TypeInv, WellPlaced, CountsDown
  <2>2. ActionCount(main.cmd) = Len(main.cmd.acts)
    BY <2>1, OrderlyCount
  <2>3. main' = IdleMain \/ main' = [main EXCEPT !.pc = "save",
                                                 !.left = ActionCount(main.cmd)]
    BY <1>5 DEF Create, Opened
  <2>4. CASE main' = IdleMain
    BY <2>4, <1>3 DEF IdleMain
  <2>5. CASE main' = [main EXCEPT !.pc = "save", !.left = ActionCount(main.cmd)]
    <3>1. /\ main'.pc = "save" /\ main'.left = Len(main.cmd.acts)
          /\ main'.cmd = main.cmd /\ main'.k = 1
      BY <1>1, <2>1, <2>2, <2>5 DEF MainStates
    <3> QED
      BY <2>1, <3>1 DEF CountsDown
  <2> QED
    BY <2>3, <2>4, <2>5
<1>6. CASE CreateFull
  BY <1>3, <1>6 DEF CreateFull, IdleMain
<1>7. CASE Save \/ Retire \/ Abort
  <2>1. /\ main.pc \in {"save", "retire", "abort"} /\ main'.pc \in {"start", "abort"}
        /\ main'.cmd = main.cmd /\ main'.k = main.k /\ main'.left = main.left
    BY <1>1, <1>7 DEF Save, Retire, Abort, MainStates
  <2> QED
    BY <2>1 DEF CountsDown
<1>8. CASE SkipEntry
  <2>1. main.cmd \in Commands /\ main.k \in 1 .. Len(main.cmd.acts)
    BY <1>1, <1>8 DEF SkipEntry, Starting, EntriesLeft, TypeInv, WellPlaced, MainStates
  <2>2. Startable(main.cmd.acts[main.k])
    BY <2>1, CommandsAssumption DEF Orderly
  <2> QED
    BY <1>8, <2>2 DEF SkipEntry
<1>9. CASE StartEntry
  <2>1. /\ main.pc = "start" /\ main'.pc \in {"start", "retire"} /\ main'.cmd = main.cmd
        /\ main'.k = main.k + 1 /\ main'.left = main.left - 1 /\ main.cmd \in Commands
    BY <1>9, StartEntryEffect
  <2>2. PICK n \in Nat : n = Len(main.cmd.acts)
    BY <2>1, CommandsAssumption
  <2>3. main.k \in Nat /\ main.left = n - main.k + 1
    BY <1>1, <2>1, <2>2 DEF MainStates, CountsDown
  <2>4. main'.left = n - main'.k + 1
    BY <2>1, <2>3
  <2> QED
    BY <2>1, <2>2, <2>4 DEF CountsDown
<1>10. CASE TakeRequest \/ AnswerCall \/ AnswerEnds \/ Finish
  <2>1. main'.pc \in {"idle", "answer"}
    BY <1>1, <1>10, IdleMainType
       DEF TakeRequest, AnswerCall, AnswerEnds, Finish, IdleMain, MainStates
  <2> QED
    BY <1>3, <2>1
<1>11. CASE (\E m \in Messages : Receive(m)) \/ TimerStep
  BY <1>2, <1>11 DEF Receive, TimerStep, Fire, EndAction, TellEnd, Rearm
<1>12. CASE UNCHANGED vars
  BY <1>2, <1>12 DEF vars
<1> QED
  BY <1>4, <1>5, <1>6, <1>7, <1>8, <1>9, <1>10, <1>11, <1>12 DEF Next, MainStep

(* The actions of one command stay apart.                                  *)
LEMMA ApartKept ==
  ASSUME TypeInv, NEW id, Apart(id),
         \A i \in SlotsOf(timer', id) :
             i \in SlotsOf(timer, id) /\ timer'[i].name = timer[i].name,
         Called(id)' => Called(id) /\ fired'.name = fired.name,
         Loading(id)' => /\ Loading(id) /\ main'.cmd = main.cmd
                         /\ main'.k \in {main.k, main.k + 1}
  PROVE  Apart(id)'
<1>1. \A i, j \in SlotsOf(timer', id) : timer'[i].name = timer'[j].name => i = j
  BY DEF Apart
<1>2. Called(id)' => \A i \in SlotsOf(timer', id) : timer'[i].name # fired'.name
  BY DEF Apart
<1>3. ASSUME Loading(id)', NEW k \in DOMAIN main'.cmd.acts, k >= main'.k
      PROVE  /\ \A i \in SlotsOf(timer', id) : timer'[i].name # main'.cmd.acts[k].name
             /\ Called(id)' => fired'.name # main'.cmd.acts[k].name
  <2>1. main.cmd \in Commands /\ main.k \in Nat /\ Loading(id) /\ main'.cmd = main.cmd
    BY <1>3 DEF Loading, TypeInv, TypeOK, WellPlaced, MainStates
  <2>2. k \in Nat /\ k \in DOMAIN main.cmd.acts
    BY <1>3, <2>1, CommandsAssumption
  <2>3. k >= main.k
    BY <1>3, <2>1, <2>2
  <2> QED
    BY <2>1, <2>2, <2>3 DEF Apart
<1> QED
  BY <1>1, <1>2, <1>3 DEF Apart, SlotsOf

(* A task is opened for a command none of whose actions is under way.      *)
LEMMA NothingBeforeCreate ==
  ASSUME TypeInv, Once, NEW id \in Ids, Balanced(id), Creating(id)
  PROVE  Running(id) = {} /\ Owed(id) = {}
<1>1. RowsOf(task, id) = {}
  BY DEF Once, FreshBefore, NotYet
<1>2. Owed(id) = {}
  BY <1>1 DEF Owed, OwedIn, RowsOf
<1>3. Cardinality(Owed(id)) = 0
  BY <1>2, FS_EmptySet
<1>4. IsFiniteSet(Running(id)) /\ Cardinality(Running(id)) \in Nat
  BY RunningFinite, FS_CardinalityType DEF TypeInv
<1>5. Cardinality(Running(id)) = 0
  BY <1>3, <1>4 DEF Balanced
<1> QED
  BY <1>2, <1>4, <1>5, FS_EmptySet

LEMMA ApartStep ==
  ASSUME TypeInv, Once, Orderly, [Next]_vars, ~overran', \A j \in Ids : Balanced(j),
         NEW id \in Ids, Apart(id)
  PROVE  Apart(id)'
<1>1. /\ timer \in TimerTables(Ids) /\ main \in MainStates /\ fired \in FiredStates
      /\ id # 0
  BY IdsPositive DEF TypeInv, TypeOK, TimerTables
<1>2. ASSUME timer' = timer, fired' = fired \/ fired'.pc # "call",
             \/ main' = main \/ main'.pc \in {"idle", "answer", "create"}
             \/ /\ main.pc \in {"save", "start", "retire", "abort"}
                /\ main'.cmd = main.cmd /\ main'.k \in {main.k, main.k + 1}
      PROVE  Apart(id)'
  <2>1. \A i \in SlotsOf(timer', id) :
            i \in SlotsOf(timer, id) /\ timer'[i].name = timer[i].name
    BY <1>2
  <2>2. Called(id)' => Called(id) /\ fired'.name = fired.name
    BY <1>2 DEF Called
  <2>3. Loading(id)' => /\ Loading(id) /\ main'.cmd = main.cmd
                        /\ main'.k \in {main.k, main.k + 1}
    BY <1>2 DEF Loading
  <2> QED
    BY <2>1, <2>2, <2>3, ApartKept
<1>3. CASE Create
  <2>1. timer' = timer /\ fired' = fired /\ main.pc = "create"
    BY <1>3 DEF Create
  <2>2. CASE main' = IdleMain
    BY <1>2, <2>1, <2>2 DEF IdleMain
  <2>3. CASE main' = Opened
    <3>1. main'.pc = "save" /\ main'.cmd = main.cmd
      BY <1>1, <2>3 DEF Opened, MainStates
    <3>2. CASE main.cmd.id = id
      <4>1. Running(id) = {}
        BY <2>1, <3>2, NothingBeforeCreate DEF Creating
      <4>2. ~Called(id)' /\ SlotsOf(timer', id) = {}
        BY <2>1, <4>1 DEF Running, OnTimer, InCallback, Called
      <4> QED
        BY <4>2 DEF Apart, SlotsOf
    <3>3. CASE main.cmd.id # id
      <4>1. ~Loading(id)'
        BY <3>1, <3>3 DEF Loading
      <4>2. Called(id)' => Called(id) /\ fired'.name = fired.name
        BY <2>1 DEF Called
      <4> QED
        BY <2>1, <4>1, <4>2, ApartKept
    <3> QED
      BY <3>2, <3>3
  <2> QED
    BY <1>3, <2>2, <2>3 DEF Create
<1>4. CASE StartEntry
  <2>1. /\ main.cmd \in Commands /\ main.k \in DOMAIN main.cmd.acts
        /\ main.pc = "start" /\ fired' = fired
        /\ main'.cmd = main.cmd /\ main'.k = main.k + 1 /\ main'.pc \in {"start", "retire"}
    BY <1>4, StartEntryEffect
  <2>2. CASE timer' = timer
    BY <1>2, <2>1, <2>2
  <2>3. ASSUME NEW i \in TimerSlots,
               timer'[i] = [id |-> main.cmd.id, name |-> main.cmd.acts[main.k].name,
                            type |-> TypeOf(main.cmd.family),
                            fn |-> main.cmd.acts[main.k].mode],
               \A k \in TimerSlots \ {i} : timer'[k] = timer[k]
        PROVE  Apart(id)'
    <3>1. Called(id)' => Called(id) /\ fired'.name = fired.name
      BY <2>1 DEF Called
    <3>2. CASE main.cmd.id # id
      <4>1. \A j \in SlotsOf(timer', id) :
                j \in SlotsOf(timer, id) /\ timer'[j].name = timer[j].name
        BY <2>3, <3>2 DEF SlotsOf
      <4>2. ~Loading(id)'
        BY <2>1, <3>2 DEF Loading
      <4> QED
        BY <3>1, <4>1, <4>2, ApartKept
    <3>3. CASE main.cmd.id = id
      <4> DEFINE name == main.cmd.acts[main.k].name
      <4>1. Loading(id) /\ main.k \in Nat /\ main.k >= main.k
        BY <1>1, <2>1, <3>3 DEF Loading, MainStates
      <4>2. /\ \A j \in SlotsOf(timer, id) : timer[j].name # name
            /\ Called(id) => fired.name # name
        BY <2>1, <4>1 DEF Apart
      <4>3. /\ timer'[i].name = name
            /\ \A j \in SlotsOf(timer', id) \ {i} :
                  j \in SlotsOf(timer, id) /\ timer'[j].name = timer[j].name
        BY <2>3 DEF SlotsOf
      <4>4. \A k \in DOMAIN main.cmd.acts :
                k >= main.k + 1 => k >= main.k /\ main.cmd.acts[k].name # name
        <5>1. TAKE k \in DOMAIN main.cmd.acts
        <5>2. HAVE k >= main.k + 1
        <5>3. k \in Nat
          BY <2>1, CommandsAssumption
        <5>4. k >= main.k /\ k # main.k
          BY <4>1, <5>2, <5>3
        <5> QED
          BY <2>1, <5>4 DEF Orderly
      <4> HIDE DEF name
      <4>5. \A j, k \in SlotsOf(timer', id) : timer'[j].name = timer'[k].name => j = k
        BY <4>2, <4>3 DEF Apart
      <4>6. Called(id)' => \A j \in SlotsOf(timer', id) : timer'[j].name # fired'.name
        BY <3>1, <4>2, <4>3 DEF Apart
      <4>7. ASSUME NEW k \in DOMAIN main'.cmd.acts, k >= main'.k
            PROVE  /\ \A j \in SlotsOf(timer', id) : timer'[j].name # main'.cmd.acts[k].name
                   /\ Called(id)' => fired'.name # main'.cmd.acts[k].name
        <5>1. k \in DOMAIN main.cmd.acts /\ k >= main.k /\ main.cmd.acts[k].name # name
          BY <2>1, <4>4, <4>7
        <5> QED
          BY <2>1, <3>1, <4>1, <4>3, <5>1 DEF Apart
      <4> QED
        BY <4>5, <4>6, <4>7 DEF Apart, SlotsOf
    <3> QED
      BY <3>2, <3>3
  <2> QED
    BY <1>4, <2>2, <2>3, StartEntryEffect
<1>5. ASSUME NEW i \in TimerSlots, Fire(i) PROVE Apart(id)'
  <2>1. /\ timer'[i].id = 0 /\ \A k \in TimerSlots \ {i} : timer'[k] = timer[k]
        /\ fired' = TimerInCallback(timer[i]) /\ main' = main
    BY <1>1, <1>5, ExpireEffect DEF Fire
  <2>2. \A j \in SlotsOf(timer', id) :
            j # i /\ j \in SlotsOf(timer, id) /\ timer'[j].name = timer[j].name
    BY <1>1, <2>1 DEF SlotsOf
  <2>3. Called(id)' => i \in SlotsOf(timer, id) /\ fired'.name = timer[i].name
    BY <2>1 DEF Called, SlotsOf, TimerInCallback
  <2>4. /\ \A j, k \in SlotsOf(timer', id) : timer'[j].name = timer'[k].name => j = k
        /\ Called(id)' => \A j \in SlotsOf(timer', id) : timer'[j].name # fired'.name
    BY <2>2, <2>3 DEF Apart
  <2>5. Loading(id)' => \A k \in DOMAIN main'.cmd.acts : k >= main'.k =>
          /\ \A j \in SlotsOf(timer', id) : timer'[j].name # main'.cmd.acts[k].name
          /\ Called(id)' => fired'.name # main'.cmd.acts[k].name
    BY <2>1, <2>2, <2>3 DEF Apart, Loading
  <2> QED
    BY <2>4, <2>5 DEF Apart, SlotsOf
<1>6. CASE Rearm
  <2>1. fired.pc = "call" /\ fired' = IdleTimer /\ main' = main
    BY <1>6, RearmEffect
  <2>2. ~Called(id)'
    BY <2>1 DEF Called, IdleTimer
  <2>3. CASE timer' = timer
    BY <1>2, <2>1, <2>3 DEF IdleTimer
  <2>4. ASSUME NEW i \in TimerSlots,
               timer'[i] = [id |-> fired.id, name |-> fired.name,
                            type |-> fired.type, fn |-> fired.fn],
               \A k \in TimerSlots \ {i} : timer'[k] = timer[k]
        PROVE  Apart(id)'
    <3>1. \A j \in SlotsOf(timer', id) \ {i} :
              j \in SlotsOf(timer, id) /\ timer'[j].name = timer[j].name
      BY <2>4 DEF SlotsOf
    <3>2. i \in SlotsOf(timer', id) => Called(id) /\ timer'[i].name = fired.name
      BY <2>1, <2>4 DEF SlotsOf, Called
    <3>3. \A j, k \in SlotsOf(timer', id) : timer'[j].name = timer'[k].name => j = k
      BY <3>1, <3>2 DEF Apart
    <3>4. Loading(id)' => \A k \in DOMAIN main'.cmd.acts : k >= main'.k =>
            \A j \in SlotsOf(timer', id) : timer'[j].name # main'.cmd.acts[k].name
      BY <2>1, <3>1, <3>2 DEF Apart, Loading
    <3> QED
      BY <2>2, <3>3, <3>4 DEF Apart, SlotsOf
  <2> QED
    BY <1>6, <2>3, <2>4, RearmEffect
<1>7. CASE Save \/ SkipEntry \/ Retire \/ Abort
  <2>1. /\ main.pc \in {"save", "start", "retire", "abort"}
        /\ main'.cmd = main.cmd /\ main'.k \in {main.k, main.k + 1}
    BY <1>1, <1>7 DEF Save, SkipEntry, Starting, Retire, Abort, MainStates
  <2>2. timer' = timer /\ fired' = fired
    BY <1>7 DEF Save, SkipEntry, Retire, Abort
  <2> QED
    BY <1>2, <2>1, <2>2
<1>8. CASE TakeRequest \/ AnswerCall \/ AnswerEnds \/ Take \/ CreateFull \/ Finish
  <2>1. main' = main \/ main'.pc \in {"idle", "answer", "create"}
    BY <1>1, <1>8, IdleMainType
       DEF TakeRequest, AnswerCall, AnswerEnds, Take, CreateFull, Finish, IdleMain, MainStates
  <2>2. timer' = timer /\ fired' = fired
    BY <1>8 DEF TakeRequest, AnswerCall, AnswerEnds, Take, CreateFull, Finish
  <2> QED
    BY <1>2, <2>1, <2>2
<1>9. CASE EndAction \/ TellEnd
  <2>1. fired'.pc # "call"
    BY <1>9, IdleMainType DEF EndAction, TellEnd, IdleTimer, FiredStates
  <2> QED
    BY <1>2, <1>9, <2>1 DEF EndAction, TellEnd
<1>10. ASSUME NEW m \in Messages, Receive(m) PROVE Apart(id)'
  BY <1>2, <1>10 DEF Receive
<1>11. CASE UNCHANGED vars
  BY <1>2, <1>11 DEF vars
<1> QED
  BY <1>3, <1>4, <1>5, <1>6, <1>7, <1>8, <1>9, <1>10, <1>11 DEF Next, MainStep, TimerStep

(* An action found no slot: that is never taken back.                      *)
LEMMA CrowdedStays == [Next]_vars /\ ~crowded' => ~crowded
  BY DEF Next, MainStep, TimerStep, vars, Receive, Take, TakeRequest, AnswerCall,
         AnswerEnds, Create, CreateFull, Save,
         SkipEntry, StartEntry, Retire, Abort, Finish, Fire, EndAction, TellEnd, Rearm

(* What covers the rows of an id keeps doing so when its actions stay, when*)
(* one of them changes its place, or when one of them ends and is paid.    *)
Stays(id) == Running(id)' = Running(id)
ChangesPlace(id) ==
    \E x \in Running(id) : \E y :
        y \notin Running(id) /\ Running(id)' = (Running(id) \ {x}) \cup {y}
EndsOne(id) == \E x \in Running(id) : Running(id)' = Running(id) \ {x}

LEMMA CoverKept ==
  ASSUME TypeInv, NEW id, Covered(id),
         \/ Owed(id)' = Owed(id) /\ (Stays(id) \/ ChangesPlace(id))
         \/ OneLess(Owed(id), Owed(id)') /\ EndsOne(id)
  PROVE  Covered(id)'
<1> DEFINE R == Running(id)
           S == Running(id)'
           O == Owed(id)
           P == Owed(id)'
<1>1. IsFiniteSet(R) /\ Cardinality(R) \in Nat
  BY RunningFinite, FS_CardinalityType DEF TypeInv
<1>2. IsFiniteSet(O) /\ Cardinality(O) \in Nat
  BY OwedFinite, FS_CardinalityType DEF Owed
<1>3. Cardinality(O) <= Cardinality(R)
  BY DEF Covered
<1>4. SUFFICES Cardinality(P) <= Cardinality(S)
  BY DEF Covered
<1>5. \/ P = O /\ S = R
      \/ P = O /\ \E x \in R : \E y : y \notin R /\ S = (R \ {x}) \cup {y}
      \/ (\E x \in R : S = R \ {x}) /\ (\E p \in O : P = O \ {p})
  BY DEF Stays, ChangesPlace, EndsOne, OneLess
<1> HIDE DEF R, S, O, P
<1>6. CASE P = O /\ S = R
  BY <1>3, <1>6
<1>7. ASSUME P = O, NEW x \in R, NEW y, y \notin R, S = (R \ {x}) \cup {y}
      PROVE  Cardinality(P) <= Cardinality(S)
  <2>1. IsFiniteSet(R \ {x}) /\ Cardinality(R \ {x}) = Cardinality(R) - 1
    BY <1>1, FS_RemoveElement
  <2>2. y \notin R \ {x}
    BY <1>7
  <2>3. Cardinality(S) = Cardinality(R \ {x}) + 1
    BY <1>7, <2>1, <2>2, FS_AddElement
  <2> QED
    BY <1>1, <1>2, <1>3, <1>7, <2>1, <2>3
<1>8. CASE (\E x \in R : S = R \ {x}) /\ (\E p \in O : P = O \ {p})
  <2>1. Cardinality(S) = Cardinality(R) - 1
    BY <1>1, <1>8, FS_RemoveElement
  <2>2. Cardinality(P) = Cardinality(O) - 1
    BY <1>2, <1>8, FS_RemoveElement
  <2> QED
    BY <1>1, <1>2, <1>3, <2>1, <2>2
<1> QED
  BY <1>5, <1>6, <1>7, <1>8

(* Steps that leave timers, callback and task table alone, and neither     *)
(* start nor retire an action.                                             *)
LEMMA CoverStill ==
  ASSUME TypeInv, NEW id, Covered(id), timer' = timer, task' = task,
         InCallback(id)' = InCallback(id), ToStart(id)' = ToStart(id),
         Overwritten(id)' = Overwritten(id)
  PROVE  Covered(id)'
<1>1. OnTimer(id)' = OnTimer(id) /\ Owed(id)' = Owed(id)
  BY Local
<1> QED
  BY <1>1, CoverKept DEF Stays, Running

(* createBuggyTask: the row owes as many actions as are to be started.     *)
LEMMA CoverCreate ==
  ASSUME TypeInv, Once, \A j \in Ids : Balanced(j), Create, NEW id \in Ids, Covered(id)
  PROVE  Covered(id)'
<1>1. /\ task \in TaskTables(Ids, NACTION) /\ RowsLive(task) /\ main \in MainStates
  BY DEF TypeInv, TypeOK, WellPlaced, TaskTables
<1>2. main.cmd \in Commands /\ main.pc = "create"
  BY DEF Create, TypeInv, WellPlaced
<1>3. PICK o \in Ids : o = main.cmd.id
  BY <1>2 DEF Ids, Messages
<1>4. PICK n \in 1 .. NACTION : n = ActionCount(main.cmd)
  BY <1>2, ActionCountBounded, CommandsAssumption DEF TypeInv, WellPlaced
<1> DEFINE new == CreateTask(task, o, n)
<1>5. Ids \subseteq Nat \ {0} /\ o > 0 /\ o # -1 /\ n \in Nat
  BY IdsPositive
<1>6. CreateStops(task, o) # {}
  BY <1>3 DEF Create
<1>7. /\ new.result \in {o, -1}
      /\ new.result = -1 => new.table = task
      /\ new.result = o => OwesMore(Ids, task, new.table, o, n)
  <2>1. new.result \in {o, -1}
    BY <1>1, <1>5, <1>6, CreateTaskEffect
  <2>2. new.result = -1 => new.table = task
    BY <1>5 DEF CreateTask
  <2>3. new.result = o => OwesMore(Ids, task, new.table, o, n)
    BY <1>1, <1>5, <1>6, CreateTaskEffect
  <2> QED
    BY <2>1, <2>2, <2>3
<1>8. /\ task' = new.table
      /\ IF new.result > 0 THEN main' = Opened ELSE main' = IdleMain
      /\ timer' = timer /\ fired' = fired
  BY <1>3, <1>4 DEF Create
<1> HIDE DEF new
<1>9. /\ OnTimer(id)' = OnTimer(id) /\ InCallback(id)' = InCallback(id)
      /\ ToStart(id) = {} /\ Overwritten(id) = {}
  BY <1>2, <1>8, Local DEF ToStart, Overwritten
<1>10. CASE new.result = -1
  <2>1. main'.pc = "idle" /\ task' = task
    BY <1>7, <1>8, <1>10 DEF IdleMain
  <2>2. ToStart(id)' = {} /\ Overwritten(id)' = {}
    BY <2>1 DEF ToStart, Overwritten
  <2> QED
    BY <1>8, <1>9, <2>1, <2>2, CoverStill
<1>11. CASE new.result = o
  <2>1. /\ main'.pc = "save" /\ main'.cmd = main.cmd /\ main'.left = n
    BY <1>1, <1>4, <1>5, <1>8, <1>11 DEF Opened, MainStates
  <2>2. Overwritten(id)' = {}
    BY <2>1 DEF Overwritten
  <2>3. Owed(id) = OwedIn(task, id) /\ Owed(id)' = OwedIn(new.table, id)
    BY <1>8 DEF Owed, OwedIn
  <2>4. CASE id = o
    <3> DEFINE add == {<<"start", k>> : k \in 1 .. n}
    <3>1. Running(id) = {} /\ Owed(id) = {}
      BY <1>2, <1>3, <2>4, NothingBeforeCreate DEF Creating
    <3>2. Running(id)' = add
      <4>1. ToStart(id)' = add
        BY <1>3, <2>1, <2>4 DEF ToStart
      <4> QED
        BY <1>9, <2>2, <3>1, <4>1 DEF Running
    <3>3. Cardinality(add) = n
      BY <1>5, StartsCard
    <3>4. Cardinality(Owed(id)') = Cardinality(Owed(id)) + n
      BY <1>7, <1>11, <2>3, <2>4 DEF OwesMore
    <3>5. Cardinality(Owed(id)) = 0
      BY <3>1, FS_EmptySet
    <3> HIDE DEF add
    <3> QED
      BY <1>5, <3>2, <3>3, <3>4, <3>5 DEF Covered
  <2>5. CASE id # o
    <3>1. ToStart(id)' = {}
      BY <1>3, <2>1, <2>5 DEF ToStart
    <3>2. Owed(id)' = Owed(id)
      BY <1>7, <1>11, <2>3, <2>5 DEF OwesMore
    <3>3. Stays(id)
      BY <1>9, <2>2, <3>1 DEF Stays, Running
    <3> QED
      BY <3>2, <3>3, CoverKept
  <2> QED
    BY <2>4, <2>5
<1> QED
  BY <1>7, <1>10, <1>11

(* setAsync...Action: the entry's action goes to the timer; the action it  *)
(* overwrites, whose id is above 1, is kept to be retired.                 *)
LEMMA CoverStart ==
  ASSUME TypeInv, FromEntries, Orderly, ~crowded', StartEntry, NEW id \in Ids, Covered(id)
  PROVE  Covered(id)'
<1>1. /\ main.cmd \in Commands /\ main.pc = "start" /\ main.left \in Nat /\ main.left > 0
      /\ fired' = fired /\ task' = task
      /\ main'.cmd = main.cmd /\ main'.left = main.left - 1
      /\ main'.pc \in {"start", "retire"}
  BY StartEntryEffect
<1>2. PICK i \in TimerSlots :
          /\ timer'[i].id = main.cmd.id
          /\ \A k \in TimerSlots \ {i} : timer'[k] = timer[k]
          /\ IF timer[i].id > 1
             THEN main'.pc = "retire" /\ main'.over = timer[i].id
             ELSE main'.pc = "start"
  BY StartEntryEffect
<1>3. PICK o \in Ids : o = main.cmd.id
  BY <1>1 DEF Ids, Messages
<1>4. id # 0 /\ o # 0
  BY IdsPositive
<1>5. timer[i].id \in Ids => timer[i].id > 1
  <2>1. SUFFICES ASSUME timer[i].id \in Ids PROVE timer[i].id > 1
    OBVIOUS
  <2>2. timer[i].id # 0
    BY <2>1, IdsPositive
  <2>3. PICK c \in Commands : timer[i].id = c.id
    BY <2>2 DEF FromEntries, IsEntry
  <2> QED
    BY <2>3 DEF Orderly
<1>6. /\ InCallback(id)' = InCallback(id) /\ Owed(id)' = Owed(id)
      /\ Overwritten(id) = {}
  BY <1>1, Local DEF Overwritten
<1>7. IF id = o THEN /\ <<"start", main.left>> \in ToStart(id)
                     /\ ToStart(id)' = ToStart(id) \ {<<"start", main.left>>}
      ELSE ToStart(id)' = ToStart(id)
  BY <1>1, <1>3 DEF ToStart
<1>8. /\ <<"start", main.left>> \notin OnTimer(id)
      /\ <<"start", main.left>> \notin InCallback(id)
  BY Places
<1>9. /\ <<"over", 0>> \notin ToStart(id) /\ <<"over", 0>> \notin OnTimer(id)
      /\ <<"over", 0>> \notin InCallback(id)
  BY Places
<1>10. /\ <<"timer", i>> \notin ToStart(id) /\ <<"timer", i>> \notin InCallback(id)
       /\ <<"timer", i>> \in OnTimer(id) <=> timer[i].id = id
  <2>1. <<"timer", i>> \in OnTimer(id) <=> timer[i].id = id
    BY DEF OnTimer, SlotsOf
  <2> QED
    BY <2>1, Places
<1>11. Overwritten(id)' = IF timer[i].id = id THEN {<<"over", 0>>} ELSE {}
  <2>1. CASE timer[i].id = id
    BY <1>2, <1>5, <2>1 DEF Overwritten
  <2>2. CASE timer[i].id # id
    BY <1>2, <2>2 DEF Overwritten
  <2> QED
    BY <2>1, <2>2
<1>12. CASE id = o /\ timer[i].id = id
  <2>1. SlotsOf(timer', id) = SlotsOf(timer, id)
    BY <1>2, <1>3, <1>12 DEF SlotsOf
  <2>2. OnTimer(id)' = OnTimer(id)
    BY <2>1 DEF OnTimer, SlotsOf
  <2>3. ChangesPlace(id)
    BY <1>6, <1>7, <1>8, <1>9, <1>11, <1>12, <2>2 DEF ChangesPlace, Running
  <2> QED
    BY <1>6, <2>3, CoverKept
<1>13. CASE id = o /\ timer[i].id # id
  <2>1. SlotsOf(timer', id) = SlotsOf(timer, id) \cup {i}
    BY <1>2, <1>3, <1>13 DEF SlotsOf
  <2>2. OnTimer(id)' = OnTimer(id) \cup {<<"timer", i>>}
    BY <2>1 DEF OnTimer, SlotsOf
  <2>3. ChangesPlace(id)
    BY <1>6, <1>7, <1>8, <1>10, <1>11, <1>13, <2>2 DEF ChangesPlace, Running
  <2> QED
    BY <1>6, <2>3, CoverKept
<1>14. CASE id # o /\ timer[i].id = id
  <2>1. SlotsOf(timer', id) = SlotsOf(timer, id) \ {i}
    BY <1>2, <1>3, <1>14 DEF SlotsOf
  <2>2. OnTimer(id)' = OnTimer(id) \ {<<"timer", i>>}
    BY <2>1 DEF OnTimer, SlotsOf
  <2>3. ToStart(id)' = ToStart(id)
    BY <1>7, <1>14
  <2>4. ChangesPlace(id)
    BY <1>6, <1>9, <1>10, <1>11, <1>14, <2>2, <2>3 DEF ChangesPlace, Running
  <2> QED
    BY <1>6, <2>4, CoverKept
<1>15. CASE id # o /\ timer[i].id # id
  <2>1. SlotsOf(timer', id) = SlotsOf(timer, id)
    BY <1>2, <1>3, <1>15 DEF SlotsOf
  <2>2. OnTimer(id)' = OnTimer(id) /\ ToStart(id)' = ToStart(id)
    BY <1>7, <1>15, <2>1 DEF OnTimer, SlotsOf
  <2>3. Stays(id)
    BY <1>6, <1>11, <1>15, <2>2 DEF Stays, Running
  <2> QED
    BY <1>6, <2>3, CoverKept
<1> QED
  BY <1>12, <1>13, <1>14, <1>15

(* A callback that arms its slot again: the slot it takes is free, since a *)
(* device that is polled or runs forever belongs to one command, whose     *)
(* actions are apart.                                                      *)
LEMMA CoverRearm ==
  ASSUME TypeInv, FromEntries, Orderly, ~crowded', Rearm, \A j \in Ids : Apart(j),
         NEW id \in Ids, Covered(id)
  PROVE  Covered(id)'
<1>1. /\ fired.pc = "call" /\ fired.id \in Ids /\ fired.fn \in {"poll", "forever"}
      /\ fired' = IdleTimer /\ main' = main /\ task' = task
  BY RearmEffect
<1>2. PICK i \in TimerSlots :
          /\ timer'[i].id = fired.id
          /\ \A k \in TimerSlots \ {i} : timer'[k] = timer[k]
          /\ timer[i].id = 0 \/ Matches(timer[i], fired.name, fired.type)
  BY RearmEffect
<1>3. timer[i].id = 0
  <2>1. SUFFICES ASSUME timer[i].id # 0, Matches(timer[i], fired.name, fired.type)
                 PROVE  FALSE
    BY <1>2
  <2>2. PICK d \in Commands : \E j \in DOMAIN d.acts :
            /\ timer[i].id = d.id /\ timer[i].name = d.acts[j].name
            /\ timer[i].type = TypeOf(d.family)
    BY <2>1 DEF FromEntries, IsEntry
  <2>3. PICK c \in Commands : \E k \in DOMAIN c.acts :
            /\ fired.id = c.id /\ fired.name = c.acts[k].name
            /\ fired.type = TypeOf(c.family) /\ fired.fn = c.acts[k].mode
    BY <1>1 DEF FromEntries, IsEntry
  <2>4. c.id = d.id
    <3>1. PICK j \in DOMAIN d.acts :
              timer[i].name = d.acts[j].name /\ timer[i].type = TypeOf(d.family)
      BY <2>2
    <3>2. PICK k \in DOMAIN c.acts :
              /\ fired.name = c.acts[k].name /\ fired.type = TypeOf(c.family)
              /\ fired.fn = c.acts[k].mode
      BY <2>3
    <3>3. /\ TypeOf(c.family) = TypeOf(d.family) /\ c.acts[k].name = d.acts[j].name
          /\ c.acts[k].mode \in {"poll", "forever"}
      BY <1>1, <2>1, <3>1, <3>2 DEF Matches
    <3> QED
      BY <3>3 DEF Orderly
  <2>5. i \in SlotsOf(timer, fired.id) /\ Called(fired.id)
    BY <1>1, <2>2, <2>3, <2>4 DEF SlotsOf, Called
  <2> QED
    BY <1>1, <2>1, <2>5 DEF Apart, Matches
<1>4. id # 0 /\ fired.id # 0
  BY <1>1, IdsPositive
<1>5. /\ ToStart(id)' = ToStart(id) /\ Overwritten(id)' = Overwritten(id)
      /\ Owed(id)' = Owed(id)
  BY <1>1, Local
<1>6. InCallback(id)' = {}
  BY <1>1 DEF IdleTimer, InCallback
<1>7. CASE fired.id = id
  <2>1. SlotsOf(timer', id) = SlotsOf(timer, id) \cup {i}
    BY <1>2, <1>7 DEF SlotsOf
  <2>2. OnTimer(id)' = OnTimer(id) \cup {<<"timer", i>>}
    BY <2>1 DEF OnTimer, SlotsOf
  <2>3. InCallback(id) = {<<"call", 0>>}
    BY <1>1, <1>7 DEF InCallback
  <2>4. /\ <<"call", 0>> \notin ToStart(id) /\ <<"call", 0>> \notin OnTimer(id)
        /\ <<"call", 0>> \notin Overwritten(id)
    BY Places
  <2>5. /\ <<"timer", i>> \notin ToStart(id) /\ <<"timer", i>> \notin InCallback(id)
        /\ <<"timer", i>> \notin Overwritten(id)
    BY Places
  <2>6. <<"timer", i>> \notin OnTimer(id)
    BY <1>3, <1>4 DEF OnTimer, SlotsOf
  <2>7. ChangesPlace(id)
    BY <1>5, <1>6, <2>2, <2>3, <2>4, <2>5, <2>6 DEF ChangesPlace, Running
  <2> QED
    BY <1>5, <2>7, CoverKept
<1>8. CASE fired.id # id
  <2>1. SlotsOf(timer', id) = SlotsOf(timer, id)
    BY <1>2, <1>3, <1>4, <1>8 DEF SlotsOf
  <2>2. OnTimer(id)' = OnTimer(id)
    BY <2>1 DEF OnTimer, SlotsOf
  <2>3. InCallback(id) = {}
    BY <1>8 DEF InCallback
  <2>4. Stays(id)
    BY <1>5, <1>6, <2>2, <2>3 DEF Stays, Running
  <2> QED
    BY <1>5, <2>4, CoverKept
<1> QED
  BY <1>7, <1>8

(* A slot that expires hands its action over to the callback.              *)
LEMMA CoverFire ==
  ASSUME TypeInv, NEW i \in TimerSlots, Fire(i), NEW id \in Ids, Covered(id)
  PROVE  Covered(id)'
<1>1. timer \in TimerTables(Ids) /\ id # 0
  BY IdsPositive DEF TypeInv, TypeOK, TimerTables
<1>2. /\ timer'[i].id = 0
      /\ \A k \in TimerSlots \ {i} : timer'[k] = timer[k]
      /\ fired.pc = "scan" /\ fired'.pc = "call" /\ fired'.id = timer[i].id
  BY <1>1, ExpireEffect DEF Fire, TimerInCallback
<1>3. /\ ToStart(id)' = ToStart(id) /\ Overwritten(id)' = Overwritten(id)
      /\ Owed(id)' = Owed(id)
  BY Local DEF Fire
<1>4. SlotsOf(timer', id) = SlotsOf(timer, id) \ {i}
  BY <1>1, <1>2 DEF SlotsOf
<1>5. OnTimer(id)' = OnTimer(id) \ {<<"timer", i>>}
  BY <1>4 DEF OnTimer, SlotsOf
<1>6. InCallback(id) = {}
  BY <1>2 DEF InCallback
<1>7. CASE timer[i].id = id
  <2>1. <<"timer", i>> \in OnTimer(id)
    BY <1>7 DEF OnTimer, SlotsOf
  <2>2. InCallback(id)' = {<<"call", 0>>}
    BY <1>2, <1>7 DEF InCallback
  <2>3. /\ <<"timer", i>> \notin ToStart(id) /\ <<"timer", i>> \notin Overwritten(id)
        /\ <<"call", 0>> \notin ToStart(id) /\ <<"call", 0>> \notin OnTimer(id)
        /\ <<"call", 0>> \notin Overwritten(id)
    BY Places
  <2>4. ChangesPlace(id)
    BY <1>3, <1>5, <1>6, <2>1, <2>2, <2>3 DEF ChangesPlace, Running
  <2> QED
    BY <1>3, <2>4, CoverKept
<1>8. CASE timer[i].id # id
  <2>1. InCallback(id)' = {}
    BY <1>2, <1>8 DEF InCallback
  <2>2. <<"timer", i>> \notin OnTimer(id)
    BY <1>8 DEF OnTimer, SlotsOf
  <2>3. Stays(id)
    BY <1>3, <1>5, <1>6, <2>1, <2>2 DEF Stays, Running
  <2> QED
    BY <1>3, <2>3, CoverKept
<1> QED
  BY <1>7, <1>8

(* An action that is retired or has ended is paid for by its rows.         *)
LEMMA CoverEnds ==
  ASSUME TypeInv, Retire \/ EndAction, \A j \in Ids : Balanced(j),
         NEW id \in Ids, Covered(id)
  PROVE  Covered(id)'
<1>1. ASSUME NEW o \in Ids, Drops(o), task' = RemoveTask(task, o).table,
             id = o => EndsOne(id), id # o => Stays(id)
      PROVE  Covered(id)'
  <2>1. /\ OneLess(Owed(o), Owed(o)')
        /\ \A j \in Ids \ {o} : Owed(j)' = Owed(j)
    BY <1>1, RemovePays DEF Pays
  <2> QED
    BY <1>1, <2>1, CoverKept
<1>2. CASE Retire
  <2>1. PICK o \in Ids : o = main.over
    BY <1>2 DEF Retire, TypeInv, WellPlaced
  <2>2. /\ Drops(o)
        /\ Running(id)' = ToStart(id) \cup OnTimer(id) \cup InCallback(id)
    BY <1>2, <2>1, RetireDrops
  <2>3. Overwritten(id) = IF id = o THEN {<<"over", 0>>} ELSE {}
    BY <1>2, <2>1 DEF Retire, Overwritten
  <2>4. /\ <<"over", 0>> \notin ToStart(id) /\ <<"over", 0>> \notin OnTimer(id)
        /\ <<"over", 0>> \notin InCallback(id)
    BY Places
  <2>5. id = o => EndsOne(id)
    BY <2>2, <2>3, <2>4 DEF EndsOne, Running
  <2>6. id # o => Stays(id)
    BY <2>2, <2>3 DEF Stays, Running
  <2>7. task' = RemoveTask(task, o).table
    BY <1>2, <2>1 DEF Retire
  <2> QED
    BY <1>1, <2>2, <2>5, <2>6, <2>7
<1>3. CASE EndAction
  <2>1. PICK o \in Ids : o = fired.id
    BY <1>3 DEF EndAction, TypeInv, WellPlaced
  <2>2. /\ Drops(o)
        /\ Running(id)' = ToStart(id) \cup OnTimer(id) \cup Overwritten(id)
    BY <1>3, <2>1, EndDrops
  <2>3. InCallback(id) = IF id = o THEN {<<"call", 0>>} ELSE {}
    BY <1>3, <2>1 DEF EndAction, InCallback
  <2>4. /\ <<"call", 0>> \notin ToStart(id) /\ <<"call", 0>> \notin OnTimer(id)
        /\ <<"call", 0>> \notin Overwritten(id)
    BY Places
  <2>5. id = o => EndsOne(id)
    BY <2>2, <2>3, <2>4 DEF EndsOne, Running
  <2>6. id # o => Stays(id)
    BY <2>2, <2>3 DEF Stays, Running
  <2>7. task' = RemoveTask(task, o).table
    BY <1>3, <2>1 DEF EndAction
  <2> QED
    BY <1>1, <2>2, <2>5, <2>6, <2>7
<1> QED
  BY <1>2, <1>3

(* The loop ends when no entry is left, and then no action is left.        *)
LEMMA NothingLeft ==
  ASSUME TypeInv, Orderly, CountsDown, Finish
  PROVE  main.left = 0
<1>1. /\ main.pc = "start" /\ main.cmd \in Commands /\ main.left \in Nat
      /\ main.k \in Nat /\ ~Starting
  BY DEF Finish, TypeInv, TypeOK, WellPlaced, MainStates
<1>2. Len(main.cmd.acts) \in Nat /\ Len(main.cmd.acts) <= NSCAN
  BY <1>1, CommandsAssumption DEF Orderly
<1>3. main.left = Len(main.cmd.acts) - main.k + 1
  BY <1>1 DEF CountsDown
<1>4. SUFFICES ASSUME main.left > 0 PROVE FALSE
  BY <1>1
<1>5. ~(main.k <= Len(main.cmd.acts) /\ main.k <= NSCAN)
  BY <1>1, <1>4 DEF Starting, EntriesLeft
<1> QED
  BY <1>1, <1>2, <1>3, <1>4, <1>5, NScanAssumption

LEMMA CoverStep ==
  ASSUME TypeInv, Once, FromEntries, Orderly, CountsDown, [Next]_vars, ~overran',
         ~crowded', \A j \in Ids : Balanced(j) /\ Apart(j), NEW id \in Ids, Covered(id)
  PROVE  Covered(id)'
<1>1. main \in MainStates
  BY DEF TypeInv, TypeOK
<1>2. CASE Create
  BY <1>2, CoverCreate
<1>3. CASE StartEntry
  BY <1>3, CoverStart
<1>4. CASE Rearm
  BY <1>4, CoverRearm
<1>5. ASSUME NEW i \in TimerSlots, Fire(i) PROVE Covered(id)'
  BY <1>5, CoverFire
<1>6. CASE Retire \/ EndAction
  BY <1>6, CoverEnds
<1>7. CASE Finish
  <2>1. main.left = 0 /\ main.pc = "start" /\ main' = IdleMain
    BY <1>7, NothingLeft DEF Finish
  <2>2. /\ ToStart(id) = {} /\ ToStart(id)' = {}
        /\ Overwritten(id) = {} /\ Overwritten(id)' = {}
    BY <2>1 DEF ToStart, Overwritten, IdleMain
  <2>3. timer' = timer /\ task' = task /\ InCallback(id)' = InCallback(id)
    BY <1>7, Local DEF Finish
  <2> QED
    BY <2>2, <2>3, CoverStill
<1>8. CASE \/ TakeRequest \/ AnswerCall \/ AnswerEnds \/ Take \/ CreateFull
  <2>1. /\ main.pc \in {"idle", "answer", "create"}
        /\ main'.pc \in {"idle", "answer", "create"}
    BY <1>1, <1>8, IdleMainType
       DEF TakeRequest, AnswerCall, AnswerEnds, Take, CreateFull, IdleMain, MainStates
  <2>2. /\ ToStart(id) = {} /\ ToStart(id)' = {}
        /\ Overwritten(id) = {} /\ Overwritten(id)' = {}
    BY <2>1 DEF ToStart, Overwritten
  <2>3. timer' = timer /\ task' = task /\ InCallback(id)' = InCallback(id)
    BY <1>8, Local DEF TakeRequest, AnswerCall, AnswerEnds, Take, CreateFull
  <2> QED
    BY <2>2, <2>3, CoverStill
<1>9. CASE Save \/ Abort
  <2>1. /\ main.pc \in {"save", "abort"} /\ main'.pc = "start"
        /\ main'.cmd = main.cmd /\ main'.left = main.left
    BY <1>1, <1>9 DEF Save, Abort, MainStates
  <2>2. /\ ToStart(id)' = ToStart(id)
        /\ Overwritten(id) = {} /\ Overwritten(id)' = {}
    BY <2>1 DEF ToStart, Overwritten
  <2>3. timer' = timer /\ task' = task /\ InCallback(id)' = InCallback(id)
    BY <1>9, Local DEF Save, Abort
  <2> QED
    BY <2>2, <2>3, CoverStill
<1>10. CASE SkipEntry
  <2>1. main.cmd \in Commands /\ main.k \in 1 .. Len(main.cmd.acts)
    BY <1>1, <1>10 DEF SkipEntry, Starting, EntriesLeft, TypeInv, WellPlaced, MainStates
  <2>2. Startable(main.cmd.acts[main.k])
    BY <2>1, CommandsAssumption DEF Orderly
  <2> QED
    BY <1>10, <2>2 DEF SkipEntry
<1>11. CASE TellEnd
  <2>1. fired.pc = "tell" /\ fired' = IdleTimer
    BY <1>11 DEF TellEnd
  <2>2. InCallback(id) = {} /\ InCallback(id)' = {}
    BY <2>1 DEF InCallback, IdleTimer
  <2>3. /\ timer' = timer /\ task' = task /\ ToStart(id)' = ToStart(id)
        /\ Overwritten(id)' = Overwritten(id)
    BY <1>11, Local DEF TellEnd
  <2> QED
    BY <2>2, <2>3, CoverStill
<1>12. CASE UNCHANGED vars \/ \E m \in Messages : Receive(m)
  <2>1. timer' = timer /\ task' = task /\ main' = main /\ fired' = fired
    BY <1>12 DEF vars, Receive
  <2> QED
    BY <2>1, Local, CoverStill
<1> QED
  BY <1>2, <1>3, <1>4, <1>5, <1>6, <1>7, <1>8, <1>9, <1>10, <1>11, <1>12
     DEF Next, MainStep, TimerStep

AllUnderWay ==
    Orderly /\ UniqueIds /\ ~overran /\ ~crowded =>
        FromEntries /\ CountsDown /\ \A id \in Ids : Apart(id) /\ Covered(id)

(* NothingLost: as long as the tables have room for them, each action of   *)
(* orderly clients that the rows of the task table owe is still to be      *)
(* started, on a timer, in a callback or overwritten and about to be       *)
(* retired, so that every task is closed by its last action: with          *)
(* NeverEndsEarly the actions under way are exactly those that are owed.   *)
THEOREM NothingLostAlways == Spec => []NothingLost
<1>1. Init => AllUnderWay
  <2> SUFFICES ASSUME Init
               PROVE  FromEntries /\ CountsDown /\ \A id \in Ids : Apart(id) /\ Covered(id)
    BY DEF AllUnderWay
  <2>1. /\ main.pc = "idle" /\ fired.pc = "scan"
        /\ \A i \in TaskRows : task[i].num = 0
        /\ \A i \in TimerSlots : timer[i].id = 0
    BY DEF Init, IdleMain, IdleTimer, EmptyTaskTable, FreeRow, EmptyTimerTable, ZeroSlot
  <2>2. FromEntries /\ CountsDown
    BY <2>1 DEF FromEntries, CountsDown
  <2>3. ASSUME NEW id \in Ids PROVE Apart(id) /\ Covered(id)
    <3>1. id # 0
      BY IdsPositive
    <3>2. SlotsOf(timer, id) = {} /\ ~Loading(id) /\ ~Called(id)
      BY <2>1, <3>1 DEF SlotsOf, Loading, Called
    <3>3. Owed(id) = {} /\ Running(id) = {}
      BY <2>1, <3>1, <3>2 DEF Owed, OwedIn, Running, ToStart, OnTimer, InCallback,
                              Overwritten
    <3>4. Cardinality(Owed(id)) = 0 /\ Cardinality(Running(id)) = 0
      BY <3>3, FS_EmptySet
    <3> QED
      BY <3>2, <3>4 DEF Apart, Covered
  <2> QED
    BY <2>2, <2>3
<1>2. TypeInv /\ OnceIfUnique /\ NeverEndsEarly /\ AllUnderWay /\ [Next]_vars
      => AllUnderWay'
  <2> SUFFICES ASSUME TypeInv, OnceIfUnique, NeverEndsEarly, AllUnderWay, [Next]_vars,
                      Orderly, UniqueIds, ~overran', ~crowded'
               PROVE  /\ FromEntries' /\ CountsDown'
                      /\ \A id \in Ids : Apart(id)' /\ Covered(id)'
    BY DEF AllUnderWay
  <2>1. ~overran /\ ~crowded
    BY OverranStays, CrowdedStays
  <2>2. Once /\ \A id \in Ids : Balanced(id)
    BY <2>1 DEF OnceIfUnique, NeverEndsEarly, Balanced
  <2>3. FromEntries /\ CountsDown /\ \A id \in Ids : Apart(id) /\ Covered(id)
    BY <2>1 DEF AllUnderWay
  <2>4. FromEntries' /\ CountsDown'
    BY <2>3, FromEntriesStep, CountsDownStep
  <2>5. \A id \in Ids : Apart(id)'
    BY <2>2, <2>3, ApartStep
  <2>6. \A id \in Ids : Covered(id)'
    BY <2>2, <2>3, CoverStep
  <2> QED
    BY <2>4, <2>5, <2>6
<1>3. TypeInv /\ NeverEndsEarly /\ AllUnderWay => NothingLost
  <2> SUFFICES ASSUME TypeInv, NeverEndsEarly, AllUnderWay,
                      Orderly, UniqueIds, ~overran, ~crowded, NEW id \in Ids
               PROVE  Cardinality(Running(id)) = Cardinality(Owed(id))
    BY DEF NothingLost
  <2>1. /\ Cardinality(Running(id)) <= Cardinality(Owed(id))
        /\ Cardinality(Owed(id)) <= Cardinality(Running(id))
    BY DEF NeverEndsEarly, AllUnderWay, Covered
  <2>2. Cardinality(Running(id)) \in Nat /\ Cardinality(Owed(id)) \in Nat
    BY RunningFinite, OwedFinite, FS_CardinalityType DEF TypeInv, Owed
  <2> QED
    BY <2>1, <2>2
<1> QED
  BY <1>1, <1>2, <1>3, OnceAlways, InitTypeInv, TypeInvStep, NeverEndsEarlyAlways,
     PTL DEF Spec
==============================================================================
